------------------------------- MODULE FirstSync -------------------------------
(***************************************************************************)
(* The first sync of a device, and the one after "Reset registration": the *)
(* plugin opens a dialog, and its user lets one side overwrite the other.  *)
(* Both choices first probe the server for the list of its files.          *)
(*                                                                         *)
(* Devices begin set up; a reset device is like a new one whose folder has *)
(* files in it.  The backup of the local files lies outside the vault's    *)
(* paths.                                                                  *)
(***************************************************************************)
EXTENDS VaultSync

VARIABLES
  setUp,    \* settings.initialSyncDone
  dialog,   \* initialSyncModalOpen
  partial   \* history: devices whose first sync raced with another device or
            \* with a sync of their own, or did not see the whole vault

firstVars == <<setUp, dialog, partial>>
allVars   == <<vars, firstVars>>

Choices == {"push", "overwrite"}

(* needsInitialSyncSetup                                                   *)
NeedsSetUp(d) == ~setUp[d] /\ base[d] = 0

Choosing(d) == op[d] # Idle /\ op[d].kind \in Choices
In(d, phase, kinds) == Choosing(d) /\ op[d].phase = phase /\ op[d].kind \in kinds

-----------------------------------------------------------------------------
(* The user.  Nothing keeps the button from being used during a sync.      *)
ResetRegistration(d) ==
  /\ bounds["resets"] < MaxResets
  /\ setUp' = [setUp EXCEPT ![d] = FALSE]
  /\ base' = [base EXCEPT ![d] = 0]
  /\ synced' = [synced EXCEPT ![d] = EmptyTree]
  /\ skipped' = [skipped EXCEPT ![d] = {}]
  /\ op' = IF op[d] = Idle THEN op ELSE [op EXCEPT ![d].saved = EmptyTree]
  /\ partial' = IF op[d] = Idle THEN partial ELSE partial \cup {d}
  /\ Count("resets")
  /\ UNCHANGED <<serverVars, disk, reported, dialog, edits, seen>>

(* Any sync but one from the file history view opens the dialog, once.     *)
OpenDialog(d) ==
  /\ NeedsSetUp(d) /\ ~dialog[d]
  /\ dialog' = [dialog EXCEPT ![d] = TRUE]
  /\ UNCHANGED <<vars, setUp, partial>>

(* It is cancelled, or a choice is made while a sync runs and is ignored.  *)
CloseDialog(d) ==
  /\ dialog[d]
  /\ dialog' = [dialog EXCEPT ![d] = FALSE]
  /\ UNCHANGED <<vars, setUp, partial>>

Choose(d, kind) ==
  /\ dialog[d] /\ op[d] = Idle
  /\ dialog' = [dialog EXCEPT ![d] = FALSE]
  /\ op' = [op EXCEPT ![d] = [phase |-> "probe", kind |-> kind, saved |-> synced[d]]]
  /\ UNCHANGED <<serverVars, disk, synced, base, reported, auxVars, setUp, partial>>

-----------------------------------------------------------------------------
(* probeServerState: a sync without changes and with an empty manifest.    *)
Probe(d) == [base |-> base[d], changes |-> [p \in {} |-> Absent], manifest |-> EmptyTree]

ServerProbed(d) ==
  /\ In(d, "probe", Choices)
  /\ HandleSync(d, Probe(d))
  /\ LET answer == SyncAnswer(d, Probe(d)) IN
     /\ op' = [op EXCEPT ![d] = [phase |-> "probed", kind |-> op[d].kind,
                                 saved |-> op[d].saved, answer |-> answer]]
     /\ partial' = IF answer.status = "conflict" \/ base[d] # 0
                   THEN partial \cup {d} ELSE partial \ {d}
  /\ UNCHANGED <<disk, synced, base, reported, auxVars, setUp, dialog>>

(* The files of the probe: what it does not list is taken to be missing.   *)
Listed(d) == {p \in DOMAIN op[d].answer.files : op[d].answer.files[p] # Absent}
OnServer(d, p) == IF p \in Listed(d) THEN op[d].answer.files[p] ELSE Absent

-----------------------------------------------------------------------------
(* forcePushLocal: whatever differs from the probe is sent, on its head.   *)
StartPush(d) ==
  /\ In(d, "probed", {"push"})
  /\ op' = [op EXCEPT ![d] =
       [phase |-> "sent", kind |-> "push", saved |-> op[d].saved,
        request |->
          [base     |-> op[d].answer.head,
           changes  |-> [p \in {q \in Paths : disk[d][q] # OnServer(d, q)} |-> disk[d][p]],
           manifest |-> disk[d]]]]
  /\ UNCHANGED <<serverVars, disk, synced, base, reported, auxVars, firstVars>>

Raced(d, req) ==
  IF req.base = Len(CommitAllIfChanged(commits, work)) THEN partial ELSE partial \cup {d}

Pushed(d, req) ==
  /\ HandleSync(d, req)
  /\ Answered(d, SyncAnswer(d, req), EmptyTree)
  /\ partial' = Raced(d, req)
  /\ UNCHANGED <<disk, synced, base, reported, auxVars, setUp, dialog>>

(* Mutant: the push is based on the head there is when it arrives.         *)
ServerPushesOver(d) ==
  /\ In(d, "sent", {"push"})
  /\ Pushed(d, [op[d].request EXCEPT !.base = Len(CommitAllIfChanged(commits, work))])

ServerPushes(d) ==
  /\ In(d, "sent", {"push"})
  /\ Pushed(d, op[d].request)

SetUpDone(d, head) ==
  /\ base' = [base EXCEPT ![d] = head]
  /\ synced' = [synced EXCEPT ![d] = disk[d]]
  /\ skipped' = [skipped EXCEPT ![d] = {}]
  /\ setUp' = [setUp EXCEPT ![d] = TRUE]

(* The files of the answer are not looked at.                              *)
FinishPush(d) ==
  /\ In(d, "answered", {"push"})
  /\ IF op[d].answer.status = "conflict"
     THEN UNCHANGED <<base, synced, skipped, setUp>>
     ELSE SetUpDone(d, op[d].answer.head)
  /\ op' = [op EXCEPT ![d] = Idle]
  /\ UNCHANGED <<serverVars, disk, reported, edits, bounds, seen, dialog, partial>>

-----------------------------------------------------------------------------
(* Mutant: what the server does not have stays on the device.              *)
DeleteNothing(d) ==
  /\ In(d, "probed", {"overwrite"})
  /\ op' = [op EXCEPT ![d] =
       [phase |-> "answered", kind |-> "overwrite", saved |-> op[d].saved,
        answer |-> op[d].answer, local |-> disk[d], left |-> DOMAIN op[d].answer.files]]
  /\ UNCHANGED <<serverVars, disk, synced, base, reported, auxVars, firstVars>>

(* overwriteLocalFromServer: what the probe does not list is deleted, then *)
(* its files are applied, one by one.                                      *)
DeleteMissing(d) ==
  /\ In(d, "probed", {"overwrite"})
  /\ disk' = [disk EXCEPT ![d] =
                [p \in Paths |-> IF p \in Listed(d) THEN disk[d][p] ELSE Absent]]
  /\ op' = [op EXCEPT ![d] =
       [phase |-> "answered", kind |-> "overwrite", saved |-> op[d].saved,
        answer |-> op[d].answer, local |-> disk[d], left |-> DOMAIN op[d].answer.files]]
  /\ UNCHANGED <<serverVars, synced, base, reported, auxVars, firstVars>>

FinishOverwrite(d) ==
  /\ In(d, "answered", {"overwrite"}) /\ op[d].left = {}
  /\ SetUpDone(d, op[d].answer.head)
  /\ op' = [op EXCEPT ![d] = Idle]
  /\ UNCHANGED <<serverVars, disk, reported, edits, bounds, seen, dialog, partial>>

-----------------------------------------------------------------------------
(* A request of a first sync, or its answer, is lost.                      *)
SetUpLost(d) ==
  /\ bounds["lost"] < MaxLost
  /\ In(d, "probe", Choices) \/ In(d, "probed", Choices)
       \/ In(d, "sent", {"push"}) \/ In(d, "answered", {"push"})
  /\ op' = [op EXCEPT ![d] = Idle]
  /\ Count("lost")
  /\ UNCHANGED <<serverVars, disk, synced, base, reported, edits, seen, skipped, firstVars>>

(* An ordinary sync that succeeds sets the device up, too.                 *)
FinishFirst(d) ==
  /\ FinishSync(d)
  /\ setUp' = [setUp EXCEPT ![d] = @ \/ op[d].answer.status # "conflict"]
  /\ UNCHANGED <<dialog, partial>>

FirstInit ==
  /\ SyncInit
  /\ setUp = [d \in Devices |-> TRUE] /\ dialog = [d \in Devices |-> FALSE]
  /\ partial = {}

Asks(d) == ResetRegistration(d) \/ OpenDialog(d) \/ CloseDialog(d)
             \/ \E kind \in Choices : Choose(d, kind)

FirstStep(d) == StartPush(d) \/ FinishPush(d) \/ DeleteMissing(d) \/ FinishOverwrite(d)

(* The steps of VaultSync.                                                 *)
Ordinary(d) ==
  \/ User(d) \/ Server(d) \/ FinishResolve(d)
  \/ ~In(d, "answered", {"push"}) /\ \E p \in Paths : ApplyFile(d, p)
  \/ ~Choosing(d) /\ (AnswerLost(d) \/ ServerStops(d))
  \/ ~In(d, "answered", {"push"}) /\ DownloadFails(d)

Killed(d) ==
  /\ AppKilled(d)
  /\ dialog' = [dialog EXCEPT ![d] = FALSE]
  /\ UNCHANGED <<setUp, partial>>

(* The other device stands for whoever else changes the vault.             *)
FirstNext ==
  \E d \in Devices : \/ Asks(d) \/ FirstStep(d) \/ ServerProbed(d)
                     \/ ServerPushes(d) \/ SetUpLost(d) \/ FinishFirst(d)
                     \/ Killed(d) \/ (Ordinary(d) /\ UNCHANGED firstVars)

FirstSpec == FirstInit /\ [][FirstNext]_allVars

-----------------------------------------------------------------------------
(***************************************************************************)
(* A first sync that saw the whole vault, and that nobody interfered with, *)
(* leaves the device with exactly the commit it records as its base.       *)
(***************************************************************************)
SetUpMatchesBase ==
  [][\A d \in Devices \ partial :
       op[d] # Idle /\ op[d].kind \in Choices /\ ~setUp[d] /\ setUp'[d]
       => disk'[d] = TreeAt(commits, base'[d])]_allVars

(***************************************************************************)
(* A force push destroys what was on the server when it was probed, and    *)
(* nothing another device has sent since, however late the push arrives.   *)
(* (What a stopped sync left behind is the next request's to commit.)      *)
(***************************************************************************)
PushSparesLater ==
  [][\A d \in Devices :
       In(d, "sent", {"push"}) /\ Handled(d, "push") /\ work = HeadTree(commits)
       => \A p \in Paths :
            LostValues(p) \subseteq ValuesIn(TreeAt(commits, op[d].request.base)[p])]_allVars

(***************************************************************************)
(* README.md:394: "Overwrite local replaces the local files with the       *)
(* server's copy": it leaves the device with a vault the server has had.   *)
(***************************************************************************)
OverwriteTakesServersCopy ==
  [][\A d \in Devices :
       In(d, "answered", {"overwrite"}) /\ ~setUp[d] /\ setUp'[d]
       => \E n \in 1..Len(commits) : disk'[d] = commits[n]]_allVars
=============================================================================
