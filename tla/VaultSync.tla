------------------------------ MODULE VaultSync ------------------------------
(***************************************************************************)
(* The plugin's installations (gitService.ts, vaultState.ts) synchronising *)
(* one vault with the server of VaultServer.                               *)
(*                                                                         *)
(* A device's user edits at any time.  A sync is: list the vault, send the *)
(* differences to the local manifest, wait for the answer, put its files   *)
(* on the disk one by one, then record the new head and manifest.  Between *)
(* any two of these the other device, a tablet or the user may act, the    *)
(* answer may be lost, a download may fail, the app may be killed.         *)
(*                                                                         *)
(* Files are compared by content, as the code compares them by SHA-256.    *)
(* Edits are told apart by the value they write: the n-th edit writes n.   *)
(***************************************************************************)
EXTENDS VaultServer

CONSTANTS
  StartTree,         \* the vault both devices start from, synced
  EditWhileSyncing,  \* whether users edit while their device synchronises
  MaxEdits,          \* bound: edits, deletions, resolutions and tablet writes
  MaxLost,           \* bound: requests or answers that are lost
  MaxInterrupts,     \* bound: failed downloads and killed apps
  MaxResets,         \* bound: uses of "Reset local sync state"
  MaxDav             \* bound: WebDAV writes

ASSUME SyncAssumption ==
  /\ StartTree \in [Paths -> Files]
  /\ EditWhileSyncing \in BOOLEAN
  /\ {MaxEdits, MaxLost, MaxInterrupts, MaxResets, MaxDav} \subseteq Nat
  /\ 1..MaxEdits \subseteq Values

VARIABLES
  disk,      \* the files of the device's vault
  synced,    \* settings.localManifest: what the device counts as on the server
  base,      \* settings.serverHead, 0 for null
  reported,  \* the conflicts the last sync reported, which the resolver lists
  op,        \* the exclusive operation the device is running
  edits,     \* how many edits were made
  bounds,    \* how many answers were lost, syncs interrupted, ...
  seen,      \* history: device -> path -> the values its user was ever shown
  skipped    \* history: device -> the paths its last resolution was not told of

deviceVars == <<disk, synced, base, reported, op>>
auxVars    == <<edits, bounds, seen, skipped>>
vars       == <<serverVars, deviceVars, auxVars>>

Idle == [phase |-> "idle"]

ValuesIn(file) == IF file \in Texts THEN {file[r] : r \in Regions} ELSE {}

(* The user of device d is shown these values at these paths.              *)
Shown(d, paths, values) ==
  [seen EXCEPT ![d] = [p \in Paths |-> IF p \in paths THEN @[p] \cup values ELSE @[p]]]

Count(what) == bounds' = [bounds EXCEPT ![what] = @ + 1]

(* diffManifests                                                           *)
ChangedPaths(current, previous) == {p \in Paths : current[p] # previous[p]}

-----------------------------------------------------------------------------
(* The user.                                                               *)

(* The n-th edit of a file: one region of a text, or all of a new file.    *)
EditsOf(file, n) ==
  IF file \in Texts
  THEN {[file EXCEPT ![r] = n] : r \in Regions}
  ELSE {[r \in Regions |-> n]}

MayEdit(d) ==
  /\ edits < MaxEdits
  /\ EditWhileSyncing \/ op[d] = Idle

(* Some files are edited between two syncs.                                *)
Edit(d) ==
  /\ MayEdit(d)
  /\ \E paths \in (SUBSET Paths) \ {{}} :
     \E files \in [paths -> Texts] :
       /\ \A p \in paths : files[p] \in EditsOf(disk[d][p], edits + 1)
       /\ disk' = [disk EXCEPT ![d] = Overwritten(@, files)]
       /\ seen' = Shown(d, paths, {edits + 1})
  /\ edits' = edits + 1
  /\ UNCHANGED <<serverVars, synced, base, reported, op, bounds, skipped>>

Delete(d, p) ==
  /\ MayEdit(d)
  /\ disk[d][p] # Absent
  /\ disk' = [disk EXCEPT ![d][p] = Absent]
  /\ edits' = edits + 1
  /\ UNCHANGED <<serverVars, synced, base, reported, op, bounds, seen, skipped>>

(* resetLocalSyncState: initialSyncDone stays set, so the next sync is an  *)
(* ordinary one, without a base.                                           *)
ResetLocalSyncState(d) ==
  /\ bounds["resets"] < MaxResets
  /\ op[d] = Idle
  /\ base' = [base EXCEPT ![d] = 0]
  /\ synced' = [synced EXCEPT ![d] = EmptyTree]
  /\ skipped' = [skipped EXCEPT ![d] = {}]
  /\ Count("resets")
  /\ UNCHANGED <<serverVars, disk, reported, op, edits, seen>>

-----------------------------------------------------------------------------
(* A sync: performSync.                                                    *)

StartSync(d) ==
  /\ op[d] = Idle
  /\ op' = [op EXCEPT ![d] =
       [phase |-> "sent", kind |-> "sync", saved |-> synced[d],
        request |->
          [base     |-> base[d],
           changes  |-> [p \in ChangedPaths(disk[d], synced[d]) |-> disk[d][p]],
           manifest |-> disk[d]]]]
  /\ UNCHANGED <<serverVars, disk, synced, base, reported, auxVars>>

(* The answer to a request; `local` are the hashes that let a file the     *)
(* device already has be skipped.                                          *)
Answered(d, answer, local) ==
  op' = [op EXCEPT ![d] =
    [phase |-> "answered", kind |-> op[d].kind, saved |-> op[d].saved,
     request |-> op[d].request, answer |-> answer, local |-> local,
     left |-> DOMAIN answer.files]]

ServerSyncs(d) ==
  /\ op[d].phase = "sent" /\ op[d].kind = "sync"
  /\ HandleSync(d, op[d].request)
  /\ Answered(d, SyncAnswer(d, op[d].request), op[d].request.manifest)
  /\ UNCHANGED <<disk, synced, base, reported, auxVars>>

(* The handler stops half way: the device is told of an error, if at all.  *)
ServerStops(d) ==
  /\ op[d].phase = "sent"
  /\ IF op[d].kind = "sync"
     THEN \/ SyncStopsApplying(d, op[d].request)
          \/ SyncStopsBeforeCleanup(d, op[d].request)
          \/ SyncStopsAfterApplying(d, op[d].request)
     ELSE ResolveStops(op[d].request.changes)
  /\ op' = [op EXCEPT ![d] = Idle]
  /\ UNCHANGED <<disk, synced, base, reported, auxVars>>

(* The request or its answer is lost.                                      *)
AnswerLost(d) ==
  /\ op[d] # Idle
  /\ bounds["lost"] < MaxLost
  /\ \/ op[d].phase = "sent"
     \/ op[d].phase = "answered" /\ op[d].left = DOMAIN op[d].answer.files
  /\ op' = [op EXCEPT ![d] = Idle]
  /\ Count("lost")
  /\ UNCHANGED <<serverVars, disk, synced, base, reported, edits, seen, skipped>>

(***************************************************************************)
(* applyServerFiles, one file.  Progress goes to the local manifest file   *)
(* by file, but never for the files of a conflict.  A file with markers    *)
(* shows the user what the server holds; two such files of two conflicts   *)
(* differ, so the one the device already has is never the one it is sent.  *)
(***************************************************************************)
AlreadyLocal(d, p) ==
  LET file == op[d].answer.files[p] IN
  file \notin {Absent, Markers} /\ op[d].local[p] = file /\ disk[d][p] # Absent

ApplyFile(d, p) ==
  LET file == op[d].answer.files[p]
      head == TreeAt(commits, op[d].answer.head)
  IN /\ op[d].phase = "answered" /\ p \in op[d].left
     /\ op' = [op EXCEPT ![d].left = @ \ {p}]
     /\ IF AlreadyLocal(d, p)
        THEN UNCHANGED <<disk, synced, seen>>
        ELSE /\ disk' = [disk EXCEPT ![d][p] = file]
             /\ seen' = Shown(d, {p}, ValuesIn(head[p]))
             /\ IF op[d].answer.status = "conflict"
                THEN UNCHANGED synced
                ELSE synced' = [synced EXCEPT ![d][p] = file]
     /\ UNCHANGED <<serverVars, base, reported, edits, bounds, skipped>>

(* A download fails: what was applied stays recorded.                      *)
DownloadFails(d) ==
  /\ op[d].phase = "answered" /\ op[d].left # {}
  /\ bounds["interrupts"] < MaxInterrupts
  /\ op' = [op EXCEPT ![d] = Idle]
  /\ Count("interrupts")
  /\ UNCHANGED <<serverVars, disk, synced, base, reported, edits, seen, skipped>>

(* The app is killed.  The manifest on the disk is the one saved before    *)
(* the operation, or a later one: it is saved every tenth file.            *)
AppKilled(d) ==
  /\ op[d] # Idle
  /\ bounds["interrupts"] < MaxInterrupts
  /\ op' = [op EXCEPT ![d] = Idle]
  /\ \E manifest \in {synced[d], op[d].saved} :
       synced' = [synced EXCEPT ![d] = manifest]
  /\ Count("interrupts")
  /\ UNCHANGED <<serverVars, disk, base, reported, edits, seen, skipped>>

(* Mutant: the manifest is recorded after a conflict as well.              *)
FinishSyncAlwaysSaving(d) ==
  LET answer == op[d].answer IN
  /\ op[d].phase = "answered" /\ op[d].kind = "sync" /\ op[d].left = {}
  /\ base' = [base EXCEPT ![d] = IF answer.status = "conflict" THEN @ ELSE answer.head]
  /\ synced' = [synced EXCEPT ![d] = disk[d]]
  /\ reported' = [reported EXCEPT ![d] = answer.conflicts]
  /\ op' = [op EXCEPT ![d] = Idle]
  /\ UNCHANGED <<serverVars, disk, auxVars>>

(* Mutant: the head moves after a conflict as well.                        *)
FinishSyncAlwaysMoving(d) ==
  LET answer == op[d].answer IN
  /\ op[d].phase = "answered" /\ op[d].kind = "sync" /\ op[d].left = {}
  /\ base' = [base EXCEPT ![d] = answer.head]
  /\ synced' = [synced EXCEPT ![d] = IF answer.status = "conflict" THEN @ ELSE disk[d]]
  /\ reported' = [reported EXCEPT ![d] = answer.conflicts]
  /\ op' = [op EXCEPT ![d] = Idle]
  /\ UNCHANGED <<serverVars, disk, auxVars>>

(* The end of performSync.  After a conflict neither the head nor the      *)
(* manifest moves; after a success the manifest is computed anew.          *)
FinishSync(d) ==
  LET answer == op[d].answer
      told   == DOMAIN op[d].request.changes \cup DOMAIN answer.files
  IN
  /\ op[d].phase = "answered" /\ op[d].kind = "sync" /\ op[d].left = {}
  /\ IF answer.status = "conflict"
     THEN UNCHANGED <<base, synced, skipped>>
     ELSE /\ base' = [base EXCEPT ![d] = answer.head]
          /\ synced' = [synced EXCEPT ![d] = disk[d]]
          /\ skipped' = [skipped EXCEPT ![d] = @ \ told]
  /\ reported' = [reported EXCEPT ![d] = answer.conflicts]
  /\ op' = [op EXCEPT ![d] = Idle]
  /\ UNCHANGED <<serverVars, disk, edits, bounds, seen>>

-----------------------------------------------------------------------------
(***************************************************************************)
(* resolveConflicts, for the files the resolver lists: those of the last   *)
(* sync and those the server says this device must resolve.  Keeping one   *)
(* side, merging or restoring the server's version writes a text; a file   *)
(* without markers may be kept as it is; any file may be deleted.  Only a  *)
(* text of the user's own counts as an edit.                               *)
(***************************************************************************)
OwnTexts == IF edits < MaxEdits THEN [Regions -> {edits + 1}] ELSE {}

Resolutions(d, p) ==
  OwnTexts \cup {Absent} \cup ({disk[d][p], HeadTree(commits)[p]} \ {Markers})

StartResolve(d) ==
  /\ op[d] = Idle
  /\ \E paths \in (SUBSET (reported[d] \cup PendingFor(pending, d))) \ {{}} :
     \E files \in [paths -> UNION {Resolutions(d, p) : p \in paths}] :
       /\ \A p \in paths : files[p] \in Resolutions(d, p)
       /\ disk' = [disk EXCEPT ![d] = Overwritten(@, files)]
       /\ seen' = [seen EXCEPT ![d] = [p \in Paths |->
                     IF p \in paths THEN @[p] \cup ValuesIn(files[p]) ELSE @[p]]]
       /\ op' = [op EXCEPT ![d] =
            [phase |-> "sent", kind |-> "resolve", saved |-> synced[d],
             request |-> [changes |-> files]]]
       /\ edits' = IF \E p \in paths : files[p] \in OwnTexts THEN edits + 1 ELSE edits
  /\ UNCHANGED <<serverVars, synced, base, reported, bounds, skipped>>

ServerResolves(d) ==
  LET files == op[d].request.changes IN
  /\ op[d].phase = "sent" /\ op[d].kind = "resolve"
  /\ HandleResolve(files)
  /\ Answered(d, ResolveAnswer(d, files), synced[d])
  /\ UNCHANGED <<disk, synced, base, reported, auxVars>>

(***************************************************************************)
(* The files of the vault that the answer to a resolution does not name:   *)
(* it lists what the server has, and so no deletion, and nothing that is   *)
(* still pending for the device.                                           *)
(***************************************************************************)
LeftOut(d) ==
  LET answer == op[d].answer IN
  {p \in Paths \ (DOMAIN op[d].request.changes \cup DOMAIN answer.files) :
     synced[d][p] # Absent \/ TreeAt(commits, answer.head)[p] # Absent}

(* The end of resolveConflicts: the pushed files count as synced as they   *)
(* are on the disk now, and the head moves past everything left out.       *)
FinishResolve(d) ==
  LET files == op[d].request.changes IN
  /\ op[d].phase = "answered" /\ op[d].kind = "resolve" /\ op[d].left = {}
  /\ base' = [base EXCEPT ![d] = op[d].answer.head]
  /\ synced' = [synced EXCEPT ![d] = Overwritten(@, [p \in DOMAIN files |-> disk[d][p]])]
  /\ skipped' = [skipped EXCEPT ![d] = LeftOut(d)]
  /\ reported' = [reported EXCEPT ![d] = {}]
  /\ op' = [op EXCEPT ![d] = Idle]
  /\ UNCHANGED <<serverVars, disk, edits, bounds, seen>>

-----------------------------------------------------------------------------
(* A tablet, over WebDAV.                                                  *)
TabletWrites ==
  /\ bounds["dav"] < MaxDav /\ edits < MaxEdits
  /\ edits' = edits + 1
  /\ \E p \in Paths : \E file \in EditsOf(work[p], edits + 1) \cup {Absent} :
       file # work[p] /\ HandleDav([q \in {p} |-> file])
  /\ Count("dav")
  /\ UNCHANGED <<deviceVars, seen, skipped>>

-----------------------------------------------------------------------------
SyncInit ==
  /\ commits = <<StartTree>>
  /\ work = StartTree
  /\ pending = [p \in Paths |-> NoOwner]
  /\ acks = [d \in Devices |-> {p \in Paths : StartTree[p] # Absent}]
  /\ faults = 0
  /\ disk = [d \in Devices |-> StartTree]
  /\ synced = [d \in Devices |-> StartTree]
  /\ base = [d \in Devices |-> 1]
  /\ reported = [d \in Devices |-> {}]
  /\ op = [d \in Devices |-> Idle]
  /\ edits = 0
  /\ bounds = [lost |-> 0, interrupts |-> 0, resets |-> 0, dav |-> 0]
  /\ seen = [d \in Devices |-> [p \in Paths |-> ValuesIn(StartTree[p])]]
  /\ skipped = [d \in Devices |-> {}]

User(d)   == \/ Edit(d)
             \/ \E p \in Paths : Delete(d, p)
             \/ ResetLocalSyncState(d) \/ StartResolve(d) \/ StartSync(d)
Plugin(d) == \/ \E p \in Paths : ApplyFile(d, p)
             \/ FinishSync(d) \/ FinishResolve(d)
Server(d) == ServerSyncs(d) \/ ServerResolves(d)
Fault(d)  == ServerStops(d) \/ AnswerLost(d) \/ DownloadFails(d) \/ AppKilled(d)

SyncNext ==
  \/ \E d \in Devices : User(d) \/ Plugin(d) \/ Server(d) \/ Fault(d)
  \/ TabletWrites

SyncSpec == SyncInit /\ [][SyncNext]_vars

(* Plugins synchronise on a timer, answers are worked off and no request   *)
(* waits for ever: as long as the branch may grow, the third conjunct says *)
(* what WF_vars(Server(d)) does.  Nothing makes a user edit or resolve.    *)
Fairness ==
  \A d \in Devices :
    WF_vars(StartSync(d)) /\ WF_vars(Plugin(d)) /\ []<>(op[d].phase # "sent")

FairSyncSpec == SyncSpec /\ Fairness

-----------------------------------------------------------------------------
SyncTypeOK ==
  /\ TypeOK
  /\ disk \in [Devices -> Trees]
  /\ synced \in [Devices -> Trees]
  /\ base \in [Devices -> 0..Len(commits)]
  /\ reported \in [Devices -> SUBSET Paths]
  /\ \A d \in Devices : op[d].phase \in {"idle", "sent", "answered"}
  /\ edits \in 0..MaxEdits
  /\ seen \in [Devices -> [Paths -> SUBSET Values]]
  /\ skipped \in [Devices -> SUBSET Paths]

Handled(d, kind) ==
  op[d].phase = "sent" /\ op'[d].phase = "answered" /\ op[d].kind = kind

(* What a step removes from the branch at path p.                          *)
LostValues(p) ==
  ValuesIn(HeadTree(commits)[p]) \ ValuesIn(HeadTree(commits')[p])

(***************************************************************************)
(* A sync never takes out of the vault anything its user has not been      *)
(* shown, however old the device's base is and whatever the others did     *)
(* meanwhile.                                                              *)
(***************************************************************************)
SyncNeverDropsUnseen ==
  [][\A d \in Devices : Handled(d, "sync")
       => \A p \in Paths : LostValues(p) \subseteq seen[d][p]]_vars

(* The request deletes a file that the commit it is based on did not have: *)
(* `apply_text_delete` has nothing to compare the server's file with.      *)
BlindDeletions(req) ==
  {p \in DOMAIN req.changes :
     req.changes[p] = Absent /\ TreeAt(commits, req.base)[p] = Absent}

(***************************************************************************)
(* Whatever failed before, a sync that finds a clean working tree takes    *)
(* out of it only what the commit it is based on had, but for blind        *)
(* deletions and binary files sent without a base.                         *)
(***************************************************************************)
SyncDropsOnlyBase ==
  [][\A d \in Devices : Handled(d, "sync") /\ work = HeadTree(commits)
       => \A p \in Paths \ BlindDeletions(op[d].request) :
            p \in TextPaths \/ op[d].request.base # 0
              => LostValues(p) \subseteq
                   ValuesIn(TreeAt(commits, op[d].request.base)[p])]_vars

(* Nothing was lost, interrupted or stopped half way so far.               *)
Undisturbed == bounds["lost"] = 0 /\ bounds["interrupts"] = 0 /\ faults = 0

(***************************************************************************)
(* No lost update: as long as every sync runs to its end, none takes out   *)
(* of a text anything its user has not been shown, but for blind           *)
(* deletions.  Users may edit while their device synchronises.             *)
(***************************************************************************)
SyncDropsOnlySeen ==
  [][\A d \in Devices : Undisturbed /\ Handled(d, "sync")
       => \A p \in TextPaths \ BlindDeletions(op[d].request) :
            LostValues(p) \subseteq seen[d][p]]_vars

(***************************************************************************)
(* What a device counts as synced was committed by the server: otherwise   *)
(* the file is never uploaded.                                             *)
(***************************************************************************)
SyncedWasCommitted ==
  \A d \in Devices, p \in Paths :
    synced[d][p] # Absent => \E n \in 1..Len(commits) : commits[n][p] = synced[d][p]

(***************************************************************************)
(* A device between operations holds, path by path, the manifest of the    *)
(* commit it names as its base, so the server's diff from that base is all *)
(* it lacks.  A resolution breaks this: it moves the base past what its    *)
(* answer left out, and that stays so until a sync names the path again.   *)
(***************************************************************************)
ManifestMatchesBase ==
  \A d \in Devices : op[d] = Idle /\ base[d] # 0 =>
    \A p \in Paths \ skipped[d] : synced[d][p] = TreeAt(commits, base[d])[p]

(***************************************************************************)
(* The local copy of a file the device still has to resolve is its user's: *)
(* a sync that reports it again, or the resolution of another file, never  *)
(* sends a content for it.                                                 *)
(***************************************************************************)
PendingCopyKept ==
  [][\A d \in Devices : Handled(d, "sync") \/ Handled(d, "resolve")
       => \A p \in DOMAIN op'[d].answer.files :
            ~(pending[p] = d /\ pending'[p] = d)]_vars

(***************************************************************************)
(* The resolution of a conflict removes from the vault only what its user  *)
(* was shown: the path was frozen since the conflict, which showed it.     *)
(***************************************************************************)
ResolveNeverDropsUnseen ==
  [][\A d \in Devices : Undisturbed /\ Handled(d, "resolve")
       => \A p \in PendingFor(pending, d) \cap TextPaths :
            LostValues(p) \subseteq seen[d][p]]_vars

(***************************************************************************)
(* A path stays pending for a device until that device resolves it.        *)
(***************************************************************************)
PendingUntilItsDeviceResolves ==
  [][\A p \in Paths :
       pending[p] # NoOwner /\ pending'[p] # pending[p]
         => Handled(pending[p], "resolve")]_vars

(***************************************************************************)
(* Once the users stop editing, the devices and the server end up with the *)
(* same files, unless a conflict is left unresolved, and but for what the  *)
(* device's last resolution was not told of.                               *)
(***************************************************************************)
DevicesConverge ==
  <>[](\/ \E p \in Paths : pending[p] # NoOwner
       \/ \A d \in Devices : \A p \in Paths \ skipped[d] :
            disk[d][p] = HeadTree(commits)[p])

(***************************************************************************)
(* The vault is the same everywhere: README.md:370 says of the tablet's    *)
(* PDFs that they show up "on every Obsidian client after its next sync".  *)
(* This does not hold: while d1 resolves a conflict, d2's deletion of      *)
(* another note is left out of the answer, the head moves past it          *)
(* (gitService.ts:532), and no later diff has it: d1 keeps the note.       *)
(***************************************************************************)
SameVaultInTheEnd ==
  <>[](\/ \E p \in Paths : pending[p] # NoOwner
       \/ \A d \in Devices : disk[d] = HeadTree(commits))
=============================================================================
