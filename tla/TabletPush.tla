------------------------------ MODULE TabletPush ------------------------------
(***************************************************************************)
(* PDFs of the vault that tagged markdown notes list are pushed into the   *)
(* Saber device's sync folder as notes to write on.  A sync schedules the  *)
(* markdown files it changed, other commits schedule nothing; the sync's   *)
(* task waits, takes all that are queued (the whole vault after a start),  *)
(* and works through them in the order of their names with saber-push.json *)
(* in memory, under a lock.                                                *)
(*                                                                         *)
(* The PDF `n` of the vault becomes the Saber note `n`.  One device.       *)
(***************************************************************************)
EXTENDS SaberRenderer, FiniteSets

CONSTANTS
  Docs,        \* markdown notes, numbered in the order of their names
  Gone,        \* a markdown note that does not exist
  Untagged,    \* ... that lists nothing for the tablet
  Listings,    \* the lists of PDFs that a tagged note may have
  MaxChanged,  \* bound: markdown notes that one commit changes
  MaxSyncs,    \* bound: commits, by syncs and others
  MaxEvents,   \* bound: commits, requests of the device and faults
  Mixed        \* bound: whether renderings and pushes overlap

ASSUME PushAssumption ==
  /\ Docs \subseteq Nat
  /\ Listings \subseteq SUBSET Notes
  /\ Gone \notin Listings /\ Untagged \notin Listings /\ Gone # Untagged
  /\ MaxChanged \in Nat /\ MaxSyncs \in Nat /\ MaxEvents \in Nat
  /\ Mixed \in BOOLEAN

VARIABLES
  syncs,       \* commits so far, by syncs and others
  lists,       \* what each markdown note in the vault lists
  vaultPdfs,   \* the PDFs in the vault
  due,         \* TabletPusher.pending has an entry for the vault
  waiting,     \* ... the markdown notes in it
  scanned,     \* TabletPusher.fully_scanned holds the vault
  run,         \* the stage of the task each sync has spawned
  lock,        \* TabletPusher.state_lock: the task that holds it, or 0
  known,       \* the lock holder's copy of saber-push.json
  saved,       \* saber-push.json
  missed,      \* history: notes that no run was told of, or of which
               \* something was not pushed
  pushes,      \* history: how often each PDF was pushed
  unlisted,    \* history: how often a note ceased to list it
  orphaned,    \* history: how often the last note ceased to
  unrecorded   \* history: how often the record of a push was lost

vaultVars   == <<syncs, lists, vaultPdfs>>
countVars   == <<unlisted, orphaned>>
pushVars    == <<vaultVars, due, waiting, scanned, run, lock, known, saved, missed,
                 pushes, countVars, unrecorded>>
vars        == <<rendererVars, pushVars>>

Runs      == 1..MaxSyncs
RunStages == {"none", "spawned", "sleep", "list", "mark", "lock", "scan", "push", "note",
              "save"}
NoRun     == [at |-> "none", docs |-> {}, all |-> {}, pdfs |-> {}, seen |-> {}, doc |-> 0,
              links |-> {}, on |-> {}, made |-> {}]
NoList    == {}
Nothing   == [notes |-> [m \in Docs |-> NoList], pushed |-> {}]

Tagged(m)   == lists[m] \in Listings
Lists(m, n) == Tagged(m) /\ n \in lists[m]

-----------------------------------------------------------------------------
(***************************************************************************)
(* A commit changes notes, and PDFs come or go.                            *)
(***************************************************************************)
Changed(new) == {m \in Docs : new[m] # lists[m]}

Commit(new, pdfs) ==
  /\ syncs < MaxSyncs
  /\ Changed(new) # {} \/ pdfs # vaultPdfs
  /\ syncs' = syncs + 1 /\ lists' = new /\ vaultPdfs' = pdfs
  /\ LET left(n) == \E m \in Docs : Lists(m, n) /\ ~Lists(m, n)'
         last(n) == (\E m \in Docs : Lists(m, n)) /\ ~\E m \in Docs : Lists(m, n)'
     IN /\ unlisted' = [n \in Notes |-> unlisted[n] + IF left(n) THEN 1 ELSE 0]
        /\ orphaned' = [n \in Notes |-> orphaned[n] + IF last(n) THEN 1 ELSE 0]
  /\ UNCHANGED <<rendererVars, due, waiting, scanned, lock, known, saved, pushes, unrecorded>>

(* A sync that succeeds spawns its task.                                   *)
Sync(new, pdfs) ==
  /\ Commit(new, pdfs)
  /\ run' = [run EXCEPT ![syncs + 1] = [NoRun EXCEPT !.at = "spawned", !.docs = Changed(new)]]
  /\ UNCHANGED missed

(* A resolution, a WebDAV request, or a sync that fails after its commit.  *)
CommitUnscheduled(new, pdfs) ==
  /\ Commit(new, pdfs)
  /\ missed' = missed \cup Changed(new)
  /\ UNCHANGED run

-----------------------------------------------------------------------------
(***************************************************************************)
(* The task up to the lock.                                                *)
(***************************************************************************)
At(t, stage) == run[t].at = stage

(* Mutant: a sync that comes while others wait takes their place.          *)
QueueReplaces(t) ==
  /\ At(t, "spawned")
  /\ due' = TRUE /\ waiting' = run[t].docs
  /\ run' = [run EXCEPT ![t] = [NoRun EXCEPT !.at = "sleep"]]
  /\ UNCHANGED <<rendererVars, vaultVars, scanned, lock, known, saved, missed, pushes,
                 countVars, unrecorded>>

QueueDocs(t) ==
  /\ At(t, "spawned")
  /\ due' = TRUE /\ waiting' = waiting \cup run[t].docs
  /\ run' = [run EXCEPT ![t] = [NoRun EXCEPT !.at = "sleep"]]
  /\ UNCHANGED <<rendererVars, vaultVars, scanned, lock, known, saved, missed, pushes,
                 countVars, unrecorded>>

TakeDocs(t) ==
  /\ At(t, "sleep")
  /\ due' = FALSE /\ waiting' = {}
  /\ run' = [run EXCEPT ![t] =
       IF due THEN [NoRun EXCEPT !.at = "list", !.docs = waiting] ELSE NoRun]
  /\ UNCHANGED <<rendererVars, vaultVars, scanned, lock, known, saved, missed, pushes,
                 countVars, unrecorded>>

ListPaths(t) ==
  /\ At(t, "list")
  /\ run' = [run EXCEPT ![t].at = "mark", ![t].pdfs = vaultPdfs,
                        ![t].all = {m \in Docs : lists[m] # Gone}]
  /\ UNCHANGED <<rendererVars, vaultVars, due, waiting, scanned, lock, known, saved,
                 missed, pushes, countVars, unrecorded>>

(* The vault counts as scanned from here on, whatever becomes of the scan. *)
MarkScanned(t) ==
  /\ At(t, "mark")
  /\ scanned' = TRUE
  /\ run' = [run EXCEPT ![t].at = "lock", ![t].all = {},
               ![t].docs = IF scanned THEN run[t].docs ELSE run[t].all]
  /\ UNCHANGED <<rendererVars, vaultVars, due, waiting, lock, known, saved, missed,
                 pushes, countVars, unrecorded>>

(* A list or saber-push.json cannot be read: the batch is gone.            *)
RunFails(t) ==
  /\ run[t].at \in {"list", "lock"}
  /\ Fault
  /\ missed' = missed \cup run[t].docs
  /\ run' = [run EXCEPT ![t] = NoRun]
  /\ UNCHANGED <<puts, folder, pdf, queue, task, stale, vaultVars, due, waiting, scanned, lock, known, saved,
                 pushes, countVars, unrecorded>>

(* Mutant: saber-push.json is read without waiting for the lock.           *)
LockUnguarded(t) ==
  /\ At(t, "lock")
  /\ lock' = t /\ known' = saved
  /\ run' = [run EXCEPT ![t].at = IF run[t].docs = {} THEN "save" ELSE "scan"]
  /\ UNCHANGED <<rendererVars, vaultVars, due, waiting, scanned, saved, missed, pushes,
                 countVars, unrecorded>>

Lock(t) ==
  /\ At(t, "lock")
  /\ lock = 0
  /\ lock' = t /\ known' = saved
  /\ run' = [run EXCEPT ![t].at = IF run[t].docs = {} THEN "save" ELSE "scan"]
  /\ UNCHANGED <<rendererVars, vaultVars, due, waiting, scanned, saved, missed, pushes,
                 countVars, unrecorded>>

-----------------------------------------------------------------------------
(***************************************************************************)
(* One note after the other, and each PDF it lists.                        *)
(***************************************************************************)
First(docs) == CHOOSE m \in docs : \A k \in docs : m <= k

Goes(docs, links) ==
  IF links # {} THEN "push" ELSE IF docs # {} THEN "scan" ELSE "save"

(* The note lists nothing (any more): the record forgets its PDFs, unless  *)
(* another note in the record lists them.                                  *)
Forget(m) ==
  LET others == UNION {known.notes[k] : k \in Docs \ {m}}
  IN [notes  |-> [known.notes EXCEPT ![m] = NoList],
      pushed |-> known.pushed \ (known.notes[m] \ others)]

ScanUntagged(t) ==
  /\ At(t, "scan")
  /\ LET m    == First(run[t].docs)
         rest == run[t].docs \ {m}
     IN /\ ~Tagged(m)
        /\ known' = Forget(m)
        /\ run' = [run EXCEPT ![t].docs = rest, ![t].seen = run[t].seen \cup {m},
                              ![t].at = Goes(rest, {})]
  /\ UNCHANGED <<rendererVars, vaultVars, due, waiting, scanned, lock, saved, missed,
                 pushes, countVars, unrecorded>>

(* Links are resolved among the PDFs that were there when the run began.   *)
ScanTagged(t) ==
  /\ At(t, "scan")
  /\ LET m    == First(run[t].docs)
         rest == run[t].docs \ {m}
         refs == lists[m] \cap run[t].pdfs
     IN /\ Tagged(m)
        /\ known' = [known EXCEPT !.notes[m] = refs]
        /\ missed' = IF refs = lists[m] THEN missed \ {m} ELSE missed \cup {m}
        /\ run' = [run EXCEPT ![t].docs = rest, ![t].seen = run[t].seen \cup {m},
                              ![t].doc = IF refs = {} THEN 0 ELSE m,
                              ![t].links = refs, ![t].at = Goes(rest, refs)]
  /\ UNCHANGED <<rendererVars, vaultVars, due, waiting, scanned, lock, saved, pushes,
                 countVars, unrecorded>>

Through(t, n, made) ==
  LET links == run[t].links \ {n}
  IN run' = [run EXCEPT ![t].links = links, ![t].on = {}, ![t].made = @ \cup made,
                        ![t].at = Goes(run[t].docs, links),
                        ![t].doc = IF links = {} THEN 0 ELSE @]

SkipPushed(t, n) ==
  /\ At(t, "push") /\ n \in run[t].links
  /\ n \in vaultPdfs /\ n \in known.pushed
  /\ Through(t, n, {})
  /\ UNCHANGED <<rendererVars, vaultVars, due, waiting, scanned, lock, known, saved,
                 missed, pushes, countVars, unrecorded>>

(* The PDF is missing, or config.sbc is not there yet.                     *)
NotPushed(t, n) ==
  /\ At(t, "push") /\ n \in run[t].links
  /\ n \notin vaultPdfs \/ (n \notin known.pushed /\ ~config)
  /\ missed' = missed \cup {run[t].doc}
  /\ Through(t, n, {})
  /\ UNCHANGED <<rendererVars, vaultVars, due, waiting, scanned, lock, known, saved,
                 pushes, countVars, unrecorded>>

(* The PDF cannot be read, or a write into the folder fails.               *)
PushFails(t, n) ==
  /\ \/ At(t, "push") /\ n \in run[t].links
     \/ At(t, "note") /\ n \in run[t].on
  /\ Fault
  /\ missed' = missed \cup {run[t].doc}
  /\ Through(t, n, {})
  /\ UNCHANGED <<puts, folder, pdf, queue, task, stale, vaultVars, due, waiting, scanned,
                 lock, known, saved, pushes, countVars, unrecorded>>

PushAsset(t, n) ==
  /\ At(t, "push") /\ n \in run[t].links
  /\ n \in vaultPdfs /\ n \notin known.pushed /\ config
  /\ asset' = [asset EXCEPT ![n] = Pushed]
  /\ stale' = stale \cup {n}
  /\ run' = [run EXCEPT ![t].at = "note", ![t].on = {n}]
  /\ UNCHANGED <<puts, faults, note, config, pdf, queue, task, vaultVars, due, waiting,
                 scanned, lock, known, saved, missed, pushes, countVars, unrecorded>>

PushNote(t, n) ==
  /\ At(t, "note") /\ n \in run[t].on
  /\ note' = [note EXCEPT ![n] = Pushed]
  /\ stale' = stale \cup {n}
  /\ known' = [known EXCEPT !.pushed = @ \cup {n}]
  /\ pushes' = [pushes EXCEPT ![n] = @ + 1]
  /\ Through(t, n, {n})
  /\ UNCHANGED <<puts, faults, asset, config, pdf, queue, task, vaultVars, due, waiting,
                 scanned, lock, saved, missed, countVars, unrecorded>>

Save(t) ==
  /\ At(t, "save")
  /\ saved' = known /\ lock' = 0
  /\ run' = [run EXCEPT ![t] = NoRun]
  /\ UNCHANGED <<rendererVars, vaultVars, due, waiting, scanned, known, missed, pushes,
                 countVars, unrecorded>>

(* A note or saber-push.json cannot be read or written: nothing of what    *)
(* the run did is recorded.                                                *)
Lost(t) == [n \in Notes |-> unrecorded[n] + IF n \in run[t].made THEN 1 ELSE 0]

(* Mutant: a run that fails keeps the lock.                                *)
AbortsLocked(t) ==
  /\ run[t].at \in {"scan", "save"}
  /\ Fault
  /\ missed' = missed \cup run[t].seen \cup run[t].docs
  /\ unrecorded' = Lost(t)
  /\ run' = [run EXCEPT ![t] = NoRun]
  /\ UNCHANGED <<puts, folder, pdf, queue, task, stale, vaultVars, due, waiting, scanned,
                 lock, known, saved, pushes, countVars>>

RunAborts(t) ==
  /\ run[t].at \in {"scan", "save"}
  /\ Fault
  /\ lock' = 0
  /\ missed' = missed \cup run[t].seen \cup run[t].docs
  /\ unrecorded' = Lost(t)
  /\ run' = [run EXCEPT ![t] = NoRun]
  /\ UNCHANGED <<puts, folder, pdf, queue, task, stale, vaultVars, due, waiting, scanned,
                 known, saved, pushes, countVars>>

-----------------------------------------------------------------------------
PushInit ==
  /\ syncs = 0 /\ lists = [m \in Docs |-> Gone] /\ vaultPdfs = {}
  /\ due = FALSE /\ waiting = {} /\ scanned = FALSE
  /\ run = [t \in Runs |-> NoRun] /\ lock = 0 /\ known = Nothing /\ saved = Nothing
  /\ missed = {}
  /\ pushes = [n \in Notes |-> 0] /\ unrecorded = [n \in Notes |-> 0]
  /\ unlisted = [n \in Notes |-> 0] /\ orphaned = [n \in Notes |-> 0]

Init == RendererInit /\ PushInit

Commits ==
  \E docs \in SUBSET Docs, pdfs \in SUBSET UNION Listings :
    /\ Cardinality(docs) <= MaxChanged
    /\ \E new \in [docs -> {Gone, Untagged} \cup Listings] :
         LET after == [m \in Docs |-> IF m \in docs THEN new[m] ELSE lists[m]]
         IN Sync(after, pdfs) \/ CommitUnscheduled(after, pdfs)

RunStep(t) ==
  \/ QueueDocs(t) \/ TakeDocs(t) \/ ListPaths(t) \/ MarkScanned(t) \/ Lock(t)
  \/ ScanUntagged(t) \/ ScanTagged(t)
  \/ \E n \in Notes : SkipPushed(t, n) \/ NotPushed(t, n) \/ PushAsset(t, n) \/ PushNote(t, n)
  \/ Save(t)

RunFault(t) == RunFails(t) \/ RunAborts(t) \/ \E n \in Notes : PushFails(t, n)

(* A restart; the files stay, a push may be half done.                     *)
Stop ==
  /\ RendererStop
  /\ due' = FALSE /\ waiting' = {} /\ scanned' = FALSE
  /\ run' = [t \in Runs |-> NoRun] /\ lock' = 0
  /\ unrecorded' = IF lock = 0 THEN unrecorded ELSE Lost(lock)
  /\ UNCHANGED <<vaultVars, known, saved, missed, pushes, countVars>>

Rendered == \E t \in Tasks : task[t].at # "none"
Running    == \E t \in Runs : run[t].at # "none"

Next ==
  \/ (DeviceStep \/ \E t \in Tasks : TaskStep(t) \/ LoadFails(t) \/ NoteFails(t))
       /\ UNCHANGED pushVars /\ puts' + syncs + faults' <= MaxEvents /\ (Running => Mixed)
  \/ (Commits \/ \E t \in Runs : RunStep(t) \/ RunFault(t))
       /\ puts + syncs' + faults' <= MaxEvents /\ (Rendered => Mixed)
  \/ Stop /\ puts + syncs < MaxEvents

(* Spawned tasks run, timers fire and the lock is fair.                    *)
Fairness ==
  /\ \A t \in Tasks : WF_vars(TaskStep(t) /\ UNCHANGED pushVars)
  /\ \A t \in Runs : WF_vars(RunStep(t))

Spec     == Init /\ [][Next]_vars
FairSpec == Spec /\ Fairness

Records == [notes : [Docs -> SUBSET Notes], pushed : SUBSET Notes]

(* The lock is held while saber-push.json is in use, and by one run.       *)
LockHeld == \A t \in Runs :
  lock = t <=> run[t].at \in {"scan", "push", "note", "save"}

PushTypeOK ==
  /\ RendererTypeOK
  /\ syncs \in 0..MaxSyncs
  /\ lists \in [Docs -> {Gone, Untagged} \cup Listings] /\ vaultPdfs \in SUBSET Notes
  /\ due \in BOOLEAN /\ waiting \in SUBSET Docs /\ scanned \in BOOLEAN
  /\ run \in [Runs -> [at : RunStages, docs : SUBSET Docs, all : SUBSET Docs,
                        pdfs : SUBSET Notes, seen : SUBSET Docs, doc : Docs \cup {0},
                        links : SUBSET Notes, on : SUBSET Notes, made : SUBSET Notes]]
  /\ lock \in {0} \cup Runs /\ known \in Records /\ saved \in Records
  /\ missed \in SUBSET Docs /\ LockHeld
  /\ {pushes, unlisted, orphaned, unrecorded} \subseteq [Notes -> Nat]

(***************************************************************************)
(* A PDF is pushed again only after a note that listed it ceased to, or    *)
(* after a push could not be recorded: not because another note lists it   *)
(* too, another sync runs at the same time, the vault is scanned again     *)
(* after a restart, or the PDF changed.                                    *)
(***************************************************************************)
PushedOncePerListing ==
  \A n \in Notes : pushes[n] <= 1 + unlisted[n] + unrecorded[n]

(***************************************************************************)
(* README.md:378: "Each PDF is pushed once per Saber device. [...] To push *)
(* the current file again, remove the tag, sync, and add it back."         *)
(***************************************************************************)
PushedOncePerTag ==
  \A n \in Notes : pushes[n] <= 1 + orphaned[n] + unrecorded[n]

(***************************************************************************)
(* Once the vault has been scanned, a PDF that a tagged note lists has     *)
(* been pushed, or will be.  Two kinds of notes are left out: one whose    *)
(* last change a resolution, a WebDAV request or a failed sync committed   *)
(* (no run is told of it, ListedOnNextSync), and one of which something    *)
(* was not there or could not be pushed when the note was read.            *)
(***************************************************************************)
Recorded(n) == n \in (IF lock = 0 THEN saved.pushed ELSE known.pushed)
Expects(m)  == \/ m \in waiting
               \/ \E t \in Runs : m \in run[t].docs

ListedIsPushed ==
  \A m \in Docs, n \in Notes :
    scanned /\ Lists(m, n) /\ m \notin missed
    => Recorded(n) \/ Expects(m) \/ \E t \in Runs : run[t].doc = m /\ n \in run[t].links

(***************************************************************************)
(* README.md:376: "each linked PDF is pushed into Saber on the next sync". *)
(* This does not hold.  When the last commit is that of a sync, its run is *)
(* the last one and nothing failed, the run still leaves out the notes     *)
(* that other commits before it changed (http.rs:973-986, webdav.rs,       *)
(* http.rs:851), and those whose PDF came later than their list.           *)
(***************************************************************************)
ListedOnNextSync ==
  [][\A t \in Runs :
       /\ t = syncs /\ At(t, "save") /\ ~At(t, "save")'
       /\ \A u \in Runs \ {t} : At(u, "none")
       /\ config /\ faults' = 0
       => \A m \in Docs, n \in vaultPdfs : Lists(m, n) => n \in saved'.pushed]_vars

(***************************************************************************)
(* When the device and the users rest, every PDF that is to be refreshed   *)
(* shows its note, and every PDF listed by a note that is not left out (as *)
(* above) is in the device's folder, if the vault was scanned since the    *)
(* last restart.                                                           *)
(***************************************************************************)
TabletSettles ==
  <>[](/\ \A n \in Notes \ stale : pdf[n] = Current(n)
       /\ \A m \in Docs, n \in Notes :
            scanned /\ Lists(m, n) /\ m \notin missed => n \in saved.pushed)
=============================================================================
