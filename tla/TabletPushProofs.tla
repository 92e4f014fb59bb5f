--------------------------- MODULE TabletPushProofs ---------------------------
(***************************************************************************)
(* A PDF that is listed is pushed, once per listing, and the renderer      *)
(* forgets no path among the pushes, for any number of notes, lists, syncs *)
(* and restarts.                                                           *)
(***************************************************************************)
EXTENDS TabletPush, SaberRendererProofs, WellFoundedInduction

(* The parts of a step that touch the renderer's variables.                *)
LEMMA FaultInv ==
  ASSUME RendererInv, Fault, UNCHANGED <<puts, folder, pdf, queue, task, stale>>
  PROVE  RendererInv'
<1>1. UNCHANGED <<puts, note, asset, config, pdf, queue, task, stale>>
  BY DEF folder
<1>2. faults' \in 0..MaxFaults
  BY RendererAssumption DEF Fault, RendererInv, RendererTypeOK
<1>3. RendererTypeOK'
  BY <1>1, <1>2 DEF RendererInv, RendererTypeOK
<1> QED
  BY <1>1, <1>3
     DEF RendererInv, OneNote, NamesKept, Fits, Alone, Awaits, UpToDate, Rendering,
         GotCurrent, Current

LEMMA PushedInv ==
  ASSUME RendererInv, NEW n \in Notes,
         note' \in [Notes -> Contents], asset' \in [Notes -> Contents],
         \A m \in Notes \ {n} : note'[m] = note[m] /\ asset'[m] = asset[m],
         stale' = stale \cup {n},
         UNCHANGED <<puts, faults, config, pdf, queue, task>>
  PROVE  RendererInv'
<1>1. RendererTypeOK' /\ OneNote' /\ NamesKept'
  BY DEF RendererInv, RendererTypeOK, OneNote, NamesKept
<1>2. ASSUME NEW m \in Notes PROVE Fits(m)'
  <2>1. SUFFICES ASSUME m \notin stale' PROVE (Alone(m) /\ (Awaits(m) \/ UpToDate(m)))'
    BY DEF Fits
  <2>2. Alone(m) /\ (Awaits(m) \/ UpToDate(m)) /\ m # n
    BY <2>1 DEF RendererInv, Fits
  <2>3. note'[m] = note[m] /\ asset'[m] = asset[m]
    BY <2>2
  <2> QED
    BY <2>2, <2>3 DEF Alone, Awaits, UpToDate, Rendering, GotCurrent, Current
<1> QED
  BY <1>1, <1>2 DEF RendererInv

LEMMA RendererInPush == RendererInv /\ [Next]_vars => RendererInv'
<1> SUFFICES ASSUME RendererInv, [Next]_vars PROVE RendererInv'
  OBVIOUS
<1>1. CASE UNCHANGED rendererVars
  BY <1>1, RendererStep
<1>2. CASE DeviceStep \/ \E t \in Tasks : TaskStep(t) \/ LoadFails(t) \/ NoteFails(t)
  BY <1>2, RendererStep DEF RendererNext
<1>3. CASE Commits
  BY <1>1, <1>3 DEF Commits, Sync, CommitUnscheduled, Commit
<1>4. ASSUME NEW t \in Runs, RunStep(t) PROVE RendererInv'
  <2>1. ASSUME NEW n \in Notes, PushAsset(t, n) \/ PushNote(t, n) PROVE RendererInv'
    <3>1. note \in [Notes -> Contents] /\ asset \in [Notes -> Contents] /\ Pushed \in Contents
      BY DEF RendererInv, RendererTypeOK, Contents
    <3>2. /\ note' \in [Notes -> Contents] /\ asset' \in [Notes -> Contents]
          /\ \A m \in Notes \ {n} : note'[m] = note[m] /\ asset'[m] = asset[m]
          /\ stale' = stale \cup {n}
          /\ UNCHANGED <<puts, faults, config, pdf, queue, task>>
      BY <2>1, <3>1 DEF PushAsset, PushNote
    <3> QED
      BY <3>2, PushedInv
  <2>2. CASE UNCHANGED rendererVars
    BY <1>1, <2>2
  <2> QED
    BY <1>4, <2>1, <2>2
       DEF RunStep, QueueDocs, TakeDocs, ListPaths, MarkScanned, Lock, ScanUntagged,
           ScanTagged, SkipPushed, NotPushed, Save
<1>5. ASSUME NEW t \in Runs, RunFault(t) PROVE RendererInv'
  BY <1>5, FaultInv DEF RunFault, RunFails, RunAborts, PushFails
<1>6. CASE Stop
  BY <1>6, StopInv DEF Stop
<1> QED
  BY <1>1, <1>2, <1>3, <1>4, <1>5, <1>6 DEF Next, vars

(* Among pushes, too, no path is forgotten.                                *)
THEOREM PushedPdfsAreCurrent == Spec => []PdfIsCurrent
<1>1. Init => RendererInv
  BY RendererInitially DEF Init
<1> QED
  BY <1>1, RendererInPush, FitsIsCurrent, PTL DEF Spec

-----------------------------------------------------------------------------
RunRecords == [at : RunStages, docs : SUBSET Docs, all : SUBSET Docs,
               pdfs : SUBSET Notes, seen : SUBSET Docs, doc : Docs \cup {0},
               links : SUBSET Notes, on : SUBSET Notes, made : SUBSET Notes]

Holding == {"scan", "push", "note", "save"}

PushTypes ==
  /\ syncs \in 0..MaxSyncs
  /\ lists \in [Docs -> {Gone, Untagged} \cup Listings] /\ vaultPdfs \in SUBSET Notes
  /\ due \in BOOLEAN /\ waiting \in SUBSET Docs /\ scanned \in BOOLEAN
  /\ run \in [Runs -> RunRecords]
  /\ lock \in {0} \cup Runs /\ known \in Records /\ saved \in Records
  /\ missed \in SUBSET Docs
  /\ pushes \in [Notes -> Nat] /\ unlisted \in [Notes -> Nat]
  /\ orphaned \in [Notes -> Nat] /\ unrecorded \in [Notes -> Nat]

(* What a run has pushed is in its record, listed by a note it has read;   *)
(* it reads a note once.                                                   *)
RunFits(r, rec) ==
  /\ r.at \notin Holding => r.made = {} /\ r.seen = {}
  /\ r.at \in Holding => /\ r.seen \cap r.docs = {}
                         /\ \A n \in r.made : /\ n \in rec.pushed
                                              /\ \E m \in r.seen : n \in rec.notes[m]
  /\ r.at = "scan" => r.docs # {}
  /\ r.at = "note" => \E n \in Notes : r.on = {n} /\ n \notin rec.pushed
  /\ r.at # "note" => r.on = {}
  /\ r.at \in {"push", "note"} => /\ r.doc \in r.seen
                                  /\ r.links \subseteq rec.notes[r.doc]
                                  /\ r.on \subseteq r.links

RunsFit ==
  \A t \in Runs : /\ lock = t <=> run[t].at \in Holding
                  /\ t > syncs => run[t].at = "none"
                  /\ RunFits(run[t], known)

(* How often a PDF may be pushed without another reason: once when it is   *)
(* not recorded as pushed, and once more when it will be forgotten because *)
(* a note in the record no longer lists it.                                *)
Ceased(rec, n) == \E m \in Docs : n \in rec.notes[m] /\ ~Lists(m, n)
Owed(rec, n)   == (IF n \in rec.pushed THEN 0 ELSE 1) + (IF Ceased(rec, n) THEN 1 ELSE 0)
Made(n)        == IF lock # 0 /\ n \in run[lock].made THEN 1 ELSE 0

(* The account of a PDF, as the run sees it and as the file tells it.      *)
Ledger(n) ==
  /\ lock # 0 => pushes[n] + Owed(known, n) <= 1 + unlisted[n] + unrecorded[n]
  /\ pushes[n] + Owed(saved, n) <= 1 + unlisted[n] + unrecorded[n] + Made(n)

PushInv == PushTypes /\ RunsFit /\ \A n \in Notes : Ledger(n)

LEMMA PushInitially == PushInit => PushInv
<1> SUFFICES ASSUME PushInit PROVE PushInv
  OBVIOUS
<1>1. NoRun \in RunRecords
  BY DEF NoRun, RunRecords, RunStages
<1>2. Nothing \in Records
  BY DEF Nothing, NoList, Records
<1>3. PushTypes
  <2>1. run \in [Runs -> RunRecords] /\ lists \in [Docs -> {Gone, Untagged} \cup Listings]
    BY <1>1 DEF PushInit
  <2>2. /\ pushes \in [Notes -> Nat] /\ unlisted \in [Notes -> Nat]
        /\ orphaned \in [Notes -> Nat] /\ unrecorded \in [Notes -> Nat]
    BY DEF PushInit
  <2>3. /\ syncs \in 0..MaxSyncs /\ vaultPdfs \in SUBSET Notes /\ waiting \in SUBSET Docs
        /\ lock \in {0} \cup Runs /\ missed \in SUBSET Docs
    BY PushAssumption DEF PushInit
  <2>4. due \in BOOLEAN /\ scanned \in BOOLEAN
    BY Zenon DEF PushInit
  <2>5. known \in Records /\ saved \in Records
    BY <1>2 DEF PushInit
  <2> QED
    BY <2>1, <2>2, <2>3, <2>4, <2>5 DEF PushTypes
<1>4. \A t \in Runs : run[t] = NoRun
  BY DEF PushInit
<1>5. RunsFit
  BY <1>4 DEF RunsFit, RunFits, NoRun, Holding, PushInit, Runs
<1>6. ASSUME NEW n \in Notes PROVE Ledger(n)
  <2>1. ~Ceased(saved, n) /\ n \notin saved.pushed
    BY DEF PushInit, Ceased, Nothing, NoList
  <2> QED
    BY <2>1 DEF Ledger, Owed, Made, PushInit
<1> QED
  BY <1>3, <1>5, <1>6 DEF PushInv

-----------------------------------------------------------------------------
(* A step of one run.  Outside the lock it changes nothing that others     *)
(* rely on.                                                                *)
LEMMA Outside ==
  ASSUME PushInv, NEW t \in Runs, NEW x \in RunRecords,
         run' = [run EXCEPT ![t] = x],
         run[t].at \notin Holding \cup {"none"}, x.at \notin Holding,
         x.made = {}, x.seen = {}, x.on = {},
         UNCHANGED <<syncs, lists, vaultPdfs, lock, known, saved, pushes, unlisted, orphaned,
                     unrecorded>>,
         due' \in BOOLEAN, waiting' \in SUBSET Docs, scanned' \in BOOLEAN,
         missed' \in SUBSET Docs
  PROVE  PushInv'
<1>1. run \in [Runs -> RunRecords]
  BY DEF PushInv, PushTypes
<1>2. run'[t] = x /\ \A u \in Runs \ {t} : run'[u] = run[u]
  BY <1>1
<1>3. PushTypes'
  BY <1>1 DEF PushInv, PushTypes
<1>4. lock # t
  BY DEF PushInv, RunsFit
<1>5. RunsFit'
  <2>1. RunFits(x, known)
    BY DEF RunFits, Holding
  <2>2. ASSUME NEW u \in Runs
        PROVE  /\ lock = u <=> run'[u].at \in Holding
               /\ u > syncs => run'[u].at = "none"
               /\ RunFits(run'[u], known)
    <3>1. CASE u = t
      BY <1>2, <1>4, <2>1, <3>1 DEF PushInv, RunsFit
    <3>2. CASE u # t
      BY <1>2, <3>2 DEF PushInv, RunsFit
    <3> QED
      BY <3>1, <3>2
  <2> QED
    BY <2>2 DEF RunsFit
<1>6. ASSUME NEW n \in Notes PROVE Ledger(n)'
  <2>1. lock # 0 => lock \in Runs
    BY DEF PushInv, PushTypes
  <2>2. Made(n)' = Made(n)
    BY <1>2, <1>4, <2>1 DEF Made
  <2> QED
    BY <2>2 DEF PushInv, Ledger, Owed, Ceased, Lists, Tagged
<1> QED
  BY <1>3, <1>5, <1>6 DEF PushInv

(* The holder of the lock, also when it takes or releases it.              *)
LEMMA Inside ==
  ASSUME PushInv, NEW t \in Runs, NEW x \in RunRecords,
         run' = [run EXCEPT ![t] = x],
         lock \in {0, t}, run[t].at # "none",
         lock' = IF x.at \in Holding THEN t ELSE 0,
         RunFits(x, known'),
         UNCHANGED <<syncs, lists, vaultPdfs, due, waiting, scanned, unlisted, orphaned>>,
         known' \in Records, saved' \in Records, missed' \in SUBSET Docs,
         pushes' \in [Notes -> Nat], unrecorded' \in [Notes -> Nat],
         \A n \in Notes :
           /\ x.at \in Holding
                => pushes'[n] + Owed(known', n) <= 1 + unlisted[n] + unrecorded'[n]
           /\ pushes'[n] + Owed(saved', n)
                <= 1 + unlisted[n] + unrecorded'[n]
                     + IF x.at \in Holding /\ n \in x.made THEN 1 ELSE 0
  PROVE  PushInv'
<1>1. run \in [Runs -> RunRecords] /\ 0 \notin Runs
  BY DEF PushInv, PushTypes, Runs
<1>2. run'[t] = x /\ \A u \in Runs \ {t} : run'[u] = run[u]
  BY <1>1
<1>3. PushTypes'
  BY <1>1 DEF PushInv, PushTypes
<1>4. RunsFit'
  <2>1. ASSUME NEW u \in Runs
        PROVE  /\ lock' = u <=> run'[u].at \in Holding
               /\ u > syncs => run'[u].at = "none"
               /\ RunFits(run'[u], known')
    <3>1. CASE u = t
      BY <1>1, <1>2, <3>1 DEF PushInv, RunsFit
    <3>2. CASE u # t
      <4>1. run[u].at \notin Holding /\ RunFits(run[u], known)
        BY <1>1, <3>2 DEF PushInv, RunsFit
      <4>2. RunFits(run[u], known')
        BY <4>1 DEF RunFits, Holding
      <4> QED
        BY <1>1, <1>2, <3>2, <4>1, <4>2 DEF PushInv, RunsFit
    <3> QED
      BY <3>1, <3>2
  <2> QED
    BY <2>1 DEF RunsFit
<1>5. ASSUME NEW n \in Notes PROVE Ledger(n)'
  <2>1. Made(n)' = IF x.at \in Holding /\ n \in x.made THEN 1 ELSE 0
    BY <1>1, <1>2 DEF Made
  <2>2. Owed(known, n)' = Owed(known', n) /\ Owed(saved, n)' = Owed(saved', n)
    BY DEF Owed, Ceased, Lists, Tagged
  <2>3. lock' # 0 => x.at \in Holding
    BY <1>1
  <2> QED
    BY <2>1, <2>2, <2>3 DEF Ledger
<1> QED
  BY <1>3, <1>4, <1>5 DEF PushInv

-----------------------------------------------------------------------------
(* A commit begins a run or none.  In either case the notes it changed are *)
(* in that run, or marked as left out.                                     *)
RunBegins(new, x) ==
  /\ run' = [run EXCEPT ![syncs + 1] = x]
  /\ x = run[syncs + 1] \/ (x.at = "spawned" /\ x.links = {})
  /\ x.at \in {"none", "spawned"} /\ x.made = {} /\ x.seen = {} /\ x.on = {}
  /\ missed \subseteq missed' /\ missed' \in SUBSET Docs
  /\ Changed(new) \subseteq x.docs \cup missed'

LEMMA CommitBegins ==
  ASSUME PushInv, NEW new, NEW pdfs,
         Sync(new, pdfs) \/ CommitUnscheduled(new, pdfs)
  PROVE  Commit(new, pdfs) /\ \E x \in RunRecords : RunBegins(new, x)
<1>1. /\ run \in [Runs -> RunRecords] /\ syncs \in Nat /\ syncs + 1 \in Runs
      /\ Changed(new) \in SUBSET Docs /\ missed \in SUBSET Docs
  BY PushAssumption DEF PushInv, PushTypes, Sync, CommitUnscheduled, Commit, Runs, Changed
<1>2. CASE Sync(new, pdfs)
  <2> DEFINE x == [NoRun EXCEPT !.at = "spawned", !.docs = Changed(new)]
  <2>1. x \in RunRecords
    BY <1>1 DEF NoRun, RunRecords, RunStages
  <2>2. RunBegins(new, x)
    BY <1>1, <1>2 DEF RunBegins, Sync, NoRun
  <2> QED
    BY <1>2, <2>1, <2>2 DEF Sync
<1>3. CASE CommitUnscheduled(new, pdfs)
  <2> DEFINE x == run[syncs + 1]
  <2>1. x \in RunRecords /\ x.at = "none" /\ RunFits(x, known)
    <3>1. syncs + 1 > syncs
      BY <1>1
    <3> QED
      BY <1>1, <3>1 DEF PushInv, RunsFit
  <2>2. x.made = {} /\ x.seen = {} /\ x.on = {}
    BY <1>1, <2>1 DEF RunFits, Holding
  <2>3. run' = [run EXCEPT ![syncs + 1] = x]
    BY <1>1, <1>3 DEF CommitUnscheduled
  <2>4. RunBegins(new, x)
    BY <1>1, <1>3, <2>1, <2>2, <2>3 DEF RunBegins, CommitUnscheduled
  <2> QED
    BY <1>3, <2>1, <2>4 DEF CommitUnscheduled
<1> QED
  BY <1>2, <1>3

(* A note that ceases to list a PDF is counted.                            *)
LEMMA CommitInv ==
  ASSUME PushInv, NEW new \in [Docs -> {Gone, Untagged} \cup Listings],
         NEW pdfs \in SUBSET Notes, Commit(new, pdfs),
         NEW x \in RunRecords, RunBegins(new, x)
  PROVE  PushInv'
<1>1. /\ run \in [Runs -> RunRecords] /\ syncs \in Nat /\ syncs + 1 \in Runs
      /\ syncs + 1 \in 0..MaxSyncs /\ syncs' = syncs + 1 /\ 0 \notin Runs
  BY PushAssumption DEF PushInv, PushTypes, Commit, Runs
<1>2. x.at \in {"none", "spawned"} /\ x.made = {} /\ x.seen = {} /\ x.on = {}
  BY DEF RunBegins
<1>3. run' = [run EXCEPT ![syncs + 1] = x] /\ missed' \in SUBSET Docs
  BY DEF RunBegins
<1>4. run'[syncs + 1] = x /\ \A u \in Runs \ {syncs + 1} : run'[u] = run[u]
  BY <1>1, <1>3
<1>5. run[syncs + 1].at = "none" /\ lock # syncs + 1
  BY <1>1 DEF PushInv, RunsFit, Holding
<1>6. PushTypes'
  <2>1. run' \in [Runs -> RunRecords]
    BY <1>1, <1>2, <1>3
  <2>2. unlisted' \in [Notes -> Nat] /\ orphaned' \in [Notes -> Nat]
    BY DEF PushInv, PushTypes, Commit
  <2> QED
    BY <1>1, <1>3, <2>1, <2>2 DEF PushInv, PushTypes, Commit
<1>7. RunsFit'
  <2>1. RunFits(x, known)
    BY <1>2 DEF RunFits, Holding
  <2> QED
    BY <1>1, <1>2, <1>4, <1>5, <2>1 DEF PushInv, RunsFit, Commit, Holding, Runs
<1>8. ASSUME NEW n \in Notes PROVE Ledger(n)'
  <2>1. lock # 0 => lock \in Runs
    BY DEF PushInv, PushTypes
  <2>2. Made(n)' = Made(n)
    BY <1>4, <1>5, <2>1 DEF Made, Commit
  <2> DEFINE left == \E m \in Docs : Lists(m, n) /\ ~Lists(m, n)'
  <2>3. unlisted'[n] = unlisted[n] + IF left THEN 1 ELSE 0
    BY DEF Commit
  <2>4. /\ Ceased(known, n)' => Ceased(known, n) \/ left
        /\ Ceased(saved, n)' => Ceased(saved, n) \/ left
    BY DEF Ceased, Commit
  <2>5. /\ pushes[n] \in Nat /\ unlisted[n] \in Nat /\ unrecorded[n] \in Nat
        /\ UNCHANGED <<lock, known, saved, pushes, unrecorded>>
    BY DEF PushInv, PushTypes, Commit
  <2> HIDE DEF left
  <2>6. /\ Owed(known, n)' <= Owed(known, n) + IF left THEN 1 ELSE 0
        /\ Owed(saved, n)' <= Owed(saved, n) + IF left THEN 1 ELSE 0
    BY <2>4, <2>5 DEF Owed
  <2>7. /\ Owed(known, n) \in Nat /\ Owed(saved, n) \in Nat /\ Made(n) \in Nat
        /\ Owed(known, n)' \in Nat /\ Owed(saved, n)' \in Nat
    BY DEF Owed, Made
  <2> QED
    BY <2>2, <2>3, <2>5, <2>6, <2>7 DEF PushInv, Ledger
<1> QED
  BY <1>6, <1>7, <1>8 DEF PushInv

(* The stages before the lock.                                             *)
LEMMA EarlyInv ==
  ASSUME PushInv, NEW t \in Runs,
         QueueDocs(t) \/ TakeDocs(t) \/ ListPaths(t) \/ MarkScanned(t)
  PROVE  PushInv'
<1>1. /\ run[t] \in RunRecords /\ run \in [Runs -> RunRecords]
      /\ vaultPdfs \in SUBSET Notes /\ missed \in SUBSET Docs /\ waiting \in SUBSET Docs
      /\ due \in BOOLEAN /\ scanned \in BOOLEAN
  BY DEF PushInv, PushTypes
<1>2. /\ run[t].at \in {"spawned", "sleep", "list", "mark"}
      /\ run[t].at \notin Holding \cup {"none"}
      /\ run[t].made = {} /\ run[t].seen = {} /\ run[t].on = {}
  BY DEF QueueDocs, TakeDocs, ListPaths, MarkScanned, At, Holding, PushInv, RunsFit, RunFits
<1>3. /\ UNCHANGED <<syncs, lists, vaultPdfs, lock, known, saved, pushes, unlisted, orphaned,
                     unrecorded>>
      /\ due' \in BOOLEAN /\ waiting' \in SUBSET Docs /\ scanned' \in BOOLEAN
      /\ missed' \in SUBSET Docs
  BY <1>1
     DEF QueueDocs, TakeDocs, ListPaths, MarkScanned, vaultVars, countVars, RunRecords
<1>4. \E x \in RunRecords : /\ run' = [run EXCEPT ![t] = x]
                            /\ x.at \notin Holding
                            /\ x.made = {} /\ x.seen = {} /\ x.on = {}
  <2>1. CASE QueueDocs(t)
    <3> DEFINE x == [NoRun EXCEPT !.at = "sleep"]
    <3>1. x \in RunRecords /\ x.at \notin Holding /\ x.made = {} /\ x.seen = {} /\ x.on = {}
      BY DEF NoRun, RunRecords, RunStages, Holding
    <3> QED
      BY <2>1, <3>1 DEF QueueDocs
  <2>2. CASE TakeDocs(t)
    <3> DEFINE x == IF due THEN [NoRun EXCEPT !.at = "list", !.docs = waiting] ELSE NoRun
    <3>1. x \in RunRecords /\ x.at \notin Holding /\ x.made = {} /\ x.seen = {} /\ x.on = {}
      BY <1>1 DEF NoRun, RunRecords, RunStages, Holding
    <3> QED
      BY <2>2, <3>1 DEF TakeDocs
  <2>3. CASE ListPaths(t)
    <3> DEFINE x == [run[t] EXCEPT !.at = "mark", !.pdfs = vaultPdfs,
                                   !.all = {m \in Docs : lists[m] # Gone}]
    <3>1. x \in RunRecords
      BY <1>1 DEF RunRecords, RunStages
    <3>2. x.at \notin Holding /\ x.made = {} /\ x.seen = {} /\ x.on = {}
      BY <1>1, <1>2 DEF RunRecords, Holding
    <3>3. run' = [run EXCEPT ![t] = x]
      BY <1>1, <2>3 DEF ListPaths
    <3> QED
      BY <3>1, <3>2, <3>3
  <2>4. CASE MarkScanned(t)
    <3> DEFINE x == [run[t] EXCEPT !.at = "lock", !.all = {},
                       !.docs = IF scanned THEN run[t].docs ELSE run[t].all]
    <3>1. x \in RunRecords
      BY <1>1 DEF RunRecords, RunStages
    <3>2. x.at \notin Holding /\ x.made = {} /\ x.seen = {} /\ x.on = {}
      BY <1>1, <1>2 DEF RunRecords, Holding
    <3>3. run' = [run EXCEPT ![t] = x]
      BY <1>1, <2>4 DEF MarkScanned
    <3> QED
      BY <3>1, <3>2, <3>3
  <2> QED
    BY <2>1, <2>2, <2>3, <2>4
<1> QED
  BY <1>2, <1>3, <1>4, Outside

(* The smallest of some notes is one of them.                              *)
LEMMA FirstIsIn == ASSUME NEW docs \in SUBSET Docs, docs # {} PROVE First(docs) \in docs
<1>1. docs \subseteq Nat
  BY PushAssumption
<1> DEFINE Below == OpToRel(<, Nat)
<1>2. ASSUME NEW k \in Nat, NEW m \in Nat, k < m PROVE <<k, m>> \in Below
  BY <1>2 DEF OpToRel
<1>3. IsWellFoundedOn(Below, Nat)
  BY NatLessThanWellFounded
<1> HIDE DEF Below
<1>4. PICK m \in docs : \A k \in docs : ~(<<k, m>> \in Below)
  BY <1>1, <1>3, WFMin
<1>5. ASSUME NEW k \in docs PROVE m <= k
  <2>1. k \in Nat /\ m \in Nat
    BY <1>1
  <2>2. ~(k < m)
    BY <1>2, <1>4, <2>1
  <2> QED
    BY <2>1, <2>2
<1> QED
  BY <1>5 DEF First

-----------------------------------------------------------------------------
(* What the steps under the lock start from.                               *)
LEMMA HolderFacts ==
  ASSUME PushInv, NEW t \in Runs
  PROVE  /\ run \in [Runs -> RunRecords] /\ run[t] \in RunRecords
         /\ RunFits(run[t], known) /\ 0 \notin Runs /\ t # 0
         /\ lock = t <=> run[t].at \in Holding
         /\ known \in Records /\ saved \in Records /\ missed \in SUBSET Docs
         /\ known.notes \in [Docs -> SUBSET Notes] /\ known.pushed \in SUBSET Notes
         /\ pushes \in [Notes -> Nat] /\ unlisted \in [Notes -> Nat]
         /\ unrecorded \in [Notes -> Nat]
         /\ \A n \in Notes : Owed(saved, n) \in Nat
         /\ lock = t => \A n \in Notes :
               /\ pushes[n] + Owed(known, n) <= 1 + unlisted[n] + unrecorded[n]
               /\ pushes[n] + Owed(saved, n)
                    <= 1 + unlisted[n] + unrecorded[n] + IF n \in run[t].made THEN 1 ELSE 0
<1>1. /\ run \in [Runs -> RunRecords] /\ run[t] \in RunRecords
      /\ RunFits(run[t], known) /\ 0 \notin Runs /\ t # 0
      /\ lock = t <=> run[t].at \in Holding
      /\ known \in Records /\ saved \in Records /\ missed \in SUBSET Docs
      /\ pushes \in [Notes -> Nat] /\ unlisted \in [Notes -> Nat]
      /\ unrecorded \in [Notes -> Nat]
  BY PushAssumption DEF PushInv, PushTypes, RunsFit, Runs
<1>2. known.notes \in [Docs -> SUBSET Notes] /\ known.pushed \in SUBSET Notes
  BY <1>1 DEF Records
<1>3. \A n \in Notes : Owed(saved, n) \in Nat
  BY DEF Owed
<1>4. ASSUME NEW n \in Notes, lock = t
      PROVE  /\ pushes[n] + Owed(known, n) <= 1 + unlisted[n] + unrecorded[n]
             /\ pushes[n] + Owed(saved, n)
                  <= 1 + unlisted[n] + unrecorded[n] + IF n \in run[t].made THEN 1 ELSE 0
  BY <1>1, <1>4 DEF PushInv, Ledger, Made
<1> QED
  BY <1>1, <1>2, <1>3, <1>4

LEMMA LockInv == ASSUME PushInv, NEW t \in Runs, Lock(t) PROVE PushInv'
<1> USE HolderFacts
<1>1. /\ lock = 0 /\ lock' = t /\ known' = saved /\ run[t].at = "lock"
      /\ run[t].made = {} /\ run[t].seen = {} /\ run[t].on = {}
      /\ UNCHANGED <<syncs, lists, vaultPdfs, due, waiting, scanned, saved, missed, pushes,
                     unlisted, orphaned, unrecorded>>
  BY DEF Lock, At, RunFits, Holding, vaultVars, countVars
<1> DEFINE x == [run[t] EXCEPT !.at = IF run[t].docs = {} THEN "save" ELSE "scan"]
<1>2. x \in RunRecords
  BY DEF RunRecords, RunStages
<1>3. /\ x.at = IF run[t].docs = {} THEN "save" ELSE "scan"
      /\ x.docs = run[t].docs /\ x.made = {} /\ x.seen = {} /\ x.on = {}
  BY <1>1 DEF RunRecords
<1>4. run' = [run EXCEPT ![t] = x]
  BY DEF Lock
<1> HIDE DEF x
<1>5. x.at \in Holding /\ RunFits(x, known')
  BY <1>3 DEF RunFits, Holding
<1>6. ASSUME NEW n \in Notes
      PROVE  /\ pushes'[n] + Owed(known', n) <= 1 + unlisted[n] + unrecorded'[n]
             /\ pushes'[n] + Owed(saved', n)
                  <= 1 + unlisted[n] + unrecorded'[n]
                       + IF x.at \in Holding /\ n \in x.made THEN 1 ELSE 0
  <2>1. pushes[n] + Owed(saved, n) <= 1 + unlisted[n] + unrecorded[n]
    BY <1>1 DEF PushInv, Ledger, Made
  <2>2. /\ pushes[n] \in Nat /\ unlisted[n] \in Nat /\ unrecorded[n] \in Nat
        /\ Owed(saved, n) \in Nat
    OBVIOUS
  <2> QED
    BY <1>1, <1>3, <2>1, <2>2
<1>7. /\ known' \in Records /\ saved' \in Records /\ missed' \in SUBSET Docs
      /\ pushes' \in [Notes -> Nat] /\ unrecorded' \in [Notes -> Nat]
      /\ lock \in {0, t} /\ run[t].at # "none" /\ lock' = IF x.at \in Holding THEN t ELSE 0
  BY <1>1, <1>5
<1> QED
  BY <1>1, <1>2, <1>4, <1>5, <1>6, <1>7, Inside

LEMMA ScanUntaggedInv == ASSUME PushInv, NEW t \in Runs, ScanUntagged(t) PROVE PushInv'
<1> USE HolderFacts
<1> DEFINE m == First(run[t].docs)
<1> DEFINE rest == run[t].docs \ {m}
<1> DEFINE others == UNION {known.notes[k] : k \in Docs \ {m}}
<1>1. /\ run[t].at = "scan" /\ ~Tagged(m) /\ known' = Forget(m)
      /\ run' = [run EXCEPT ![t].docs = rest, ![t].seen = run[t].seen \cup {m},
                            ![t].at = Goes(rest, {})]
      /\ UNCHANGED <<syncs, lists, vaultPdfs, due, waiting, scanned, lock, saved, missed,
                     pushes, unlisted, orphaned, unrecorded>>
  BY DEF ScanUntagged, At, vaultVars, countVars
<1>2. m \in run[t].docs /\ m \in Docs /\ lock = t /\ m \notin run[t].seen
  <2>1. run[t].docs # {} /\ run[t].docs \in SUBSET Docs
    BY <1>1 DEF RunFits, RunRecords
  <2>2. m \in run[t].docs
    BY <2>1, FirstIsIn
  <2> QED
    BY <1>1, <2>1, <2>2 DEF RunFits, Holding
<1> HIDE DEF m
<1> DEFINE x == [run[t] EXCEPT !.docs = rest, !.seen = run[t].seen \cup {m},
                               !.at = Goes(rest, {})]
<1>3. x \in RunRecords
  BY <1>2 DEF RunRecords, RunStages, Goes
<1>4. /\ x.docs = rest /\ x.seen = run[t].seen \cup {m} /\ x.at = Goes(rest, {})
      /\ x.made = run[t].made /\ x.on = {}
  BY <1>1 DEF RunRecords, RunFits
<1>5. run' = [run EXCEPT ![t] = x]
  BY <1>1
<1> HIDE DEF x
<1>6. x.at \in Holding /\ x.at \notin {"push", "note"} /\ (x.at = "scan" => rest # {})
  BY <1>4 DEF Goes, Holding
<1>7. /\ known'.notes = [known.notes EXCEPT ![m] = {}]
      /\ known'.pushed = known.pushed \ (known.notes[m] \ others)
  BY <1>1 DEF Forget, NoList
<1>8. known' \in Records
  BY <1>1 DEF Forget, NoList, Records
<1>9. \A k \in Docs : known'.notes[k] = IF k = m THEN {} ELSE known.notes[k]
  BY <1>2, <1>7
<1> HIDE DEF rest
<1>10. RunFits(x, known')
  <2>1. ASSUME NEW n \in run[t].made
        PROVE  n \in known'.pushed /\ \E k \in run[t].seen : n \in known'.notes[k]
    <3>1. PICK k \in run[t].seen : n \in known.notes[k] /\ n \in known.pushed
      BY <1>1, <2>1 DEF RunFits, Holding
    <3>2. k \in Docs \ {m}
      BY <1>2 DEF RunRecords
    <3>3. n \in others
      BY <3>1, <3>2
    <3> QED
      BY <1>7, <1>9, <3>1, <3>2, <3>3
  <2>2. x.seen \cap x.docs = {}
    BY <1>1, <1>4 DEF rest, RunFits, Holding
  <2> QED
    BY <1>4, <1>6, <2>1, <2>2 DEF RunFits
<1>11. ASSUME NEW n \in Notes PROVE Owed(known', n) <= Owed(known, n)
  <2>1. ~Lists(m, n)
    BY <1>1 DEF Lists, m
  <2>2. Ceased(known', n) => Ceased(known, n)
    BY <1>9 DEF Ceased
  <2>3. CASE n \in known'.pushed \/ n \notin known.pushed
    <3>1. n \in known'.pushed => n \in known.pushed
      BY <1>7
    <3> QED
      BY <2>2, <2>3, <3>1 DEF Owed
  <2>4. CASE n \in known.pushed /\ n \notin known'.pushed
    <3>1. n \in known.notes[m] /\ n \notin others
      BY <1>7, <2>4
    <3>2. Ceased(known, n)
      BY <1>2, <2>1, <3>1 DEF Ceased
    <3>3. ~Ceased(known', n)
      BY <1>9, <3>1 DEF Ceased
    <3> QED
      BY <2>4, <3>2, <3>3 DEF Owed
  <2> QED
    BY <2>3, <2>4
<1>12. \A n \in Notes : Owed(known', n) \in Nat /\ Owed(known, n) \in Nat
  BY DEF Owed
<1>13. \A n \in Notes : pushes[n] + Owed(known', n) <= 1 + unlisted[n] + unrecorded[n]
  BY <1>2, <1>11, <1>12
<1> QED
  BY <1>1, <1>2, <1>3, <1>4, <1>5, <1>6, <1>8, <1>10, <1>13, Inside

LEMMA ScanTaggedInv == ASSUME PushInv, NEW t \in Runs, ScanTagged(t) PROVE PushInv'
<1> USE HolderFacts
<1> DEFINE m == First(run[t].docs)
<1> DEFINE rest == run[t].docs \ {m}
<1> DEFINE refs == lists[m] \cap run[t].pdfs
<1>1. /\ run[t].at = "scan" /\ Tagged(m) /\ known' = [known EXCEPT !.notes[m] = refs]
      /\ run' = [run EXCEPT ![t].docs = rest, ![t].seen = run[t].seen \cup {m},
                            ![t].doc = IF refs = {} THEN 0 ELSE m,
                            ![t].links = refs, ![t].at = Goes(rest, refs)]
      /\ UNCHANGED <<syncs, lists, vaultPdfs, due, waiting, scanned, lock, saved,
                     pushes, unlisted, orphaned, unrecorded>>
      /\ missed' = IF refs = lists[m] THEN missed \ {m} ELSE missed \cup {m}
  BY DEF ScanTagged, At, vaultVars, countVars
<1>2. m \in run[t].docs /\ m \in Docs /\ lock = t /\ m \notin run[t].seen
  <2>1. run[t].docs # {} /\ run[t].docs \in SUBSET Docs
    BY <1>1 DEF RunFits, RunRecords
  <2>2. m \in run[t].docs
    BY <2>1, FirstIsIn
  <2> QED
    BY <1>1, <2>1, <2>2 DEF RunFits, Holding
<1> HIDE DEF m
<1>3. refs \in SUBSET Notes
  BY DEF RunRecords
<1> DEFINE x == [run[t] EXCEPT !.docs = rest, !.seen = run[t].seen \cup {m},
                               !.doc = IF refs = {} THEN 0 ELSE m,
                               !.links = refs, !.at = Goes(rest, refs)]
<1>4. x \in RunRecords
  <2>1. Goes(rest, refs) \in RunStages /\ (IF refs = {} THEN 0 ELSE m) \in Docs \cup {0}
    BY <1>2 DEF RunStages, Goes
  <2>2. rest \in SUBSET Docs /\ run[t].seen \cup {m} \in SUBSET Docs
    BY <1>2 DEF RunRecords
  <2> HIDE DEF rest, refs
  <2> QED
    BY <1>3, <2>1, <2>2 DEF RunRecords
<1>5. /\ x.docs = rest /\ x.seen = run[t].seen \cup {m} /\ x.at = Goes(rest, refs)
      /\ x.doc = IF refs = {} THEN 0 ELSE m
      /\ x.links = refs /\ x.made = run[t].made /\ x.on = {}
  BY <1>1 DEF RunRecords, RunFits
<1>6. run' = [run EXCEPT ![t] = x]
  BY <1>1
<1> HIDE DEF x
<1>7. /\ x.at \in Holding /\ x.at # "note" /\ (x.at = "scan" => rest # {})
      /\ x.at = "push" => refs # {}
  BY <1>5 DEF Goes, Holding
<1>8. known' \in Records /\ known'.pushed = known.pushed
  BY <1>1, <1>3 DEF Records
<1>9. \A k \in Docs : known'.notes[k] = IF k = m THEN refs ELSE known.notes[k]
  <2>1. known'.notes = [known.notes EXCEPT ![m] = refs]
    BY <1>1 DEF Records
  <2> QED
    BY <1>2, <2>1
<1>10. \A n \in refs : Lists(m, n)
  BY <1>1 DEF Lists, m
<1> HIDE DEF rest, refs
<1>11. RunFits(x, known')
  <2>1. ASSUME NEW n \in run[t].made
        PROVE  n \in known'.pushed /\ \E k \in run[t].seen : n \in known'.notes[k]
    <3>1. PICK k \in run[t].seen : n \in known.notes[k] /\ n \in known.pushed
      BY <1>1, <2>1 DEF RunFits, Holding
    <3>2. k \in Docs \ {m}
      BY <1>2 DEF RunRecords
    <3> QED
      BY <1>8, <1>9, <3>1, <3>2
  <2>2. x.seen \cap x.docs = {}
    BY <1>1, <1>5 DEF rest, RunFits, Holding
  <2>3. x.at = "push" => x.doc \in x.seen /\ x.links \subseteq known'.notes[x.doc]
    BY <1>2, <1>5, <1>7, <1>9
  <2> QED
    BY <1>5, <1>7, <2>1, <2>2, <2>3 DEF RunFits
<1>12. ASSUME NEW n \in Notes PROVE Owed(known', n) <= Owed(known, n)
  <2>1. Ceased(known', n) => Ceased(known, n)
    BY <1>9, <1>10 DEF Ceased
  <2> QED
    BY <1>8, <2>1 DEF Owed
<1>13. \A n \in Notes : Owed(known', n) \in Nat /\ Owed(known, n) \in Nat
  BY DEF Owed
<1>14. \A n \in Notes : pushes[n] + Owed(known', n) <= 1 + unlisted[n] + unrecorded[n]
  BY <1>2, <1>12, <1>13
<1>15. missed' \in SUBSET Docs
  BY <1>1, <1>2
<1> QED
  BY <1>1, <1>2, <1>4, <1>5, <1>6, <1>7, <1>8, <1>11, <1>14, <1>15, Inside

(* A run is through with a PDF.                                            *)
LEMMA ThroughFits ==
  ASSUME PushInv, NEW t \in Runs, NEW n \in run[t].links, run[t].at \in {"push", "note"},
         NEW made \in SUBSET Notes, Through(t, n, made), NEW rec,
         \A k \in run[t].made \cup made :
           k \in rec.pushed /\ \E m \in run[t].seen : k \in rec.notes[m],
         rec.notes = known.notes
  PROVE  \E x \in RunRecords :
           /\ run' = [run EXCEPT ![t] = x]
           /\ x.at \in Holding /\ x.made = run[t].made \cup made
           /\ RunFits(x, rec)
<1> USE HolderFacts
<1> DEFINE links == run[t].links \ {n}
<1> DEFINE x == [run[t] EXCEPT !.links = links, !.on = {}, !.made = @ \cup made,
                               !.at = Goes(run[t].docs, links),
                               !.doc = IF links = {} THEN 0 ELSE @]
<1>1. x \in RunRecords
  <2>1. Goes(run[t].docs, links) \in RunStages
    BY DEF RunStages, Goes
  <2>2. /\ links \in SUBSET Notes /\ run[t].made \cup made \in SUBSET Notes
        /\ (IF links = {} THEN 0 ELSE run[t].doc) \in Docs \cup {0}
    BY DEF RunRecords
  <2> HIDE DEF links
  <2> QED
    BY <2>1, <2>2 DEF RunRecords
<1>2. /\ x.links = links /\ x.on = {} /\ x.made = run[t].made \cup made
      /\ x.at = Goes(run[t].docs, links) /\ x.docs = run[t].docs /\ x.seen = run[t].seen
      /\ x.doc = IF links = {} THEN 0 ELSE run[t].doc
  BY DEF RunRecords
<1>3. run' = [run EXCEPT ![t] = x]
  BY DEF Through
<1> HIDE DEF x
<1>4. /\ x.at \in Holding /\ x.at # "note" /\ (x.at = "scan" => x.docs # {})
      /\ x.at = "push" => links # {}
  BY <1>2 DEF Goes, Holding
<1>5. /\ run[t].doc \in run[t].seen /\ run[t].links \subseteq known.notes[run[t].doc]
      /\ run[t].seen \cap run[t].docs = {}
  BY DEF RunFits, Holding
<1>6. RunFits(x, rec)
  BY <1>2, <1>4, <1>5 DEF RunFits
<1> QED
  BY <1>1, <1>2, <1>3, <1>4, <1>6

LEMMA SkippedInv ==
  ASSUME PushInv, NEW t \in Runs, NEW n \in Notes,
         SkipPushed(t, n) \/ NotPushed(t, n) \/ PushFails(t, n)
  PROVE  PushInv'
<1> USE HolderFacts
<1>1. /\ run[t].at \in {"push", "note"} /\ n \in run[t].links /\ Through(t, n, {})
      /\ lock = t
  BY DEF SkipPushed, NotPushed, PushFails, At, RunFits, Holding
<1>2. /\ UNCHANGED <<syncs, lists, vaultPdfs, due, waiting, scanned, lock, known, saved,
                     pushes, unlisted, orphaned, unrecorded>>
      /\ missed' = missed \/ missed' = missed \cup {run[t].doc}
  BY DEF SkipPushed, NotPushed, PushFails, vaultVars, countVars
<1>3. missed' \in SUBSET Docs
  <2>1. run[t].doc \in Docs
    BY <1>1 DEF RunFits, RunRecords
  <2> QED
    BY <1>2, <2>1
<1>4. \A k \in run[t].made \cup {} :
         k \in known.pushed /\ \E m \in run[t].seen : k \in known.notes[m]
  BY <1>1 DEF RunFits, Holding
<1>5. PICK x \in RunRecords : /\ run' = [run EXCEPT ![t] = x]
                              /\ x.at \in Holding /\ x.made = run[t].made \cup {}
                              /\ RunFits(x, known)
  <2>1. {} \in SUBSET Notes
    OBVIOUS
  <2> HIDE HolderFacts
  <2> QED
    BY <1>1, <1>4, <2>1, ThroughFits
<1> QED
  BY <1>1, <1>2, <1>3, <1>5, Inside

LEMMA PushAssetInv ==
  ASSUME PushInv, NEW t \in Runs, NEW n \in Notes, PushAsset(t, n) PROVE PushInv'
<1> USE HolderFacts
<1>1. /\ run[t].at = "push" /\ n \in run[t].links /\ n \notin known.pushed /\ lock = t
      /\ UNCHANGED <<syncs, lists, vaultPdfs, due, waiting, scanned, lock, known, saved,
                     missed, pushes, unlisted, orphaned, unrecorded>>
  BY DEF PushAsset, At, RunFits, Holding, vaultVars, countVars
<1> DEFINE x == [run[t] EXCEPT !.at = "note", !.on = {n}]
<1>2. x \in RunRecords
  BY DEF RunRecords, RunStages
<1>3. /\ x.at = "note" /\ x.on = {n} /\ x.made = run[t].made /\ x.docs = run[t].docs
      /\ x.seen = run[t].seen /\ x.doc = run[t].doc /\ x.links = run[t].links
  BY DEF RunRecords
<1>4. run' = [run EXCEPT ![t] = x]
  BY DEF PushAsset
<1> HIDE DEF x
<1>5. RunFits(x, known) /\ x.at \in Holding
  BY <1>1, <1>3 DEF RunFits, Holding
<1> QED
  BY <1>1, <1>2, <1>3, <1>4, <1>5, Inside

LEMMA PushNoteInv ==
  ASSUME PushInv, NEW t \in Runs, NEW n \in Notes, PushNote(t, n) PROVE PushInv'
<1> USE HolderFacts
<1>1. /\ run[t].at = "note" /\ n \in run[t].on /\ n \in run[t].links /\ lock = t
      /\ n \notin known.pushed /\ Through(t, n, {n})
      /\ known' = [known EXCEPT !.pushed = @ \cup {n}]
      /\ pushes' = [pushes EXCEPT ![n] = @ + 1]
      /\ UNCHANGED <<syncs, lists, vaultPdfs, due, waiting, scanned, lock, saved, missed,
                     unlisted, orphaned, unrecorded>>
  BY DEF PushNote, At, RunFits, Holding, vaultVars, countVars
<1>2. n \notin run[t].made
  BY <1>1 DEF RunFits, Holding
<1>3. /\ known' \in Records /\ known'.notes = known.notes
      /\ known'.pushed = known.pushed \cup {n}
  BY <1>1 DEF Records
<1>4. n \in known.notes[run[t].doc] /\ run[t].doc \in run[t].seen
  BY <1>1 DEF RunFits
<1>5. \A k \in run[t].made \cup {n} :
         k \in known'.pushed /\ \E m \in run[t].seen : k \in known'.notes[m]
  BY <1>1, <1>3, <1>4 DEF RunFits, Holding
<1>6. PICK x \in RunRecords : /\ run' = [run EXCEPT ![t] = x]
                              /\ x.at \in Holding /\ x.made = run[t].made \cup {n}
                              /\ RunFits(x, known')
  <2>1. {n} \in SUBSET Notes /\ run[t].at \in {"push", "note"}
    BY <1>1
  <2> HIDE HolderFacts
  <2> QED
    BY <1>1, <1>3, <1>5, <2>1, ThroughFits
<1>7. pushes' \in [Notes -> Nat]
  BY <1>1
<1>8. ASSUME NEW k \in Notes
      PROVE  /\ pushes'[k] + Owed(known', k) <= 1 + unlisted[k] + unrecorded[k]
             /\ pushes'[k] + Owed(saved, k)
                  <= 1 + unlisted[k] + unrecorded[k] + IF k \in x.made THEN 1 ELSE 0
  <2>1. Ceased(known', k) <=> Ceased(known, k)
    BY <1>3 DEF Ceased
  <2>2. /\ pushes[k] + Owed(known, k) <= 1 + unlisted[k] + unrecorded[k]
        /\ pushes[k] + Owed(saved, k)
             <= 1 + unlisted[k] + unrecorded[k] + IF k \in run[t].made THEN 1 ELSE 0
        /\ pushes[k] \in Nat /\ unlisted[k] \in Nat /\ unrecorded[k] \in Nat
        /\ Owed(saved, k) \in Nat
    BY <1>1
  <2>3. CASE k = n
    <3>1. pushes'[k] = pushes[k] + 1
      BY <1>1, <2>3
    <3>2. Owed(known, k) = Owed(known', k) + 1 /\ Owed(known', k) \in Nat
      BY <1>1, <1>3, <2>1, <2>3 DEF Owed
    <3> QED
      BY <1>2, <1>6, <2>2, <2>3, <3>1, <3>2
  <2>4. CASE k # n
    <3>1. pushes'[k] = pushes[k] /\ Owed(known', k) = Owed(known, k)
      BY <1>1, <1>3, <2>1, <2>4 DEF Owed
    <3> QED
      BY <1>6, <2>2, <2>4, <3>1
  <2> QED
    BY <2>3, <2>4
<1> QED
  BY <1>1, <1>3, <1>6, <1>7, <1>8, Inside

(* A run ends: its record is written, or nothing of it is.                 *)
LEMMA ReleaseInv ==
  ASSUME PushInv, NEW t \in Runs, Save(t) \/ RunAborts(t) PROVE PushInv'
<1> USE HolderFacts
<1>1. NoRun \in RunRecords /\ NoRun.at \notin Holding /\ RunFits(NoRun, known')
  BY DEF NoRun, RunRecords, RunStages, Holding, RunFits
<1>2. /\ lock = t /\ lock' = 0 /\ run[t].at # "none" /\ run' = [run EXCEPT ![t] = NoRun]
      /\ UNCHANGED <<syncs, lists, vaultPdfs, due, waiting, scanned, known, pushes, unlisted,
                     orphaned>>
  BY DEF Save, RunAborts, At, Holding, vaultVars, countVars
<1>3. ASSUME NEW n \in Notes
      PROVE  /\ pushes[n] + Owed(known, n) <= 1 + unlisted[n] + unrecorded[n]
             /\ pushes[n] + Owed(saved, n)
                  <= 1 + unlisted[n] + unrecorded[n] + IF n \in run[t].made THEN 1 ELSE 0
             /\ pushes[n] \in Nat /\ unlisted[n] \in Nat /\ unrecorded[n] \in Nat
             /\ Owed(saved, n) \in Nat /\ Owed(known, n) \in Nat
  BY <1>2 DEF Owed
<1>4. CASE Save(t)
  <2>1. saved' = known /\ missed' = missed /\ unrecorded' = unrecorded
    BY <1>4 DEF Save
  <2>2. ASSUME NEW n \in Notes
        PROVE pushes'[n] + Owed(saved', n) <= 1 + unlisted[n] + unrecorded'[n] + 0
    BY <1>2, <1>3, <2>1
  <2> QED
    BY <1>1, <1>2, <2>1, <2>2, Inside
<1>5. CASE RunAborts(t)
  <2>1. /\ saved' = saved /\ missed' = missed \cup run[t].seen \cup run[t].docs
        /\ unrecorded' = Lost(t)
    BY <1>5 DEF RunAborts
  <2>2. missed' \in SUBSET Docs
    BY <2>1 DEF RunRecords
  <2>3. unrecorded' \in [Notes -> Nat]
    BY <2>1 DEF Lost
  <2>4. ASSUME NEW n \in Notes
        PROVE pushes'[n] + Owed(saved', n) <= 1 + unlisted[n] + unrecorded'[n] + 0
    <3>1. unrecorded'[n] = unrecorded[n] + IF n \in run[t].made THEN 1 ELSE 0
      BY <2>1 DEF Lost
    <3> QED
      BY <1>2, <1>3, <2>1, <3>1
  <2> QED
    BY <1>1, <1>2, <2>1, <2>2, <2>3, <2>4, Inside
<1> QED
  BY <1>4, <1>5

(* A run ends before it had the lock.                                      *)
LEMMA RunFailsInv == ASSUME PushInv, NEW t \in Runs, RunFails(t) PROVE PushInv'
<1> USE HolderFacts
<1>1. /\ NoRun \in RunRecords /\ NoRun.at \notin Holding
      /\ NoRun.made = {} /\ NoRun.seen = {} /\ NoRun.on = {}
  BY DEF NoRun, RunRecords, RunStages, Holding
<1>2. /\ run' = [run EXCEPT ![t] = NoRun] /\ run[t].at \notin Holding \cup {"none"}
      /\ UNCHANGED <<syncs, lists, vaultPdfs, due, waiting, scanned, lock, known, saved,
                     pushes, unlisted, orphaned, unrecorded>>
      /\ missed' = missed \cup run[t].docs
  BY DEF RunFails, Holding, vaultVars, countVars
<1>3. missed' \in SUBSET Docs
  BY <1>2 DEF RunRecords
<1>4. due' \in BOOLEAN /\ waiting' \in SUBSET Docs /\ scanned' \in BOOLEAN
  BY <1>2 DEF PushInv, PushTypes
<1> QED
  BY <1>1, <1>2, <1>3, <1>4, Outside

(* A restart: what the run under the lock has pushed is not recorded.      *)
LEMMA StopPushInv == ASSUME PushInv, Stop PROVE PushInv'
<1>1. /\ run' = [t \in Runs |-> NoRun] /\ lock' = 0 /\ 0 \notin Runs
      /\ due' = FALSE /\ waiting' = {} /\ scanned' = FALSE
      /\ UNCHANGED <<syncs, lists, vaultPdfs, known, saved, missed, pushes, unlisted,
                     orphaned>>
      /\ unrecorded' = IF lock = 0 THEN unrecorded ELSE Lost(lock)
  BY PushAssumption DEF Stop, vaultVars, countVars, Runs
<1>2. NoRun \in RunRecords /\ NoRun.at = "none" /\ RunFits(NoRun, known)
  BY DEF NoRun, RunRecords, RunStages, Holding, RunFits
<1>3. PushTypes'
  <2>1. unrecorded' \in [Notes -> Nat]
    BY <1>1 DEF PushInv, PushTypes, Lost
  <2>2. run' \in [Runs -> RunRecords]
    BY <1>1, <1>2
  <2>3. due' \in BOOLEAN /\ scanned' \in BOOLEAN
    BY <1>1, Zenon
  <2> QED
    BY <1>1, <2>1, <2>2, <2>3 DEF PushInv, PushTypes
<1>4. RunsFit'
  BY <1>1, <1>2 DEF RunsFit, Holding
<1>5. ASSUME NEW n \in Notes PROVE Ledger(n)'
  <2>1. unrecorded'[n] = unrecorded[n] + Made(n)
    <3>1. CASE lock = 0
      BY <1>1, <3>1 DEF Made, PushInv, PushTypes
    <3>2. CASE lock # 0
      BY <1>1, <3>2 DEF Made, Lost
    <3> QED
      BY <3>1, <3>2
  <2>2. Owed(saved, n)' = Owed(saved, n) /\ Owed(saved, n) \in Nat
    BY <1>1 DEF Owed, Ceased, Lists, Tagged
  <2>3. Made(n)' = 0 /\ Made(n) \in Nat
    BY <1>1 DEF Made
  <2>4. pushes[n] \in Nat /\ unlisted[n] \in Nat /\ unrecorded[n] \in Nat
    BY DEF PushInv, PushTypes
  <2> QED
    BY <1>1, <2>1, <2>2, <2>3, <2>4 DEF PushInv, Ledger
<1> QED
  BY <1>3, <1>4, <1>5 DEF PushInv

-----------------------------------------------------------------------------
LEMMA CommitFacts ==
  ASSUME PushInv, Commits
  PROVE  \E new \in [Docs -> {Gone, Untagged} \cup Listings], pdfs \in SUBSET Notes :
           Sync(new, pdfs) \/ CommitUnscheduled(new, pdfs)
<1> DEFINE Step(new, pdfs) == Sync(new, pdfs) \/ CommitUnscheduled(new, pdfs)
           After(docs, some) == [m \in Docs |-> IF m \in docs THEN some[m] ELSE lists[m]]
<1>1. PICK docs \in SUBSET Docs, pdfs \in SUBSET UNION Listings :
        \E some \in [docs -> {Gone, Untagged} \cup Listings] : Step(After(docs, some), pdfs)
  BY Zenon DEF Commits
<1>2. PICK some \in [docs -> {Gone, Untagged} \cup Listings] : Step(After(docs, some), pdfs)
  BY <1>1, Zenon
<1>3. After(docs, some) \in [Docs -> {Gone, Untagged} \cup Listings]
  BY DEF PushInv, PushTypes
<1>4. pdfs \in SUBSET Notes
  BY PushAssumption
<1> HIDE DEF Step, After
<1>5. \E new \in [Docs -> {Gone, Untagged} \cup Listings], qs \in SUBSET Notes : Step(new, qs)
  BY <1>2, <1>3, <1>4
<1> QED
  BY <1>5 DEF Step

LEMMA PushStep == PushInv /\ [Next]_vars => PushInv'
<1> SUFFICES ASSUME PushInv, [Next]_vars PROVE PushInv'
  OBVIOUS
<1>1. CASE UNCHANGED pushVars
  <2>1. UNCHANGED <<syncs, lists, vaultPdfs, due, waiting, scanned, run, lock, known, saved,
                    missed, pushes, unlisted, orphaned, unrecorded>>
    BY <1>1 DEF pushVars, vaultVars, countVars
  <2>2. PushTypes' /\ RunsFit'
    BY <2>1 DEF PushInv, PushTypes, RunsFit
  <2>3. \A n \in Notes : Ledger(n)'
    BY <2>1 DEF PushInv, Ledger, Owed, Ceased, Lists, Tagged, Made
  <2> QED
    BY <2>2, <2>3 DEF PushInv
<1>2. CASE Commits
  <2>1. PICK new \in [Docs -> {Gone, Untagged} \cup Listings], pdfs \in SUBSET Notes :
          Sync(new, pdfs) \/ CommitUnscheduled(new, pdfs)
    BY <1>2, CommitFacts
  <2>2. Commit(new, pdfs) /\ \E x \in RunRecords : RunBegins(new, x)
    BY <2>1, CommitBegins
  <2> QED
    BY <2>2, CommitInv
<1>3. ASSUME NEW t \in Runs, RunStep(t) PROVE PushInv'
  <2>1. ASSUME NEW n \in Notes,
               SkipPushed(t, n) \/ NotPushed(t, n) \/ PushAsset(t, n) \/ PushNote(t, n)
        PROVE  PushInv'
    BY <2>1, SkippedInv, PushAssetInv, PushNoteInv
  <2> QED
    BY <1>3, <2>1, EarlyInv, LockInv, ScanUntaggedInv, ScanTaggedInv, ReleaseInv DEF RunStep
<1>4. ASSUME NEW t \in Runs, RunFault(t) PROVE PushInv'
  <2>1. ASSUME NEW n \in Notes, PushFails(t, n) PROVE PushInv'
    BY <2>1, SkippedInv
  <2> QED
    BY <1>4, <2>1, RunFailsInv, ReleaseInv DEF RunFault
<1>5. CASE Stop
  BY <1>5, StopPushInv
<1> QED
  BY <1>1, <1>2, <1>3, <1>4, <1>5 DEF Next, vars

LEMMA PushInvHolds == Spec => []PushInv
<1>1. Init => PushInv
  BY PushInitially DEF Init
<1> QED
  BY <1>1, PushStep, PTL DEF Spec

(* The variables of pusher and renderer keep their types, and one run at a *)
(* time has saber-push.json.                                               *)
THEOREM PushTypesCorrect == Spec => []PushTypeOK
<1>1. RendererInv /\ PushInv => PushTypeOK
  <2> SUFFICES ASSUME RendererInv, PushInv PROVE PushTypeOK
    OBVIOUS
  <2>1. RendererTypeOK /\ PushTypes
    BY DEF RendererInv, PushInv
  <2>2. LockHeld
    BY DEF PushInv, RunsFit, LockHeld, Holding
  <2>3. {pushes, unlisted, orphaned, unrecorded} \subseteq [Notes -> Nat]
    BY <2>1 DEF PushTypes
  <2> QED
    BY <2>1, <2>2, <2>3 DEF PushTypes, PushTypeOK, RunRecords
<1>2. Init => RendererInv
  BY RendererInitially DEF Init
<1> QED
  BY <1>1, <1>2, RendererInPush, PushInvHolds, PTL DEF Spec

(* A PDF is pushed again only after a note that listed it ceased to, or    *)
(* after a push that was not recorded.                                     *)
THEOREM OncePerListing == Spec => []PushedOncePerListing
<1>1. PushInv => PushedOncePerListing
  <2> SUFFICES ASSUME PushInv, NEW n \in Notes
               PROVE  pushes[n] <= 1 + unlisted[n] + unrecorded[n]
    BY DEF PushedOncePerListing
  <2>1. pushes[n] \in Nat /\ unlisted[n] \in Nat /\ unrecorded[n] \in Nat
    BY DEF PushInv, PushTypes
  <2>2. Owed(known, n) \in Nat /\ Owed(saved, n) \in Nat
    BY DEF Owed
  <2>3. CASE lock # 0
    BY <2>1, <2>2, <2>3 DEF PushInv, Ledger
  <2>4. CASE lock = 0
    BY <2>1, <2>2, <2>4 DEF PushInv, Ledger, Made
  <2> QED
    BY <2>3, <2>4
<1> QED
  BY <1>1, PushInvHolds, PTL

-----------------------------------------------------------------------------
(***************************************************************************)
(* Why a listing leads to a push: a note on its way to a scan is in a      *)
(* batch, and one that is on no such way is in the record with its PDFs,   *)
(* in the file too unless the run that holds the lock has read it.         *)
(***************************************************************************)
Awaited(m, n)      == \E t \in Runs : run[t].doc = m /\ n \in run[t].links
Settled(rec, m, n) == n \in rec.notes[m] /\ n \in rec.pushed

ListingKept(m, n) ==
  scanned /\ Lists(m, n) /\ m \notin missed /\ ~Expects(m) =>
    /\ lock # 0 => Settled(known, m, n) \/ Awaited(m, n)
    /\ lock = 0 \/ m \notin run[lock].seen => Settled(saved, m, n)

(* Before the vault is scanned, a run that is about to scan all of it      *)
(* knows each note, or another run has it.                                 *)
ScanCovers(t) ==
  ~scanned /\ run[t].at = "mark" =>
    \A m \in Docs : Tagged(m) =>
      \/ m \in run[t].all \/ m \in missed \/ m \in waiting
      \/ \E u \in Runs \ {t} : m \in run[u].docs

Shape(r) ==
  /\ r.at \in {"none", "sleep", "save"} => r.docs = {}
  /\ r.at \notin {"push", "note"} => r.links = {}
  /\ r.at \in Holding \cup {"lock"} => scanned

ListingInv ==
  /\ ~due => waiting = {}
  /\ \A t \in Runs : Shape(run[t]) /\ ScanCovers(t)
  /\ \A m \in Docs, n \in Notes : ListingKept(m, n)

LEMMA ListingFacts ==
  ASSUME PushInv, ListingInv
  PROVE  /\ run \in [Runs -> RunRecords] /\ 0 \notin Runs /\ lock \in {0} \cup Runs
         /\ waiting \in SUBSET Docs /\ missed \in SUBSET Docs
         /\ \A t \in Runs : /\ lock = t <=> run[t].at \in Holding
                            /\ run[t] \in RunRecords /\ RunFits(run[t], known)
                            /\ run[t].at \notin {"push", "note"} => run[t].links = {}
                            /\ run[t].at \in Holding => scanned
<1>1. /\ run \in [Runs -> RunRecords] /\ lock \in {0} \cup Runs
      /\ waiting \in SUBSET Docs /\ missed \in SUBSET Docs
  BY DEF PushInv, PushTypes
<1>2. 0 \notin Runs
  BY PushAssumption DEF Runs
<1>3. ASSUME NEW t \in Runs
      PROVE  /\ run[t].at \notin {"push", "note"} => run[t].links = {}
             /\ run[t].at \in Holding => scanned
  BY DEF ListingInv, Shape
<1> QED
  BY <1>1, <1>2, <1>3, HolderFacts

(* Only the holder of the lock has PDFs of a note before it.               *)
LEMMA AwaitedByHolder ==
  ASSUME PushInv, ListingInv, NEW m, NEW n, Awaited(m, n)
  PROVE  lock \in Runs /\ run[lock].doc = m /\ n \in run[lock].links
<1>1. PICK t \in Runs : run[t].doc = m /\ n \in run[t].links
  BY DEF Awaited
<1>2. run[t].at \in {"push", "note"}
  BY <1>1, ListingFacts
<1>3. lock = t
  BY <1>2, ListingFacts DEF Holding
<1> QED
  BY <1>1, <1>3

LEMMA ListingInitially == PushInit => ListingInv
<1> SUFFICES ASSUME PushInit PROVE ListingInv
  OBVIOUS
<1>1. \A t \in Runs : Shape(run[t]) /\ ScanCovers(t)
  BY DEF PushInit, NoRun, Shape, ScanCovers, Holding
<1>2. \A m \in Docs, n \in Notes : ListingKept(m, n)
  BY DEF PushInit, ListingKept
<1> QED
  BY <1>1, <1>2 DEF ListingInv, PushInit

(* A step outside the lock: no note that waits is dropped unrecorded.      *)
LEMMA OutsideListing ==
  ASSUME PushInv, ListingInv, NEW t \in Runs, NEW x \in RunRecords,
         run' = [run EXCEPT ![t] = x],
         run[t].at \notin Holding, x.at \notin Holding, x.links = {}, Shape(x),
         UNCHANGED <<lists, lock, known, saved, scanned>>,
         missed \subseteq missed', ~due' => waiting' = {},
         \A m \in run[t].docs \cup waiting : m \in x.docs \cup waiting' \cup missed',
         ScanCovers(t)'
  PROVE  ListingInv'
<1>1. run'[t] = x /\ \A u \in Runs \ {t} : run'[u] = run[u]
  BY ListingFacts
<1>2. \A m \in Docs : Expects(m) /\ m \notin missed' => Expects(m)'
  BY <1>1 DEF Expects
<1>3. \A m \in Docs : Tagged(m)' = Tagged(m) /\ \A n \in Notes : Lists(m, n)' = Lists(m, n)
  BY DEF Tagged, Lists
<1>4. ASSUME NEW u \in Runs PROVE Shape(run[u])' /\ ScanCovers(u)'
  <2>1. CASE u = t
    BY <1>1, <2>1 DEF Shape
  <2>2. CASE u # t
    <3>1. Shape(run[u]) /\ ScanCovers(u) /\ run'[u] = run[u]
      BY <1>1, <2>2 DEF ListingInv
    <3>2. ASSUME ~scanned, run[u].at = "mark", NEW m \in Docs, Tagged(m)
          PROVE  \/ m \in run[u].all \/ m \in missed' \/ m \in waiting'
                 \/ \E v \in Runs \ {u} : m \in run'[v].docs
      <4>1. \/ m \in run[u].all \/ m \in missed \/ m \in waiting
            \/ \E v \in Runs \ {u} : m \in run[v].docs
        BY <3>1, <3>2 DEF ScanCovers
      <4> QED
        BY <1>1, <2>2, <4>1
    <3> QED
      BY <1>3, <3>1, <3>2 DEF Shape, ScanCovers
  <2> QED
    BY <2>1, <2>2
<1>5. ASSUME NEW m \in Docs, NEW n \in Notes PROVE ListingKept(m, n)'
  <2>1. ListingKept(m, n)
    BY DEF ListingInv
  <2>2. Awaited(m, n) => Awaited(m, n)'
    <3>1. run[t].links = {}
      BY ListingFacts DEF Holding
    <3> QED
      BY <1>1, <3>1 DEF Awaited
  <2>3. lock # 0 => run'[lock] = run[lock]
    BY <1>1, ListingFacts
  <2>4. m \notin missed' => m \notin missed
    OBVIOUS
  <2> QED
    BY <1>2, <1>3, <2>1, <2>2, <2>3, <2>4 DEF ListingKept, Settled
<1> QED
  BY <1>4, <1>5 DEF ListingInv

(* A step of the run that holds the lock, which keeps it.                  *)
LEMMA InsideListing ==
  ASSUME PushInv, ListingInv, NEW t \in Runs, NEW x \in RunRecords,
         run' = [run EXCEPT ![t] = x], lock = t, lock' = t, x.at \in Holding, Shape(x),
         UNCHANGED <<lists, saved, scanned, due, waiting>>,
         x.docs \subseteq run[t].docs, run[t].seen \subseteq x.seen,
         \A m \in Docs \ x.docs, n \in Notes :
           Lists(m, n) /\ m \notin missed' =>
             LET before == Settled(known, m, n) \/ (run[t].doc = m /\ n \in run[t].links)
                 after  == Settled(known', m, n) \/ (x.doc = m /\ n \in x.links)
             IN IF m \in run[t].docs THEN m \in x.seen /\ after
                ELSE m \notin missed /\ (before => after)
  PROVE  ListingInv'
<1>1. run'[t] = x /\ \A u \in Runs \ {t} : run'[u] = run[u]
  BY ListingFacts
<1>2. scanned /\ 0 \notin Runs /\ t # 0
  BY ListingFacts
<1>3. ASSUME NEW u \in Runs PROVE Shape(run[u])' /\ ScanCovers(u)'
  <2>1. Shape(run[u])
    BY DEF ListingInv
  <2> QED
    BY <1>1, <1>2, <2>1 DEF Shape, ScanCovers
<1>4. ASSUME NEW m \in Docs, NEW n \in Notes, Lists(m, n), m \notin missed', ~Expects(m)'
      PROVE  /\ Settled(known', m, n) \/ Awaited(m, n)'
             /\ m \notin x.seen => Settled(saved, m, n)
  <2> DEFINE after == Settled(known', m, n) \/ (x.doc = m /\ n \in x.links)
  <2>1. m \notin waiting /\ m \notin x.docs /\ \A u \in Runs \ {t} : m \notin run[u].docs
    BY <1>1, <1>4 DEF Expects
  <2>2. after => Settled(known', m, n) \/ Awaited(m, n)'
    BY <1>1 DEF Awaited
  <2>3. CASE m \in run[t].docs
    BY <1>4, <2>1, <2>2, <2>3
  <2>4. CASE m \notin run[t].docs
    <3>1. m \notin missed /\ ~Expects(m)
      BY <1>4, <2>1, <2>4 DEF Expects
    <3>2. /\ Settled(known, m, n) \/ Awaited(m, n)
          /\ m \notin run[t].seen => Settled(saved, m, n)
      BY <1>2, <1>4, <3>1 DEF ListingInv, ListingKept
    <3>3. Settled(known, m, n) \/ (run[t].doc = m /\ n \in run[t].links)
      BY <3>2, AwaitedByHolder
    <3>4. after
      BY <1>4, <2>1, <2>4, <3>3
    <3> QED
      BY <2>2, <3>2, <3>4
  <2> QED
    BY <2>3, <2>4
<1>5. ASSUME NEW m \in Docs, NEW n \in Notes PROVE ListingKept(m, n)'
  BY <1>1, <1>2, <1>4 DEF ListingKept, Lists, Tagged, Settled
<1>6. ~due' => waiting' = {}
  BY DEF ListingInv
<1> QED
  BY <1>3, <1>5, <1>6 DEF ListingInv

-----------------------------------------------------------------------------
LEMMA CommitListing ==
  ASSUME PushInv, ListingInv, NEW new \in [Docs -> {Gone, Untagged} \cup Listings],
         NEW pdfs \in SUBSET Notes, Commit(new, pdfs),
         NEW x \in RunRecords, RunBegins(new, x)
  PROVE  ListingInv'
<1> DEFINE s == syncs + 1
<1>1. s \in Runs /\ run \in [Runs -> RunRecords]
  BY PushAssumption DEF PushInv, PushTypes, Commit, Runs
<1>2. /\ x = run[s] \/ (x.at = "spawned" /\ x.links = {})
      /\ Changed(new) \subseteq x.docs \cup missed' /\ missed \subseteq missed'
  BY DEF RunBegins
<1>3. run' = [run EXCEPT ![s] = x] /\ lists' = new
      /\ UNCHANGED <<due, waiting, scanned, lock, known, saved>>
  BY DEF Commit, RunBegins
<1>4. run'[s] = x /\ \A u \in Runs \ {s} : run'[u] = run[u]
  BY <1>1, <1>3
<1>5. run[s].at = "none" /\ run[s].docs = {} /\ run[s].links = {} /\ lock # s
  BY <1>1, ListingFacts DEF PushInv, PushTypes, RunsFit, Holding, ListingInv, Shape
<1> HIDE DEF s
<1>6. ASSUME NEW m \in Docs
      PROVE  lists'[m] = lists[m] \/ m \in run'[s].docs \/ m \in missed'
  BY <1>2, <1>3, <1>4 DEF Changed
<1>7. \A m \in Docs : Expects(m) => Expects(m)'
  BY <1>3, <1>4, <1>5 DEF Expects
<1>8. \A m \in Docs : m \in run'[s].docs => Expects(m)'
  BY <1>1 DEF Expects
<1>9. ASSUME NEW u \in Runs PROVE Shape(run[u])' /\ ScanCovers(u)'
  <2>1. CASE u = s
    BY <1>2, <1>4, <1>5, <2>1 DEF Shape, ScanCovers, Holding
  <2>2. CASE u # s
    <3>1. Shape(run[u]) /\ ScanCovers(u) /\ run'[u] = run[u]
      BY <1>4, <2>2 DEF ListingInv
    <3>2. ASSUME ~scanned, run[u].at = "mark", NEW m \in Docs, Tagged(m)'
          PROVE  \/ m \in run[u].all \/ m \in missed' \/ m \in waiting
                 \/ \E v \in Runs \ {u} : m \in run'[v].docs
      <4>1. CASE m \in run'[s].docs
        BY <1>1, <2>2, <4>1
      <4>2. CASE lists'[m] = lists[m]
        <5>1. \/ m \in run[u].all \/ m \in missed \/ m \in waiting
              \/ \E v \in Runs \ {u} : m \in run[v].docs
          BY <3>1, <3>2, <4>2 DEF ScanCovers, Tagged
        <5> QED
          BY <1>2, <1>4, <1>5, <5>1
      <4> QED
        BY <1>6, <4>1, <4>2
    <3> QED
      BY <1>3, <3>1, <3>2 DEF Shape, ScanCovers
  <2> QED
    BY <2>1, <2>2
<1>10. ASSUME NEW m \in Docs, NEW n \in Notes PROVE ListingKept(m, n)'
  <2>1. CASE m \in run'[s].docs
    BY <1>8, <2>1 DEF ListingKept
  <2>3. CASE m \in missed'
    BY <2>3 DEF ListingKept
  <2>2. CASE lists'[m] = lists[m]
    <3>1. ListingKept(m, n) /\ (Lists(m, n)' <=> Lists(m, n))
      BY <2>2 DEF ListingInv, Lists, Tagged
    <3>2. Awaited(m, n) => Awaited(m, n)'
      BY <1>4, <1>5 DEF Awaited
    <3>3. lock # 0 => run'[lock] = run[lock]
      BY <1>4, <1>5, ListingFacts
    <3> QED
      BY <1>2, <1>3, <1>7, <3>1, <3>2, <3>3 DEF ListingKept, Settled
  <2> QED
    BY <1>6, <2>1, <2>2, <2>3
<1> QED
  BY <1>3, <1>9, <1>10 DEF ListingInv

(* The steps before the lock.                                              *)
LEMMA QueueListing ==
  ASSUME PushInv, ListingInv, NEW t \in Runs, QueueDocs(t) \/ TakeDocs(t)
  PROVE  ListingInv'
<1>1. run[t].at \in {"spawned", "sleep"} /\ run[t].at \notin Holding
      /\ (run[t].at = "sleep" => run[t].docs = {})
      /\ waiting \in SUBSET Docs /\ run[t] \in RunRecords /\ (~due => waiting = {})
  BY ListingFacts DEF QueueDocs, TakeDocs, At, Holding, ListingInv, Shape
<1>2. CASE QueueDocs(t)
  <2> DEFINE x == [NoRun EXCEPT !.at = "sleep"]
  <2>1. x \in RunRecords /\ x.at = "sleep" /\ x.docs = {} /\ x.links = {}
    BY DEF NoRun, RunRecords, RunStages
  <2>2. /\ run' = [run EXCEPT ![t] = x] /\ due' = TRUE /\ waiting' = waiting \cup run[t].docs
        /\ UNCHANGED <<lists, lock, known, saved, scanned, missed>>
    BY <1>2 DEF QueueDocs, vaultVars
  <2> HIDE DEF x
  <2>3. x.at \notin Holding /\ Shape(x) /\ ScanCovers(t)'
    BY <2>1, <2>2, ListingFacts DEF Holding, Shape, ScanCovers
  <2> QED
    BY <1>1, <2>1, <2>2, <2>3, OutsideListing
<1>3. CASE TakeDocs(t)
  <2> DEFINE x == IF due THEN [NoRun EXCEPT !.at = "list", !.docs = waiting] ELSE NoRun
  <2>1. /\ x \in RunRecords /\ x.links = {} /\ x.docs = waiting
        /\ x.at \in {"list", "none"} /\ (x.at = "none" => x.docs = {})
    BY <1>1 DEF NoRun, RunRecords, RunStages
  <2>2. /\ run' = [run EXCEPT ![t] = x] /\ waiting' = {} /\ run[t].docs = {}
        /\ UNCHANGED <<lists, lock, known, saved, scanned, missed>>
    BY <1>1, <1>3 DEF TakeDocs, At, vaultVars
  <2> HIDE DEF x
  <2>3. x.at \notin Holding /\ Shape(x) /\ ScanCovers(t)'
    BY <2>1, <2>2, ListingFacts DEF Holding, Shape, ScanCovers
  <2> QED
    BY <1>1, <2>1, <2>2, <2>3, OutsideListing
<1> QED
  BY <1>2, <1>3

LEMMA ListPathsListing ==
  ASSUME PushInv, ListingInv, NEW t \in Runs, ListPaths(t)
  PROVE  ListingInv'
<1> DEFINE x == [run[t] EXCEPT !.at = "mark", !.pdfs = vaultPdfs,
                               !.all = {m \in Docs : lists[m] # Gone}]
<1>1. /\ run[t].at = "list" /\ run[t].at \notin Holding /\ run[t] \in RunRecords
      /\ run[t].links = {} /\ vaultPdfs \in SUBSET Notes
  BY ListingFacts DEF ListPaths, At, Holding, PushInv, PushTypes
<1>2. x \in RunRecords
  BY <1>1 DEF RunRecords, RunStages
<1>3. x.at = "mark" /\ x.docs = run[t].docs /\ x.links = {}
      /\ x.all = {m \in Docs : lists[m] # Gone}
  BY <1>1 DEF RunRecords
<1>4. /\ run' = [run EXCEPT ![t] = x] /\ UNCHANGED <<due, waiting>>
      /\ UNCHANGED <<lists, lock, known, saved, scanned, missed>>
  BY DEF ListPaths, vaultVars
<1> HIDE DEF x
<1>5. run'[t] = x
  BY <1>4, ListingFacts
<1>6. x.at \notin Holding /\ Shape(x) /\ ScanCovers(t)'
  <2>1. \A m \in Docs : Tagged(m)' => m \in x.all
    BY <1>3, <1>4, PushAssumption DEF Tagged
  <2> QED
    BY <1>3, <1>5, <2>1 DEF Holding, Shape, ScanCovers
<1>7. ~due' => waiting' = {}
  BY <1>4 DEF ListingInv
<1> QED
  BY <1>1, <1>2, <1>3, <1>4, <1>6, <1>7, OutsideListing

(* The first run to get here takes the whole vault on.                     *)
LEMMA MarkScannedListing ==
  ASSUME PushInv, ListingInv, NEW t \in Runs, MarkScanned(t)
  PROVE  ListingInv'
<1> DEFINE x == [run[t] EXCEPT !.at = "lock", !.all = {},
                   !.docs = IF scanned THEN run[t].docs ELSE run[t].all]
<1>1. /\ run[t].at = "mark" /\ run[t].at \notin Holding /\ run[t] \in RunRecords
      /\ run[t].links = {}
  BY ListingFacts DEF MarkScanned, At, Holding
<1>2. x \in RunRecords
  BY <1>1 DEF RunRecords, RunStages
<1>3. /\ x.at = "lock" /\ x.links = {}
      /\ x.docs = IF scanned THEN run[t].docs ELSE run[t].all
  BY <1>1 DEF RunRecords
<1>4. /\ run' = [run EXCEPT ![t] = x] /\ scanned' = TRUE
      /\ UNCHANGED <<lists, lock, known, saved, missed, due, waiting>>
  BY DEF MarkScanned, vaultVars
<1> HIDE DEF x
<1>5. run'[t] = x /\ \A u \in Runs \ {t} : run'[u] = run[u]
  BY <1>4, ListingFacts
<1>6. ~due' => waiting' = {}
  BY <1>4 DEF ListingInv
<1>7. x.at \notin Holding /\ ScanCovers(t)'
  BY <1>3, <1>5 DEF Holding, ScanCovers
<1>8. CASE scanned
  <2>1. Shape(x) /\ scanned' = scanned
    BY <1>3, <1>4, <1>8, Zenon DEF Shape
  <2> QED
    BY <1>1, <1>2, <1>3, <1>4, <1>6, <1>7, <1>8, <2>1, OutsideListing
<1>9. CASE ~scanned
  <2>1. ASSUME NEW m \in Docs, NEW n \in Notes PROVE ListingKept(m, n)'
    <3>1. Tagged(m) /\ m \notin missed => Expects(m)'
      <4>1. Tagged(m) => \/ m \in run[t].all \/ m \in missed \/ m \in waiting
                         \/ \E u \in Runs \ {t} : m \in run[u].docs
        BY <1>1, <1>9 DEF ListingInv, ScanCovers
      <4> QED
        BY <1>3, <1>4, <1>5, <1>9, <4>1 DEF Expects
    <3> QED
      BY <1>4, <3>1 DEF ListingKept, Lists, Tagged
  <2>2. ASSUME NEW u \in Runs PROVE Shape(run[u])' /\ ScanCovers(u)'
    BY <1>3, <1>4, <1>5 DEF ListingInv, Shape, ScanCovers
  <2> QED
    BY <1>6, <2>1, <2>2 DEF ListingInv
<1> QED
  BY <1>8, <1>9

LEMMA RunFailsListing ==
  ASSUME PushInv, ListingInv, NEW t \in Runs, RunFails(t)
  PROVE  ListingInv'
<1>1. /\ NoRun \in RunRecords /\ NoRun.at = "none" /\ NoRun.links = {} /\ NoRun.docs = {}
  BY DEF NoRun, RunRecords, RunStages
<1>2. /\ run' = [run EXCEPT ![t] = NoRun] /\ run[t].at \notin Holding
      /\ UNCHANGED <<lists, lock, known, saved, scanned, due, waiting>>
      /\ missed' = missed \cup run[t].docs
  BY DEF RunFails, Holding, vaultVars
<1>3. NoRun.at \notin Holding /\ Shape(NoRun) /\ ScanCovers(t)'
  BY <1>1, <1>2, ListingFacts DEF Holding, Shape, ScanCovers
<1>4. ~due' => waiting' = {}
  BY <1>2 DEF ListingInv
<1> QED
  BY <1>1, <1>2, <1>3, <1>4, OutsideListing

(* The lock is taken: what the file says is what the run knows.            *)
LEMMA LockListing ==
  ASSUME PushInv, ListingInv, NEW t \in Runs, Lock(t)
  PROVE  ListingInv'
<1> DEFINE x == [run[t] EXCEPT !.at = IF run[t].docs = {} THEN "save" ELSE "scan"]
<1>1. /\ lock = 0 /\ lock' = t /\ known' = saved /\ run[t].at = "lock"
      /\ run' = [run EXCEPT ![t] = x]
      /\ UNCHANGED <<lists, due, waiting, scanned, saved, missed>>
  BY DEF Lock, At, vaultVars
<1>2. run[t] \in RunRecords /\ run[t].links = {} /\ scanned
  BY <1>1, ListingFacts DEF ListingInv, Shape
<1>3. /\ x.at = IF run[t].docs = {} THEN "save" ELSE "scan"
      /\ x.docs = run[t].docs /\ x.links = {}
  BY <1>2 DEF RunRecords
<1> HIDE DEF x
<1>4. run'[t] = x /\ \A u \in Runs \ {t} : run'[u] = run[u]
  BY <1>1, ListingFacts
<1>5. ASSUME NEW u \in Runs PROVE Shape(run[u])' /\ ScanCovers(u)'
  BY <1>1, <1>2, <1>3, <1>4 DEF ListingInv, Shape, ScanCovers
<1>6. ASSUME NEW m \in Docs, NEW n \in Notes PROVE ListingKept(m, n)'
  <2>1. Expects(m)' <=> Expects(m)
    BY <1>1, <1>3, <1>4 DEF Expects
  <2>2. Lists(m, n)' <=> Lists(m, n)
    BY <1>1 DEF Lists, Tagged
  <2>3. ListingKept(m, n)
    BY DEF ListingInv
  <2> QED
    BY <1>1, <2>1, <2>2, <2>3 DEF ListingKept, Settled
<1>7. ~due' => waiting' = {}
  BY <1>1 DEF ListingInv
<1> QED
  BY <1>5, <1>6, <1>7 DEF ListingInv

-----------------------------------------------------------------------------
(* The steps under the lock.                                               *)
LEMMA ScanListing ==
  ASSUME PushInv, ListingInv, NEW t \in Runs, ScanUntagged(t) \/ ScanTagged(t)
  PROVE  ListingInv'
<1> DEFINE m    == First(run[t].docs)
           rest == run[t].docs \ {m}
           refs == lists[m] \cap run[t].pdfs
           others == UNION {known.notes[k] : k \in Docs \ {m}}
<1>1. /\ run[t].at = "scan" /\ lock = t /\ run[t] \in RunRecords /\ run[t].links = {}
      /\ run[t].docs # {} /\ run[t].docs \in SUBSET Docs /\ scanned
      /\ known.notes \in [Docs -> SUBSET Notes] /\ known.pushed \in SUBSET Notes
      /\ known \in Records
  BY HolderFacts, ListingFacts
     DEF ScanUntagged, ScanTagged, At, Holding, RunFits, RunRecords
<1>2. /\ lock' = lock
      /\ UNCHANGED <<lists, saved, scanned, due, waiting>>
  BY DEF ScanUntagged, ScanTagged, vaultVars
<1>3. m \in run[t].docs /\ m \in Docs
  BY <1>1, FirstIsIn
<1>4. CASE ScanUntagged(t)
  <2> DEFINE x == [run[t] EXCEPT !.docs = rest, !.seen = run[t].seen \cup {m},
                                 !.at = Goes(rest, {})]
  <2>1. /\ run' = [run EXCEPT ![t] = x] /\ known' = Forget(m) /\ ~Tagged(m)
        /\ missed' = missed
    BY <1>4 DEF ScanUntagged
  <2> HIDE DEF m
  <2>2. x \in RunRecords
    BY <1>1, <1>3 DEF RunRecords, RunStages, Goes
  <2>3. /\ x.docs = rest /\ x.seen = run[t].seen \cup {m} /\ x.at = Goes(rest, {})
        /\ x.links = {}
    BY <1>1 DEF RunRecords
  <2> HIDE DEF x
  <2>4. x.at \in Holding /\ Shape(x)
    BY <1>1, <2>3 DEF Goes, Holding, Shape
  <2>5. /\ known'.notes = [known.notes EXCEPT ![m] = {}]
        /\ known'.pushed = known.pushed \ (known.notes[m] \ others)
    BY <2>1 DEF Forget, NoList
  <2>6. ASSUME NEW k \in Docs \ {m}, NEW n \in Notes, Settled(known, k, n)
        PROVE  Settled(known', k, n)
    <3>1. n \in known.notes[k] /\ n \in known.pushed
      BY <2>6 DEF Settled
    <3>2. n \in others
      BY <2>6, <3>1
    <3> QED
      BY <1>1, <1>3, <2>5, <3>1, <3>2 DEF Settled
  <2>7. ASSUME NEW k \in Docs \ x.docs, NEW n \in Notes, Lists(k, n), k \notin missed'
        PROVE  /\ k \notin run[t].docs /\ k \notin missed
               /\ Settled(known, k, n) => Settled(known', k, n)
    <3>1. k # m
      BY <2>1, <2>7 DEF Lists
    <3> QED
      BY <2>1, <2>3, <2>6, <2>7, <3>1
  <2>8. x.docs \subseteq run[t].docs /\ run[t].seen \subseteq x.seen
    BY <2>3
  <2> QED
    BY <1>1, <1>2, <2>1, <2>2, <2>4, <2>7, <2>8, InsideListing
<1>5. CASE ScanTagged(t)
  <2> DEFINE x == [run[t] EXCEPT !.docs = rest, !.seen = run[t].seen \cup {m},
                                 !.doc = IF refs = {} THEN 0 ELSE m,
                                 !.links = refs, !.at = Goes(rest, refs)]
  <2>1. /\ run' = [run EXCEPT ![t] = x] /\ known' = [known EXCEPT !.notes[m] = refs]
        /\ missed' = IF refs = lists[m] THEN missed \ {m} ELSE missed \cup {m}
    BY <1>5 DEF ScanTagged
  <2> HIDE DEF m
  <2>2. refs \in SUBSET Notes
    BY <1>1 DEF RunRecords
  <2>3. x \in RunRecords
    <3>1. Goes(rest, refs) \in RunStages /\ (IF refs = {} THEN 0 ELSE m) \in Docs \cup {0}
      BY <1>3 DEF RunStages, Goes
    <3>2. rest \in SUBSET Docs /\ run[t].seen \cup {m} \in SUBSET Docs
      BY <1>1, <1>3 DEF RunRecords
    <3> HIDE DEF rest, refs
    <3> QED
      BY <1>1, <2>2, <3>1, <3>2 DEF RunRecords
  <2>4. /\ x.docs = rest /\ x.seen = run[t].seen \cup {m} /\ x.at = Goes(rest, refs)
        /\ x.links = refs /\ x.doc = IF refs = {} THEN 0 ELSE m
    BY <1>1 DEF RunRecords
  <2> HIDE DEF x
  <2>5. x.at \in Holding /\ Shape(x)
    BY <1>1, <2>4 DEF Goes, Holding, Shape
  <2>6. known'.notes = [known.notes EXCEPT ![m] = refs] /\ known'.pushed = known.pushed
    BY <1>1, <2>1 DEF Records
  <2>7. ASSUME NEW k \in Docs \ x.docs, NEW n \in Notes, Lists(k, n), k \notin missed'
        PROVE  IF k \in run[t].docs
               THEN k \in x.seen /\ x.doc = k /\ n \in x.links
               ELSE k \notin missed /\ (Settled(known, k, n) => Settled(known', k, n))
    <3>1. CASE k = m
      <4>1. refs = lists[m] /\ n \in refs
        BY <2>1, <2>7, <3>1 DEF Lists
      <4> QED
        BY <1>3, <2>4, <3>1, <4>1
    <3>2. CASE k # m
      <4>1. k \notin run[t].docs /\ k \notin missed
        BY <2>1, <2>4, <2>7, <3>2
      <4>2. known'.notes[k] = known.notes[k]
        BY <1>1, <2>6, <2>7, <3>2
      <4> QED
        BY <2>6, <4>1, <4>2 DEF Settled
    <3> QED
      BY <3>1, <3>2
  <2>8. x.docs \subseteq run[t].docs /\ run[t].seen \subseteq x.seen
    BY <2>4
  <2> QED
    BY <1>1, <1>2, <2>1, <2>3, <2>5, <2>7, <2>8, InsideListing
<1> QED
  BY <1>4, <1>5

(* A PDF is through: it was pushed, now or before, or its note is missed.  *)
LEMMA ThroughListing ==
  ASSUME PushInv, ListingInv, NEW t \in Runs, NEW n \in Notes, NEW made \in SUBSET Notes,
         run[t].at \in {"push", "note"}, n \in run[t].links, Through(t, n, made),
         UNCHANGED <<lists, saved, scanned, due, waiting, lock>>,
         known'.notes = known.notes, known.pushed \subseteq known'.pushed,
         missed \subseteq missed', n \in known'.pushed \/ run[t].doc \in missed'
  PROVE  ListingInv'
<1> DEFINE links == run[t].links \ {n}
           x == [run[t] EXCEPT !.links = links, !.on = {}, !.made = @ \cup made,
                               !.at = Goes(run[t].docs, links),
                               !.doc = IF links = {} THEN 0 ELSE @]
<1>1. /\ run[t] \in RunRecords /\ lock = t /\ scanned
      /\ run[t].links \subseteq known.notes[run[t].doc]
  BY ListingFacts DEF Holding, RunFits
<1>2. x \in RunRecords
  <2>1. Goes(run[t].docs, links) \in RunStages
    BY DEF RunStages, Goes
  <2>2. /\ links \in SUBSET Notes /\ run[t].made \cup made \in SUBSET Notes
        /\ (IF links = {} THEN 0 ELSE run[t].doc) \in Docs \cup {0}
    BY <1>1 DEF RunRecords
  <2> HIDE DEF links
  <2> QED
    BY <1>1, <2>1, <2>2 DEF RunRecords
<1>3. /\ x.links = links /\ x.at = Goes(run[t].docs, links) /\ x.docs = run[t].docs
      /\ x.seen = run[t].seen /\ x.doc = IF links = {} THEN 0 ELSE run[t].doc
  BY <1>1 DEF RunRecords
<1>4. run' = [run EXCEPT ![t] = x]
  BY DEF Through
<1> HIDE DEF x
<1>5. x.at \in Holding /\ Shape(x)
  BY <1>1, <1>3 DEF Goes, Holding, Shape
<1>6. ASSUME NEW m \in Docs \ x.docs, NEW k \in Notes, m \notin missed',
             Settled(known, m, k) \/ (run[t].doc = m /\ k \in run[t].links)
      PROVE  Settled(known', m, k) \/ (x.doc = m /\ k \in x.links)
  <2>1. CASE Settled(known, m, k)
    BY <2>1 DEF Settled
  <2>2. CASE run[t].doc = m /\ k \in run[t].links /\ k # n
    BY <1>3, <2>2
  <2>3. CASE run[t].doc = m /\ k = n
    BY <1>1, <1>6, <2>3 DEF Settled
  <2> QED
    BY <1>6, <2>1, <2>2, <2>3
<1> QED
  BY <1>1, <1>2, <1>3, <1>4, <1>5, <1>6, InsideListing

LEMMA PushListing ==
  ASSUME PushInv, ListingInv, NEW t \in Runs, NEW n \in Notes,
         SkipPushed(t, n) \/ NotPushed(t, n) \/ PushFails(t, n) \/ PushNote(t, n)
  PROVE  ListingInv'
<1>1. run[t].at \in {"push", "note"} /\ n \in run[t].links /\ known \in Records
  BY ListingFacts, HolderFacts
     DEF SkipPushed, NotPushed, PushFails, PushNote, At, RunFits
<1>2. UNCHANGED <<lists, saved, scanned, due, waiting, lock>>
  BY DEF SkipPushed, NotPushed, PushFails, PushNote, vaultVars
<1>3. CASE PushNote(t, n)
  <2>1. /\ known'.notes = known.notes /\ known'.pushed = known.pushed \cup {n}
        /\ Through(t, n, {n}) /\ missed' = missed
    BY <1>1, <1>3 DEF PushNote, Records
  <2>2. {n} \in SUBSET Notes /\ n \in known'.pushed /\ known.pushed \subseteq known'.pushed
    BY <2>1
  <2> QED
    BY <1>1, <1>2, <2>1, <2>2, ThroughListing
<1>4. CASE SkipPushed(t, n) \/ NotPushed(t, n) \/ PushFails(t, n)
  <2>1. /\ known' = known /\ Through(t, n, {}) /\ missed \subseteq missed'
        /\ n \in known.pushed \/ run[t].doc \in missed'
    BY <1>4 DEF SkipPushed, NotPushed, PushFails
  <2>2. {} \in SUBSET Notes
    OBVIOUS
  <2> QED
    BY <1>1, <1>2, <2>1, <2>2, ThroughListing
<1> QED
  BY <1>3, <1>4

LEMMA PushAssetListing ==
  ASSUME PushInv, ListingInv, NEW t \in Runs, NEW n \in Notes, PushAsset(t, n)
  PROVE  ListingInv'
<1> DEFINE x == [run[t] EXCEPT !.at = "note", !.on = {n}]
<1>1. /\ run[t].at = "push" /\ n \in run[t].links /\ lock = t /\ run[t] \in RunRecords
      /\ scanned /\ lock' = t
      /\ UNCHANGED <<lists, saved, scanned, due, waiting, known, missed>>
  BY ListingFacts DEF PushAsset, At, Holding, vaultVars
<1>2. x \in RunRecords
  BY <1>1 DEF RunRecords, RunStages
<1>3. /\ x.at = "note" /\ x.docs = run[t].docs /\ x.seen = run[t].seen
      /\ x.doc = run[t].doc /\ x.links = run[t].links
  BY <1>1 DEF RunRecords
<1>4. run' = [run EXCEPT ![t] = x]
  BY DEF PushAsset
<1> HIDE DEF x
<1>5. x.at \in Holding /\ Shape(x)
  BY <1>1, <1>3 DEF Holding, Shape
<1> QED
  BY <1>1, <1>2, <1>3, <1>4, <1>5, InsideListing

(* The lock is given back: the record is written, or the notes it had read *)
(* are missed.                                                             *)
LEMMA ReleaseListing ==
  ASSUME PushInv, ListingInv, NEW t \in Runs, Save(t) \/ RunAborts(t)
  PROVE  ListingInv'
<1>1. /\ run[t].at \in {"scan", "save"} /\ lock = t /\ lock' = 0 /\ t # 0
      /\ run' = [run EXCEPT ![t] = NoRun] /\ run[t].links = {}
      /\ UNCHANGED <<lists, due, waiting, scanned>>
  BY ListingFacts DEF Save, RunAborts, At, Holding, vaultVars
<1>2. NoRun.at = "none" /\ NoRun.docs = {} /\ NoRun.links = {}
  BY DEF NoRun
<1>3. run'[t] = NoRun /\ \A u \in Runs \ {t} : run'[u] = run[u]
  BY <1>1, ListingFacts
<1>4. scanned
  BY <1>1, ListingFacts DEF Holding
<1>5. ASSUME NEW u \in Runs PROVE Shape(run[u])' /\ ScanCovers(u)'
  BY <1>1, <1>2, <1>3, <1>4 DEF ListingInv, Shape, ScanCovers, Holding
<1>6. ASSUME NEW m \in Docs, NEW n \in Notes, Lists(m, n), m \notin missed', ~Expects(m)'
      PROVE  Settled(saved', m, n)
  <2>1. m \notin waiting /\ \A u \in Runs \ {t} : m \notin run[u].docs
    BY <1>1, <1>3, <1>6 DEF Expects
  <2>2. ~Awaited(m, n)
    BY <1>1, AwaitedByHolder
  <2>3. CASE Save(t)
    <3>1. saved' = known /\ missed' = missed /\ run[t].docs = {}
      BY <2>3 DEF Save, At, ListingInv, Shape
    <3>2. ~Expects(m)
      BY <2>1, <3>1 DEF Expects
    <3> QED
      BY <1>1, <1>4, <1>6, <2>2, <3>1, <3>2 DEF ListingInv, ListingKept
  <2>4. CASE RunAborts(t)
    <3>1. saved' = saved /\ missed' = missed \cup run[t].seen \cup run[t].docs
      BY <2>4 DEF RunAborts
    <3>2. ~Expects(m) /\ m \notin missed /\ m \notin run[t].seen
      BY <1>6, <2>1, <3>1 DEF Expects
    <3> QED
      BY <1>1, <1>4, <1>6, <3>1, <3>2 DEF ListingInv, ListingKept
  <2> QED
    BY <2>3, <2>4
<1>7. ASSUME NEW m \in Docs, NEW n \in Notes PROVE ListingKept(m, n)'
  BY <1>1, <1>6 DEF ListingKept, Lists, Tagged, Settled
<1>8. ~due' => waiting' = {}
  BY <1>1 DEF ListingInv
<1> QED
  BY <1>5, <1>7, <1>8 DEF ListingInv

LEMMA ListingStep == PushInv /\ ListingInv /\ [Next]_vars => ListingInv'
<1> SUFFICES ASSUME PushInv, ListingInv, [Next]_vars PROVE ListingInv'
  OBVIOUS
<1>1. CASE UNCHANGED pushVars
  <2>1. UNCHANGED <<lists, due, waiting, scanned, run, lock, known, saved, missed>>
    BY <1>1 DEF pushVars, vaultVars
  <2> QED
    BY <2>1 DEF ListingInv, Shape, ScanCovers, ListingKept, Lists, Tagged, Expects, Awaited,
       Settled
<1>2. CASE Commits
  <2>1. PICK new \in [Docs -> {Gone, Untagged} \cup Listings], pdfs \in SUBSET Notes :
          Sync(new, pdfs) \/ CommitUnscheduled(new, pdfs)
    BY <1>2, CommitFacts
  <2>2. Commit(new, pdfs) /\ \E x \in RunRecords : RunBegins(new, x)
    BY <2>1, CommitBegins
  <2> QED
    BY <2>2, CommitListing
<1>3. ASSUME NEW t \in Runs, RunStep(t) \/ RunFault(t) PROVE ListingInv'
  <2>1. ASSUME NEW n \in Notes,
               \/ SkipPushed(t, n) \/ NotPushed(t, n) \/ PushAsset(t, n) \/ PushNote(t, n)
               \/ PushFails(t, n)
        PROVE  ListingInv'
    BY <2>1, PushListing, PushAssetListing
  <2>2. RunFails(t) \/ RunAborts(t) => ListingInv'
    BY RunFailsListing, ReleaseListing
  <2> QED
    BY <1>3, <2>1, <2>2, QueueListing, ListPathsListing, MarkScannedListing, LockListing,
       ScanListing, ReleaseListing DEF RunStep, RunFault
<1>4. CASE Stop
  <2>1. /\ run' = [t \in Runs |-> NoRun] /\ waiting' = {} /\ scanned' = FALSE
    BY <1>4 DEF Stop
  <2>2. \A t \in Runs : Shape(run[t])' /\ ScanCovers(t)'
    BY <2>1 DEF Shape, ScanCovers, NoRun, Holding
  <2>3. \A m \in Docs, n \in Notes : ListingKept(m, n)'
    BY <2>1 DEF ListingKept
  <2> QED
    BY <2>1, <2>2, <2>3 DEF ListingInv
<1> QED
  BY <1>1, <1>2, <1>3, <1>4 DEF Next, vars

(* Once the vault has been scanned, whatever restarts or fails: a PDF that *)
(* a tagged note lists has been pushed or is on its way, unless a commit   *)
(* that is not a sync's made the list, or something of the note was        *)
(* missing or failed when it was read.                                     *)
THEOREM ListedArePushed == Spec => []ListedIsPushed
<1>1. PushInv /\ ListingInv => ListedIsPushed
  <2> SUFFICES ASSUME PushInv, ListingInv, NEW m \in Docs, NEW n \in Notes,
                      scanned, Lists(m, n), m \notin missed, ~Expects(m)
               PROVE  Recorded(n) \/ Awaited(m, n)
    BY DEF ListedIsPushed, Awaited
  <2>1. /\ lock # 0 => Settled(known, m, n) \/ Awaited(m, n)
        /\ lock = 0 => Settled(saved, m, n)
    BY DEF ListingInv, ListingKept
  <2> QED
    BY <2>1 DEF Settled, Recorded
<1>2. Init => ListingInv
  BY ListingInitially DEF Init
<1> QED
  BY <1>1, <1>2, ListingStep, PushInvHolds, PTL DEF Spec
===============================================================================
