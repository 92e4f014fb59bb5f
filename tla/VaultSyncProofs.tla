--------------------------- MODULE VaultSyncProofs ---------------------------
(***************************************************************************)
(* What VaultSync and FirstSync keep for every vault, every number of      *)
(* devices, notes and edits, and every bound on what may go wrong.         *)
(***************************************************************************)
EXTENDS FirstSync, VaultServerProofs, TLAPS

-----------------------------------------------------------------------------
(***************************************************************************)
(* The operations a device may be running when the branch has n commits,   *)
(* those of a first sync included.                                         *)
(***************************************************************************)
Writes     == UNION {[S -> Files] : S \in SUBSET Paths}
Syncing(n) == [base : 0..n, changes : Writes, manifest : Trees]
Resolving  == [changes : Writes]
Answers(n) == [status : {"ok", "conflict"}, head : 0..n, files : Writes,
               conflicts : SUBSET Paths]

SentSyncs(n)    == [phase : {"sent"}, kind : {"sync", "push"}, saved : Trees,
                    request : Syncing(n)]
SentResolves    == [phase : {"sent"}, kind : {"resolve"}, saved : Trees,
                    request : Resolving]
TakenSyncs(n)   == [phase : {"answered"}, kind : {"sync", "push"}, saved : Trees,
                    request : Syncing(n), answer : Answers(n), local : Trees,
                    left : SUBSET Paths]
TakenResolves(n) == [phase : {"answered"}, kind : {"resolve"}, saved : Trees,
                    request : Resolving, answer : Answers(n), local : Trees,
                    left : SUBSET Paths]
Overwrites(n)   == [phase : {"answered"}, kind : {"overwrite"}, saved : Trees,
                    answer : Answers(n), local : Trees, left : SUBSET Paths]
Probes          == [phase : {"probe"}, kind : Choices, saved : Trees]
ProbeAnswers(n) == [phase : {"probed"}, kind : Choices, saved : Trees,
                    answer : Answers(n)]

Ops(n) == {Idle} \cup SentSyncs(n) \cup SentResolves \cup TakenSyncs(n)
            \cup TakenResolves(n) \cup Overwrites(n) \cup Probes \cup ProbeAnswers(n)

(* The files of a request or of an answer.                                 *)
LEMMA WritesFacts ==
  ASSUME NEW f \in Writes
  PROVE  FilesOf(f)
  BY SMT DEF Writes, FilesOf

LEMMA WritesMember ==
  ASSUME NEW f, f = [p \in DOMAIN f |-> f[p]], FilesOf(f)
  PROVE  f \in Writes
<1>1. f \in [DOMAIN f -> Files]
  BY DEF FilesOf
<1> QED BY <1>1 DEF Writes, FilesOf

LEMMA NoFiles == <<>> \in Writes
<1>1. <<>> \in [{} -> Files]
  BY SMT
<1> QED BY <1>1 DEF Writes

(* What the fields of an operation are, by its phase and kind.             *)
LEMMA OpShape ==
  ASSUME NEW n \in Nat, NEW o \in Ops(n)
  PROVE  /\ o = Idle \/ o.phase \in {"sent", "answered", "probe", "probed"}
         /\ o # Idle => o.saved \in Trees
         /\ o.phase = "sent" /\ o.kind \in {"sync", "push"} => o \in SentSyncs(n)
         /\ o.phase = "sent" /\ o.kind \notin {"sync", "push"} => o \in SentResolves
         /\ o.phase = "answered" /\ o.kind \in {"sync", "push"} => o \in TakenSyncs(n)
         /\ o.phase = "answered" /\ o.kind = "resolve" => o \in TakenResolves(n)
         /\ o.phase = "answered" /\ o.kind = "overwrite" => o \in Overwrites(n)
         /\ o.phase = "answered" =>
              /\ o.kind \in {"sync", "push", "resolve", "overwrite"}
              /\ o.answer \in Answers(n) /\ o.local \in Trees /\ o.left \in SUBSET Paths
         /\ o.phase = "probe" => o \in Probes
         /\ o.phase = "probed" => o \in ProbeAnswers(n)
  BY SMT DEF Ops, Idle, SentSyncs, SentResolves, TakenSyncs, TakenResolves,
             Overwrites, Probes, ProbeAnswers, Choices

(* A longer branch allows the operations it allowed before.                *)
LEMMA OpsGrow ==
  ASSUME NEW n \in Nat, NEW m \in Nat, n <= m
  PROVE  Ops(n) \subseteq Ops(m)
<1>1. Syncing(n) \subseteq Syncing(m) /\ Answers(n) \subseteq Answers(m)
  BY SMT DEF Syncing, Answers
<1> QED BY <1>1, SMT DEF Ops, SentSyncs, TakenSyncs, TakenResolves, Overwrites, ProbeAnswers

-----------------------------------------------------------------------------
(* The answers of the server.                                              *)

LEMMA SyncingFacts ==
  ASSUME NEW n \in Nat, NEW req \in Syncing(n)
  PROVE  WellFormed(req) /\ req.manifest \in Trees
<1>1. req.base \in Nat /\ req.changes \in Writes /\ req.manifest \in Trees
  BY SMT DEF Syncing
<1> QED BY <1>1, WritesFacts DEF WellFormed

(* The three answers to a sync.                                            *)
LEMMA SyncAnswerCases ==
  ASSUME NEW d \in Devices, NEW req
  PROVE  LET answer  == SyncAnswer(d, req)
             before  == CommitAllIfChanged(commits, work)
             after   == SyncHistory(d, req)
             clashes == ClashesOf(d, req, before)
             mine    == PendingFor(pending, d)
         IN
         /\ answer.head = Len(after)
         /\ answer.status \in {"ok", "conflict"}
         /\ answer.status = "ok" <=> clashes = {} /\ mine = {}
         /\ clashes # {} => answer = Answer("conflict", Len(after),
                                            ConflictFiles(d, req, before), clashes)
         /\ clashes = {} /\ mine # {} =>
              answer = Answer("conflict", Len(after), <<>>, mine)
         /\ answer.status = "ok" =>
              answer = Answer("ok", Len(after),
                              ChangedFilesSince(after, req.base, req.manifest), {})
  BY SMT DEF SyncAnswer, Answer

LEMMA ChangedFilesType ==
  ASSUME NEW h \in Seq(Trees), NEW b, NEW manifest
  PROVE  ChangedFilesSince(h, b, manifest) \in Writes
<1> DEFINE files == ChangedFilesSince(h, b, manifest)
<1>1. \A p \in Paths : HeadTree(h)[p] \in Files
  BY TreeAtType, SMT DEF Trees
<1>2. files = [p \in DOMAIN files |-> files[p]] /\ FilesOf(files)
  BY <1>1 DEF ChangedFilesSince, FilesOf
<1> QED BY <1>2, WritesMember

LEMMA SyncAnswerType ==
  ASSUME TypeOK, NEW d \in Devices, NEW req, WellFormed(req)
  PROVE  SyncAnswer(d, req) \in Answers(Len(SyncHistory(d, req)))
<1> DEFINE answer  == SyncAnswer(d, req)
           before  == CommitAllIfChanged(commits, work)
           after   == SyncHistory(d, req)
           clashes == ClashesOf(d, req, before)
<1>1. before \in Seq(Trees) /\ after \in Seq(Trees)
  BY SyncHistoryFacts
<1>2. clashes \subseteq Paths /\ PendingFor(pending, d) \subseteq Paths
  BY DEF ClashesOf, PendingFor, WellFormed, FilesOf
<1>3. Len(after) \in 0..Len(after)
  BY <1>1, SMT
<1>4. CASE clashes # {}
  <2> DEFINE files == ConflictFiles(d, req, before)
  <2>1. \A p \in DOMAIN files : p \in Paths /\ files[p] \in Files
    <3> SUFFICES ASSUME NEW p \in DOMAIN files PROVE p \in Paths /\ files[p] \in Files
      OBVIOUS
    <3>1. p \in clashes /\ p \in DOMAIN req.changes /\ p \in Paths
      BY <1>2 DEF ConflictFiles, ClashesOf
    <3>2. ChangeOutcome(d, req, before, p) \in Outcomes
      BY <1>1, <3>1, ChangeOutcomeFacts
    <3>3. files[p] = ChangeOutcome(d, req, before, p).content
      BY DEF ConflictFiles
    <3> QED BY <3>1, <3>2, <3>3, SMT DEF Outcomes
  <2>2. files \in Writes
    <3>1. files = [p \in DOMAIN files |-> files[p]]
      BY DEF ConflictFiles
    <3> QED BY <2>1, <3>1, WritesMember DEF FilesOf
  <2>3. answer = Answer("conflict", Len(after), files, clashes)
    BY <1>4, SyncAnswerCases
  <2> QED BY <1>2, <1>3, <2>2, <2>3 DEF Answer, Answers
<1>5. CASE clashes = {} /\ PendingFor(pending, d) # {}
  <2>1. answer = Answer("conflict", Len(after), <<>>, PendingFor(pending, d))
    BY <1>5, SyncAnswerCases
  <2> QED BY <1>2, <1>3, <2>1, NoFiles DEF Answer, Answers
<1>6. CASE clashes = {} /\ PendingFor(pending, d) = {}
  <2>1. answer = Answer("ok", Len(after),
                        ChangedFilesSince(after, req.base, req.manifest), {})
    BY <1>6, SyncAnswerCases
  <2>2. ChangedFilesSince(after, req.base, req.manifest) \in Writes
    BY <1>1, ChangedFilesType
  <2> QED BY <1>3, <2>1, <2>2 DEF Answer, Answers
<1> QED BY <1>4, <1>5, <1>6

(* A resolution is answered with the files of the new head.                *)
LEMMA ResolveAnswerFacts ==
  ASSUME TypeOK, NEW d \in Devices, NEW files \in Writes
  PROVE  LET answer == ResolveAnswer(d, files)
             after  == ResolveHistory(files)
             mine   == PendingFor(ClearPending(pending, DOMAIN files), d)
         IN
         /\ answer \in Answers(Len(after))
         /\ answer.status = "ok" /\ answer.head = Len(after)
         /\ DOMAIN answer.files = {p \in Paths \ mine : HeadTree(after)[p] # Absent}
         /\ \A p \in DOMAIN answer.files : answer.files[p] = HeadTree(after)[p]
         /\ after \in Seq(Trees) /\ HeadTree(after) = Overwritten(work, files)
<1> DEFINE answer == ResolveAnswer(d, files)
           after  == ResolveHistory(files)
           mine   == PendingFor(ClearPending(pending, DOMAIN files), d)
           all    == ChangedFilesSince(after, 0, EmptyTree)
           sent   == [p \in DOMAIN all \ mine |-> all[p]]
<1>1. Overwritten(work, files) \in Trees /\ commits \in Seq(Trees)
  BY WritesFacts, OverwrittenType DEF TypeOK, FilesOf
<1>2. after \in Seq(Trees) /\ HeadTree(after) = Overwritten(work, files)
  BY ONLY <1>1, CommitExtends DEF ResolveHistory
<1>3. answer = Answer("ok", Len(after), sent, {})
  BY DEF ResolveAnswer
<1>4. /\ DOMAIN all = {p \in Paths : HeadTree(after)[p] # Absent}
      /\ \A p \in DOMAIN all : all[p] = HeadTree(after)[p]
  BY DEF ChangedFilesSince, EmptyTree
<1>5. all \in Writes
  BY <1>2, ChangedFilesType
<1>6. sent \in Writes
  BY <1>5, WritesFacts, WritesMember DEF FilesOf
<1>7. Len(after) \in 0..Len(after)
  BY <1>2, SMT
<1>8. answer \in Answers(Len(after))
  BY <1>3, <1>6, <1>7 DEF Answer, Answers
<1>9. answer.status = "ok" /\ answer.head = Len(after) /\ answer.files = sent
  BY <1>3 DEF Answer
<1> QED BY <1>2, <1>4, <1>8, <1>9

-----------------------------------------------------------------------------
(***************************************************************************)
(* The types, with what the operations under way are made of.              *)
(***************************************************************************)
LeftListed ==
  \A d \in Devices :
    op[d].phase = "answered" => op[d].left \subseteq DOMAIN op[d].answer.files

Bounds == [lost : Nat, interrupts : Nat, resets : Nat, dav : Nat]

TypeInv ==
  /\ TypeOK /\ Len(commits) > 0
  /\ disk \in [Devices -> Trees] /\ synced \in [Devices -> Trees]
  /\ base \in [Devices -> 0..Len(commits)]
  /\ reported \in [Devices -> SUBSET Paths]
  /\ op \in [Devices -> Ops(Len(commits))] /\ LeftListed
  /\ edits \in 0..MaxEdits /\ bounds \in Bounds
  /\ seen \in [Devices -> [Paths -> SUBSET Values]]
  /\ skipped \in [Devices -> SUBSET Paths]

LEMMA LenCommits == TypeOK => Len(commits) \in Nat
  BY SMT DEF TypeOK

LEMMA TypeInvOp ==
  ASSUME TypeInv, NEW d \in Devices
  PROVE  op[d] \in Ops(Len(commits)) /\ Len(commits) \in Nat
  BY LenCommits DEF TypeInv

(* The next edit writes a value of its own.                                *)
LEMMA NextEdit ==
  ASSUME TypeInv, edits < MaxEdits
  PROVE  edits + 1 \in Values /\ edits + 1 \in 0..MaxEdits
<1>1. edits \in 0..MaxEdits
  BY DEF TypeInv
<1>2. MaxEdits \in Nat /\ 1..MaxEdits \subseteq Values
  BY SyncAssumption
<1>3. edits + 1 \in 1..MaxEdits /\ edits + 1 \in 0..MaxEdits
  BY ONLY <1>1, <1>2, edits < MaxEdits, SMT
<1> QED BY <1>2, <1>3

LEMMA ServerRests ==
  ASSUME TypeOK, UNCHANGED serverVars
  PROVE  TypeOK' /\ commits' = commits
  BY DEF TypeOK, serverVars

(* One device changes its operation, beside the server or not.             *)
LEMMA OpChanges ==
  ASSUME TypeInv, TypeOK', Extends(commits, commits'),
         NEW d \in Devices, NEW o \in Ops(Len(commits')),
         o.phase = "answered" => o.left \subseteq DOMAIN o.answer.files,
         op' = [op EXCEPT ![d] = o]
  PROVE  /\ op' \in [Devices -> Ops(Len(commits'))] /\ LeftListed'
         /\ base \in [Devices -> 0..Len(commits')] /\ Len(commits') > 0
         /\ op'[d] = o
         /\ \A e \in Devices \ {d} : op'[e] = op[e]
<1>1. /\ Len(commits) \in Nat /\ Len(commits') \in Nat
      /\ Len(commits) <= Len(commits') /\ Len(commits) > 0
  BY SMT DEF TypeInv, TypeOK, Extends
<1>2. Ops(Len(commits)) \subseteq Ops(Len(commits'))
  BY <1>1, OpsGrow
<1>3. op \in [Devices -> Ops(Len(commits))] /\ base \in [Devices -> 0..Len(commits)]
  BY DEF TypeInv
<1>4. op' \in [Devices -> Ops(Len(commits'))]
  BY <1>2, <1>3
<1>5. op'[d] = o /\ \A e \in Devices \ {d} : op'[e] = op[e]
  BY <1>3
<1>6. LeftListed'
  BY <1>5 DEF LeftListed, TypeInv
<1>7. base \in [Devices -> 0..Len(commits')]
  BY <1>1, <1>3, SMT
<1> QED BY <1>1, <1>4, <1>5, <1>6, <1>7

LEMMA ServerMoves ==
  ASSUME TypeInv, TypeOK', Extends(commits, commits'),
         NEW d \in Devices, NEW o \in Ops(Len(commits')),
         o.phase = "answered" => o.left \subseteq DOMAIN o.answer.files,
         op' = [op EXCEPT ![d] = o],
         UNCHANGED <<disk, synced, base, reported, auxVars>>
  PROVE  TypeInv'
<1>1. /\ op' \in [Devices -> Ops(Len(commits'))] /\ LeftListed'
      /\ base \in [Devices -> 0..Len(commits')] /\ Len(commits') > 0
  BY OpChanges
<1> QED BY <1>1 DEF TypeInv, auxVars

LEMMA DeviceMoves ==
  ASSUME TypeInv, UNCHANGED serverVars,
         NEW d \in Devices, NEW o \in Ops(Len(commits)),
         o.phase = "answered" => o.left \subseteq DOMAIN o.answer.files,
         op' = [op EXCEPT ![d] = o],
         disk' \in [Devices -> Trees], synced' \in [Devices -> Trees],
         base' \in [Devices -> 0..Len(commits)],
         reported' \in [Devices -> SUBSET Paths],
         edits' \in 0..MaxEdits, bounds' \in Bounds,
         seen' \in [Devices -> [Paths -> SUBSET Values]],
         skipped' \in [Devices -> SUBSET Paths]
  PROVE  TypeInv'
<1>1. TypeOK' /\ commits' = commits /\ Extends(commits, commits')
  BY ServerRests DEF TypeInv, Extends
<1>2. op' \in [Devices -> Ops(Len(commits'))] /\ LeftListed' /\ Len(commits') > 0
  BY <1>1, OpChanges
<1> QED BY <1>1, <1>2 DEF TypeInv

(* The device keeps what it is doing.                                      *)
LEMMA DeviceRests ==
  ASSUME TypeInv, UNCHANGED <<serverVars, op>>,
         disk' \in [Devices -> Trees], synced' \in [Devices -> Trees],
         base' \in [Devices -> 0..Len(commits)],
         reported' \in [Devices -> SUBSET Paths],
         edits' \in 0..MaxEdits, bounds' \in Bounds,
         seen' \in [Devices -> [Paths -> SUBSET Values]],
         skipped' \in [Devices -> SUBSET Paths]
  PROVE  TypeInv'
<1>1. TypeOK' /\ commits' = commits
  BY ServerRests DEF TypeInv
<1> QED BY <1>1 DEF TypeInv, LeftListed

LEMMA IdleOp ==
  ASSUME NEW n
  PROVE  Idle \in Ops(n) /\ Idle.phase = "idle"
  BY DEF Ops, Idle

LEMMA CountType ==
  ASSUME bounds \in Bounds, NEW what \in {"lost", "interrupts", "resets", "dav"}, Count(what)
  PROVE  bounds' \in Bounds /\ bounds'[what] # 0
<1>1. CASE what = "lost"       BY <1>1, SMT DEF Bounds, Count
<1>2. CASE what = "interrupts" BY <1>2, SMT DEF Bounds, Count
<1>3. CASE what = "resets"     BY <1>3, SMT DEF Bounds, Count
<1>4. CASE what = "dav"        BY <1>4, SMT DEF Bounds, Count
<1> QED BY <1>1, <1>2, <1>3, <1>4

(* The values of a file, and what a user is shown.                         *)
LEMMA ValuesInType ==
  ASSUME NEW file \in Files
  PROVE  ValuesIn(file) \subseteq Values
  BY DEF ValuesIn, Texts

LEMMA ShownType ==
  ASSUME seen \in [Devices -> [Paths -> SUBSET Values]],
         NEW d \in Devices, NEW paths, NEW values \in SUBSET Values
  PROVE  Shown(d, paths, values) \in [Devices -> [Paths -> SUBSET Values]]
  BY DEF Shown

LEMMA EditsOfType ==
  ASSUME NEW file, NEW n \in Values
  PROVE  EditsOf(file, n) \subseteq Texts
  BY DEF EditsOf, Texts

-----------------------------------------------------------------------------
(* The user's steps keep the types.                                        *)

LEMMA EditTypes ==
  ASSUME TypeInv, NEW d \in Devices, Edit(d)
  PROVE  TypeInv'
<1>1. edits + 1 \in Values /\ edits' \in 0..MaxEdits
  BY NextEdit DEF Edit, MayEdit
<1>0. PICK paths \in (SUBSET Paths) \ {{}} :
        \E files \in [paths -> Texts] :
          /\ disk' = [disk EXCEPT ![d] = Overwritten(@, files)]
          /\ seen' = Shown(d, paths, {edits + 1})
  BY DEF Edit
<1>2. PICK files \in [paths -> Texts] :
        /\ disk' = [disk EXCEPT ![d] = Overwritten(@, files)]
        /\ seen' = Shown(d, paths, {edits + 1})
  BY <1>0
<1>3. \A p \in DOMAIN files : files[p] \in Files
  BY DEF Files, Contents
<1>4. Overwritten(disk[d], files) \in Trees
  BY <1>3, OverwrittenType DEF TypeInv
<1>5. disk' \in [Devices -> Trees]
  BY <1>2, <1>4 DEF TypeInv
<1>6. seen' \in [Devices -> [Paths -> SUBSET Values]]
  <2>1. {edits + 1} \in SUBSET Values
    BY <1>1
  <2>2. seen \in [Devices -> [Paths -> SUBSET Values]]
    BY DEF TypeInv
  <2> QED BY ONLY <1>2, <2>1, <2>2, d \in Devices, ShownType
<1> QED BY <1>1, <1>5, <1>6, DeviceRests DEF Edit, TypeInv

LEMMA DeleteTypes ==
  ASSUME TypeInv, NEW d \in Devices, NEW p \in Paths, Delete(d, p)
  PROVE  TypeInv'
<1>1. edits' \in 0..MaxEdits
  BY NextEdit DEF Delete, MayEdit
<1>2. disk' \in [Devices -> Trees]
  BY SMT DEF Delete, TypeInv, Trees, Files
<1> QED BY <1>1, <1>2, DeviceRests DEF Delete, TypeInv

LEMMA ResetTypes ==
  ASSUME TypeInv, NEW d \in Devices, ResetLocalSyncState(d)
  PROVE  TypeInv'
<1>1. bounds' \in Bounds
  BY CountType DEF ResetLocalSyncState, TypeInv
<1>2. base' \in [Devices -> 0..Len(commits)]
  BY LenCommits, SMT DEF ResetLocalSyncState, TypeInv
<1>3. synced' \in [Devices -> Trees]
  BY EmptyTreeType DEF ResetLocalSyncState, TypeInv
<1> QED BY <1>1, <1>2, <1>3, DeviceRests DEF ResetLocalSyncState, TypeInv

LEMMA StartSyncTypes ==
  ASSUME TypeInv, NEW d \in Devices, StartSync(d)
  PROVE  TypeInv'
<1> DEFINE changes == [p \in ChangedPaths(disk[d], synced[d]) |-> disk[d][p]]
           o == [phase |-> "sent", kind |-> "sync", saved |-> synced[d],
                 request |-> [base |-> base[d], changes |-> changes, manifest |-> disk[d]]]
<1>1. disk[d] \in Trees /\ synced[d] \in Trees /\ base[d] \in 0..Len(commits)
  BY DEF TypeInv
<1>2. changes \in Writes
  BY <1>1, WritesMember DEF ChangedPaths, FilesOf, Trees
<1>3. o \in SentSyncs(Len(commits))
  BY <1>1, <1>2 DEF SentSyncs, Syncing
<1>4. o \in Ops(Len(commits)) /\ o.phase = "sent"
  BY <1>3 DEF Ops
<1>5. op' = [op EXCEPT ![d] = o]
  BY DEF StartSync
<1> QED BY <1>4, <1>5, DeviceMoves DEF StartSync, TypeInv, auxVars

LEMMA ResolutionsType ==
  ASSUME TypeInv, NEW d \in Devices, NEW p \in Paths
  PROVE  Resolutions(d, p) \subseteq Files
<1>1. OwnTexts \subseteq Texts
  <2>1. edits < MaxEdits => edits + 1 \in Values
    BY NextEdit
  <2> QED BY <2>1 DEF OwnTexts, Texts
<1>2. disk[d][p] \in Files /\ HeadTree(commits)[p] \in Files
  BY LenCommits, TreeAtType DEF TypeInv, TypeOK, Trees
<1> QED BY <1>1, <1>2 DEF Resolutions, Files, Contents

LEMMA StartResolveTypes ==
  ASSUME TypeInv, NEW d \in Devices, StartResolve(d)
  PROVE  TypeInv'
<1>0. PICK paths \in (SUBSET (reported[d] \cup PendingFor(pending, d))) \ {{}} :
        \E files \in [paths -> UNION {Resolutions(d, p) : p \in paths}] :
          /\ \A p \in paths : files[p] \in Resolutions(d, p)
          /\ disk' = [disk EXCEPT ![d] = Overwritten(@, files)]
          /\ seen' = [seen EXCEPT ![d] = [p \in Paths |->
                        IF p \in paths THEN @[p] \cup ValuesIn(files[p]) ELSE @[p]]]
          /\ op' = [op EXCEPT ![d] =
               [phase |-> "sent", kind |-> "resolve", saved |-> synced[d],
                request |-> [changes |-> files]]]
          /\ edits' = IF \E p \in paths : files[p] \in OwnTexts THEN edits + 1 ELSE edits
  BY DEF StartResolve
<1>1. PICK files \in [paths -> UNION {Resolutions(d, p) : p \in paths}] :
        /\ \A p \in paths : files[p] \in Resolutions(d, p)
        /\ disk' = [disk EXCEPT ![d] = Overwritten(@, files)]
        /\ seen' = [seen EXCEPT ![d] = [p \in Paths |->
                      IF p \in paths THEN @[p] \cup ValuesIn(files[p]) ELSE @[p]]]
        /\ op' = [op EXCEPT ![d] =
             [phase |-> "sent", kind |-> "resolve", saved |-> synced[d],
              request |-> [changes |-> files]]]
        /\ edits' = IF \E p \in paths : files[p] \in OwnTexts THEN edits + 1 ELSE edits
  BY <1>0
<1> DEFINE o == [phase |-> "sent", kind |-> "resolve", saved |-> synced[d],
                 request |-> [changes |-> files]]
<1>2. paths \subseteq Paths
  BY DEF TypeInv, PendingFor
<1>3. \A p \in paths : files[p] \in Files
  BY <1>1, <1>2, ResolutionsType
<1>4. files \in Writes
  BY <1>2, <1>3, WritesMember DEF FilesOf
<1>5. o \in Ops(Len(commits)) /\ o.phase = "sent"
  BY <1>4 DEF TypeInv, SentResolves, Resolving, Ops
<1>6. disk' \in [Devices -> Trees]
  <2>1. Overwritten(disk[d], files) \in Trees
    BY <1>3, OverwrittenType DEF TypeInv
  <2> QED BY <1>1, <2>1 DEF TypeInv
<1>7. seen' \in [Devices -> [Paths -> SUBSET Values]]
  <2>1. \A p \in paths : ValuesIn(files[p]) \subseteq Values
    BY <1>3, ValuesInType
  <2> QED BY <1>1, <2>1 DEF TypeInv
<1>8. edits' \in 0..MaxEdits
  <2>1. CASE edits < MaxEdits
    BY <1>1, <2>1, NextEdit DEF TypeInv
  <2>2. CASE ~(edits < MaxEdits)
    BY <1>1, <2>2 DEF OwnTexts, TypeInv
  <2> QED BY <2>1, <2>2
<1> QED BY <1>1, <1>5, <1>6, <1>7, <1>8, DeviceMoves DEF StartResolve, TypeInv

-----------------------------------------------------------------------------
(* The server's steps.                                                     *)

LEMMA ServerSyncsTypes ==
  ASSUME TypeInv, NEW d \in Devices, ServerSyncs(d)
  PROVE  TypeInv' /\ Extends(commits, commits')
<1> DEFINE req    == op[d].request
           answer == SyncAnswer(d, req)
           o == [phase |-> "answered", kind |-> op[d].kind, saved |-> op[d].saved,
                 request |-> req, answer |-> answer, local |-> req.manifest,
                 left |-> DOMAIN answer.files]
<1>1. op[d] \in SentSyncs(Len(commits)) /\ Len(commits) \in Nat
  BY TypeInvOp, OpShape DEF ServerSyncs
<1>2. req \in Syncing(Len(commits)) /\ op[d].saved \in Trees /\ op[d].kind = "sync"
  BY <1>1 DEF SentSyncs, ServerSyncs
<1>3. WellFormed(req) /\ req.manifest \in Trees
  BY <1>1, <1>2, SyncingFacts
<1>4. TypeOK' /\ Extends(commits, commits') /\ commits' = SyncHistory(d, req)
  BY <1>3, SyncTypes DEF TypeInv, ServerSyncs, HandleSync
<1>5. answer \in Answers(Len(commits'))
  BY <1>3, <1>4, SyncAnswerType DEF TypeInv
<1>6. req \in Syncing(Len(commits'))
  <2>1. Len(commits) <= Len(commits') /\ Len(commits') \in Nat
    BY <1>4, SMT DEF Extends, TypeOK
  <2> QED BY <1>1, <1>2, <2>1, SMT DEF Syncing
<1>7. DOMAIN answer.files \subseteq Paths
  BY <1>5, WritesFacts DEF Answers, FilesOf
<1>8. o \in TakenSyncs(Len(commits'))
  BY <1>2, <1>3, <1>5, <1>6, <1>7 DEF TakenSyncs
<1>9. o \in Ops(Len(commits')) /\ o.left \subseteq DOMAIN o.answer.files
  BY <1>8 DEF Ops
<1>10. op' = [op EXCEPT ![d] = o]
  BY DEF ServerSyncs, Answered
<1> QED BY <1>4, <1>9, <1>10, ServerMoves DEF ServerSyncs, TypeInv

LEMMA ServerResolvesTypes ==
  ASSUME TypeInv, NEW d \in Devices, ServerResolves(d)
  PROVE  /\ TypeInv' /\ Extends(commits, commits')
         /\ HeadTree(commits') = Overwritten(work, op[d].request.changes)
         /\ commits' = ResolveHistory(op[d].request.changes)
<1> DEFINE files  == op[d].request.changes
           answer == ResolveAnswer(d, files)
           o == [phase |-> "answered", kind |-> op[d].kind, saved |-> op[d].saved,
                 request |-> op[d].request, answer |-> answer, local |-> synced[d],
                 left |-> DOMAIN answer.files]
<1>1. op[d] \in SentResolves
  BY TypeInvOp, OpShape DEF ServerResolves
<1>2. op[d].request \in Resolving /\ files \in Writes /\ op[d].saved \in Trees
      /\ op[d].kind = "resolve"
  BY <1>1 DEF SentResolves, Resolving
<1>3. TypeOK' /\ Extends(commits, commits') /\ HeadTree(commits') = Overwritten(work, files)
      /\ commits' = ResolveHistory(files)
  BY <1>2, WritesFacts, OverwriteTypes
     DEF FilesOf, TypeInv, ServerResolves, HandleResolve, ResolveHistory
<1>4. answer \in Answers(Len(commits'))
  BY <1>2, <1>3, ResolveAnswerFacts DEF TypeInv
<1>5. DOMAIN answer.files \subseteq Paths
  BY <1>4, WritesFacts DEF Answers, FilesOf
<1>6. o \in TakenResolves(Len(commits'))
  BY <1>2, <1>4, <1>5 DEF TakenResolves, TypeInv
<1>7. o \in Ops(Len(commits')) /\ o.left \subseteq DOMAIN o.answer.files
  BY <1>6 DEF Ops
<1>8. op' = [op EXCEPT ![d] = o]
  BY DEF ServerResolves, Answered
<1> QED BY <1>3, <1>7, <1>8, ServerMoves DEF ServerResolves, TypeInv

LEMMA ServerStopsTypes ==
  ASSUME TypeInv, NEW d \in Devices, ServerStops(d), op[d].kind \in {"sync", "resolve"}
  PROVE  TypeInv' /\ Extends(commits, commits') /\ faults' # 0
<1> DEFINE req == op[d].request
<1>1. op' = [op EXCEPT ![d] = Idle] /\ UNCHANGED <<disk, synced, base, reported, auxVars>>
  BY DEF ServerStops
<1>2. TypeOK' /\ Extends(commits, commits') /\ faults' # 0
  <2>1. CASE op[d].kind = "sync"
    <3>1. op[d] \in SentSyncs(Len(commits)) /\ Len(commits) \in Nat
      BY <2>1, TypeInvOp, OpShape DEF ServerStops
    <3>2. WellFormed(req)
      BY <3>1, SyncingFacts DEF SentSyncs
    <3>3. SyncStopsAt(d, req)
      BY <2>1 DEF ServerStops, SyncStopsAt
    <3> QED BY <3>2, <3>3, SyncStopsTypes DEF TypeInv
  <2>2. CASE op[d].kind = "resolve"
    <3>1. op[d] \in SentResolves
      BY <2>2, TypeInvOp, OpShape DEF ServerStops
    <3>2. FilesOf(req.changes)
      BY <3>1, WritesFacts DEF SentResolves, Resolving
    <3>3. ResolveStops(req.changes)
      BY <2>2 DEF ServerStops
    <3> QED BY <3>2, <3>3, ResolveStopsTypes DEF TypeInv, FilesOf
  <2> QED BY <2>1, <2>2
<1> QED BY <1>1, <1>2, IdleOp, ServerMoves

LEMMA TabletTypes ==
  ASSUME TypeInv, TabletWrites
  PROVE  TypeInv' /\ Extends(commits, commits')
<1>1. edits + 1 \in Values /\ edits' \in 0..MaxEdits
  BY NextEdit DEF TabletWrites
<1>0. PICK p \in Paths :
        \E file \in EditsOf(work[p], edits + 1) \cup {Absent} : HandleDav([q \in {p} |-> file])
  BY DEF TabletWrites
<1>2. PICK file \in EditsOf(work[p], edits + 1) \cup {Absent} :
        HandleDav([q \in {p} |-> file])
  BY <1>0
<1>3. file \in Files
  BY <1>1, EditsOfType DEF Files, Contents
<1>4. TypeOK' /\ Extends(commits, commits')
  BY <1>2, <1>3, OverwriteTypes DEF HandleDav, TypeInv
<1>5. Len(commits) <= Len(commits') /\ Len(commits) \in Nat /\ Len(commits') \in Nat
  BY <1>4, SMT DEF Extends, TypeOK, TypeInv
<1>6. Ops(Len(commits)) \subseteq Ops(Len(commits'))
  BY <1>5, OpsGrow
<1>7. op' = op /\ disk' = disk /\ synced' = synced /\ base' = base
      /\ reported' = reported /\ seen' = seen /\ skipped' = skipped /\ bounds' \in Bounds
  BY CountType DEF TabletWrites, deviceVars, TypeInv
<1>8. base \in [Devices -> 0..Len(commits')] /\ Len(commits') > 0
  BY <1>5, SMT DEF TypeInv
<1> QED BY <1>1, <1>4, <1>6, <1>7, <1>8 DEF TypeInv, LeftListed

-----------------------------------------------------------------------------
(* The plugin's steps and its failures.                                    *)

LEMMA OpStops ==
  ASSUME TypeInv, NEW d \in Devices, op' = [op EXCEPT ![d] = Idle],
         UNCHANGED <<serverVars, disk, base, reported, edits, seen, skipped>>,
         synced' \in [Devices -> Trees], bounds' \in Bounds
  PROVE  TypeInv'
<1>1. Idle \in Ops(Len(commits)) /\ Idle.phase = "idle"
  BY IdleOp
<1> QED BY <1>1, DeviceMoves DEF TypeInv

LEMMA AnswerLostTypes ==
  ASSUME TypeInv, NEW d \in Devices, AnswerLost(d)
  PROVE  TypeInv' /\ bounds'["lost"] # 0
<1>1. bounds' \in Bounds /\ bounds'["lost"] # 0
  BY CountType DEF AnswerLost, TypeInv
<1> QED BY <1>1, OpStops DEF AnswerLost, TypeInv

LEMMA DownloadFailsTypes ==
  ASSUME TypeInv, NEW d \in Devices, DownloadFails(d)
  PROVE  TypeInv' /\ bounds'["interrupts"] # 0
<1>1. bounds' \in Bounds /\ bounds'["interrupts"] # 0
  BY CountType DEF DownloadFails, TypeInv
<1> QED BY <1>1, OpStops DEF DownloadFails, TypeInv

LEMMA AppKilledTypes ==
  ASSUME TypeInv, NEW d \in Devices, AppKilled(d)
  PROVE  TypeInv' /\ bounds'["interrupts"] # 0
<1>1. bounds' \in Bounds /\ bounds'["interrupts"] # 0
  BY CountType DEF AppKilled, TypeInv
<1>2. op[d].saved \in Trees
  BY TypeInvOp, OpShape DEF AppKilled
<1>3. synced' \in [Devices -> Trees]
  BY <1>2 DEF AppKilled, TypeInv
<1> QED BY <1>1, <1>3, OpStops DEF AppKilled, TypeInv

(* The answer whose files are being applied.                               *)
LEMMA AnsweredFacts ==
  ASSUME TypeInv, NEW d \in Devices, op[d].phase = "answered"
  PROVE  /\ op[d].answer \in Answers(Len(commits))
         /\ op[d].answer.head \in 0..Len(commits)
         /\ op[d].answer.conflicts \in SUBSET Paths
         /\ op[d].local \in Trees
         /\ op[d].left \in SUBSET Paths
         /\ op[d].left \subseteq DOMAIN op[d].answer.files
         /\ \A p \in DOMAIN op[d].answer.files : op[d].answer.files[p] \in Files
         /\ DOMAIN op[d].answer.files \subseteq Paths
<1>1. op[d].answer \in Answers(Len(commits)) /\ op[d].local \in Trees
      /\ op[d].left \in SUBSET Paths
  BY TypeInvOp, OpShape
<1>2. op[d].left \subseteq DOMAIN op[d].answer.files
  BY DEF TypeInv, LeftListed
<1>3. op[d].answer.files \in Writes /\ op[d].answer.head \in 0..Len(commits)
      /\ op[d].answer.conflicts \in SUBSET Paths
  BY <1>1 DEF Answers
<1> QED BY <1>1, <1>2, <1>3, WritesFacts DEF FilesOf

(* One file less to apply.                                                 *)
LEMMA OneLess ==
  ASSUME NEW n \in Nat, NEW o \in Ops(n), NEW left \in SUBSET Paths, o.phase = "answered"
  PROVE  LET less == [o EXCEPT !.left = left] IN
         /\ less \in Ops(n)
         /\ less.phase = "answered" /\ less.left = left
         /\ less.kind = o.kind /\ less.saved = o.saved
         /\ less.answer = o.answer /\ less.local = o.local
         /\ o.kind # "overwrite" => less.request = o.request
<1> DEFINE less == [o EXCEPT !.left = left]
<1>1. CASE o.kind \in {"sync", "push"}
  <2>1. o \in TakenSyncs(n)
    BY <1>1, OpShape
  <2>2. less \in TakenSyncs(n)
    BY <2>1 DEF TakenSyncs
  <2> QED BY <2>1, <2>2 DEF TakenSyncs, Ops
<1>2. CASE o.kind = "resolve"
  <2>1. o \in TakenResolves(n)
    BY <1>2, OpShape
  <2>2. less \in TakenResolves(n)
    BY <2>1 DEF TakenResolves
  <2> QED BY <2>1, <2>2 DEF TakenResolves, Ops
<1>3. CASE o.kind = "overwrite"
  <2>1. o \in Overwrites(n)
    BY <1>3, OpShape
  <2>2. less \in Overwrites(n)
    BY <2>1 DEF Overwrites
  <2> QED BY <1>3, <2>1, <2>2 DEF Overwrites, Ops
<1> QED BY <1>1, <1>2, <1>3, OpShape

(* One file of an answer is applied, or found to be there already.         *)
LEMMA ApplyFileFacts ==
  ASSUME TypeInv, NEW d \in Devices, NEW p \in Paths, ApplyFile(d, p)
  PROVE  LET file == op[d].answer.files[p] IN
         /\ TypeInv' /\ commits' = commits /\ work' = work /\ pending' = pending
         /\ op[d].phase = "answered" /\ p \in op[d].left /\ file \in Files
         /\ op'[d].phase = "answered" /\ op'[d].left = op[d].left \ {p}
         /\ op'[d].kind = op[d].kind /\ op'[d].saved = op[d].saved
         /\ op'[d].answer = op[d].answer /\ op'[d].local = op[d].local
         /\ op[d].kind # "overwrite" => op'[d].request = op[d].request
         /\ \A e \in Devices \ {d} : op'[e] = op[e]
<1> DEFINE file == op[d].answer.files[p]
           left == op[d].left \ {p}
           less == [op[d] EXCEPT !.left = left]
<1>1. op[d].phase = "answered" /\ p \in op[d].left
  BY DEF ApplyFile
<1>2. file \in Files /\ op[d].left \in SUBSET Paths
      /\ op[d].left \subseteq DOMAIN op[d].answer.files
      /\ op[d].answer.head \in Nat
  BY <1>1, AnsweredFacts, SMT
<1>3. /\ less \in Ops(Len(commits))
      /\ less.phase = "answered" /\ less.left = left
      /\ less.kind = op[d].kind /\ less.saved = op[d].saved
      /\ less.answer = op[d].answer /\ less.local = op[d].local
      /\ op[d].kind # "overwrite" => less.request = op[d].request
  <2>1. left \in SUBSET Paths
    BY <1>2
  <2>2. op[d] \in Ops(Len(commits)) /\ Len(commits) \in Nat
    BY TypeInvOp
  <2>3. op[d].phase = "answered"
    BY <1>1
  <2> QED BY ONLY <2>1, <2>2, <2>3, OneLess
<1>4. op' = [op EXCEPT ![d] = less]
  BY DEF ApplyFile, TypeInv
<1>5. TreeAt(commits, op[d].answer.head)[p] \in Files
  <2>1. TreeAt(commits, op[d].answer.head) \in Trees
    BY <1>2, TreeAtType DEF TypeInv, TypeOK
  <2> QED BY <2>1 DEF Trees
<1>6. /\ disk' \in [Devices -> Trees] /\ synced' \in [Devices -> Trees]
      /\ seen' \in [Devices -> [Paths -> SUBSET Values]]
  <2> DEFINE v == ValuesIn(TreeAt(commits, op[d].answer.head)[p])
  <2>1. v \in SUBSET Values
    BY <1>5, ValuesInType
  <2>2. seen \in [Devices -> [Paths -> SUBSET Values]]
    BY DEF TypeInv
  <2> HIDE DEF v
  <2>3. Shown(d, {p}, v) \in [Devices -> [Paths -> SUBSET Values]]
    BY ONLY <2>1, <2>2, d \in Devices, ShownType
  <2>4. CASE AlreadyLocal(d, p)
    BY <2>4 DEF ApplyFile, TypeInv
  <2>5. CASE ~AlreadyLocal(d, p)
    <3>1. disk' = [disk EXCEPT ![d][p] = file] /\ seen' = Shown(d, {p}, v)
          /\ (synced' = synced \/ synced' = [synced EXCEPT ![d][p] = file])
      BY <2>5 DEF ApplyFile, v
    <3>2. \A tree \in Trees : [tree EXCEPT ![p] = file] \in Trees
      BY <1>2 DEF Trees
    <3>3. disk \in [Devices -> Trees] /\ synced \in [Devices -> Trees]
      BY DEF TypeInv
    <3> QED BY ONLY <2>3, <3>1, <3>2, <3>3, d \in Devices
  <2> QED BY <2>4, <2>5
<1>7. TypeInv'
  BY <1>2, <1>3, <1>4, <1>6, DeviceMoves DEF ApplyFile, TypeInv
<1>8. op'[d] = less /\ \A e \in Devices \ {d} : op'[e] = op[e]
  BY <1>4 DEF TypeInv
<1>9. commits' = commits /\ work' = work /\ pending' = pending
  BY DEF ApplyFile, serverVars
<1> QED BY <1>1, <1>2, <1>3, <1>7, <1>8, <1>9

LEMMA FinishSyncTypes ==
  ASSUME TypeInv, NEW d \in Devices, FinishSync(d)
  PROVE  TypeInv'
<1>1. op[d].answer.head \in 0..Len(commits) /\ op[d].answer.conflicts \in SUBSET Paths
  BY AnsweredFacts DEF FinishSync
<1>2. /\ base' \in [Devices -> 0..Len(commits)] /\ synced' \in [Devices -> Trees]
      /\ reported' \in [Devices -> SUBSET Paths]
  BY <1>1 DEF FinishSync, TypeInv
<1>3. Idle \in Ops(Len(commits)) /\ Idle.phase = "idle"
  BY IdleOp
<1>4. skipped' \in [Devices -> SUBSET Paths]
  <2>1. PICK told : skipped' = skipped \/ skipped' = [skipped EXCEPT ![d] = @ \ told]
    BY DEF FinishSync
  <2> QED BY <2>1 DEF TypeInv
<1> QED BY <1>2, <1>3, <1>4, DeviceMoves DEF FinishSync, TypeInv

LEMMA FinishResolveTypes ==
  ASSUME TypeInv, NEW d \in Devices, FinishResolve(d)
  PROVE  TypeInv'
<1> DEFINE files == op[d].request.changes
           now   == [p \in DOMAIN files |-> disk[d][p]]
<1>1. op[d].answer.head \in 0..Len(commits)
  BY AnsweredFacts DEF FinishResolve
<1>2. op[d] \in TakenResolves(Len(commits))
  BY TypeInvOp, OpShape DEF FinishResolve
<1>3. DOMAIN files \subseteq Paths
  BY <1>2, WritesFacts DEF TakenResolves, Resolving, FilesOf
<1>4. \A p \in DOMAIN now : now[p] \in Files
  BY <1>3 DEF TypeInv, Trees
<1>5. Overwritten(synced[d], now) \in Trees
  <2>1. synced[d] \in Trees
    BY DEF TypeInv
  <2> HIDE DEF now
  <2> QED BY <1>4, <2>1, OverwrittenType
<1>6. /\ base' \in [Devices -> 0..Len(commits)] /\ synced' \in [Devices -> Trees]
      /\ reported' \in [Devices -> SUBSET Paths] /\ skipped' \in [Devices -> SUBSET Paths]
  BY <1>1, <1>5 DEF FinishResolve, LeftOut, TypeInv
<1>7. Idle \in Ops(Len(commits)) /\ Idle.phase = "idle"
  BY IdleOp
<1> QED BY <1>6, <1>7, DeviceMoves DEF FinishResolve, auxVars, TypeInv

-----------------------------------------------------------------------------
(* Every step of VaultSync; there, devices only sync and resolve.          *)
PlainOps ==
  \A d \in Devices :
    \/ op[d] = Idle
    \/ op[d].phase \in {"sent", "answered"} /\ op[d].kind \in {"sync", "resolve"}

SyncInv == TypeInv /\ PlainOps

LEMMA InitSyncInv == SyncInit => SyncInv
<1> SUFFICES ASSUME SyncInit PROVE SyncInv
  OBVIOUS
<1>1. StartTree \in Trees
  BY SyncAssumption DEF Trees
<1>2. commits \in Seq(Trees) /\ Len(commits) = 1
  BY <1>1, SMT DEF SyncInit
<1>3. TypeOK
  BY <1>1, <1>2, ServerAssumption, SMT DEF SyncInit, TypeOK, Owners
<1>4. \A p \in Paths : ValuesIn(StartTree[p]) \subseteq Values
  BY <1>1, ValuesInType DEF Trees
<1>5. seen \in [Devices -> [Paths -> SUBSET Values]]
  BY <1>4 DEF SyncInit
<1>6. op \in [Devices -> Ops(Len(commits))] /\ LeftListed /\ PlainOps
  BY IdleOp DEF SyncInit, LeftListed, PlainOps
<1>7. edits \in 0..MaxEdits /\ bounds \in Bounds /\ skipped \in [Devices -> SUBSET Paths]
  BY SyncAssumption, SMT DEF SyncInit, Bounds
<1>8. base \in [Devices -> 0..Len(commits)]
  BY <1>2, SMT DEF SyncInit
<1> QED BY <1>1, <1>2, <1>3, <1>5, <1>6, <1>7, <1>8 DEF SyncInit, SyncInv, TypeInv

(* A step of one device does not touch what the others are doing.          *)
LEMMA OthersOps ==
  ASSUME TypeInv, NEW d \in Devices,
         User(d) \/ Plugin(d) \/ Server(d) \/ Fault(d)
  PROVE  \A e \in Devices \ {d} : op'[e] = op[e]
<1>1. op \in [Devices -> Ops(Len(commits))]
  BY DEF TypeInv
<1>2. ASSUME User(d) PROVE \A e \in Devices \ {d} : op'[e] = op[e]
  BY <1>1, <1>2 DEF User, Edit, Delete, ResetLocalSyncState, StartResolve, StartSync
<1>3. ASSUME Plugin(d) PROVE \A e \in Devices \ {d} : op'[e] = op[e]
  BY <1>1, <1>3 DEF Plugin, ApplyFile, FinishSync, FinishResolve
<1>4. ASSUME Server(d) PROVE \A e \in Devices \ {d} : op'[e] = op[e]
  BY <1>1, <1>4 DEF Server, ServerSyncs, ServerResolves, Answered
<1>5. ASSUME Fault(d) PROVE \A e \in Devices \ {d} : op'[e] = op[e]
  BY <1>1, <1>5 DEF Fault, ServerStops, AnswerLost, DownloadFails, AppKilled
<1> QED BY <1>2, <1>3, <1>4, <1>5

LEMMA UserTypes ==
  ASSUME TypeInv, NEW d \in Devices, User(d)
  PROVE  TypeInv'
  BY EditTypes, DeleteTypes, ResetTypes, StartResolveTypes, StartSyncTypes DEF User

LEMMA StepKeepsPlain ==
  ASSUME SyncInv, NEW d \in Devices,
         User(d) \/ Plugin(d) \/ Server(d) \/ Fault(d)
  PROVE  PlainOps'
<1> DEFINE Plain == \/ op'[d] = Idle
                    \/ op'[d].phase \in {"sent", "answered"} /\ op'[d].kind \in {"sync", "resolve"}
<1>1. op \in [Devices -> Ops(Len(commits))] /\ TypeInv /\ PlainOps
  BY DEF TypeInv, SyncInv
<1>2. ASSUME User(d) PROVE Plain
  <2>1. CASE op' = op
    BY <1>1, <2>1 DEF PlainOps
  <2>2. CASE StartResolve(d)
    BY <1>1, <2>2 DEF StartResolve
  <2>3. CASE StartSync(d)
    BY <1>1, <2>3 DEF StartSync
  <2> QED BY <1>2, <2>1, <2>2, <2>3 DEF User, Edit, Delete, ResetLocalSyncState
<1>3. ASSUME Plugin(d) PROVE Plain
  <2>1. CASE \E p \in Paths : ApplyFile(d, p)
    <3>1. PICK p \in Paths : ApplyFile(d, p)
      BY <2>1
    <3>2. op'[d].phase = "answered" /\ op'[d].kind = op[d].kind /\ op[d].phase = "answered"
      BY <1>1, <3>1, ApplyFileFacts
    <3> QED BY <1>1, <3>2, IdleOp DEF PlainOps
  <2>2. CASE FinishSync(d) \/ FinishResolve(d)
    BY <1>1, <2>2 DEF FinishSync, FinishResolve
  <2> QED BY <1>3, <2>1, <2>2 DEF Plugin
<1>4. ASSUME Server(d) PROVE Plain
  BY <1>1, <1>4 DEF Server, ServerSyncs, ServerResolves, Answered
<1>5. ASSUME Fault(d) PROVE Plain
  BY <1>1, <1>5 DEF Fault, ServerStops, AnswerLost, DownloadFails, AppKilled
<1> QED BY <1>1, <1>2, <1>3, <1>4, <1>5, OthersOps DEF PlainOps

LEMMA PlainStops ==
  ASSUME SyncInv, NEW d \in Devices, ServerStops(d)
  PROVE  op[d].kind \in {"sync", "resolve"}
  BY IdleOp DEF ServerStops, SyncInv, PlainOps

LEMMA StepTypes ==
  ASSUME SyncInv, NEW d \in Devices,
         User(d) \/ Plugin(d) \/ Server(d) \/ Fault(d)
  PROVE  TypeInv'
<1>1. TypeInv
  BY DEF SyncInv
<1>2. ASSUME Plugin(d) PROVE TypeInv'
  BY <1>1, <1>2, ApplyFileFacts, FinishSyncTypes, FinishResolveTypes DEF Plugin
<1>3. ASSUME Server(d) PROVE TypeInv'
  BY <1>1, <1>3, ServerSyncsTypes, ServerResolvesTypes DEF Server
<1>4. ASSUME Fault(d) PROVE TypeInv'
  BY <1>1, <1>4, PlainStops, ServerStopsTypes, AnswerLostTypes, DownloadFailsTypes,
     AppKilledTypes DEF Fault
<1> QED BY <1>1, <1>2, <1>3, <1>4, UserTypes

LEMMA NextKeepsSyncInv == SyncInv /\ [SyncNext]_vars => SyncInv'
<1> SUFFICES ASSUME SyncInv, [SyncNext]_vars PROVE SyncInv'
  OBVIOUS
<1>1. ASSUME NEW d \in Devices, User(d) \/ Plugin(d) \/ Server(d) \/ Fault(d)
      PROVE  SyncInv'
  BY <1>1, StepTypes, StepKeepsPlain DEF SyncInv
<1>2. ASSUME TabletWrites PROVE SyncInv'
  BY <1>2, TabletTypes DEF SyncInv, PlainOps, TabletWrites, deviceVars
<1>3. ASSUME UNCHANGED vars PROVE SyncInv'
  <2>1. UNCHANGED <<serverVars, deviceVars, auxVars>> /\ TypeInv /\ PlainOps
    BY <1>3 DEF vars, SyncInv
  <2>2. TypeInv'
    BY <2>1, DeviceRests DEF TypeInv, deviceVars, auxVars
  <2> QED BY <2>1, <2>2 DEF SyncInv, PlainOps, deviceVars
<1> QED BY <1>1, <1>2, <1>3 DEF SyncNext

(***************************************************************************)
(* The devices, the server and every operation under way keep their types, *)
(* whatever fails.                                                         *)
(***************************************************************************)
THEOREM SyncInvariant == SyncSpec => []SyncInv
  BY InitSyncInv, NextKeepsSyncInv, PTL DEF SyncSpec

(* The types of the devices' and the server's state.                       *)
THEOREM SyncTypesKept == SyncSpec => []SyncTypeOK
<1>1. SyncInv => SyncTypeOK
  BY IdleOp DEF SyncInv, PlainOps, TypeInv, SyncTypeOK
<1> QED BY <1>1, SyncInvariant, PTL

-----------------------------------------------------------------------------
(* Only the server answers, and what it answers is in the operation.       *)
LEMMA HandledBy ==
  ASSUME SyncInv, [SyncNext]_vars, NEW d \in Devices, NEW kind, Handled(d, kind)
  PROVE  /\ ServerSyncs(d) \/ ServerResolves(d)
         /\ ServerSyncs(d) => kind = "sync"
         /\ ServerResolves(d) => kind = "resolve"
<1>1. /\ op[d].phase = "sent" /\ op'[d].phase = "answered" /\ op[d].kind = kind
      /\ op[d] \in Ops(Len(commits)) /\ op \in [Devices -> Ops(Len(commits))]
      /\ TypeInv
  BY DEF Handled, SyncInv, TypeInv
<1>2. op' # op
  BY <1>1
<1>3. PICK e \in Devices : User(e) \/ Plugin(e) \/ Server(e) \/ Fault(e)
  BY <1>2 DEF SyncNext, vars, deviceVars, TabletWrites
<1>4. e = d
  BY <1>1, <1>3, OthersOps
<1>5. ~User(d)
  BY <1>1, <1>2, IdleOp DEF User, Edit, Delete, ResetLocalSyncState, StartResolve, StartSync
<1>6. ~Plugin(d)
  BY <1>1 DEF Plugin, ApplyFile, FinishSync, FinishResolve
<1>7. ~Fault(d)
  BY <1>1, IdleOp DEF Fault, ServerStops, AnswerLost, DownloadFails, AppKilled
<1>8. Server(d)
  BY <1>3, <1>4, <1>5, <1>6, <1>7
<1> QED BY <1>1, <1>8 DEF Server, ServerSyncs, ServerResolves

(* The request of a sync, its handling and its answer.                     *)
LEMMA ServerSyncsFacts ==
  ASSUME TypeInv, NEW d \in Devices, ServerSyncs(d)
  PROVE  LET req == op[d].request IN
         /\ op[d].phase = "sent" /\ op[d].kind = "sync" /\ op[d].saved \in Trees
         /\ req \in Syncing(Len(commits)) /\ WellFormed(req) /\ req.manifest \in Trees
         /\ HandleSync(d, req) /\ commits' = SyncHistory(d, req)
         /\ pending' = RecordPending(pending, d,
                         ClashesOf(d, req, CommitAllIfChanged(commits, work)))
         /\ op'[d].phase = "answered" /\ op'[d].kind = "sync"
         /\ op'[d].saved = op[d].saved /\ op'[d].request = req
         /\ op'[d].answer = SyncAnswer(d, req) /\ op'[d].local = req.manifest
         /\ op'[d].left = DOMAIN SyncAnswer(d, req).files
         /\ UNCHANGED <<disk, synced, base, reported, edits, bounds, seen, skipped>>
<1>1. op[d] \in SentSyncs(Len(commits)) /\ Len(commits) \in Nat
  BY TypeInvOp, OpShape DEF ServerSyncs
<1>2. op[d].request \in Syncing(Len(commits)) /\ op[d].saved \in Trees
  BY <1>1 DEF SentSyncs
<1>3. op' = [op EXCEPT ![d] =
        [phase |-> "answered", kind |-> op[d].kind, saved |-> op[d].saved,
         request |-> op[d].request, answer |-> SyncAnswer(d, op[d].request),
         local |-> op[d].request.manifest,
         left |-> DOMAIN SyncAnswer(d, op[d].request).files]]
  BY DEF ServerSyncs, Answered
<1>4. op'[d] = [phase |-> "answered", kind |-> "sync", saved |-> op[d].saved,
                request |-> op[d].request, answer |-> SyncAnswer(d, op[d].request),
                local |-> op[d].request.manifest,
                left |-> DOMAIN SyncAnswer(d, op[d].request).files]
  BY <1>3 DEF TypeInv, ServerSyncs
<1>5. /\ op'[d].phase = "answered" /\ op'[d].kind = "sync"
      /\ op'[d].saved = op[d].saved /\ op'[d].request = op[d].request
      /\ op'[d].answer = SyncAnswer(d, op[d].request)
      /\ op'[d].local = op[d].request.manifest
      /\ op'[d].left = DOMAIN SyncAnswer(d, op[d].request).files
  BY <1>4
<1> QED BY <1>1, <1>2, <1>5, SyncingFacts DEF ServerSyncs, HandleSync, auxVars

LEMMA ServerResolvesFacts ==
  ASSUME TypeInv, NEW d \in Devices, ServerResolves(d)
  PROVE  LET files == op[d].request.changes IN
         /\ op[d].phase = "sent" /\ op[d].kind = "resolve" /\ op[d].saved \in Trees
         /\ files \in Writes /\ HandleResolve(files) /\ commits' = ResolveHistory(files)
         /\ pending' = ClearPending(pending, DOMAIN files)
         /\ op'[d].phase = "answered" /\ op'[d].kind = "resolve"
         /\ op'[d].saved = op[d].saved /\ op'[d].request = op[d].request
         /\ op'[d].answer = ResolveAnswer(d, files) /\ op'[d].local = synced[d]
         /\ op'[d].left = DOMAIN ResolveAnswer(d, files).files
         /\ UNCHANGED <<disk, synced, base, reported, edits, bounds, seen, skipped>>
<1>1. op[d] \in SentResolves
  BY TypeInvOp, OpShape DEF ServerResolves
<1>2. op[d].request.changes \in Writes /\ op[d].saved \in Trees
  BY <1>1 DEF SentResolves, Resolving
<1>3. op' = [op EXCEPT ![d] =
        [phase |-> "answered", kind |-> op[d].kind, saved |-> op[d].saved,
         request |-> op[d].request, answer |-> ResolveAnswer(d, op[d].request.changes),
         local |-> synced[d], left |-> DOMAIN ResolveAnswer(d, op[d].request.changes).files]]
  BY DEF ServerResolves, Answered
<1>4. op'[d] = [phase |-> "answered", kind |-> "resolve", saved |-> op[d].saved,
                request |-> op[d].request, answer |-> ResolveAnswer(d, op[d].request.changes),
                local |-> synced[d], left |-> DOMAIN ResolveAnswer(d, op[d].request.changes).files]
  BY <1>3 DEF TypeInv, ServerResolves
<1>5. /\ op'[d].phase = "answered" /\ op'[d].kind = "resolve"
      /\ op'[d].saved = op[d].saved /\ op'[d].request = op[d].request
      /\ op'[d].answer = ResolveAnswer(d, op[d].request.changes) /\ op'[d].local = synced[d]
      /\ op'[d].left = DOMAIN ResolveAnswer(d, op[d].request.changes).files
  BY <1>4
<1> QED BY <1>2, <1>5 DEF ServerResolves, HandleResolve, auxVars

(***************************************************************************)
(* The files of a conflict are those of paths nobody has to resolve; a     *)
(* device that has to resolve something is sent nothing else; and the      *)
(* answer to a resolution leaves out what is still to be resolved.         *)
(***************************************************************************)
THEOREM PendingCopiesKept == SyncSpec => PendingCopyKept
<1> DEFINE Kept1(d) ==
      Handled(d, "sync") \/ Handled(d, "resolve")
        => \A p \in DOMAIN op'[d].answer.files : ~(pending[p] = d /\ pending'[p] = d)
<1>1. ASSUME SyncInv, [SyncNext]_vars, NEW d \in Devices PROVE Kept1(d)
  <2> SUFFICES ASSUME NEW kind \in {"sync", "resolve"}, Handled(d, kind),
                      NEW p \in DOMAIN op'[d].answer.files,
                      pending[p] = d, pending'[p] = d
               PROVE  FALSE
    OBVIOUS
  <2>1. TypeInv /\ d # NoOwner
    BY <1>1, ServerAssumption DEF SyncInv
  <2>2. CASE ServerSyncs(d)
    <3> DEFINE req    == op[d].request
               answer == SyncAnswer(d, req)
               before == CommitAllIfChanged(commits, work)
    <3>1. op'[d].answer = answer /\ WellFormed(req)
      BY <1>1, <2>1, <2>2, ServerSyncsFacts
    <3>2. CASE ClashesOf(d, req, before) # {}
      <4>1. answer.files = ConflictFiles(d, req, before)
        BY <3>2, SyncAnswerCases DEF Answer
      <4> QED BY <2>1, <3>1, <4>1 DEF ConflictFiles, Unowned
    <3>3. CASE ClashesOf(d, req, before) = {} /\ PendingFor(pending, d) # {}
      <4>1. answer.files = <<>>
        BY <3>3, SyncAnswerCases DEF Answer
      <4> QED BY <3>1, <4>1
    <3>4. CASE ClashesOf(d, req, before) = {} /\ PendingFor(pending, d) = {}
      <4>1. answer.files = ChangedFilesSince(SyncHistory(d, req), req.base, req.manifest)
        BY <3>4, SyncAnswerCases DEF Answer
      <4>2. p \in Paths
        BY <3>1, <4>1 DEF ChangedFilesSince
      <4> QED BY <3>4, <4>2 DEF PendingFor
    <3> QED BY <3>2, <3>3, <3>4
  <2>3. CASE ServerResolves(d)
    <3>1. /\ op'[d].answer = ResolveAnswer(d, op[d].request.changes)
          /\ op[d].request.changes \in Writes
          /\ pending' = ClearPending(pending, DOMAIN op[d].request.changes)
      BY <1>1, <2>1, <2>3, ServerResolvesFacts
    <3>2. p \in Paths \ PendingFor(pending', d)
      BY <2>1, <3>1, ResolveAnswerFacts DEF TypeInv
    <3> QED BY <3>2 DEF PendingFor
  <2> QED BY <1>1, <2>2, <2>3, HandledBy
<1>2. SyncInv /\ [SyncNext]_vars => [\A d \in Devices : Kept1(d)]_vars
  BY <1>1
<1> QED BY <1>2, SyncInvariant, PTL DEF SyncSpec, PendingCopyKept

-----------------------------------------------------------------------------
(***************************************************************************)
(* What an accepted change does to a file, whatever the device's base is.  *)
(***************************************************************************)

(* A region that is lost was not the server's own change.                  *)
LEMMA TextUpsertDrops ==
  ASSUME NEW b \in Files, NEW acked \in BOOLEAN, NEW s \in Files, NEW c \in Contents,
         ~TextUpsert(b, acked, s, c).clash
  PROVE  ValuesIn(s) \ ValuesIn(TextUpsert(b, acked, s, c).content) \subseteq ValuesIn(b)
<1> DEFINE from == UpsertBase(b, acked, s)
           out  == TextUpsert(b, acked, s, c)
<1>0. Absent \notin Texts /\ (s # Absent => from = b)
  BY TextAssumption DEF Contents, UpsertBase
<1>1. CASE s = c \/ s = Absent
  <2>1. CASE s = c
    <3>1. out.content = s BY <2>1 DEF TextUpsert, Kept
    <3> QED BY <3>1
  <2>2. CASE s = Absent
    BY <1>0, <2>2 DEF ValuesIn
  <2> QED BY <1>1, <2>1, <2>2
<1>2. CASE s # c /\ s # Absent /\ c = b
  <2>1. out.content = s BY <1>0, <1>2 DEF TextUpsert, Kept
  <2> QED BY <2>1
<1>3. CASE s # c /\ s # Absent /\ c # b
  <2>1. b # Absent
    BY <1>0, <1>3, SMT DEF TextUpsert, Clashed
  <2>2. CASE s = b
    BY <2>2
  <2>3. CASE s # b
    <3>1. out = MergeTextFile(b, s, c)
      BY <1>0, <1>3, <2>1, <2>3 DEF TextUpsert
    <3>2. {b, s, c} \cap NulTexts = {} /\ ~(Markers \in {b, s, c} \/ RegionsClash(b, s, c))
      BY <3>1, SMT DEF MergeTextFile, Clashed
    <3>3. out.content = MergedRegions(b, s, c)
      BY <3>1, <3>2 DEF MergeTextFile, Written
    <3>4. b \in Texts /\ s \in Texts /\ c \in Texts
      BY <1>3, <2>1, <3>2 DEF Files, Contents
    <3>5. MergedRegions(b, s, c) \in Texts
      BY <3>4 DEF MergedRegions, Texts
    <3>6. ASSUME NEW r \in Regions, s[r] \notin ValuesIn(out.content)
          PROVE  s[r] = b[r]
      <4>1. out.content[r] \in ValuesIn(out.content)
        BY <3>3, <3>5 DEF ValuesIn
      <4>2. s[r] = b[r] \/ c[r] = b[r] \/ s[r] = c[r]
        BY <3>2 DEF RegionsClash
      <4> QED BY <3>3, <3>6, <4>1, <4>2 DEF MergedRegions
    <3> QED BY <3>4, <3>6 DEF ValuesIn
  <2> QED BY <2>2, <2>3
<1> QED BY <1>1, <1>2, <1>3

(* The result is the base only if the upload is the base or the result.    *)
LEMMA TextUpsertEcho ==
  ASSUME NEW b \in Files, NEW acked \in BOOLEAN, NEW s \in Files, NEW c \in Contents,
         ~TextUpsert(b, acked, s, c).clash,
         TextUpsert(b, acked, s, c).content = b
  PROVE  c = b
<1> DEFINE from == UpsertBase(b, acked, s)
           out  == TextUpsert(b, acked, s, c)
<1>0. Absent \notin Texts /\ c # Absent /\ from \in {b, Absent}
  BY TextAssumption DEF Contents, UpsertBase
<1>1. CASE s = c
  <2>1. out.content = c BY <1>1 DEF TextUpsert, Kept
  <2> QED BY <2>1
<1>2. CASE s # c /\ from = Absent /\ s = Absent
  <2>1. out.content = c BY <1>2 DEF TextUpsert, Written
  <2> QED BY <2>1
<1>3. CASE s # c /\ ~(from = Absent /\ s = Absent) /\ c = from
  BY <1>0, <1>3
<1>4. CASE s # c /\ ~(from = Absent /\ s = Absent) /\ c # from
  <2>1. Absent \notin {from, s}
    BY <1>4, SMT DEF TextUpsert, Clashed
  <2>2. from = b
    BY <1>0, <2>1
  <2>3. CASE s = b
    <3>1. out.content = c BY <1>4, <2>1, <2>2, <2>3 DEF TextUpsert, Written
    <3> QED BY <3>1
  <2>4. CASE s # b
    <3>1. out = MergeTextFile(b, s, c)
      BY <1>4, <2>1, <2>2, <2>4 DEF TextUpsert
    <3>2. {b, s, c} \cap NulTexts = {} /\ ~(Markers \in {b, s, c} \/ RegionsClash(b, s, c))
      BY <3>1, SMT DEF MergeTextFile, Clashed
    <3>3. MergedRegions(b, s, c) = b
      BY <3>1, <3>2 DEF MergeTextFile, Written
    <3>4. b \in Texts /\ c \in Texts
      BY <1>0, <2>1, <2>2, <3>2 DEF Files, Contents
    <3>5. \A r \in Regions : c[r] = b[r]
      BY <3>3 DEF MergedRegions
    <3> QED BY <3>4, <3>5 DEF Texts
  <2> QED BY <2>3, <2>4
<1> QED BY <1>1, <1>2, <1>3, <1>4

(* A file nobody changed since the base takes the upload.                  *)
LEMMA TextUpsertUnraced ==
  ASSUME NEW s \in Files, NEW acked \in BOOLEAN, NEW c \in Contents
  PROVE  TextUpsert(s, acked, s, c) = Written(c)
<1>1. CASE s = c
  BY <1>1 DEF TextUpsert, Written, Kept
<1>2. CASE s # c /\ s = Absent
  BY <1>2 DEF TextUpsert, UpsertBase
<1>3. CASE s # c /\ s # Absent
  <2>1. UpsertBase(s, acked, s) = s
    BY <1>3 DEF UpsertBase
  <2> QED BY <1>3, <2>1 DEF TextUpsert
<1> QED BY <1>1, <1>2, <1>3

(* What the server holds and what the device is based on, for one change.  *)
LEMMA OutcomeCases ==
  ASSUME TypeOK, NEW d \in Devices, NEW req, WellFormed(req),
         NEW h \in Seq(Trees), NEW p \in DOMAIN req.changes
  PROVE  LET b   == TreeAt(h, req.base)[p]
             s   == HeadTree(h)[p]
             c   == req.changes[p]
             out == ChangeOutcome(d, req, h, p)
         IN
         /\ p \in Paths /\ b \in Files /\ s \in Files /\ c \in Files
         /\ c # Absent => c \in Contents
         /\ pending[p] # NoOwner => out = Clashed(s)
         /\ pending[p] = NoOwner =>
              /\ p \notin TextPaths => out = BinaryChange(req.base # 0, b, s, c)
              /\ p \in TextPaths /\ c = Absent => out = TextDelete(b, s)
              /\ p \in TextPaths /\ c # Absent => out = TextUpsert(b, p \in acks[d], s, c)
<1>1. p \in Paths /\ req.changes[p] \in Files /\ req.base \in Nat
  BY DEF WellFormed, FilesOf
<1>2. TreeAt(h, req.base) \in Trees /\ HeadTree(h) \in Trees
  BY <1>1, TreeAtType
<1>3. TreeAt(h, req.base)[p] \in Files /\ HeadTree(h)[p] \in Files
  BY <1>1, <1>2 DEF Trees
<1> QED BY <1>1, <1>3 DEF ChangeOutcome, Unowned, Files

(* An accepted change loses only values of its base, unless it deletes     *)
(* blindly or replaces a binary file without a base.                       *)
LEMMA OutcomeDrops ==
  ASSUME TypeOK, NEW d \in Devices, NEW req, WellFormed(req),
         NEW h \in Seq(Trees), NEW p \in DOMAIN req.changes,
         ~ChangeOutcome(d, req, h, p).clash,
         p \in TextPaths \/ req.base # 0,
         req.changes[p] = Absent => TreeAt(h, req.base)[p] # Absent
  PROVE  ValuesIn(HeadTree(h)[p]) \ ValuesIn(ChangeOutcome(d, req, h, p).content)
           \subseteq ValuesIn(TreeAt(h, req.base)[p])
<1> DEFINE b   == TreeAt(h, req.base)[p]
           s   == HeadTree(h)[p]
           c   == req.changes[p]
           out == ChangeOutcome(d, req, h, p)
<1>1. pending[p] = NoOwner
  BY OutcomeCases, SMT DEF Clashed
<1>2. b \in Files /\ s \in Files /\ c \in Files /\ (c # Absent => c \in Contents)
  BY OutcomeCases
<1>3. CASE p \notin TextPaths
  <2>1. out = BinaryChange(req.base # 0, b, s, c)
    BY <1>1, <1>3, OutcomeCases
  <2>2. s = b
    BY <1>3, <2>1, SMT DEF BinaryChange, Clashed
  <2> QED BY <2>2
<1>4. CASE p \in TextPaths /\ c = Absent
  <2>1. out = TextDelete(b, s)
    BY <1>1, <1>4, OutcomeCases
  <2>2. s = Absent \/ b \in {s, Absent}
    BY <2>1, SMT DEF TextDelete, Clashed
  <2>3. s = Absent \/ b = s
    BY <1>4, <2>2
  <2> QED BY <2>3, TextAssumption DEF ValuesIn, Contents
<1>5. CASE p \in TextPaths /\ c # Absent
  <2>1. out = TextUpsert(b, p \in acks[d], s, c)
    BY <1>1, <1>5, OutcomeCases
  <2>2. (p \in acks[d]) \in BOOLEAN
    OBVIOUS
  <2>3. ~out.clash /\ c \in Contents
    BY <1>2, <1>5
  <2>4. ValuesIn(s) \ ValuesIn(out.content) \subseteq ValuesIn(b)
    <3> HIDE DEF b, s, c, out
    <3>1. ~TextUpsert(b, p \in acks[d], s, c).clash
      BY <2>1, <2>3
    <3> QED BY ONLY <1>2, <2>1, <2>2, <2>3, <3>1, TextUpsertDrops
  <2> QED BY <2>4
<1> QED BY <1>3, <1>4, <1>5

(* The head after a sync.                                                  *)
LEMMA SyncHead ==
  ASSUME TypeOK, NEW d \in Devices, NEW req, WellFormed(req),
         NEW before, before = CommitAllIfChanged(commits, work)
  PROVE  /\ before \in Seq(Trees) /\ SyncHistory(d, req) \in Seq(Trees)
         /\ ClashesOf(d, req, before) # {} => SyncHistory(d, req) = before
         /\ ClashesOf(d, req, before) = {} =>
              /\ \A p \in DOMAIN req.changes :
                   /\ ~ChangeOutcome(d, req, before, p).clash
                   /\ HeadTree(SyncHistory(d, req))[p]
                        = ChangeOutcome(d, req, before, p).content
              /\ \A p \in Paths \ DOMAIN req.changes :
                   HeadTree(SyncHistory(d, req))[p] = HeadTree(before)[p]
<1> DEFINE tree == Applied(d, req, before, DOMAIN req.changes)
<1>1. /\ before \in Seq(Trees) /\ SyncHistory(d, req) \in Seq(Trees)
      /\ ClashesOf(d, req, before) # {} => SyncHistory(d, req) = before
      /\ ClashesOf(d, req, before) = {} => HeadTree(SyncHistory(d, req)) = tree
  BY SyncHistoryFacts
<1>2. DOMAIN req.changes \subseteq Paths
  BY DEF WellFormed, FilesOf
<1>3. ClashesOf(d, req, before) = {} =>
        \A p \in DOMAIN req.changes : ~ChangeOutcome(d, req, before, p).clash
  BY DEF ClashesOf
<1> QED BY <1>1, <1>2, <1>3 DEF Applied

LEMMA HandleSyncDrops ==
  ASSUME TypeOK, NEW d \in Devices, NEW req, WellFormed(req), HandleSync(d, req),
         work = HeadTree(commits),
         NEW p \in Paths, p \notin BlindDeletions(req), p \in TextPaths \/ req.base # 0
  PROVE  LostValues(p) \subseteq ValuesIn(TreeAt(commits, req.base)[p])
<1>1. commits = CommitAllIfChanged(commits, work) /\ commits' = SyncHistory(d, req)
  BY CleanHistory DEF HandleSync
<1>2. CASE ClashesOf(d, req, commits) # {}
  <2>1. commits' = commits
    BY <1>1, <1>2, SyncHead
  <2> QED BY <2>1 DEF LostValues
<1>3. CASE ClashesOf(d, req, commits) = {} /\ p \notin DOMAIN req.changes
  <2>1. HeadTree(commits')[p] = HeadTree(commits)[p]
    BY <1>1, <1>3, SyncHead
  <2> QED BY <2>1 DEF LostValues
<1>4. CASE ClashesOf(d, req, commits) = {} /\ p \in DOMAIN req.changes
  <2>1. /\ ~ChangeOutcome(d, req, commits, p).clash
        /\ HeadTree(commits')[p] = ChangeOutcome(d, req, commits, p).content
    BY <1>1, <1>4, SyncHead
  <2>2. req.changes[p] = Absent => TreeAt(commits, req.base)[p] # Absent
    BY <1>4 DEF BlindDeletions
  <2>3. commits \in Seq(Trees)
    BY DEF TypeOK
  <2> QED BY <1>4, <2>1, <2>2, <2>3, OutcomeDrops DEF LostValues
<1> QED BY <1>2, <1>3, <1>4

(***************************************************************************)
(* A three-way merge against the device's base keeps what came after it,   *)
(* and everything else that loses a value is refused as a conflict.        *)
(***************************************************************************)
THEOREM SyncsDropOnlyBase == SyncSpec => SyncDropsOnlyBase
<1> DEFINE Drops(d) ==
      Handled(d, "sync") /\ work = HeadTree(commits)
        => \A p \in Paths \ BlindDeletions(op[d].request) :
             p \in TextPaths \/ op[d].request.base # 0
               => LostValues(p) \subseteq ValuesIn(TreeAt(commits, op[d].request.base)[p])
<1>1. ASSUME SyncInv, [SyncNext]_vars, NEW d \in Devices PROVE Drops(d)
  <2> SUFFICES ASSUME Handled(d, "sync"), work = HeadTree(commits)
               PROVE  \A p \in Paths \ BlindDeletions(op[d].request) :
                        p \in TextPaths \/ op[d].request.base # 0
                          => LostValues(p) \subseteq
                               ValuesIn(TreeAt(commits, op[d].request.base)[p])
    OBVIOUS
  <2>1. ServerSyncs(d) /\ TypeInv /\ TypeOK
    BY <1>1, HandledBy DEF SyncInv, TypeInv
  <2>2. WellFormed(op[d].request) /\ HandleSync(d, op[d].request)
    BY <1>1, <2>1, ServerSyncsFacts
  <2> QED BY <1>1, <2>1, <2>2, HandleSyncDrops
<1>2. SyncInv /\ [SyncNext]_vars => [\A d \in Devices : Drops(d)]_vars
  BY <1>1
<1> QED BY <1>2, SyncInvariant, PTL DEF SyncSpec, SyncDropsOnlyBase

-----------------------------------------------------------------------------
(* A step of one device leaves the others' state alone.                    *)
LEMMA OthersRest ==
  ASSUME TypeInv, NEW d \in Devices, NEW e \in Devices \ {d},
         User(d) \/ Plugin(d) \/ Server(d) \/ Fault(d)
  PROVE  /\ disk'[e] = disk[e] /\ synced'[e] = synced[e] /\ base'[e] = base[e]
         /\ op'[e] = op[e] /\ seen'[e] = seen[e] /\ skipped'[e] = skipped[e]
<1> DEFINE Rest == /\ disk'[e] = disk[e] /\ synced'[e] = synced[e] /\ base'[e] = base[e]
                   /\ seen'[e] = seen[e] /\ skipped'[e] = skipped[e]
<1>1. /\ disk \in [Devices -> Trees] /\ synced \in [Devices -> Trees]
      /\ base \in [Devices -> 0..Len(commits)]
      /\ seen \in [Devices -> [Paths -> SUBSET Values]]
      /\ skipped \in [Devices -> SUBSET Paths]
  BY DEF TypeInv
<1>2. ASSUME User(d) PROVE Rest
  BY <1>1, <1>2
     DEF User, Edit, Delete, ResetLocalSyncState, StartResolve, StartSync, Shown, auxVars
<1>3. ASSUME Plugin(d) PROVE Rest
  BY <1>1, <1>3 DEF Plugin, ApplyFile, FinishSync, FinishResolve, Shown, auxVars
<1>4. ASSUME Server(d) PROVE Rest
  BY <1>1, <1>4 DEF Server, ServerSyncs, ServerResolves, auxVars
<1>5. ASSUME Fault(d) PROVE Rest
  BY <1>1, <1>5 DEF Fault, ServerStops, AnswerLost, DownloadFails, AppKilled, auxVars
<1> QED BY <1>2, <1>3, <1>4, <1>5, OthersOps

(***************************************************************************)
(* Why no sync drops what its user has not been shown.  As long as nothing *)
(* was lost, all a device may ever base a request on was shown to its user *)
(* first: its files, the manifest it counts as synced, the tree of its     *)
(* base commit, and the server's side of a conflict it has to resolve.     *)
(***************************************************************************)
SeenBy(d, p, file) == ValuesIn(file) \subseteq seen[d][p]

(* The conflicting files the device has not put on its disk yet.           *)
Clashing(d) ==
  op[d].phase = "answered" /\ op[d].kind = "sync" /\ op[d].answer.status = "conflict"
ToShow(d)   == IF Clashing(d) THEN op[d].left ELSE {}
Sent(d)     == TreeAt(commits, op[d].answer.head)

DiskSeen(d, p) ==
  /\ SeenBy(d, p, disk[d][p]) /\ SeenBy(d, p, synced[d][p])
  /\ SeenBy(d, p, TreeAt(commits, base[d])[p])

PendingSeen(d, p) ==
  pending[p] = d /\ p \notin ToShow(d) => SeenBy(d, p, HeadTree(commits)[p])

RequestSeen(d, p) ==
  op[d].phase = "sent" /\ op[d].kind = "sync" =>
    /\ SeenBy(d, p, TreeAt(commits, op[d].request.base)[p])
    /\ SeenBy(d, p, op[d].request.manifest[p])

(* A path that waits to be shown is frozen: what the answer shows is still *)
(* what the server has.                                                    *)
AnswerSeen(d, p) ==
  op[d].phase = "answered" =>
    /\ SeenBy(d, p, op[d].local[p])
    /\ p \in op[d].left => op[d].answer.files[p] \in {Markers, Sent(d)[p]}
    /\ Clashing(d) /\ p \in op[d].left /\ pending[p] = d
         => Sent(d)[p] = HeadTree(commits)[p]
    /\ ~Clashing(d) /\ p \notin op[d].left => SeenBy(d, p, Sent(d)[p])

AllSeen(d) ==
  \A p \in TextPaths :
    DiskSeen(d, p) /\ PendingSeen(d, p) /\ RequestSeen(d, p) /\ AnswerSeen(d, p)

SeenInv == Undisturbed => work = HeadTree(commits) /\ \A d \in Devices : AllSeen(d)

LEMMA NothingIn == ValuesIn(Absent) = {} /\ ValuesIn(Markers) = {}
  BY TextAssumption DEF ValuesIn, Contents

(* A commit does not change what a number stands for.                      *)
LEMMA TreeAtKept ==
  ASSUME NEW h \in Seq(Trees), NEW k \in Seq(Trees), Extends(h, k), NEW n \in 0..Len(h)
  PROVE  TreeAt(k, n) = TreeAt(h, n)
<1>1. Len(h) \in Nat /\ Len(k) \in Nat /\ Len(h) <= Len(k)
  BY SMT DEF Extends
<1>2. n \in 1..Len(h) <=> n \in 1..Len(k)
  BY ONLY <1>1, n \in 0..Len(h), SMT
<1> QED BY <1>2 DEF TreeAt, Extends

(* The trees an operation refers to are on the branch.                     *)
LEMMA OpTrees ==
  ASSUME TypeInv, NEW d \in Devices
  PROVE  /\ base[d] \in 0..Len(commits)
         /\ op[d].phase = "sent" /\ op[d].kind = "sync" => op[d].request.base \in 0..Len(commits)
         /\ op[d].phase = "answered" => op[d].answer.head \in 0..Len(commits)
<1>1. op[d].phase = "sent" /\ op[d].kind = "sync" => op[d].request.base \in 0..Len(commits)
  <2>1. op[d].phase = "sent" /\ op[d].kind = "sync" => op[d] \in SentSyncs(Len(commits))
    BY TypeInvOp, OpShape
  <2> QED BY <2>1 DEF SentSyncs, Syncing
<1> QED BY <1>1, AnsweredFacts DEF TypeInv

(* A device whose operation does not move, beside the server.              *)
LEMMA WaitingSeen ==
  ASSUME TypeInv, TypeOK', Extends(commits, commits'), NEW d \in Devices, AllSeen(d),
         op'[d] = op[d],
         \A p \in TextPaths : DiskSeen(d, p)',
         \A p \in TextPaths : seen[d][p] \subseteq seen'[d][p],
         \A p \in TextPaths : pending'[p] = d =>
            pending[p] = d /\ HeadTree(commits')[p] = HeadTree(commits)[p]
  PROVE  AllSeen(d)'
<1> SUFFICES ASSUME NEW p \in TextPaths
             PROVE  (PendingSeen(d, p) /\ RequestSeen(d, p) /\ AnswerSeen(d, p))'
  BY DEF AllSeen
<1>1. seen[d][p] \subseteq seen'[d][p]
  OBVIOUS
<1>2. \A n \in 0..Len(commits) : TreeAt(commits', n) = TreeAt(commits, n)
  BY TreeAtKept DEF TypeInv, TypeOK
<1>3. pending'[p] = d => pending[p] = d /\ HeadTree(commits')[p] = HeadTree(commits)[p]
  OBVIOUS
<1>4. DiskSeen(d, p) /\ PendingSeen(d, p) /\ RequestSeen(d, p) /\ AnswerSeen(d, p)
  BY DEF AllSeen
<1>5. PendingSeen(d, p)'
  BY <1>1, <1>3, <1>4 DEF PendingSeen, SeenBy, ToShow, Clashing
<1>6. RequestSeen(d, p)'
  <2>1. SUFFICES ASSUME op[d].phase = "sent", op[d].kind = "sync"
                 PROVE  /\ SeenBy(d, p, TreeAt(commits, op[d].request.base)[p])'
                        /\ SeenBy(d, p, op[d].request.manifest[p])'
    BY DEF RequestSeen
  <2>2. TreeAt(commits', op[d].request.base) = TreeAt(commits, op[d].request.base)
    BY <1>2, <2>1, OpTrees
  <2> QED BY <1>1, <1>4, <2>1, <2>2 DEF RequestSeen, SeenBy
<1>7. AnswerSeen(d, p)'
  <2>1. SUFFICES ASSUME op[d].phase = "answered" PROVE AnswerSeen(d, p)'
    BY DEF AnswerSeen
  <2>2. Sent(d)' = Sent(d)
    BY <1>2, <2>1, OpTrees DEF Sent
  <2> QED BY <1>1, <1>3, <1>4, <2>1, <2>2 DEF AnswerSeen, SeenBy, Clashing
<1> QED BY <1>5, <1>6, <1>7

(* A device whose own state does not change.                               *)
LEMMA BystanderSeen ==
  ASSUME TypeInv, TypeOK', Extends(commits, commits'), NEW d \in Devices, AllSeen(d),
         disk'[d] = disk[d], synced'[d] = synced[d], base'[d] = base[d], op'[d] = op[d],
         \A p \in TextPaths : seen[d][p] \subseteq seen'[d][p],
         \A p \in TextPaths : pending'[p] = d =>
            pending[p] = d /\ HeadTree(commits')[p] = HeadTree(commits)[p]
  PROVE  AllSeen(d)'
<1>1. TreeAt(commits', base'[d]) = TreeAt(commits, base[d])
  BY TreeAtKept, OpTrees DEF TypeInv, TypeOK
<1>2. \A p \in TextPaths : DiskSeen(d, p)'
  BY <1>1 DEF DiskSeen, SeenBy, AllSeen
<1> QED BY <1>2, WaitingSeen

(* A step of one device, beside the others and the server.                 *)
LEMMA StepSeen ==
  ASSUME TypeInv, TypeOK', Extends(commits, commits'), SeenInv,
         NEW d \in Devices, User(d) \/ Plugin(d) \/ Server(d) \/ Fault(d),
         Undisturbed' => Undisturbed, work' = HeadTree(commits'),
         \A e \in Devices \ {d}, p \in TextPaths : pending'[p] = e =>
            pending[p] = e /\ HeadTree(commits')[p] = HeadTree(commits)[p],
         AllSeen(d) => AllSeen(d)'
  PROVE  SeenInv'
<1> SUFFICES ASSUME Undisturbed' PROVE \A e \in Devices : AllSeen(e)'
  BY DEF SeenInv
<1>1. \A e \in Devices : AllSeen(e)
  BY DEF SeenInv
<1>2. ASSUME NEW e \in Devices \ {d} PROVE AllSeen(e)'
  <2>1. /\ disk'[e] = disk[e] /\ synced'[e] = synced[e] /\ base'[e] = base[e]
        /\ op'[e] = op[e] /\ seen'[e] = seen[e]
    BY <1>2, OthersRest
  <2> QED BY <1>1, <1>2, <2>1, BystanderSeen
<1> QED BY <1>1, <1>2

(* What the user of a device is shown is not forgotten.                    *)
LEMMA ShownGrows ==
  ASSUME seen \in [Devices -> [Paths -> SUBSET Values]], NEW d \in Devices,
         NEW paths, NEW values, seen' = Shown(d, paths, values)
  PROVE  \A p \in Paths : /\ seen[d][p] \subseteq seen'[d][p]
                          /\ p \in paths => values \subseteq seen'[d][p]
  BY DEF Shown

(* The user's own steps.  An edit shows what it writes.                    *)
LEMMA EditSeen ==
  ASSUME TypeInv, NEW d \in Devices, Edit(d), AllSeen(d)
  PROVE  AllSeen(d)'
<1>0. PICK paths \in (SUBSET Paths) \ {{}} :
        \E files \in [paths -> Texts] :
          /\ \A p \in paths : files[p] \in EditsOf(disk[d][p], edits + 1)
          /\ disk' = [disk EXCEPT ![d] = Overwritten(@, files)]
          /\ seen' = Shown(d, paths, {edits + 1})
  BY DEF Edit
<1>1. PICK files \in [paths -> Texts] :
        /\ \A p \in paths : files[p] \in EditsOf(disk[d][p], edits + 1)
        /\ disk' = [disk EXCEPT ![d] = Overwritten(@, files)]
        /\ seen' = Shown(d, paths, {edits + 1})
  BY <1>0
<1>2. /\ UNCHANGED <<serverVars, synced, base, op>>
      /\ commits' = commits /\ pending' = pending /\ TypeOK' /\ Extends(commits, commits')
  BY ServerRests DEF Edit, TypeInv, Extends, serverVars
<1>3. seen \in [Devices -> [Paths -> SUBSET Values]] /\ disk \in [Devices -> Trees]
  BY DEF TypeInv
<1>4. \A p \in Paths : /\ seen[d][p] \subseteq seen'[d][p]
                       /\ p \in paths => edits + 1 \in seen'[d][p]
  BY <1>1, <1>3, ShownGrows
<1>5. ASSUME NEW p \in TextPaths PROVE DiskSeen(d, p)'
  <2>1. p \in Paths /\ DiskSeen(d, p)
    BY <1>5, ServerAssumption DEF AllSeen
  <2>2. disk'[d] = Overwritten(disk[d], files)
    BY <1>1, <1>3
  <2>3. CASE p \notin paths
    BY <1>2, <1>4, <2>1, <2>2, <2>3 DEF DiskSeen, SeenBy, Overwritten
  <2>4. CASE p \in paths
    <3>1. disk'[d][p] = files[p] /\ files[p] \in EditsOf(disk[d][p], edits + 1)
          /\ files[p] \in Texts
      BY <1>1, <2>1, <2>2, <2>4 DEF Overwritten
    <3>2. ValuesIn(files[p]) \subseteq ValuesIn(disk[d][p]) \cup {edits + 1}
      <4> DEFINE f == disk[d][p]
      <4>1. CASE f \in Texts
        BY <3>1, <4>1 DEF EditsOf, ValuesIn, Texts
      <4>2. CASE f \notin Texts
        BY <3>1, <4>2 DEF EditsOf, ValuesIn
      <4> QED BY <4>1, <4>2
    <3> QED BY <1>2, <1>4, <2>1, <2>4, <3>1, <3>2 DEF DiskSeen, SeenBy
  <2> QED BY <2>3, <2>4
<1> QED BY <1>2, <1>4, <1>5, WaitingSeen, ServerAssumption

LEMMA DeleteSeen ==
  ASSUME TypeInv, NEW d \in Devices, NEW p \in Paths, Delete(d, p), AllSeen(d)
  PROVE  AllSeen(d)'
<1>1. /\ UNCHANGED <<serverVars, synced, base, op, seen>>
      /\ commits' = commits /\ pending' = pending /\ TypeOK' /\ Extends(commits, commits')
  BY ServerRests DEF Delete, TypeInv, Extends, serverVars
<1>2. ASSUME NEW q \in TextPaths PROVE DiskSeen(d, q)'
  <2>1. disk'[d][q] \in {disk[d][q], Absent}
    BY <1>2, ServerAssumption DEF Delete, TypeInv, Trees
  <2> QED BY <1>1, <1>2, <2>1, NothingIn DEF DiskSeen, SeenBy, AllSeen
<1> QED BY <1>1, <1>2, WaitingSeen

LEMMA ResetSeen ==
  ASSUME TypeInv, NEW d \in Devices, ResetLocalSyncState(d), AllSeen(d)
  PROVE  AllSeen(d)'
<1>1. /\ UNCHANGED <<serverVars, disk, op, seen>>
      /\ commits' = commits /\ pending' = pending /\ TypeOK' /\ Extends(commits, commits')
  BY ServerRests DEF ResetLocalSyncState, TypeInv, Extends, serverVars
<1>2. base'[d] = 0 /\ synced'[d] = EmptyTree
  BY DEF ResetLocalSyncState, TypeInv
<1>3. TreeAt(commits', base'[d]) = EmptyTree
  BY <1>2, SMT DEF TreeAt
<1>4. ASSUME NEW q \in TextPaths PROVE DiskSeen(d, q)'
  <2>1. EmptyTree[q] = Absent
    BY <1>4, ServerAssumption DEF EmptyTree
  <2> QED BY <1>1, <1>2, <1>3, <1>4, <2>1, NothingIn DEF DiskSeen, SeenBy, AllSeen
<1> QED BY <1>1, <1>4, WaitingSeen

LEMMA StartSyncSeen ==
  ASSUME TypeInv, NEW d \in Devices, StartSync(d), AllSeen(d)
  PROVE  AllSeen(d)'
<1>1. UNCHANGED <<commits, pending, disk, synced, base, seen>>
  BY DEF StartSync, serverVars, auxVars
<1>2. op'[d] = [phase |-> "sent", kind |-> "sync", saved |-> synced[d],
        request |->
          [base     |-> base[d],
           changes  |-> [p \in ChangedPaths(disk[d], synced[d]) |-> disk[d][p]],
           manifest |-> disk[d]]]
  BY DEF StartSync, TypeInv
<1>3. op'[d].phase = "sent" /\ op'[d].request.base = base[d]
      /\ op'[d].request.manifest = disk[d] /\ op[d].phase = "idle"
  BY <1>2, IdleOp DEF StartSync
<1>4. ToShow(d)' = {} /\ ToShow(d) = {}
  BY <1>3 DEF ToShow, Clashing
<1> QED BY <1>1, <1>3, <1>4
        DEF AllSeen, DiskSeen, PendingSeen, RequestSeen, AnswerSeen, SeenBy

LEMMA StartResolveSeen ==
  ASSUME TypeInv, NEW d \in Devices, StartResolve(d), AllSeen(d)
  PROVE  AllSeen(d)'
<1>0. PICK paths \in (SUBSET (reported[d] \cup PendingFor(pending, d))) \ {{}} :
        \E files \in [paths -> UNION {Resolutions(d, p) : p \in paths}] :
          /\ disk' = [disk EXCEPT ![d] = Overwritten(@, files)]
          /\ seen' = [seen EXCEPT ![d] = [p \in Paths |->
                        IF p \in paths THEN @[p] \cup ValuesIn(files[p]) ELSE @[p]]]
          /\ op' = [op EXCEPT ![d] =
               [phase |-> "sent", kind |-> "resolve", saved |-> synced[d],
                request |-> [changes |-> files]]]
  BY DEF StartResolve
<1>1. PICK files \in [paths -> UNION {Resolutions(d, p) : p \in paths}] :
        /\ disk' = [disk EXCEPT ![d] = Overwritten(@, files)]
        /\ seen' = [seen EXCEPT ![d] = [p \in Paths |->
                      IF p \in paths THEN @[p] \cup ValuesIn(files[p]) ELSE @[p]]]
        /\ op' = [op EXCEPT ![d] =
             [phase |-> "sent", kind |-> "resolve", saved |-> synced[d],
              request |-> [changes |-> files]]]
  BY <1>0
<1>2. UNCHANGED <<commits, pending, synced, base>>
  BY DEF StartResolve, serverVars
<1>3. op'[d].phase = "sent" /\ op'[d].kind = "resolve" /\ op[d].phase = "idle"
  BY <1>1, IdleOp DEF TypeInv, StartResolve
<1>4. ToShow(d)' = {} /\ ToShow(d) = {}
  BY <1>3 DEF ToShow, Clashing
<1>5. disk'[d] = Overwritten(disk[d], files)
  BY <1>1 DEF TypeInv
<1>6. \A p \in Paths : /\ seen[d][p] \subseteq seen'[d][p]
                       /\ p \in paths => ValuesIn(files[p]) \subseteq seen'[d][p]
  BY <1>1 DEF TypeInv
<1>7. ASSUME NEW p \in TextPaths
      PROVE  DiskSeen(d, p)' /\ PendingSeen(d, p)' /\ RequestSeen(d, p)' /\ AnswerSeen(d, p)'
  <2>1. p \in Paths /\ DiskSeen(d, p) /\ PendingSeen(d, p)
    BY <1>7, ServerAssumption DEF AllSeen
  <2>2. disk'[d][p] = IF p \in paths THEN files[p] ELSE disk[d][p]
    BY <1>5, <2>1 DEF Overwritten
  <2>3. DiskSeen(d, p)'
    BY <1>2, <1>6, <2>1, <2>2 DEF DiskSeen, SeenBy
  <2>4. PendingSeen(d, p)'
    BY <1>2, <1>4, <1>6, <2>1 DEF PendingSeen, SeenBy
  <2> QED BY <1>3, <2>3, <2>4 DEF RequestSeen, AnswerSeen
<1> QED BY <1>7 DEF AllSeen

-----------------------------------------------------------------------------
(* The server's steps.                                                     *)

(* A conflict leaves the server's file, or markers.                        *)
LEMMA ClashContent ==
  ASSUME TypeOK, NEW d \in Devices, NEW req, WellFormed(req),
         NEW h \in Seq(Trees), NEW p \in DOMAIN req.changes,
         ChangeOutcome(d, req, h, p).clash
  PROVE  ChangeOutcome(d, req, h, p).content \in {Markers, HeadTree(h)[p]}
<1> DEFINE b   == TreeAt(h, req.base)[p]
           s   == HeadTree(h)[p]
           c   == req.changes[p]
           out == ChangeOutcome(d, req, h, p)
<1>1. CASE pending[p] # NoOwner
  BY <1>1, OutcomeCases DEF Clashed
<1>2. CASE pending[p] = NoOwner /\ p \notin TextPaths
  BY <1>2, OutcomeCases, SMT DEF BinaryChange, Clashed, Written
<1>3. CASE pending[p] = NoOwner /\ p \in TextPaths /\ c = Absent
  BY <1>3, OutcomeCases, SMT DEF TextDelete, Clashed, Written
<1>4. CASE pending[p] = NoOwner /\ p \in TextPaths /\ c # Absent
  <2>1. out = TextUpsert(b, p \in acks[d], s, c)
    BY <1>4, OutcomeCases
  <2> HIDE DEF b, s, c, out
  <2>2. out.clash
    BY DEF out
  <2>3. out.content \in {Markers, s}
    <3>1. CASE out = Clashed(Markers) \/ out = Clashed(s)
      BY <3>1 DEF Clashed
    <3>2. CASE ~(out = Clashed(Markers) \/ out = Clashed(s))
      BY <2>1, <2>2, <3>2, SMT DEF TextUpsert, MergeTextFile, Kept, Written
    <3> QED BY <3>1, <3>2
  <2> QED BY <2>3 DEF out, s
<1> QED BY <1>1, <1>2, <1>3, <1>4

(* A sync does not touch a file somebody has to resolve.                   *)
LEMMA SyncFreezes ==
  ASSUME TypeOK, NEW d \in Devices, NEW req, WellFormed(req), HandleSync(d, req),
         work = HeadTree(commits), NEW p \in Paths, pending[p] # NoOwner
  PROVE  HeadTree(commits')[p] = HeadTree(commits)[p]
<1>1. commits = CommitAllIfChanged(commits, work) /\ commits' = SyncHistory(d, req)
  BY CleanHistory DEF HandleSync
<1>2. CASE ClashesOf(d, req, commits) # {}
  BY <1>1, <1>2, SyncHead
<1>3. CASE ClashesOf(d, req, commits) = {}
  <2>1. commits \in Seq(Trees)
    BY DEF TypeOK
  <2>2. p \notin DOMAIN req.changes
    BY <1>1, <1>3, <2>1, SyncHead, OutcomeCases, SMT DEF Clashed
  <2> QED BY <1>1, <1>3, <2>2, SyncHead
<1> QED BY <1>2, <1>3

(* The files of an answer are markers or the head's.                       *)
LEMMA SyncFiles ==
  ASSUME TypeOK, NEW d \in Devices, NEW req, WellFormed(req),
         work = HeadTree(commits), NEW p \in DOMAIN SyncAnswer(d, req).files
  PROVE  SyncAnswer(d, req).files[p] \in {Markers, HeadTree(SyncHistory(d, req))[p]}
<1> DEFINE answer == SyncAnswer(d, req)
           after  == SyncHistory(d, req)
<1>1. commits = CommitAllIfChanged(commits, work) /\ commits \in Seq(Trees)
  BY CleanHistory DEF TypeOK
<1>2. CASE ClashesOf(d, req, commits) # {}
  <2>1. answer.files = ConflictFiles(d, req, commits) /\ after = commits
    BY <1>1, <1>2, SyncAnswerCases, SyncHead DEF Answer
  <2>2. p \in DOMAIN req.changes /\ ChangeOutcome(d, req, commits, p).clash
        /\ answer.files[p] = ChangeOutcome(d, req, commits, p).content
    BY <2>1 DEF ConflictFiles, ClashesOf
  <2> QED BY <1>1, <2>1, <2>2, ClashContent
<1>3. CASE ClashesOf(d, req, commits) = {} /\ PendingFor(pending, d) # {}
  <2>1. answer.files = <<>>
    BY <1>1, <1>3, SyncAnswerCases DEF Answer
  <2> QED BY <2>1
<1>4. CASE ClashesOf(d, req, commits) = {} /\ PendingFor(pending, d) = {}
  <2>1. answer.files = ChangedFilesSince(after, req.base, req.manifest)
    BY <1>1, <1>4, SyncAnswerCases DEF Answer
  <2> QED BY <2>1 DEF ChangedFilesSince
<1> QED BY <1>2, <1>3, <1>4

(* What a successful answer leaves out the device has already.             *)
LEMMA SyncFilesLeftOut ==
  ASSUME NEW d \in Devices, NEW req, SyncAnswer(d, req).status = "ok",
         NEW p \in Paths \ DOMAIN SyncAnswer(d, req).files
  PROVE  LET after == SyncHistory(d, req) IN
         HeadTree(after)[p] \in {Absent, req.manifest[p], TreeAt(after, req.base)[p]}
<1>1. SyncAnswer(d, req).files
        = ChangedFilesSince(SyncHistory(d, req), req.base, req.manifest)
  BY SyncAnswerCases DEF Answer
<1> QED BY <1>1 DEF ChangedFilesSince

LEMMA ServerSyncsSeen ==
  ASSUME TypeInv, NEW d \in Devices, ServerSyncs(d), work = HeadTree(commits), AllSeen(d)
  PROVE  AllSeen(d)'
<1> DEFINE req    == op[d].request
           answer == SyncAnswer(d, req)
<1>1. /\ op[d].phase = "sent" /\ op[d].kind = "sync"
      /\ req \in Syncing(Len(commits)) /\ WellFormed(req)
      /\ HandleSync(d, req) /\ commits' = SyncHistory(d, req)
      /\ pending' = RecordPending(pending, d, ClashesOf(d, req, commits))
      /\ op'[d].phase = "answered" /\ op'[d].kind = "sync"
      /\ op'[d].answer = answer /\ op'[d].local = req.manifest
      /\ op'[d].left = DOMAIN answer.files
      /\ UNCHANGED <<disk, synced, base, seen>>
  BY ServerSyncsFacts, CleanHistory
<1>2. TypeOK /\ TypeOK' /\ Extends(commits, commits') /\ Len(commits) \in Nat
      /\ commits \in Seq(Trees) /\ commits' \in Seq(Trees)
  BY ServerSyncsTypes, LenCommits DEF TypeInv, TypeOK
<1>3. req.base \in 0..Len(commits) /\ base[d] \in 0..Len(commits)
  BY <1>1, OpTrees
<1>4. /\ TreeAt(commits', req.base) = TreeAt(commits, req.base)
      /\ TreeAt(commits', base[d]) = TreeAt(commits, base[d])
  BY <1>2, <1>3, TreeAtKept
<1>5. answer.head = Len(commits') /\ Sent(d)' = HeadTree(commits')
  BY <1>1, SyncAnswerCases DEF Sent, HeadTree
<1>6. ASSUME NEW p \in TextPaths
      PROVE  DiskSeen(d, p)' /\ PendingSeen(d, p)' /\ RequestSeen(d, p)' /\ AnswerSeen(d, p)'
  <2>1. p \in Paths /\ DiskSeen(d, p) /\ PendingSeen(d, p) /\ RequestSeen(d, p)
    BY <1>6, ServerAssumption DEF AllSeen
  <2>2. /\ SeenBy(d, p, TreeAt(commits, req.base)[p])
        /\ SeenBy(d, p, req.manifest[p])
    BY <1>1, <2>1 DEF RequestSeen
  <2>3. DiskSeen(d, p)'
    BY <1>1, <1>4, <2>1 DEF DiskSeen, SeenBy
  <2>4. PendingSeen(d, p)'
    <3> SUFFICES ASSUME pending'[p] = d, p \notin ToShow(d)'
                 PROVE  SeenBy(d, p, HeadTree(commits)[p])'
      BY DEF PendingSeen, SeenBy
    <3>1. CASE pending[p] = d
      <4>1. ToShow(d) = {}
        BY <1>1 DEF ToShow, Clashing
      <4>2. HeadTree(commits')[p] = HeadTree(commits)[p]
        BY <1>1, <1>2, <2>1, <3>1, SyncFreezes, ServerAssumption
      <4> QED BY <1>1, <2>1, <3>1, <4>1, <4>2 DEF PendingSeen, SeenBy
    <3>2. CASE pending[p] # d
      <4>1. p \in ClashesOf(d, req, commits) /\ pending[p] = NoOwner
        BY <1>1, <2>1, <3>2 DEF RecordPending
      <4>2. answer = Answer("conflict", Len(commits'), ConflictFiles(d, req, commits),
                            ClashesOf(d, req, commits))
        BY <1>1, <4>1, SyncAnswerCases, CleanHistory
      <4>3. answer.status = "conflict" /\ p \in DOMAIN answer.files
        BY <1>6, <2>1, <4>1, <4>2 DEF Answer, ConflictFiles, Unowned
      <4> QED BY <1>1, <4>3 DEF ToShow, Clashing
    <3> QED BY <3>1, <3>2
  <2>5. AnswerSeen(d, p)'
    <3>1. SeenBy(d, p, op[d].local[p])'
      BY <1>1, <2>2 DEF SeenBy
    <3>2. ASSUME p \in DOMAIN answer.files
          PROVE  answer.files[p] \in {Markers, HeadTree(commits')[p]}
      BY <1>1, <1>2, <3>2, SyncFiles
    <3>3. ASSUME answer.status # "conflict", p \notin DOMAIN answer.files
          PROVE  SeenBy(d, p, HeadTree(commits)[p])'
      <4>1. answer.status = "ok"
        BY <3>3, SyncAnswerCases
      <4>2. HeadTree(commits')[p] \in {Absent, req.manifest[p], TreeAt(commits, req.base)[p]}
        BY <1>1, <1>4, <2>1, <3>3, <4>1, SyncFilesLeftOut
      <4> QED BY <1>1, <2>2, <4>2, NothingIn DEF SeenBy
    <3> QED BY <1>1, <1>5, <3>1, <3>2, <3>3 DEF AnswerSeen, Clashing, SeenBy
  <2> QED BY <1>1, <2>3, <2>4, <2>5 DEF RequestSeen
<1> QED BY <1>6 DEF AllSeen

LEMMA ServerResolvesSeen ==
  ASSUME TypeInv, NEW d \in Devices, ServerResolves(d), work = HeadTree(commits), AllSeen(d)
  PROVE  AllSeen(d)'
<1> DEFINE files  == op[d].request.changes
           answer == ResolveAnswer(d, files)
<1>1. /\ op[d].phase = "sent" /\ op[d].kind = "resolve"
      /\ files \in Writes /\ commits' = ResolveHistory(files)
      /\ pending' = ClearPending(pending, DOMAIN files)
      /\ op'[d].phase = "answered" /\ op'[d].kind = "resolve"
      /\ op'[d].answer = answer /\ op'[d].local = synced[d]
      /\ op'[d].left = DOMAIN answer.files
      /\ UNCHANGED <<disk, synced, base, seen>>
  BY ServerResolvesFacts
<1>2. TypeOK /\ TypeOK' /\ Extends(commits, commits')
      /\ commits \in Seq(Trees) /\ commits' \in Seq(Trees)
      /\ HeadTree(commits') = Overwritten(work, files)
  BY ServerResolvesTypes DEF TypeInv, TypeOK
<1>3. TreeAt(commits', base[d]) = TreeAt(commits, base[d])
  BY <1>2, OpTrees, TreeAtKept
<1>4. /\ answer.head = Len(commits')
      /\ DOMAIN answer.files = {p \in Paths \ PendingFor(pending', d) :
                                  HeadTree(commits')[p] # Absent}
      /\ \A p \in DOMAIN answer.files : answer.files[p] = HeadTree(commits')[p]
  BY <1>1, <1>2, ResolveAnswerFacts
<1>5. Sent(d)' = HeadTree(commits')
  BY <1>1, <1>4 DEF Sent, HeadTree
<1>6. ASSUME NEW p \in TextPaths
      PROVE  DiskSeen(d, p)' /\ PendingSeen(d, p)' /\ RequestSeen(d, p)' /\ AnswerSeen(d, p)'
  <2>1. p \in Paths /\ DiskSeen(d, p) /\ PendingSeen(d, p)
    BY <1>6, ServerAssumption DEF AllSeen
  <2>2. DiskSeen(d, p)'
    BY <1>1, <1>3, <2>1 DEF DiskSeen, SeenBy
  <2>3. ASSUME pending'[p] = d PROVE SeenBy(d, p, HeadTree(commits)[p])'
    <3>1. pending[p] = d /\ p \notin DOMAIN files
      BY <1>1, <2>1, <2>3, ServerAssumption DEF ClearPending
    <3>2. HeadTree(commits')[p] = HeadTree(commits)[p] /\ ToShow(d) = {}
      BY <1>1, <1>2, <2>1, <3>1 DEF Overwritten, ToShow, Clashing
    <3> QED BY <1>1, <2>1, <3>1, <3>2 DEF PendingSeen, SeenBy
  <2>4. PendingSeen(d, p)'
    BY <2>3 DEF PendingSeen
  <2>5. AnswerSeen(d, p)'
    <3>1. SeenBy(d, p, op[d].local[p])'
      BY <1>1, <2>1 DEF DiskSeen, SeenBy
    <3>2. p \notin DOMAIN answer.files => SeenBy(d, p, HeadTree(commits)[p])'
      BY <1>4, <2>1, <2>3, NothingIn DEF PendingFor, SeenBy
    <3> QED BY <1>1, <1>4, <1>5, <3>1, <3>2 DEF AnswerSeen, Clashing, SeenBy
  <2> QED BY <1>1, <2>2, <2>4, <2>5 DEF RequestSeen
<1> QED BY <1>6 DEF AllSeen

-----------------------------------------------------------------------------
(* The plugin's steps.                                                     *)

(* A file the device has already was shown when it was listed; any other   *)
(* is shown now.                                                           *)
LEMMA ApplyShows ==
  ASSUME TypeInv, NEW d \in Devices, NEW p \in Paths, ApplyFile(d, p), AllSeen(d)
  PROVE  /\ \A q \in TextPaths : seen[d][q] \subseteq seen'[d][q]
         /\ p \in TextPaths => ValuesIn(Sent(d)[p]) \subseteq seen'[d][p]
<1> DEFINE file == op[d].answer.files[p]
<1>1. op[d].phase = "answered" /\ p \in op[d].left
  BY DEF ApplyFile
<1>2. CASE AlreadyLocal(d, p)
  <2>1. seen' = seen /\ file # Markers /\ op[d].local[p] = file
    BY <1>2 DEF ApplyFile, AlreadyLocal
  <2>2. p \in TextPaths => file = Sent(d)[p] /\ SeenBy(d, p, op[d].local[p])
    BY <1>1, <2>1 DEF AllSeen, AnswerSeen
  <2> QED BY <2>1, <2>2 DEF SeenBy
<1>3. CASE ~AlreadyLocal(d, p)
  <2>1. seen' = Shown(d, {p}, ValuesIn(Sent(d)[p]))
    BY <1>3 DEF ApplyFile, Sent
  <2>2. \A q \in Paths : /\ seen[d][q] \subseteq seen'[d][q]
                         /\ q \in {p} => ValuesIn(Sent(d)[p]) \subseteq seen'[d][q]
    <3> DEFINE v == ValuesIn(Sent(d)[p])
    <3>1. seen' = Shown(d, {p}, v) /\ seen \in [Devices -> [Paths -> SUBSET Values]]
      BY <2>1 DEF TypeInv
    <3> HIDE DEF v
    <3>2. \A q \in Paths : seen[d][q] \subseteq seen'[d][q] /\ (q \in {p} => v \subseteq seen'[d][q])
      BY <3>1, ShownGrows
    <3> QED BY <3>2 DEF v
  <2> QED BY <2>2, ServerAssumption
<1> QED BY <1>2, <1>3

LEMMA ApplyFileSeen ==
  ASSUME TypeInv, NEW d \in Devices, NEW p \in Paths, ApplyFile(d, p), AllSeen(d)
  PROVE  AllSeen(d)'
<1> DEFINE file == op[d].answer.files[p]
<1>1. /\ commits' = commits /\ pending' = pending /\ base' = base
      /\ op[d].phase = "answered" /\ p \in op[d].left
      /\ op'[d].phase = "answered" /\ op'[d].left = op[d].left \ {p}
      /\ op'[d].kind = op[d].kind /\ op'[d].answer = op[d].answer
      /\ op'[d].local = op[d].local
  BY ApplyFileFacts DEF ApplyFile
<1>2. Sent(d)' = Sent(d) /\ (Clashing(d)' <=> Clashing(d))
      /\ ToShow(d)' = ToShow(d) \ {p}
  BY <1>1 DEF Sent, Clashing, ToShow
<1>3. /\ \A q \in TextPaths : seen[d][q] \subseteq seen'[d][q]
      /\ p \in TextPaths => ValuesIn(Sent(d)[p]) \subseteq seen'[d][p]
  BY ApplyShows
<1>4. ASSUME NEW q \in TextPaths
      PROVE  DiskSeen(d, q)' /\ PendingSeen(d, q)' /\ RequestSeen(d, q)' /\ AnswerSeen(d, q)'
  <2>1. q \in Paths /\ DiskSeen(d, q) /\ PendingSeen(d, q) /\ AnswerSeen(d, q)
    BY <1>4, ServerAssumption DEF AllSeen
  <2>2. ValuesIn(file) \subseteq seen'[d][p] \/ p # q
    BY <1>1, <1>3, <1>4, <2>1, NothingIn DEF AnswerSeen
  <2>3. /\ disk'[d][q] = disk[d][q] \/ (p = q /\ disk'[d][q] = file)
        /\ synced'[d][q] = synced[d][q] \/ (p = q /\ synced'[d][q] = file)
    <3>1. disk[d] \in [Paths -> Files] /\ synced[d] \in [Paths -> Files]
          /\ disk \in [Devices -> Trees] /\ synced \in [Devices -> Trees]
      BY DEF TypeInv, Trees
    <3>2. /\ disk' = disk \/ disk' = [disk EXCEPT ![d][p] = file]
          /\ synced' = synced \/ synced' = [synced EXCEPT ![d][p] = file]
      BY DEF ApplyFile
    <3> QED BY <2>1, <3>1, <3>2
  <2>4. DiskSeen(d, q)'
    BY <1>1, <1>3, <1>4, <2>1, <2>2, <2>3 DEF DiskSeen, SeenBy
  <2>5. PendingSeen(d, q)'
    <3> SUFFICES ASSUME pending[q] = d, q \notin ToShow(d)'
                 PROVE  ValuesIn(HeadTree(commits)[q]) \subseteq seen'[d][q]
      BY <1>1 DEF PendingSeen, SeenBy
    <3>1. CASE q \in ToShow(d)
      <4>1. q = p /\ Clashing(d) /\ q \in op[d].left
        BY <1>2, <3>1 DEF ToShow
      <4>2. Sent(d)[q] = HeadTree(commits)[q]
        BY <1>1, <2>1, <4>1 DEF AnswerSeen
      <4> QED BY <1>3, <1>4, <4>1, <4>2
    <3>2. CASE q \notin ToShow(d)
      BY <1>3, <1>4, <2>1, <3>2 DEF PendingSeen, SeenBy
    <3> QED BY <3>1, <3>2
  <2>6. AnswerSeen(d, q)'
    BY <1>1, <1>2, <1>3, <1>4, <2>1 DEF AnswerSeen, SeenBy
  <2> QED BY <1>1, <2>4, <2>5, <2>6 DEF RequestSeen
<1> QED BY <1>4 DEF AllSeen

(* At the end nothing is left to show, and what the server sent was shown. *)
LEMMA FinishSeen ==
  ASSUME TypeInv, NEW d \in Devices, AllSeen(d),
         op[d].phase = "answered", op[d].left = {}, op'[d] = Idle,
         UNCHANGED <<commits, pending, disk, seen>>,
         base'[d] = base[d] \/ (~Clashing(d) /\ base'[d] = op[d].answer.head),
         \A p \in Paths : synced'[d][p] \in {synced[d][p], disk[d][p]}
  PROVE  AllSeen(d)'
<1>1. ToShow(d) = {} /\ ToShow(d)' = {} /\ op'[d].phase = "idle"
  BY IdleOp DEF ToShow, Clashing
<1>2. ASSUME NEW p \in TextPaths
      PROVE  DiskSeen(d, p)' /\ PendingSeen(d, p)' /\ RequestSeen(d, p)' /\ AnswerSeen(d, p)'
  <2>1. p \in Paths /\ DiskSeen(d, p) /\ PendingSeen(d, p) /\ AnswerSeen(d, p)
    BY <1>2, ServerAssumption DEF AllSeen
  <2>2. ~Clashing(d) => SeenBy(d, p, Sent(d)[p])
    BY <2>1 DEF AnswerSeen
  <2>3. synced'[d][p] \in {synced[d][p], disk[d][p]}
    BY <2>1
  <2>4. DiskSeen(d, p)'
    BY <2>1, <2>2, <2>3 DEF DiskSeen, SeenBy, Sent
  <2>5. PendingSeen(d, p)'
    BY <1>1, <2>1 DEF PendingSeen, SeenBy
  <2> QED BY <1>1, <2>4, <2>5 DEF RequestSeen, AnswerSeen
<1> QED BY <1>2 DEF AllSeen

LEMMA FinishSyncSeen ==
  ASSUME TypeInv, NEW d \in Devices, FinishSync(d), AllSeen(d)
  PROVE  AllSeen(d)'
<1>1. /\ op[d].phase = "answered" /\ op[d].kind = "sync" /\ op[d].left = {}
      /\ UNCHANGED <<commits, pending, disk, seen>>
  BY DEF FinishSync, serverVars, auxVars
<1>2. op'[d] = Idle
  BY DEF FinishSync, TypeInv
<1>3. base'[d] = base[d] \/ (~Clashing(d) /\ base'[d] = op[d].answer.head)
  BY DEF FinishSync, TypeInv, Clashing
<1>4. synced'[d] = synced[d] \/ synced'[d] = disk[d]
  BY DEF FinishSync, TypeInv
<1> QED BY <1>1, <1>2, <1>3, <1>4, FinishSeen

LEMMA FinishResolveSeen ==
  ASSUME TypeInv, NEW d \in Devices, FinishResolve(d), AllSeen(d)
  PROVE  AllSeen(d)'
<1>1. /\ op[d].phase = "answered" /\ op[d].kind = "resolve" /\ op[d].left = {}
      /\ UNCHANGED <<commits, pending, disk, seen>>
  BY DEF FinishResolve, serverVars, auxVars
<1>2. op'[d] = Idle
  BY DEF FinishResolve, TypeInv
<1>3. ~Clashing(d) /\ base'[d] = op[d].answer.head
  BY <1>1 DEF FinishResolve, TypeInv, Clashing
<1>4. synced'[d] = Overwritten(synced[d], [p \in DOMAIN op[d].request.changes |-> disk[d][p]])
  BY DEF FinishResolve, TypeInv
<1>5. \A p \in Paths : synced'[d][p] \in {synced[d][p], disk[d][p]}
  BY <1>4 DEF Overwritten
<1> QED BY <1>1, <1>2, <1>3, <1>5, FinishSeen

-----------------------------------------------------------------------------
(* Every step.                                                             *)

LEMMA UserSeen ==
  ASSUME SyncInv, SeenInv, NEW d \in Devices, User(d)
  PROVE  SeenInv'
<1>1. TypeInv /\ TypeInv' /\ TypeOK' /\ UNCHANGED serverVars
  BY UserTypes DEF SyncInv, TypeInv, User, Edit, Delete, ResetLocalSyncState, StartResolve,
     StartSync
<1>2. commits' = commits /\ work' = work /\ pending' = pending /\ faults' = faults
      /\ Extends(commits, commits')
  BY <1>1, LenCommits DEF serverVars, Extends, TypeInv
<1>3. Undisturbed' => Undisturbed
  <2>1. CASE bounds' = bounds
    BY <1>2, <2>1 DEF Undisturbed
  <2>2. CASE Count("resets")
    BY <1>1, <1>2, <2>2 DEF Undisturbed, Count, TypeInv, Bounds
  <2> QED BY <2>1, <2>2 DEF User, Edit, Delete, ResetLocalSyncState, StartResolve,
                            StartSync, auxVars
<1>4. AllSeen(d) => AllSeen(d)'
  BY <1>1, EditSeen, DeleteSeen, ResetSeen, StartResolveSeen, StartSyncSeen DEF User
<1>5. Undisturbed => work = HeadTree(commits)
  BY DEF SeenInv
<1> QED BY <1>1, <1>2, <1>3, <1>4, <1>5, StepSeen DEF SeenInv

LEMMA PluginSeen ==
  ASSUME SyncInv, SeenInv, NEW d \in Devices, Plugin(d)
  PROVE  SeenInv'
<1>1. TypeInv /\ TypeInv' /\ TypeOK' /\ UNCHANGED <<serverVars, bounds>>
  BY StepTypes DEF SyncInv, TypeInv, Plugin, ApplyFile, FinishSync, FinishResolve, auxVars
<1>2. commits' = commits /\ work' = work /\ pending' = pending /\ faults' = faults
      /\ Extends(commits, commits')
  BY <1>1, LenCommits DEF serverVars, Extends, TypeInv
<1>3. Undisturbed' <=> Undisturbed
  BY <1>1, <1>2 DEF Undisturbed
<1>4. AllSeen(d) => AllSeen(d)'
  BY <1>1, ApplyFileSeen, FinishSyncSeen, FinishResolveSeen DEF Plugin
<1> QED BY <1>1, <1>2, <1>3, <1>4, StepSeen DEF SeenInv

LEMMA ServerSeen ==
  ASSUME SyncInv, SeenInv, NEW d \in Devices, Server(d)
  PROVE  SeenInv'
<1>1. TypeInv /\ TypeOK /\ TypeOK' /\ Extends(commits, commits')
  BY StepTypes, ServerSyncsTypes, ServerResolvesTypes DEF SyncInv, TypeInv, Server
<1>2. SUFFICES ASSUME Undisturbed' PROVE SeenInv'
  BY DEF SeenInv
<1>3. faults' = faults /\ bounds' = bounds
  BY DEF Server, ServerSyncs, ServerResolves, HandleSync, HandleResolve, auxVars
<1>4. Undisturbed /\ work = HeadTree(commits)
  BY <1>2, <1>3 DEF Undisturbed, SeenInv
<1>5. CASE ServerSyncs(d)
  <2>1. /\ WellFormed(op[d].request) /\ HandleSync(d, op[d].request)
        /\ pending' = RecordPending(pending, d, ClashesOf(d, op[d].request, commits))
    BY <1>1, <1>4, <1>5, ServerSyncsFacts, CleanHistory
  <2>2. work' = HeadTree(commits')
    BY <2>1 DEF HandleSync
  <2>3. ASSUME NEW e \in Devices \ {d}, NEW p \in TextPaths, pending'[p] = e
        PROVE  pending[p] = e /\ HeadTree(commits')[p] = HeadTree(commits)[p]
    <3>1. p \in Paths /\ e # NoOwner
      BY <2>3, ServerAssumption
    <3>2. pending[p] = e
      BY <2>1, <2>3, <3>1 DEF RecordPending
    <3> QED BY <1>1, <1>4, <2>1, <3>1, <3>2, SyncFreezes
  <2>4. AllSeen(d) => AllSeen(d)'
    BY <1>1, <1>4, <1>5, ServerSyncsSeen
  <2> QED BY <1>1, <1>4, <2>2, <2>3, <2>4, StepSeen
<1>6. CASE ServerResolves(d)
  <2> DEFINE files == op[d].request.changes
  <2>1. /\ pending' = ClearPending(pending, DOMAIN files)
        /\ work' = Overwritten(work, files) /\ HeadTree(commits') = Overwritten(work, files)
    BY <1>1, <1>6, ServerResolvesTypes DEF ServerResolves, HandleResolve
  <2>2. ASSUME NEW e \in Devices \ {d}, NEW p \in TextPaths, pending'[p] = e
        PROVE  pending[p] = e /\ HeadTree(commits')[p] = HeadTree(commits)[p]
    <3>1. p \in Paths /\ e # NoOwner
      BY <2>2, ServerAssumption
    <3>2. pending[p] = e /\ p \notin DOMAIN files
      BY <2>1, <2>2, <3>1 DEF ClearPending
    <3> QED BY <1>4, <2>1, <3>1, <3>2 DEF Overwritten
  <2>3. AllSeen(d) => AllSeen(d)'
    BY <1>1, <1>4, <1>6, ServerResolvesSeen
  <2> QED BY <1>1, <1>4, <2>1, <2>2, <2>3, StepSeen
<1> QED BY <1>5, <1>6 DEF Server

(* A step in which something fails is counted.                             *)
LEMMA FaultDisturbs ==
  ASSUME SyncInv, NEW d \in Devices, Fault(d)
  PROVE  ~Undisturbed'
<1>1. TypeInv
  BY DEF SyncInv
<1> QED BY <1>1, PlainStops, ServerStopsTypes, AnswerLostTypes, DownloadFailsTypes,
           AppKilledTypes DEF Fault, Undisturbed

LEMMA TabletSeen ==
  ASSUME SyncInv, SeenInv, TabletWrites
  PROVE  SeenInv'
<1>1. TypeInv /\ TypeOK' /\ Extends(commits, commits')
  BY TabletTypes DEF SyncInv, TypeInv
<1>2. SUFFICES ASSUME Undisturbed' PROVE SeenInv'
  BY DEF SeenInv
<1>0. PICK q \in Paths :
        \E file \in EditsOf(work[q], edits + 1) \cup {Absent} : HandleDav([r \in {q} |-> file])
  BY DEF TabletWrites
<1>3. PICK file \in EditsOf(work[q], edits + 1) \cup {Absent} :
        HandleDav([r \in {q} |-> file])
  BY <1>0
<1> DEFINE files == [r \in {q} |-> file]
<1>4. UNCHANGED <<disk, synced, base, op, seen>> /\ faults' = faults /\ Count("dav")
  BY <1>3 DEF TabletWrites, deviceVars, HandleDav
<1>5. Undisturbed /\ work = HeadTree(commits) /\ \A d \in Devices : AllSeen(d)
  <2>1. Undisturbed
    BY <1>1, <1>2, <1>4 DEF Undisturbed, Count, TypeInv, Bounds
  <2> QED BY <2>1 DEF SeenInv
<1>6. HeadTree(commits') = Overwritten(work, files) /\ work' = Overwritten(work, files)
      /\ pending' = ClearPending(pending, DOMAIN files)
  <2>1. file \in Files
    BY <1>1, NextEdit, EditsOfType DEF TabletWrites, Files, Contents
  <2>2. \A r \in DOMAIN files : files[r] \in Files
    BY <2>1
  <2>3. TypeOK
    BY <1>1 DEF TypeInv
  <2> HIDE DEF files
  <2> QED BY <1>3, <2>2, <2>3, OverwriteTypes DEF HandleDav, files
<1>7. ASSUME NEW d \in Devices PROVE AllSeen(d)'
  <2>1. ASSUME NEW p \in TextPaths, pending'[p] = d
        PROVE  pending[p] = d /\ HeadTree(commits')[p] = HeadTree(commits)[p]
    <3>1. p \in Paths /\ d # NoOwner
      BY <2>1, ServerAssumption
    <3>2. pending[p] = d /\ p \notin DOMAIN files
      BY <1>6, <2>1, <3>1 DEF ClearPending
    <3> QED BY <1>5, <1>6, <3>1, <3>2 DEF Overwritten
  <2> QED BY <1>1, <1>4, <1>5, <2>1, BystanderSeen
<1> QED BY <1>6, <1>7 DEF SeenInv

LEMMA InitSeen == SyncInit => SeenInv
<1> SUFFICES ASSUME SyncInit, NEW d \in Devices, NEW p \in TextPaths
             PROVE  /\ work = HeadTree(commits)
                    /\ DiskSeen(d, p) /\ PendingSeen(d, p)
                    /\ RequestSeen(d, p) /\ AnswerSeen(d, p)
  BY DEF SeenInv, AllSeen, SyncInit, HeadTree, TreeAt
<1>1. p \in Paths /\ d # NoOwner
  BY ServerAssumption
<1>2. TreeAt(commits, 1) = StartTree /\ HeadTree(commits) = StartTree
  BY SMT DEF SyncInit, HeadTree, TreeAt
<1>3. op[d].phase = "idle" /\ seen[d][p] = ValuesIn(StartTree[p])
  BY <1>1, IdleOp DEF SyncInit
<1> QED BY <1>1, <1>2, <1>3
        DEF SyncInit, DiskSeen, PendingSeen, RequestSeen, AnswerSeen, SeenBy

LEMMA NextKeepsSeen == SyncInv /\ SeenInv /\ [SyncNext]_vars => SeenInv'
<1> SUFFICES ASSUME SyncInv, SeenInv, [SyncNext]_vars PROVE SeenInv'
  OBVIOUS
<1>1. ASSUME NEW d \in Devices, User(d) \/ Plugin(d) \/ Server(d) \/ Fault(d)
      PROVE  SeenInv'
  <2>1. CASE Fault(d)
    BY <2>1, FaultDisturbs DEF SeenInv
  <2> QED BY <1>1, <2>1, UserSeen, PluginSeen, ServerSeen
<1>2. CASE UNCHANGED vars
  BY <1>2 DEF vars, serverVars, deviceVars, auxVars, SeenInv, Undisturbed, AllSeen, DiskSeen,
     PendingSeen, RequestSeen, AnswerSeen, SeenBy, ToShow, Clashing, Sent
<1> QED BY <1>1, <1>2, TabletSeen DEF SyncNext

LEMMA SeenInvariant == SyncSpec => []SeenInv
  BY InitSeen, NextKeepsSeen, SyncInvariant, PTL DEF SyncSpec

(***************************************************************************)
(* What a sync drops its device's base had, and the base was shown.        *)
(***************************************************************************)
THEOREM SyncsDropOnlySeen == SyncSpec => SyncDropsOnlySeen
<1> DEFINE Drops(d) ==
      Undisturbed /\ Handled(d, "sync")
        => \A p \in TextPaths \ BlindDeletions(op[d].request) :
             LostValues(p) \subseteq seen[d][p]
<1>1. ASSUME SyncInv, SeenInv, [SyncNext]_vars, NEW d \in Devices PROVE Drops(d)
  <2> SUFFICES ASSUME Undisturbed, Handled(d, "sync"),
                      NEW p \in TextPaths, p \notin BlindDeletions(op[d].request)
               PROVE  LostValues(p) \subseteq seen[d][p]
    OBVIOUS
  <2>1. ServerSyncs(d) /\ TypeInv /\ TypeOK /\ p \in Paths
    BY <1>1, HandledBy, ServerAssumption DEF SyncInv, TypeInv
  <2>2. /\ WellFormed(op[d].request) /\ HandleSync(d, op[d].request)
        /\ op[d].phase = "sent" /\ op[d].kind = "sync"
    BY <1>1, <2>1, ServerSyncsFacts
  <2>3. work = HeadTree(commits) /\ RequestSeen(d, p)
    BY <1>1 DEF SeenInv, AllSeen
  <2>4. LostValues(p) \subseteq ValuesIn(TreeAt(commits, op[d].request.base)[p])
    BY <1>1, <2>1, <2>2, <2>3, HandleSyncDrops
  <2> QED BY <2>2, <2>3, <2>4 DEF RequestSeen, SeenBy
<1>2. SyncInv /\ SeenInv /\ [SyncNext]_vars => [\A d \in Devices : Drops(d)]_vars
  BY <1>1
<1> QED BY <1>2, SyncInvariant, SeenInvariant, PTL DEF SyncSpec, SyncDropsOnlySeen

(***************************************************************************)
(* A conflict showed the server's side, and the path is frozen since.      *)
(***************************************************************************)
THEOREM ResolvesDropOnlySeen == SyncSpec => ResolveNeverDropsUnseen
<1> DEFINE Drops(d) ==
      Undisturbed /\ Handled(d, "resolve")
        => \A p \in PendingFor(pending, d) \cap TextPaths :
             LostValues(p) \subseteq seen[d][p]
<1>1. ASSUME SyncInv, SeenInv, [SyncNext]_vars, NEW d \in Devices PROVE Drops(d)
  <2> SUFFICES ASSUME Undisturbed, Handled(d, "resolve"),
                      NEW p \in TextPaths, pending[p] = d
               PROVE  LostValues(p) \subseteq seen[d][p]
    BY DEF PendingFor
  <2>1. PendingSeen(d, p) /\ op[d].phase = "sent"
    BY <1>1 DEF SeenInv, AllSeen, Handled
  <2>2. SeenBy(d, p, HeadTree(commits)[p])
    BY <2>1 DEF PendingSeen, ToShow, Clashing
  <2> QED BY <2>2 DEF LostValues, SeenBy
<1>2. SyncInv /\ SeenInv /\ [SyncNext]_vars => [\A d \in Devices : Drops(d)]_vars
  BY <1>1
<1> QED BY <1>2, SyncInvariant, SeenInvariant, PTL DEF SyncSpec, ResolveNeverDropsUnseen

-----------------------------------------------------------------------------
(***************************************************************************)
(* Why what a device counts as synced was committed, as long as users do   *)
(* not edit while it synchronises: a request carries the files as they     *)
(* stay on the disk until the answer is worked off, and a file the answer  *)
(* leaves out is the head's or the base's.                                 *)
(***************************************************************************)
CommittedIn(history, p, file) ==
  file = Absent \/ \E n \in 1..Len(history) : history[n][p] = file

Committed(p, file) == CommittedIn(commits, p, file)

CountedCommitted(d, p) ==
  Committed(p, synced[d][p]) /\ (op[d] # Idle => Committed(p, op[d].saved[p]))

(* The disk is what the request says of it.                                *)
RequestOnDisk(d, p) ==
  op[d].phase = "sent" =>
    /\ p \in DOMAIN op[d].request.changes => op[d].request.changes[p] = disk[d][p]
    /\ op[d].kind = "sync" =>
         /\ op[d].request.manifest[p] = disk[d][p]
         /\ p \notin DOMAIN op[d].request.changes => Committed(p, disk[d][p])

(* Every file is committed, or will be replaced by one that is.            *)
AnswerCommitted(d, p) ==
  op[d].phase = "answered" =>
    /\ op[d].kind = "sync" /\ op[d].answer.status = "ok" =>
         /\ p \in op[d].left => Committed(p, op[d].answer.files[p]) /\ op[d].local[p] = disk[d][p]
         /\ p \notin op[d].left => Committed(p, disk[d][p])
    /\ op[d].kind = "resolve" =>
         /\ p \in op[d].left => Committed(p, op[d].answer.files[p])
         /\ p \in DOMAIN op[d].request.changes => Committed(p, disk[d][p])

AllCommitted(d) ==
  \A p \in Paths : CountedCommitted(d, p) /\ RequestOnDisk(d, p) /\ AnswerCommitted(d, p)

CommittedInv == \A d \in Devices : AllCommitted(d)

LEMMA CommittedStays ==
  ASSUME TypeInv, TypeOK', Extends(commits, commits'), NEW p, NEW file, Committed(p, file)
  PROVE  CommittedIn(commits', p, file)
<1>1. CASE file = Absent
  BY <1>1 DEF CommittedIn
<1>2. CASE file # Absent
  <2>1. PICK n \in 1..Len(commits) : commits[n][p] = file
    BY <1>2 DEF Committed, CommittedIn
  <2>2. n \in 1..Len(commits') /\ commits'[n] = commits[n]
    <3>1. Len(commits) \in Nat /\ Len(commits') \in Nat /\ Len(commits) <= Len(commits')
      BY SMT DEF TypeInv, TypeOK, Extends
    <3> QED BY <2>1, <3>1, SMT DEF Extends
  <2> QED BY <2>1, <2>2 DEF CommittedIn
<1> QED BY <1>1, <1>2

(* What the branch holds is committed.                                     *)
LEMMA TreeCommitted ==
  ASSUME NEW history, NEW p \in Paths, NEW n
  PROVE  /\ CommittedIn(history, p, TreeAt(history, n)[p])
         /\ CommittedIn(history, p, HeadTree(history)[p])
         /\ CommittedIn(history, p, Absent)
  BY DEF CommittedIn, HeadTree, TreeAt, EmptyTree

(* A device that waits, beside the server or not.                          *)
LEMMA WaitingCommitted ==
  ASSUME TypeInv, TypeOK', Extends(commits, commits'), NEW d \in Devices, AllCommitted(d),
         disk'[d] = disk[d] \/ op[d] = Idle, op'[d] = op[d],
         \A p \in Paths : synced'[d][p] \in {synced[d][p], Absent}
  PROVE  AllCommitted(d)'
<1> SUFFICES ASSUME NEW p \in Paths
             PROVE  (CountedCommitted(d, p) /\ RequestOnDisk(d, p) /\ AnswerCommitted(d, p))'
  BY DEF AllCommitted
<1>1. CountedCommitted(d, p) /\ RequestOnDisk(d, p) /\ AnswerCommitted(d, p)
  BY DEF AllCommitted
<1>2. synced'[d][p] \in {synced[d][p], Absent}
  OBVIOUS
<1>3. \A file : Committed(p, file) => CommittedIn(commits', p, file)
  BY CommittedStays
<1>4. op[d] = Idle => op[d].phase = "idle"
  BY IdleOp
<1>5. CommittedIn(commits', p, Absent)
  BY TreeCommitted
<1>6. CountedCommitted(d, p)'
  BY <1>1, <1>2, <1>3, <1>5 DEF CountedCommitted, Committed
<1>7. RequestOnDisk(d, p)' /\ AnswerCommitted(d, p)'
  BY <1>1, <1>3, <1>4 DEF RequestOnDisk, AnswerCommitted, Committed
<1> QED BY <1>6, <1>7

LEMMA UserCommitted ==
  ASSUME TypeInv, NEW d \in Devices, User(d), EditWhileSyncing = FALSE, AllCommitted(d)
  PROVE  AllCommitted(d)'
<1>1. commits' = commits /\ TypeOK' /\ Extends(commits, commits')
  <2>1. UNCHANGED serverVars
    BY DEF User, Edit, Delete, ResetLocalSyncState, StartResolve, StartSync
  <2> QED BY <2>1, ServerRests, LenCommits DEF serverVars, TypeInv, Extends
<1>2. op[d] = Idle /\ op[d].phase = "idle"
  BY IdleOp DEF User, Edit, Delete, MayEdit, ResetLocalSyncState, StartResolve, StartSync
<1>3. CASE op' = op
  <2>1. synced'[d] = synced[d] \/ synced'[d] = EmptyTree
    BY <1>3, <1>2 DEF User, Edit, Delete, ResetLocalSyncState, StartResolve, StartSync, TypeInv
  <2>2. \A p \in Paths : synced'[d][p] \in {synced[d][p], Absent}
    BY <2>1 DEF EmptyTree
  <2> QED BY <1>1, <1>2, <1>3, <2>2, WaitingCommitted
<1>4. CASE StartSync(d)
  <2> DEFINE changed == ChangedPaths(disk[d], synced[d])
             o == [phase |-> "sent", kind |-> "sync", saved |-> synced[d],
                   request |-> [base |-> base[d], changes |-> [p \in changed |-> disk[d][p]],
                                manifest |-> disk[d]]]
  <2>1. op'[d] = o /\ UNCHANGED <<commits, disk, synced>>
    BY <1>4 DEF StartSync, TypeInv, serverVars, auxVars
  <2>2. ASSUME NEW p \in Paths
        PROVE  CountedCommitted(d, p)' /\ RequestOnDisk(d, p)' /\ AnswerCommitted(d, p)'
    <3>1. Committed(p, synced[d][p])
      BY <2>2 DEF AllCommitted, CountedCommitted
    <3>2. /\ op'[d].phase = "sent" /\ op'[d].saved = synced[d]
          /\ op'[d].request.manifest = disk[d]
          /\ DOMAIN op'[d].request.changes = changed
          /\ p \in changed => op'[d].request.changes[p] = disk[d][p]
      BY <2>1
    <3>3. p \notin changed => disk[d][p] = synced[d][p]
      BY <2>2 DEF ChangedPaths
    <3> QED BY <2>1, <3>1, <3>2, <3>3
            DEF CountedCommitted, RequestOnDisk, AnswerCommitted, Committed
  <2> QED BY <2>2 DEF AllCommitted
<1>5. CASE StartResolve(d)
  <2>0. PICK paths \in (SUBSET (reported[d] \cup PendingFor(pending, d))) \ {{}} :
          \E files \in [paths -> UNION {Resolutions(d, p) : p \in paths}] :
            /\ disk' = [disk EXCEPT ![d] = Overwritten(@, files)]
            /\ op' = [op EXCEPT ![d] =
                 [phase |-> "sent", kind |-> "resolve", saved |-> synced[d],
                  request |-> [changes |-> files]]]
    BY <1>5 DEF StartResolve
  <2>1. PICK files \in [paths -> UNION {Resolutions(d, p) : p \in paths}] :
          /\ disk' = [disk EXCEPT ![d] = Overwritten(@, files)]
          /\ op' = [op EXCEPT ![d] =
               [phase |-> "sent", kind |-> "resolve", saved |-> synced[d],
                request |-> [changes |-> files]]]
    BY <2>0
  <2>2. /\ op'[d].phase = "sent" /\ op'[d].kind = "resolve" /\ op'[d].saved = synced[d]
        /\ op'[d].request.changes = files /\ DOMAIN files = paths
        /\ disk'[d] = Overwritten(disk[d], files)
        /\ UNCHANGED <<commits, synced>>
    BY <1>5, <2>1 DEF StartResolve, TypeInv, serverVars
  <2>3. ASSUME NEW p \in Paths
        PROVE  CountedCommitted(d, p)' /\ RequestOnDisk(d, p)' /\ AnswerCommitted(d, p)'
    <3>1. Committed(p, synced[d][p])
      BY <2>3 DEF AllCommitted, CountedCommitted
    <3>2. p \in DOMAIN files => disk'[d][p] = files[p]
      BY <2>2, <2>3 DEF Overwritten
    <3> QED BY <2>2, <3>1, <3>2
            DEF CountedCommitted, RequestOnDisk, AnswerCommitted, Committed
  <2> QED BY <2>3 DEF AllCommitted
<1> QED BY <1>3, <1>4, <1>5 DEF User, Edit, Delete, ResetLocalSyncState

(* An operation ends without an answer.                                    *)
LEMMA StopCommitted ==
  ASSUME TypeInv, TypeOK', Extends(commits, commits'), NEW d \in Devices, AllCommitted(d),
         op[d] # Idle, op'[d] = Idle, synced'[d] \in {synced[d], op[d].saved}
  PROVE  AllCommitted(d)'
<1>1. ASSUME NEW p \in Paths
      PROVE  CountedCommitted(d, p)' /\ RequestOnDisk(d, p)' /\ AnswerCommitted(d, p)'
  <2>1. Committed(p, synced'[d][p])
    BY <1>1 DEF AllCommitted, CountedCommitted
  <2>2. CommittedIn(commits', p, synced'[d][p])
    BY <2>1, CommittedStays
  <2> QED BY <2>2, IdleOp DEF CountedCommitted, RequestOnDisk, AnswerCommitted, Committed
<1> QED BY <1>1 DEF AllCommitted

LEMMA FaultCommitted ==
  ASSUME SyncInv, NEW d \in Devices, Fault(d), AllCommitted(d)
  PROVE  AllCommitted(d)'
<1>1. TypeInv /\ TypeOK' /\ op[d] # Idle /\ op'[d] = Idle
  BY StepTypes, IdleOp
     DEF SyncInv, TypeInv, Fault, ServerStops, AnswerLost, DownloadFails, AppKilled
<1>2. Extends(commits, commits')
  <2>1. CASE ServerStops(d)
    BY <1>1, <2>1, PlainStops, ServerStopsTypes
  <2>2. CASE UNCHANGED serverVars
    BY <1>1, <2>2, LenCommits DEF serverVars, Extends, TypeInv
  <2> QED BY <2>1, <2>2 DEF Fault, AnswerLost, DownloadFails, AppKilled
<1>3. synced'[d] \in {synced[d], op[d].saved}
  BY <1>1 DEF Fault, ServerStops, AnswerLost, DownloadFails, AppKilled, TypeInv
<1> QED BY <1>1, <1>2, <1>3, StopCommitted

-----------------------------------------------------------------------------
(* An accepted change whose result the answer leaves out: the device has   *)
(* what the server then holds, or what its base commit held.               *)
LEMMA AcceptedEcho ==
  ASSUME TypeOK, NEW d \in Devices, NEW req, WellFormed(req),
         NEW h \in Seq(Trees), NEW p \in DOMAIN req.changes,
         ~ChangeOutcome(d, req, h, p).clash,
         ChangeOutcome(d, req, h, p).content = TreeAt(h, req.base)[p]
  PROVE  req.changes[p] \in {Absent, TreeAt(h, req.base)[p]}
<1> DEFINE b   == TreeAt(h, req.base)[p]
           s   == HeadTree(h)[p]
           c   == req.changes[p]
           out == ChangeOutcome(d, req, h, p)
<1>1. pending[p] = NoOwner
  BY OutcomeCases, SMT DEF Clashed
<1>2. b \in Files /\ s \in Files /\ (c # Absent => c \in Contents)
  BY OutcomeCases
<1>3. CASE p \notin TextPaths
  <2>1. out = BinaryChange(req.base # 0, b, s, c)
    BY <1>1, <1>3, OutcomeCases
  <2>2. out.content = c
    BY <2>1, SMT DEF BinaryChange, Clashed, Written
  <2> QED BY <2>2
<1>4. CASE p \in TextPaths /\ c # Absent
  <2>1. out = TextUpsert(b, p \in acks[d], s, c)
    BY <1>1, <1>4, OutcomeCases
  <2>2. ~out.clash /\ out.content = b /\ c \in Contents /\ (p \in acks[d]) \in BOOLEAN
    BY <1>2, <1>4
  <2> HIDE DEF b, s, c, out
  <2>3. c = b
    <3>1. /\ ~TextUpsert(b, p \in acks[d], s, c).clash
          /\ TextUpsert(b, p \in acks[d], s, c).content = b
      BY <2>1, <2>2
    <3> QED BY ONLY <1>2, <2>2, <3>1, TextUpsertEcho
  <2> QED BY <2>3 DEF b, c
<1> QED BY <1>3, <1>4

LEMMA ServerSyncsCommitted ==
  ASSUME TypeInv, NEW d \in Devices, ServerSyncs(d), AllCommitted(d)
  PROVE  AllCommitted(d)'
<1> DEFINE req    == op[d].request
           answer == SyncAnswer(d, req)
           before == CommitAllIfChanged(commits, work)
<1>1. /\ op[d].phase = "sent" /\ op[d].kind = "sync"
      /\ req \in Syncing(Len(commits)) /\ WellFormed(req)
      /\ commits' = SyncHistory(d, req)
      /\ op'[d].phase = "answered" /\ op'[d].kind = "sync" /\ op'[d].saved = op[d].saved
      /\ op'[d].answer = answer /\ op'[d].local = req.manifest
      /\ op'[d].left = DOMAIN answer.files
      /\ UNCHANGED <<disk, synced>>
  BY ServerSyncsFacts
<1>2. TypeOK /\ TypeOK' /\ Extends(commits, commits')
  BY ServerSyncsTypes DEF TypeInv
<1>3. op[d] # Idle /\ op'[d] # Idle
  BY <1>1, IdleOp
<1>4. ASSUME NEW p \in Paths
      PROVE  CountedCommitted(d, p)' /\ RequestOnDisk(d, p)' /\ AnswerCommitted(d, p)'
  <2>1. CountedCommitted(d, p) /\ RequestOnDisk(d, p)
    BY <1>4 DEF AllCommitted
  <2>2. \A file : Committed(p, file) => CommittedIn(commits', p, file)
    BY <1>2, CommittedStays
  <2>3. CountedCommitted(d, p)'
    BY <1>1, <1>3, <2>1, <2>2 DEF CountedCommitted, Committed
  <2>4. ASSUME answer.status = "ok", p \in DOMAIN answer.files
        PROVE  CommittedIn(commits', p, answer.files[p])
    <3>1. answer.files[p] = HeadTree(commits')[p]
      BY <1>1, <2>4, SyncAnswerOk
    <3> QED BY <1>4, <3>1, TreeCommitted
  <2>5. ASSUME answer.status = "ok", p \notin DOMAIN answer.files
        PROVE  CommittedIn(commits', p, disk[d][p])
    <3>1. HeadTree(commits')[p] \in {Absent, req.manifest[p], TreeAt(commits', req.base)[p]}
          /\ (req.base = 0 => HeadTree(commits')[p] \in {Absent, req.manifest[p]})
      <4>1. answer.files = ChangedFilesSince(commits', req.base, req.manifest)
        BY <1>1, <2>5, SyncAnswerCases DEF Answer
      <4> QED BY <1>4, <2>5, <4>1 DEF ChangedFilesSince
    <3>2. CASE HeadTree(commits')[p] = req.manifest[p]
      <4>1. disk[d][p] = HeadTree(commits')[p]
        BY <1>1, <2>1, <3>2 DEF RequestOnDisk
      <4> QED BY <1>4, <4>1, TreeCommitted
    <3>3. CASE p \notin DOMAIN req.changes
      <4>1. Committed(p, disk[d][p])
        BY <1>1, <2>1, <3>3 DEF RequestOnDisk
      <4> QED BY <1>1, <2>2, <4>1
    <3>4. CASE p \in DOMAIN req.changes /\ HeadTree(commits')[p] # req.manifest[p]
      <4>1. ClashesOf(d, req, before) = {}
        BY <2>5, SyncAnswerCases
      <4>2. /\ ~ChangeOutcome(d, req, before, p).clash
            /\ HeadTree(commits')[p] = ChangeOutcome(d, req, before, p).content
            /\ before \in Seq(Trees)
        BY <1>1, <1>2, <3>4, <4>1, SyncHead
      <4>3. disk[d][p] = req.changes[p]
        BY <1>1, <2>1, <3>4 DEF RequestOnDisk
      <4>4. TreeAt(commits', req.base) = TreeAt(before, req.base)
            /\ TreeAt(before, req.base) = TreeAt(commits, req.base)
        <5>1. Extends(commits, before) /\ Extends(commits, commits')
          <6>1. Len(commits) <= Len(before)
                /\ \A n \in 1..Len(commits) : before[n] = commits[n]
            BY <1>1, <1>2, SyncHistoryFacts
          <6> QED BY <1>2, <6>1 DEF Extends
        <5>2. req.base \in 0..Len(commits)
          BY <1>1, OpTrees
        <5>3. TreeAt(before, req.base) = TreeAt(commits, req.base)
          BY <1>2, <4>2, <5>1, <5>2, TreeAtKept DEF TypeOK
        <5>4. TreeAt(commits', req.base) = TreeAt(commits, req.base)
          BY <1>2, <5>1, <5>2, TreeAtKept DEF TypeOK
        <5> QED BY <5>3, <5>4
      <4>5. HeadTree(commits')[p] = TreeAt(before, req.base)[p]
        <5>1. CASE req.base = 0
          <6>1. TreeAt(before, req.base)[p] = Absent
            BY <1>4, <5>1, SMT DEF TreeAt, EmptyTree
          <6> QED BY <3>1, <3>4, <5>1, <6>1
        <5>2. CASE req.base # 0
          <6>1. answer.files = ChangedFilesSince(commits', req.base, req.manifest)
            BY <1>1, <2>5, SyncAnswerCases DEF Answer
          <6> QED BY <1>4, <2>5, <4>4, <5>2, <6>1 DEF ChangedFilesSince
        <5> QED BY <5>1, <5>2
      <4>6. req.changes[p] \in {Absent, TreeAt(before, req.base)[p]}
        BY <1>1, <1>2, <3>4, <4>2, <4>5, AcceptedEcho
      <4>7. Committed(p, disk[d][p])
        BY <1>4, <4>3, <4>4, <4>6, TreeCommitted DEF Committed
      <4> QED BY <1>1, <2>2, <4>7
    <3> QED BY <3>2, <3>3, <3>4
  <2>6. req.manifest[p] = disk[d][p]
    BY <1>1, <2>1 DEF RequestOnDisk
  <2>7. AnswerCommitted(d, p)'
    BY <1>1, <2>4, <2>5, <2>6 DEF AnswerCommitted, Committed
  <2> QED BY <1>1, <2>3, <2>7 DEF RequestOnDisk
<1> QED BY <1>4 DEF AllCommitted

LEMMA ServerResolvesCommitted ==
  ASSUME TypeInv, NEW d \in Devices, ServerResolves(d), AllCommitted(d)
  PROVE  AllCommitted(d)'
<1> DEFINE files  == op[d].request.changes
           answer == ResolveAnswer(d, files)
<1>1. /\ op[d].phase = "sent" /\ op[d].kind = "resolve"
      /\ files \in Writes /\ commits' = ResolveHistory(files)
      /\ op'[d].phase = "answered" /\ op'[d].kind = "resolve" /\ op'[d].saved = op[d].saved
      /\ op'[d].answer = answer /\ op'[d].request = op[d].request
      /\ op'[d].left = DOMAIN answer.files
      /\ UNCHANGED <<disk, synced>>
  BY ServerResolvesFacts
<1>2. TypeOK /\ TypeOK' /\ Extends(commits, commits')
      /\ HeadTree(commits') = Overwritten(work, files)
  BY ServerResolvesTypes DEF TypeInv
<1>3. \A p \in DOMAIN answer.files : answer.files[p] = HeadTree(commits')[p]
  BY <1>1, <1>2, ResolveAnswerFacts
<1>4. op[d] # Idle /\ op'[d] # Idle
  BY <1>1, IdleOp
<1>5. ASSUME NEW p \in Paths
      PROVE  CountedCommitted(d, p)' /\ RequestOnDisk(d, p)' /\ AnswerCommitted(d, p)'
  <2>1. CountedCommitted(d, p) /\ RequestOnDisk(d, p)
    BY <1>5 DEF AllCommitted
  <2>2. \A file : Committed(p, file) => CommittedIn(commits', p, file)
    BY <1>2, CommittedStays
  <2>3. CountedCommitted(d, p)'
    BY <1>1, <1>4, <2>1, <2>2 DEF CountedCommitted, Committed
  <2>4. p \in DOMAIN answer.files => CommittedIn(commits', p, answer.files[p])
    BY <1>3, <1>5, TreeCommitted
  <2>5. p \in DOMAIN files => CommittedIn(commits', p, disk[d][p])
    <3>1. p \in DOMAIN files => disk[d][p] = HeadTree(commits')[p]
      BY <1>1, <1>2, <1>5, <2>1 DEF RequestOnDisk, Overwritten
    <3> QED BY <1>5, <3>1, TreeCommitted
  <2>6. AnswerCommitted(d, p)'
    BY <1>1, <2>4, <2>5 DEF AnswerCommitted, Committed
  <2> QED BY <1>1, <2>3, <2>6 DEF RequestOnDisk
<1> QED BY <1>5 DEF AllCommitted

-----------------------------------------------------------------------------
(* The plugin's steps.                                                     *)

LEMMA ApplyFileCommitted ==
  ASSUME SyncInv, NEW d \in Devices, NEW p \in Paths, ApplyFile(d, p), AllCommitted(d)
  PROVE  AllCommitted(d)'
<1> DEFINE file == op[d].answer.files[p]
<1>0. TypeInv
  BY DEF SyncInv
<1>1. /\ commits' = commits /\ op[d].phase = "answered" /\ p \in op[d].left
      /\ op'[d].phase = "answered" /\ op'[d].left = op[d].left \ {p}
      /\ op'[d].kind = op[d].kind /\ op'[d].saved = op[d].saved
      /\ op'[d].answer = op[d].answer /\ op'[d].local = op[d].local
  BY <1>0, ApplyFileFacts
<1>2. op[d].kind \in {"sync", "resolve"} /\ op'[d].request = op[d].request
      /\ op[d] # Idle /\ op'[d] # Idle
      /\ op[d].answer.status \in {"ok", "conflict"}
  <2>1. op[d].kind \in {"sync", "resolve"} /\ op[d] # Idle
    BY <1>1, IdleOp DEF SyncInv, PlainOps
  <2>2. op[d].answer.status \in {"ok", "conflict"}
    BY <1>0, <1>1, AnsweredFacts DEF Answers
  <2> QED BY <1>0, <1>1, <2>1, <2>2, ApplyFileFacts, IdleOp
<1>3. ASSUME NEW q \in Paths
      PROVE  CountedCommitted(d, q)' /\ RequestOnDisk(d, q)' /\ AnswerCommitted(d, q)'
  <2>1. CountedCommitted(d, q) /\ AnswerCommitted(d, q)
    BY <1>3 DEF AllCommitted
  <2>2. /\ disk'[d][q] = disk[d][q] \/ (p = q /\ disk'[d][q] = file)
        /\ synced'[d][q] = synced[d][q]
             \/ (p = q /\ synced'[d][q] = file /\ op[d].answer.status # "conflict")
        /\ p = q => disk'[d][q] = file \/ (disk'[d][q] = disk[d][q] /\ op[d].local[p] = file)
    <3>1. /\ disk \in [Devices -> [Paths -> Files]] /\ synced \in [Devices -> [Paths -> Files]]
      BY <1>0 DEF TypeInv, Trees
    <3>2. CASE AlreadyLocal(d, p)
      BY <3>2 DEF ApplyFile, AlreadyLocal
    <3>3. CASE ~AlreadyLocal(d, p)
      <4>1. disk' = [disk EXCEPT ![d][p] = file]
            /\ (synced' = synced \/ (synced' = [synced EXCEPT ![d][p] = file]
                                     /\ op[d].answer.status # "conflict"))
        BY <3>3 DEF ApplyFile
      <4> QED BY <1>3, <3>1, <4>1
    <3> QED BY <3>2, <3>3
  <2>3. op[d].answer.status # "conflict" \/ op[d].kind = "resolve"
          => (p = q => Committed(q, file))
    BY <1>1, <1>2, <2>1 DEF AnswerCommitted
  <2>4. CountedCommitted(d, q)'
    BY <1>1, <1>2, <2>1, <2>2, <2>3 DEF CountedCommitted, Committed
  <2>5. AnswerCommitted(d, q)'
    <3>1. CASE op[d].kind = "sync" /\ op[d].answer.status = "ok"
      BY <1>1, <2>1, <2>2, <2>3, <3>1 DEF AnswerCommitted, Committed
    <3>2. CASE op[d].kind = "resolve"
      BY <1>1, <1>2, <2>1, <2>2, <2>3, <3>2 DEF AnswerCommitted, Committed
    <3> QED BY <1>1, <1>2, <3>1, <3>2 DEF AnswerCommitted
  <2> QED BY <1>1, <2>4, <2>5 DEF RequestOnDisk
<1> QED BY <1>3 DEF AllCommitted

LEMMA FinishCommitted ==
  ASSUME SyncInv, NEW d \in Devices, FinishSync(d) \/ FinishResolve(d), AllCommitted(d)
  PROVE  AllCommitted(d)'
<1>1. /\ TypeInv /\ op[d].phase = "answered" /\ op[d].left = {}
      /\ op[d].kind = "sync" \/ op[d].kind = "resolve"
      /\ UNCHANGED <<commits, disk>>
  BY DEF SyncInv, FinishSync, FinishResolve, serverVars
<1>2. op'[d] = Idle /\ op'[d].phase = "idle"
  BY <1>1, IdleOp DEF FinishSync, FinishResolve, TypeInv
<1>3. ASSUME NEW p \in Paths
      PROVE  CountedCommitted(d, p)' /\ RequestOnDisk(d, p)' /\ AnswerCommitted(d, p)'
  <2>1. CountedCommitted(d, p) /\ AnswerCommitted(d, p)
    BY <1>3 DEF AllCommitted
  <2>2. CASE FinishSync(d)
    <3>1. op[d].answer.status \in {"ok", "conflict"} /\ op[d].kind = "sync"
      BY <1>1, <2>2, AnsweredFacts DEF Answers, FinishSync
    <3>2. CASE op[d].answer.status = "conflict"
      BY <1>1, <1>2, <2>1, <2>2, <3>2
         DEF FinishSync, CountedCommitted, RequestOnDisk, AnswerCommitted, Committed
    <3>3. CASE op[d].answer.status = "ok"
      <4>1. Committed(p, disk[d][p])
        BY <1>1, <2>1, <3>1, <3>3 DEF AnswerCommitted
      <4>2. synced'[d] = disk[d]
        BY <1>1, <2>2, <3>3 DEF FinishSync, TypeInv
      <4> QED BY <1>1, <1>2, <4>1, <4>2
              DEF CountedCommitted, RequestOnDisk, AnswerCommitted, Committed
    <3> QED BY <3>1, <3>2, <3>3
  <2>3. CASE FinishResolve(d)
    <3> DEFINE files == op[d].request.changes
    <3>1. op[d].kind = "resolve"
      BY <2>3 DEF FinishResolve
    <3>2. synced'[d] = Overwritten(synced[d], [q \in DOMAIN files |-> disk[d][q]])
      BY <1>1, <2>3 DEF FinishResolve, TypeInv
    <3>3. synced'[d][p] = IF p \in DOMAIN files THEN disk[d][p] ELSE synced[d][p]
      BY <1>3, <3>2 DEF Overwritten
    <3>4. Committed(p, synced'[d][p])
      BY <1>1, <2>1, <3>1, <3>3 DEF AnswerCommitted, CountedCommitted
    <3> QED BY <1>1, <1>2, <3>4
            DEF CountedCommitted, RequestOnDisk, AnswerCommitted, Committed
  <2> QED BY <2>2, <2>3
<1> QED BY <1>3 DEF AllCommitted

-----------------------------------------------------------------------------
(* Every step.                                                             *)

(* The branch only grows.                                                  *)
LEMMA StepExtends ==
  ASSUME SyncInv, NEW d \in Devices, User(d) \/ Plugin(d) \/ Server(d) \/ Fault(d)
  PROVE  Extends(commits, commits')
<1>0. TypeInv
  BY DEF SyncInv
<1>1. CASE Server(d)
  BY <1>0, <1>1, ServerSyncsTypes, ServerResolvesTypes DEF Server
<1>2. CASE ServerStops(d)
  BY <1>0, <1>2, PlainStops, ServerStopsTypes
<1>3. CASE UNCHANGED serverVars
  BY <1>0, <1>3, LenCommits DEF serverVars, Extends, TypeInv
<1>4. User(d) => UNCHANGED serverVars
  BY DEF User, Edit, Delete, ResetLocalSyncState, StartResolve, StartSync
<1>5. Plugin(d) => UNCHANGED serverVars
  BY DEF Plugin, ApplyFile, FinishSync, FinishResolve
<1>6. Fault(d) => ServerStops(d) \/ UNCHANGED serverVars
  BY DEF Fault, AnswerLost, DownloadFails, AppKilled
<1> QED BY <1>1, <1>2, <1>3, <1>4, <1>5, <1>6

LEMMA StepCommitted ==
  ASSUME SyncInv, CommittedInv, EditWhileSyncing = FALSE, NEW d \in Devices,
         User(d) \/ Plugin(d) \/ Server(d) \/ Fault(d)
  PROVE  CommittedInv'
<1>1. TypeInv /\ TypeOK'
  BY StepTypes DEF SyncInv, TypeInv
<1>2. Extends(commits, commits')
  BY <1>1, StepExtends
<1>3. ASSUME NEW e \in Devices \ {d} PROVE AllCommitted(e)'
  <2>1. disk'[e] = disk[e] /\ synced'[e] = synced[e] /\ op'[e] = op[e]
    BY <1>1, <1>3, OthersRest
  <2>2. AllCommitted(e)
    BY <1>3 DEF CommittedInv
  <2> QED BY <1>1, <1>2, <1>3, <2>1, <2>2, WaitingCommitted
<1>4. AllCommitted(d)'
  <2>1. AllCommitted(d)
    BY DEF CommittedInv
  <2>2. CASE User(d)
    BY <1>1, <2>1, <2>2, UserCommitted
  <2>3. CASE Plugin(d)
    BY <2>1, <2>3, ApplyFileCommitted, FinishCommitted DEF Plugin
  <2>4. CASE Server(d)
    BY <1>1, <2>1, <2>4, ServerSyncsCommitted, ServerResolvesCommitted DEF Server
  <2>5. CASE Fault(d)
    BY <2>1, <2>5, FaultCommitted
  <2> QED BY <2>2, <2>3, <2>4, <2>5
<1> QED BY <1>3, <1>4 DEF CommittedInv

LEMMA NextKeepsCommitted ==
  EditWhileSyncing = FALSE /\ SyncInv /\ CommittedInv /\ [SyncNext]_vars => CommittedInv'
<1> SUFFICES ASSUME EditWhileSyncing = FALSE, SyncInv, CommittedInv, [SyncNext]_vars
             PROVE  CommittedInv'
  OBVIOUS
<1>1. ASSUME TabletWrites, NEW d \in Devices PROVE AllCommitted(d)'
  <2>1. TypeInv /\ TypeOK' /\ Extends(commits, commits')
    BY <1>1, TabletTypes DEF SyncInv, TypeInv
  <2>2. UNCHANGED <<disk, synced, op>>
    BY <1>1 DEF TabletWrites, deviceVars
  <2>3. AllCommitted(d)
    BY DEF CommittedInv
  <2> QED BY <2>1, <2>2, <2>3, WaitingCommitted
<1>2. CASE UNCHANGED vars
  BY <1>2 DEF vars, serverVars, deviceVars, CommittedInv, AllCommitted, CountedCommitted,
     RequestOnDisk, AnswerCommitted, Committed
<1> QED BY <1>1, <1>2, StepCommitted DEF SyncNext, CommittedInv

LEMMA InitCommitted == SyncInit => CommittedInv
<1> SUFFICES ASSUME SyncInit, NEW d \in Devices, NEW p \in Paths
             PROVE  CountedCommitted(d, p) /\ RequestOnDisk(d, p) /\ AnswerCommitted(d, p)
  BY DEF CommittedInv, AllCommitted
<1>1. Committed(p, synced[d][p])
  <2>1. TreeAt(commits, 1) = StartTree /\ synced[d] = StartTree
    BY SMT DEF SyncInit, TreeAt
  <2> QED BY <2>1, TreeCommitted DEF Committed
<1>2. op[d] = Idle
  BY DEF SyncInit
<1> QED BY <1>1, <1>2, IdleOp DEF CountedCommitted, RequestOnDisk, AnswerCommitted

(***************************************************************************)
(* Whatever is lost, stopped, killed or reset: if users do not edit while  *)
(* their device synchronises, no file counts as synced that the server     *)
(* never committed.  (If they do, the run sync_edit_while_syncing shows    *)
(* how it happens.)                                                        *)
(***************************************************************************)
THEOREM WhatIsSyncedWasCommitted ==
  EditWhileSyncing = FALSE => (SyncSpec => []SyncedWasCommitted)
<1>1. CommittedInv => SyncedWasCommitted
  BY DEF CommittedInv, AllCommitted, CountedCommitted, Committed, CommittedIn,
     SyncedWasCommitted
<1>2. EditWhileSyncing = FALSE => (SyncInv /\ CommittedInv /\ [SyncNext]_vars => CommittedInv')
  BY NextKeepsCommitted
<1>3. CASE EditWhileSyncing = FALSE
  <2>1. SyncInv /\ CommittedInv /\ [SyncNext]_vars => CommittedInv'
    BY <1>2, <1>3
  <2> QED BY <1>1, <2>1, InitCommitted, SyncInvariant, PTL DEF SyncSpec
<1> QED BY <1>3

-----------------------------------------------------------------------------
(***************************************************************************)
(* Why a device holds the manifest of the commit it names as its base, but *)
(* for what its last resolution was not told of.  A sync carries exactly   *)
(* what differs from the manifest, so what its answer leaves out is on the *)
(* disk as the new head has it; a resolution carries the files it writes,  *)
(* and its answer all others that are there and not pending.               *)
(***************************************************************************)

(* Nothing of an answer counts as synced yet, or ever will.                *)
BaseStands(d) ==
  \/ op[d].phase \in {"idle", "sent"}
  \/ op[d].left = DOMAIN op[d].answer.files
  \/ op[d].answer.status = "conflict"

BaseHeld(d, p) ==
  BaseStands(d) /\ p \notin skipped[d] => synced[d][p] = TreeAt(commits, base[d])[p]

RequestIsDifference(d, p) ==
  op[d].phase = "sent" =>
    /\ p \in DOMAIN op[d].request.changes => op[d].request.changes[p] = disk[d][p]
    /\ op[d].kind = "sync" =>
         /\ op[d].request.base = base[d] /\ op[d].request.manifest[p] = disk[d][p]
         /\ p \notin DOMAIN op[d].request.changes => disk[d][p] = synced[d][p]
         /\ p \in DOMAIN op[d].request.changes => disk[d][p] # synced[d][p]

(* The paths an answer under way says something of.                        *)
Told(d) == DOMAIN op[d].request.changes \cup DOMAIN op[d].answer.files

AnswerCompletes(d, p) ==
  op[d].phase = "answered" =>
    /\ op[d].kind = "sync" /\ op[d].answer.status = "ok" =>
         /\ p \in op[d].left =>
              op[d].answer.files[p] = Sent(d)[p] /\ op[d].local[p] = disk[d][p]
         /\ p \notin op[d].left /\ (p \in Told(d) \/ p \notin skipped[d])
              => disk[d][p] = Sent(d)[p]
    /\ op[d].kind = "resolve" =>
         /\ op[d].answer.status = "ok"
         /\ p \in DOMAIN op[d].request.changes => disk[d][p] = Sent(d)[p]
         /\ p \in op[d].left =>
              op[d].answer.files[p] = Sent(d)[p] /\ op[d].local[p] = synced[d][p]
         /\ p \in DOMAIN op[d].answer.files \ op[d].left
              => p \in DOMAIN op[d].request.changes \/ synced[d][p] = Sent(d)[p]

ManifestKept(d) ==
  \A p \in Paths : BaseHeld(d, p) /\ RequestIsDifference(d, p) /\ AnswerCompletes(d, p)

Uninterrupted == bounds["interrupts"] = 0

ManifestInv == Uninterrupted => \A d \in Devices : ManifestKept(d)

(* A device that waits, beside the server or not.                          *)
LEMMA WaitingManifest ==
  ASSUME TypeInv, TypeOK', Extends(commits, commits'), NEW d \in Devices, ManifestKept(d),
         disk'[d] = disk[d] \/ op[d] = Idle, op'[d] = op[d],
         synced'[d] = synced[d], base'[d] = base[d], skipped'[d] = skipped[d]
  PROVE  ManifestKept(d)'
<1>1. commits \in Seq(Trees) /\ commits' \in Seq(Trees)
  BY DEF TypeInv, TypeOK
<1>2. TreeAt(commits', base[d]) = TreeAt(commits, base[d])
  BY <1>1, OpTrees, TreeAtKept
<1>3. op[d].phase = "answered" => Sent(d)' = Sent(d)
  BY <1>1, OpTrees, TreeAtKept DEF Sent
<1>4. op[d] = Idle => op[d].phase = "idle"
  BY IdleOp
<1> SUFFICES ASSUME NEW p \in Paths
             PROVE  (BaseHeld(d, p) /\ RequestIsDifference(d, p) /\ AnswerCompletes(d, p))'
  BY DEF ManifestKept
<1>5. BaseHeld(d, p) /\ RequestIsDifference(d, p) /\ AnswerCompletes(d, p)
  BY DEF ManifestKept
<1>6. BaseHeld(d, p)'
  BY <1>2, <1>5 DEF BaseHeld, BaseStands
<1>7. RequestIsDifference(d, p)'
  BY <1>4, <1>5 DEF RequestIsDifference
<1>8. AnswerCompletes(d, p)'
  BY <1>3, <1>4, <1>5 DEF AnswerCompletes, Told
<1> QED BY <1>6, <1>7, <1>8

(* The device has nothing under way, and what it counts as synced is its   *)
(* base, but for what it was not told of.                                  *)
LEMMA IdleManifest ==
  ASSUME NEW d \in Devices, op'[d] = Idle,
         \A p \in Paths : p \notin skipped'[d] =>
           synced'[d][p] = TreeAt(commits', base'[d])[p]
  PROVE  ManifestKept(d)'
  BY IdleOp DEF ManifestKept, BaseHeld, RequestIsDifference, AnswerCompletes

LEMMA UserManifest ==
  ASSUME TypeInv, NEW d \in Devices, User(d), EditWhileSyncing = FALSE, ManifestKept(d)
  PROVE  ManifestKept(d)'
<1>1. commits' = commits /\ TypeOK' /\ Extends(commits, commits')
  <2>1. UNCHANGED serverVars
    BY DEF User, Edit, Delete, ResetLocalSyncState, StartResolve, StartSync
  <2> QED BY <2>1, ServerRests, LenCommits DEF serverVars, TypeInv, Extends
<1>2. op[d] = Idle /\ op[d].phase = "idle"
  BY IdleOp DEF User, Edit, Delete, MayEdit, ResetLocalSyncState, StartResolve, StartSync
<1>3. \A p \in Paths : p \notin skipped[d] => synced[d][p] = TreeAt(commits, base[d])[p]
  BY <1>2 DEF ManifestKept, BaseHeld, BaseStands
<1>4. CASE Edit(d) \/ \E p \in Paths : Delete(d, p)
  <2>1. op' = op /\ synced' = synced /\ base' = base /\ skipped' = skipped
    BY <1>4 DEF Edit, Delete
  <2> QED BY <1>1, <1>2, <2>1, WaitingManifest
<1>5. CASE ResetLocalSyncState(d)
  <2>1. op'[d] = Idle /\ synced'[d] = EmptyTree /\ base'[d] = 0
    BY <1>2, <1>5 DEF ResetLocalSyncState, TypeInv
  <2>2. TreeAt(commits', 0) = EmptyTree
    BY SMT DEF TreeAt
  <2> QED BY <2>1, <2>2, IdleManifest
<1>6. CASE StartSync(d)
  <2> DEFINE changed == ChangedPaths(disk[d], synced[d])
             o == [phase |-> "sent", kind |-> "sync", saved |-> synced[d],
                   request |-> [base |-> base[d], changes |-> [p \in changed |-> disk[d][p]],
                                manifest |-> disk[d]]]
  <2>1. op'[d] = o /\ UNCHANGED <<commits, disk, synced, base, skipped>>
    BY <1>6 DEF StartSync, TypeInv, serverVars, auxVars
  <2>2. /\ op'[d].phase = "sent" /\ op'[d].kind = "sync"
        /\ op'[d].request.base = base[d] /\ op'[d].request.manifest = disk[d]
        /\ DOMAIN op'[d].request.changes = changed
        /\ \A p \in changed : op'[d].request.changes[p] = disk[d][p]
    BY <2>1
  <2>3. \A p \in Paths : p \in changed <=> disk[d][p] # synced[d][p]
    BY DEF ChangedPaths
  <2> HIDE DEF changed
  <2> QED BY <1>3, <2>1, <2>2, <2>3
          DEF ManifestKept, BaseHeld, RequestIsDifference, AnswerCompletes
<1>7. CASE StartResolve(d)
  <2>0. PICK paths \in (SUBSET (reported[d] \cup PendingFor(pending, d))) \ {{}} :
          \E files \in [paths -> UNION {Resolutions(d, p) : p \in paths}] :
            /\ disk' = [disk EXCEPT ![d] = Overwritten(@, files)]
            /\ op' = [op EXCEPT ![d] =
                 [phase |-> "sent", kind |-> "resolve", saved |-> synced[d],
                  request |-> [changes |-> files]]]
    BY <1>7 DEF StartResolve
  <2>1. PICK files \in [paths -> UNION {Resolutions(d, p) : p \in paths}] :
          /\ disk' = [disk EXCEPT ![d] = Overwritten(@, files)]
          /\ op' = [op EXCEPT ![d] =
               [phase |-> "sent", kind |-> "resolve", saved |-> synced[d],
                request |-> [changes |-> files]]]
    BY <2>0
  <2>2. /\ op'[d].phase = "sent" /\ op'[d].kind = "resolve"
        /\ op'[d].request.changes = files /\ DOMAIN files = paths
        /\ disk'[d] = Overwritten(disk[d], files)
        /\ UNCHANGED <<commits, synced, base, skipped>>
    BY <1>7, <2>1 DEF StartResolve, TypeInv, serverVars
  <2>3. \A p \in DOMAIN files : p \in Paths => disk'[d][p] = files[p]
    BY <2>2 DEF Overwritten
  <2> QED BY <1>3, <2>2, <2>3
          DEF ManifestKept, BaseHeld, RequestIsDifference, AnswerCompletes
<1> QED BY <1>4, <1>5, <1>6, <1>7 DEF User

(* An operation ends without an answer.                                    *)
LEMMA FaultManifest ==
  ASSUME SyncInv, NEW d \in Devices, Fault(d), ManifestKept(d), Uninterrupted'
  PROVE  ManifestKept(d)'
<1>1. TypeInv /\ TypeOK' /\ bounds \in Bounds
  BY StepTypes DEF SyncInv, TypeInv
<1>2. ~DownloadFails(d) /\ ~AppKilled(d)
  BY <1>1, DownloadFailsTypes, AppKilledTypes DEF Uninterrupted
<1>3. ServerStops(d) \/ AnswerLost(d)
  BY <1>2 DEF Fault
<1>4. /\ Extends(commits, commits') /\ op'[d] = Idle
      /\ synced' = synced /\ base' = base /\ skipped' = skipped
  <2>1. CASE ServerStops(d)
    BY <1>1, <2>1, PlainStops, ServerStopsTypes DEF ServerStops, auxVars, TypeInv
  <2>2. CASE AnswerLost(d)
    BY <1>1, <2>2, LenCommits DEF AnswerLost, serverVars, Extends, TypeInv
  <2> QED BY <1>3, <2>1, <2>2
<1>5. BaseStands(d)
  BY <1>3 DEF ServerStops, AnswerLost, BaseStands
<1>6. TreeAt(commits', base[d]) = TreeAt(commits, base[d])
  BY <1>1, <1>4, OpTrees, TreeAtKept DEF TypeInv, TypeOK
<1> QED BY <1>4, <1>5, <1>6, IdleManifest DEF ManifestKept, BaseHeld

(* An accepted change is what the server then holds, unless it is a text   *)
(* merged with the server's, or one the server knew better than.           *)
LEMMA AcceptedDeletion ==
  ASSUME TypeOK, NEW d \in Devices, NEW req, WellFormed(req),
         NEW h \in Seq(Trees), NEW p \in DOMAIN req.changes,
         ~ChangeOutcome(d, req, h, p).clash, req.changes[p] = Absent
  PROVE  ChangeOutcome(d, req, h, p).content = Absent
<1> DEFINE out == ChangeOutcome(d, req, h, p)
<1>1. pending[p] = NoOwner
  BY OutcomeCases, SMT DEF Clashed
<1>2. out \in {BinaryChange(req.base # 0, TreeAt(h, req.base)[p], HeadTree(h)[p], Absent),
               TextDelete(TreeAt(h, req.base)[p], HeadTree(h)[p])}
  BY <1>1, OutcomeCases
<1> QED BY <1>2, SMT DEF BinaryChange, TextDelete, Clashed, Written

(* What a successful answer leaves out is on the disk as the server has it.*)
LEMMA LeftOutOnDisk ==
  ASSUME TypeInv, NEW d \in Devices, ServerSyncs(d), NEW p \in Paths,
         BaseHeld(d, p), RequestIsDifference(d, p),
         SyncAnswer(d, op[d].request).status = "ok",
         p \notin DOMAIN SyncAnswer(d, op[d].request).files,
         p \in DOMAIN op[d].request.changes \/ p \notin skipped[d]
  PROVE  disk[d][p] = HeadTree(commits')[p]
<1> DEFINE req    == op[d].request
           answer == SyncAnswer(d, req)
           before == CommitAllIfChanged(commits, work)
           old    == TreeAt(commits, base[d])
           now    == HeadTree(commits')[p]
<1>1. /\ op[d].phase = "sent" /\ op[d].kind = "sync" /\ WellFormed(req)
      /\ req \in Syncing(Len(commits)) /\ commits' = SyncHistory(d, req)
  BY ServerSyncsFacts
<1>2. TypeOK /\ TypeOK' /\ Extends(commits, commits')
  BY ServerSyncsTypes DEF TypeInv
<1>3. /\ p \notin skipped[d] => synced[d][p] = old[p]
      /\ req.base = base[d] /\ req.manifest[p] = disk[d][p]
      /\ p \notin DOMAIN req.changes => disk[d][p] = synced[d][p]
      /\ p \in DOMAIN req.changes => req.changes[p] = disk[d][p]
  BY <1>1 DEF BaseHeld, BaseStands, RequestIsDifference
<1>4. before \in Seq(Trees) /\ TreeAt(before, base[d]) = old /\ TreeAt(commits', base[d]) = old
  <2>1. before \in Seq(Trees)
    BY <1>1, <1>2, SyncHead
  <2>2. Len(commits) <= Len(before) /\ \A n \in 1..Len(commits) : before[n] = commits[n]
    BY <1>1, <1>2, SyncHistoryFacts
  <2>3. Extends(commits, before) /\ base[d] \in 0..Len(commits)
    BY <1>2, <2>2, OpTrees DEF Extends
  <2> QED BY <1>2, <2>1, <2>3, TreeAtKept DEF TypeOK
<1>5. now = old[p] \/ now = disk[d][p]
  <2>1. answer.files = ChangedFilesSince(commits', req.base, req.manifest)
    BY <1>1, SyncAnswerCases DEF Answer
  <2>2. CASE base[d] = 0
    <3>1. old[p] = Absent
      BY <2>2, SMT DEF TreeAt, EmptyTree
    <3>2. now \in {Absent, req.manifest[p]}
      BY <1>3, <2>1, <2>2 DEF ChangedFilesSince
    <3> QED BY <1>3, <3>1, <3>2
  <2>3. CASE base[d] # 0
    BY <1>3, <1>4, <2>1, <2>3 DEF ChangedFilesSince
  <2> QED BY <2>2, <2>3
<1>6. CASE p \notin DOMAIN req.changes
  BY <1>3, <1>5, <1>6
<1>7. CASE p \in DOMAIN req.changes /\ now = old[p]
  <2>1. ClashesOf(d, req, before) = {}
    BY SyncAnswerCases
  <2>2. ~ChangeOutcome(d, req, before, p).clash
        /\ now = ChangeOutcome(d, req, before, p).content
    BY <1>1, <1>2, <1>7, <2>1, SyncHead
  <2>3. req.changes[p] \in {Absent, old[p]}
    <3>1. TreeAt(before, req.base)[p] = old[p]
      BY <1>3, <1>4
    <3>2. ChangeOutcome(d, req, before, p).content = TreeAt(before, req.base)[p]
      BY <1>7, <2>2, <3>1
    <3>3. req.changes[p] \in {Absent, TreeAt(before, req.base)[p]}
      BY <1>1, <1>2, <1>4, <1>7, <2>2, <3>2, AcceptedEcho
    <3> QED BY <3>1, <3>3
  <2>4. req.changes[p] = Absent => now = Absent
    BY <1>1, <1>2, <1>4, <1>7, <2>2, AcceptedDeletion
  <2> QED BY <1>3, <1>7, <2>3, <2>4
<1> QED BY <1>5, <1>6, <1>7

LEMMA ServerSyncsManifest ==
  ASSUME TypeInv, NEW d \in Devices, ServerSyncs(d), ManifestKept(d)
  PROVE  ManifestKept(d)'
<1> DEFINE req    == op[d].request
           answer == SyncAnswer(d, req)
<1>1. /\ op[d].phase = "sent" /\ op[d].kind = "sync" /\ commits' = SyncHistory(d, req)
      /\ op'[d].phase = "answered" /\ op'[d].kind = "sync"
      /\ op'[d].answer = answer /\ op'[d].local = req.manifest
      /\ op'[d].left = DOMAIN answer.files /\ op'[d].request = req
      /\ UNCHANGED <<disk, synced, base, skipped>>
  BY ServerSyncsFacts
<1>2. TreeAt(commits', base[d]) = TreeAt(commits, base[d])
  BY ServerSyncsTypes, OpTrees, TreeAtKept DEF TypeInv, TypeOK
<1>3. Sent(d)' = HeadTree(commits')
  BY <1>1, SyncAnswerCases DEF Sent, HeadTree
<1> SUFFICES ASSUME NEW p \in Paths
             PROVE  (BaseHeld(d, p) /\ RequestIsDifference(d, p) /\ AnswerCompletes(d, p))'
  BY DEF ManifestKept
<1>4. BaseHeld(d, p) /\ RequestIsDifference(d, p)
  BY DEF ManifestKept
<1>5. BaseHeld(d, p)'
  BY <1>1, <1>2, <1>4 DEF BaseHeld, BaseStands
<1>6. req.manifest[p] = disk[d][p]
  BY <1>1, <1>4 DEF RequestIsDifference
<1>7. answer.status = "ok" /\ p \in DOMAIN answer.files
        => answer.files[p] = HeadTree(commits')[p]
  BY <1>1, SyncAnswerOk
<1>8. answer.status = "ok" /\ p \notin DOMAIN answer.files
        /\ (p \in DOMAIN req.changes \/ p \notin skipped[d])
        => disk[d][p] = HeadTree(commits')[p]
  BY <1>4, LeftOutOnDisk
<1>9. AnswerCompletes(d, p)'
  BY <1>1, <1>3, <1>6, <1>7, <1>8 DEF AnswerCompletes, Told
<1> QED BY <1>1, <1>5, <1>9 DEF RequestIsDifference

LEMMA ServerResolvesManifest ==
  ASSUME TypeInv, NEW d \in Devices, ServerResolves(d), ManifestKept(d)
  PROVE  ManifestKept(d)'
<1> DEFINE files  == op[d].request.changes
           answer == ResolveAnswer(d, files)
<1>1. /\ op[d].phase = "sent" /\ op[d].kind = "resolve"
      /\ files \in Writes /\ commits' = ResolveHistory(files)
      /\ op'[d].phase = "answered" /\ op'[d].kind = "resolve"
      /\ op'[d].answer = answer /\ op'[d].request = op[d].request
      /\ op'[d].left = DOMAIN answer.files /\ op'[d].local = synced[d]
      /\ UNCHANGED <<disk, synced, base, skipped>>
  BY ServerResolvesFacts
<1>2. TypeOK /\ TypeOK' /\ Extends(commits, commits')
      /\ HeadTree(commits') = Overwritten(work, files)
  BY ServerResolvesTypes DEF TypeInv
<1>3. TreeAt(commits', base[d]) = TreeAt(commits, base[d])
  BY <1>2, OpTrees, TreeAtKept DEF TypeOK
<1>4. /\ answer.status = "ok" /\ answer.head = Len(commits')
      /\ \A p \in DOMAIN answer.files : answer.files[p] = HeadTree(commits')[p]
  BY <1>1, <1>2, ResolveAnswerFacts
<1>5. Sent(d)' = HeadTree(commits')
  BY <1>1, <1>4 DEF Sent, HeadTree
<1> SUFFICES ASSUME NEW p \in Paths
             PROVE  (BaseHeld(d, p) /\ RequestIsDifference(d, p) /\ AnswerCompletes(d, p))'
  BY DEF ManifestKept
<1>6. BaseHeld(d, p) /\ RequestIsDifference(d, p)
  BY DEF ManifestKept
<1>7. BaseHeld(d, p)'
  BY <1>1, <1>3, <1>6 DEF BaseHeld, BaseStands
<1>8. p \in DOMAIN files => files[p] = disk[d][p]
  BY <1>1, <1>6 DEF RequestIsDifference
<1>9. p \in DOMAIN files => HeadTree(commits')[p] = disk[d][p]
  BY <1>2, <1>8 DEF Overwritten
<1>10. AnswerCompletes(d, p)'
  BY <1>1, <1>4, <1>5, <1>8, <1>9 DEF AnswerCompletes
<1> QED BY <1>1, <1>7, <1>10 DEF RequestIsDifference

(* One file of an answer: the disk has it, and what counts as synced moves *)
(* away from the base, unless the answer is a conflict.                    *)
LEMMA ApplyFileManifest ==
  ASSUME SyncInv, NEW d \in Devices, NEW p \in Paths, ApplyFile(d, p), ManifestKept(d)
  PROVE  ManifestKept(d)'
<1> DEFINE file == op[d].answer.files[p]
<1>0. TypeInv
  BY DEF SyncInv
<1>1. /\ commits' = commits /\ op[d].phase = "answered" /\ p \in op[d].left
      /\ op'[d].phase = "answered" /\ op'[d].left = op[d].left \ {p}
      /\ op'[d].kind = op[d].kind /\ op'[d].answer = op[d].answer
      /\ op'[d].local = op[d].local
  BY <1>0, ApplyFileFacts
<1>2. op[d].kind \in {"sync", "resolve"} /\ op'[d].request = op[d].request
      /\ base' = base /\ skipped' = skipped /\ Sent(d)' = Sent(d)
  <2>1. op[d].kind \in {"sync", "resolve"}
    BY <1>1, IdleOp DEF SyncInv, PlainOps
  <2>2. base' = base /\ skipped' = skipped /\ Sent(d)' = Sent(d)
    BY <1>1 DEF ApplyFile, Sent
  <2> QED BY <1>0, <2>1, <2>2, ApplyFileFacts
<1> SUFFICES ASSUME NEW q \in Paths
             PROVE  (BaseHeld(d, q) /\ RequestIsDifference(d, q) /\ AnswerCompletes(d, q))'
  BY DEF ManifestKept
<1>3. BaseHeld(d, q) /\ AnswerCompletes(d, q) /\ AnswerCompletes(d, p)
  BY DEF ManifestKept
<1>4. /\ disk'[d][q] = disk[d][q] \/ (p = q /\ disk'[d][q] = file)
      /\ op[d].answer.status = "conflict" => synced'[d] = synced[d]
      /\ p = q => disk'[d][q] = file \/ (disk'[d][q] = disk[d][q] /\ op[d].local[p] = file)
      /\ p # q => synced'[d][q] = synced[d][q]
      /\ p = q /\ op[d].answer.status # "conflict"
           => \/ synced'[d][q] = file
              \/ synced'[d][q] = synced[d][q] /\ op[d].local[p] = file
  <2>1. disk \in [Devices -> [Paths -> Files]] /\ synced \in [Devices -> [Paths -> Files]]
    BY <1>0 DEF TypeInv, Trees
  <2>2. CASE AlreadyLocal(d, p)
    BY <2>2 DEF ApplyFile, AlreadyLocal
  <2>3. CASE ~AlreadyLocal(d, p)
    <3>1. disk' = [disk EXCEPT ![d][p] = file]
          /\ (op[d].answer.status = "conflict" => synced' = synced)
          /\ (op[d].answer.status # "conflict" => synced' = [synced EXCEPT ![d][p] = file])
      BY <2>3 DEF ApplyFile
    <3> QED BY <2>1, <3>1
  <2> QED BY <2>2, <2>3
<1>5. BaseHeld(d, q)'
  <2>1. op[d].left \subseteq DOMAIN op[d].answer.files
    BY <1>0, <1>1, AnsweredFacts
  <2>2. BaseStands(d)' => op[d].answer.status = "conflict"
    BY <1>1, <2>1 DEF BaseStands
  <2> QED BY <1>1, <1>2, <1>3, <1>4, <2>2 DEF BaseHeld, BaseStands
<1>6. Told(d)' = Told(d)
  BY <1>1, <1>2 DEF Told
<1>7. AnswerCompletes(d, q)'
  BY <1>1, <1>2, <1>3, <1>4, <1>6 DEF AnswerCompletes, Told
<1> QED BY <1>1, <1>5, <1>7 DEF RequestIsDifference

LEMMA FinishManifest ==
  ASSUME TypeInv, NEW d \in Devices, FinishSync(d) \/ FinishResolve(d), ManifestKept(d)
  PROVE  ManifestKept(d)'
<1>1. /\ op[d].phase = "answered" /\ op[d].left = {} /\ commits' = commits
      /\ op[d].answer.status \in {"ok", "conflict"}
  BY AnsweredFacts DEF FinishSync, FinishResolve, serverVars, Answers
<1>2. op'[d] = Idle
  BY DEF FinishSync, FinishResolve, TypeInv
<1>3. ASSUME NEW p \in Paths, p \notin skipped'[d]
      PROVE  synced'[d][p] = TreeAt(commits', base'[d])[p]
  <2>1. BaseHeld(d, p) /\ AnswerCompletes(d, p)
    BY DEF ManifestKept
  <2>2. CASE FinishSync(d) /\ op[d].answer.status = "conflict"
    <3>1. synced' = synced /\ base' = base /\ skipped' = skipped
      BY <2>2 DEF FinishSync
    <3> QED BY <1>1, <1>3, <2>1, <2>2, <3>1 DEF BaseHeld, BaseStands
  <2>3. CASE FinishSync(d) /\ op[d].answer.status = "ok"
    <3>1. synced'[d] = disk[d] /\ base'[d] = op[d].answer.head /\ op[d].kind = "sync"
      BY <2>3 DEF FinishSync, TypeInv
    <3>2. skipped'[d] = skipped[d] \ Told(d)
      BY <2>3 DEF FinishSync, TypeInv, Told
    <3> QED BY <1>1, <1>3, <2>1, <2>3, <3>1, <3>2 DEF AnswerCompletes, Sent
  <2>4. CASE FinishResolve(d)
    <3> DEFINE files == op[d].request.changes
    <3>1. base'[d] = op[d].answer.head /\ op[d].kind = "resolve"
          /\ synced'[d] = Overwritten(synced[d], [q \in DOMAIN files |-> disk[d][q]])
      BY <2>4 DEF FinishResolve, TypeInv
    <3>2. skipped'[d] = LeftOut(d)
      BY <2>4 DEF FinishResolve, TypeInv
    <3>3. CASE p \in DOMAIN files
      <4>1. disk[d][p] = Sent(d)[p]
        BY <1>1, <2>1, <3>1, <3>3 DEF AnswerCompletes
      <4>2. synced'[d][p] = disk[d][p]
        BY <3>1, <3>3 DEF Overwritten
      <4> QED BY <1>1, <3>1, <4>1, <4>2 DEF Sent
    <3>4. CASE p \notin DOMAIN files
      <4>1. synced'[d][p] = synced[d][p]
        BY <3>1, <3>4 DEF Overwritten
      <4>2. synced[d][p] = Sent(d)[p]
        BY <1>1, <1>3, <2>1, <3>1, <3>2, <3>4 DEF AnswerCompletes, LeftOut, Sent
      <4> QED BY <1>1, <3>1, <4>1, <4>2 DEF Sent
    <3> QED BY <3>3, <3>4
  <2> QED BY <1>1, <2>2, <2>3, <2>4
<1> QED BY <1>2, <1>3, IdleManifest

(* No step takes an interruption back.                                     *)
LEMMA InterruptionsCount ==
  ASSUME TypeInv, NEW d \in Devices, User(d) \/ Plugin(d) \/ Server(d) \/ Fault(d),
         Uninterrupted'
  PROVE  Uninterrupted
<1>1. bounds \in Bounds
  BY DEF TypeInv
<1>2. ~DownloadFails(d) /\ ~AppKilled(d)
  BY DownloadFailsTypes, AppKilledTypes DEF Uninterrupted
<1>3. bounds'["interrupts"] = bounds["interrupts"]
  <2>1. CASE ResetLocalSyncState(d)
    BY <1>1, <2>1 DEF ResetLocalSyncState, Count, Bounds
  <2>2. CASE AnswerLost(d)
    BY <1>1, <2>2 DEF AnswerLost, Count, Bounds
  <2>3. CASE bounds' = bounds
    BY <2>3
  <2> QED BY <1>2, <2>1, <2>2, <2>3
          DEF User, Edit, Delete, StartResolve, StartSync, Plugin, ApplyFile, FinishSync,
              FinishResolve, Server, ServerSyncs, ServerResolves, Fault, ServerStops, auxVars
<1> QED BY <1>3 DEF Uninterrupted

LEMMA NextKeepsManifest ==
  EditWhileSyncing = FALSE /\ SyncInv /\ ManifestInv /\ [SyncNext]_vars => ManifestInv'
<1> SUFFICES ASSUME EditWhileSyncing = FALSE, SyncInv, ManifestInv, [SyncNext]_vars,
                    Uninterrupted', NEW e \in Devices
             PROVE  ManifestKept(e)'
  BY DEF ManifestInv
<1>1. TypeInv
  BY DEF SyncInv
<1>2. ASSUME NEW d \in Devices, User(d) \/ Plugin(d) \/ Server(d) \/ Fault(d)
      PROVE  ManifestKept(e)'
  <2>1. ManifestKept(d) /\ ManifestKept(e)
    BY <1>1, <1>2, InterruptionsCount DEF ManifestInv
  <2>2. TypeOK'
    BY <1>2, StepTypes DEF TypeInv
  <2>3. Extends(commits, commits')
    BY <1>1, <1>2, StepExtends
  <2>4. CASE e # d
    <3>1. disk'[e] = disk[e] /\ synced'[e] = synced[e] /\ base'[e] = base[e] /\ op'[e] = op[e]
          /\ skipped'[e] = skipped[e]
      BY <1>1, <1>2, <2>4, OthersRest
    <3> QED BY <1>1, <2>1, <2>2, <2>3, <3>1, WaitingManifest
  <2>5. User(d) => ManifestKept(d)'
    BY <1>1, <2>1, UserManifest
  <2>6. Plugin(d) => ManifestKept(d)'
    BY <1>1, <2>1, ApplyFileManifest, FinishManifest DEF Plugin
  <2>7. Server(d) => ManifestKept(d)'
    BY <1>1, <2>1, ServerSyncsManifest, ServerResolvesManifest DEF Server
  <2>8. Fault(d) => ManifestKept(d)'
    BY <2>1, FaultManifest
  <2> QED BY <1>2, <2>4, <2>5, <2>6, <2>7, <2>8
<1>3. CASE TabletWrites
  <2>1. TypeInv /\ TypeOK' /\ Extends(commits, commits')
    BY <1>3, TabletTypes DEF SyncInv, TypeInv
  <2>2. /\ UNCHANGED <<disk, synced, base, op, skipped>>
        /\ bounds'["interrupts"] = bounds["interrupts"]
    BY <1>1, <1>3 DEF TabletWrites, deviceVars, Count, TypeInv, Bounds
  <2>3. ManifestKept(e)
    BY <2>2 DEF ManifestInv, Uninterrupted
  <2> QED BY <2>1, <2>2, <2>3, WaitingManifest
<1>4. CASE UNCHANGED vars
  <2>1. UNCHANGED <<disk, synced, base, op, bounds, skipped>> /\ TypeOK'
        /\ Extends(commits, commits')
    BY <1>1, <1>4, ServerRests, LenCommits
       DEF vars, serverVars, deviceVars, auxVars, TypeInv, Extends
  <2>2. ManifestKept(e)
    BY <2>1 DEF ManifestInv, Uninterrupted
  <2> QED BY <1>1, <2>1, <2>2, WaitingManifest
<1> QED BY <1>2, <1>3, <1>4 DEF SyncNext

LEMMA InitManifest == SyncInit => ManifestInv
<1> SUFFICES ASSUME SyncInit, NEW d \in Devices, NEW p \in Paths
             PROVE  BaseHeld(d, p) /\ RequestIsDifference(d, p) /\ AnswerCompletes(d, p)
  BY DEF ManifestInv, ManifestKept
<1>1. TreeAt(commits, 1) = StartTree /\ synced[d] = StartTree /\ base[d] = 1 /\ op[d] = Idle
  BY SMT DEF SyncInit, TreeAt
<1> QED BY <1>1, IdleOp DEF BaseHeld, RequestIsDifference, AnswerCompletes

(***************************************************************************)
(* With users who wait while their device synchronises, a device between   *)
(* operations holds, for every path its last resolution was told of, the   *)
(* manifest of the commit it names as its base, whatever requests or       *)
(* answers are lost, wherever the server stops and however often the local *)
(* state is reset: until a download fails or the app is killed, which      *)
(* leave a manifest recorded half way.                                     *)
(***************************************************************************)
THEOREM ManifestsMatchBase ==
  EditWhileSyncing = FALSE => (SyncSpec => [](Uninterrupted => ManifestMatchesBase))
<1>1. SyncInv /\ ManifestInv => (Uninterrupted => ManifestMatchesBase)
  <2> SUFFICES ASSUME SyncInv, ManifestInv, Uninterrupted,
                      NEW d \in Devices, op[d] = Idle, NEW p \in Paths \ skipped[d]
               PROVE  synced[d][p] = TreeAt(commits, base[d])[p]
    BY DEF ManifestMatchesBase
  <2> QED BY IdleOp DEF ManifestInv, ManifestKept, BaseHeld, BaseStands
<1>2. EditWhileSyncing = FALSE => (SyncInv /\ ManifestInv /\ [SyncNext]_vars => ManifestInv')
  BY NextKeepsManifest
<1>3. CASE EditWhileSyncing = FALSE
  <2>1. SyncInv /\ ManifestInv /\ [SyncNext]_vars => ManifestInv'
    BY <1>2, <1>3
  <2> QED BY <1>1, <2>1, InitManifest, SyncInvariant, PTL DEF SyncSpec
<1> QED BY <1>3

-----------------------------------------------------------------------------
(***************************************************************************)
(* FirstSync: the first sync of a device beside the ordinary ones.         *)
(***************************************************************************)
StepOf(d) ==
  \/ Asks(d) \/ FirstStep(d) \/ ServerProbed(d) \/ ServerPushes(d) \/ SetUpLost(d)
  \/ FinishFirst(d) \/ Killed(d) \/ (Ordinary(d) /\ UNCHANGED firstVars)

(* Another installation is forgotten, whatever is under way.               *)
LEMMA SavedForgotten ==
  ASSUME NEW n \in Nat, NEW o \in Ops(n), o # Idle, NEW t \in Trees
  PROVE  LET less == [o EXCEPT !.saved = t] IN
         /\ less \in Ops(n)
         /\ less.phase = o.phase /\ less.kind = o.kind
         /\ o.phase = "sent" => less.request = o.request
         /\ o.phase = "answered" /\ o.kind # "overwrite" => less.request = o.request
         /\ o.phase \in {"answered", "probed"} => less.answer = o.answer
         /\ o.phase = "answered" => less.left = o.left /\ less.local = o.local
<1> DEFINE less == [o EXCEPT !.saved = t]
<1>1. CASE o.phase = "sent" /\ o.kind \in {"sync", "push"}
  <2>1. o \in SentSyncs(n)
    BY <1>1, OpShape
  <2>2. less \in SentSyncs(n)
    BY <2>1 DEF SentSyncs
  <2> QED BY <1>1, <2>1, <2>2 DEF SentSyncs, Ops
<1>2. CASE o.phase = "sent" /\ o.kind \notin {"sync", "push"}
  <2>1. o \in SentResolves
    BY <1>2, OpShape
  <2>2. less \in SentResolves
    BY <2>1 DEF SentResolves
  <2> QED BY <1>2, <2>1, <2>2 DEF SentResolves, Ops
<1>3. CASE o.phase = "answered" /\ o.kind \in {"sync", "push"}
  <2>1. o \in TakenSyncs(n)
    BY <1>3, OpShape
  <2>2. less \in TakenSyncs(n)
    BY <2>1 DEF TakenSyncs
  <2> QED BY <1>3, <2>1, <2>2 DEF TakenSyncs, Ops
<1>4. CASE o.phase = "answered" /\ o.kind = "resolve"
  <2>1. o \in TakenResolves(n)
    BY <1>4, OpShape
  <2>2. less \in TakenResolves(n)
    BY <2>1 DEF TakenResolves
  <2> QED BY <1>4, <2>1, <2>2 DEF TakenResolves, Ops
<1>5. CASE o.phase = "answered" /\ o.kind = "overwrite"
  <2>1. o \in Overwrites(n)
    BY <1>5, OpShape
  <2>2. less \in Overwrites(n)
    BY <2>1 DEF Overwrites
  <2> QED BY <1>5, <2>1, <2>2 DEF Overwrites, Ops
<1>6. CASE o.phase = "probe"
  <2>1. o \in Probes
    BY <1>6, OpShape
  <2>2. less \in Probes
    BY <2>1 DEF Probes
  <2> QED BY <1>6, <2>1, <2>2 DEF Probes, Ops
<1>7. CASE o.phase = "probed"
  <2>1. o \in ProbeAnswers(n)
    BY <1>7, OpShape
  <2>2. less \in ProbeAnswers(n)
    BY <2>1 DEF ProbeAnswers
  <2> QED BY <1>7, <2>1, <2>2 DEF ProbeAnswers, Ops
<1> QED BY <1>1, <1>2, <1>3, <1>4, <1>5, <1>6, <1>7, OpShape

LEMMA ResetRegistrationTypes ==
  ASSUME TypeInv, NEW d \in Devices, ResetRegistration(d)
  PROVE  TypeInv'
<1>1. bounds' \in Bounds
  BY CountType DEF ResetRegistration, TypeInv
<1>2. base' \in [Devices -> 0..Len(commits)]
  BY LenCommits, SMT DEF ResetRegistration, TypeInv
<1>3. synced' \in [Devices -> Trees] /\ EmptyTree \in Trees
  BY EmptyTreeType DEF ResetRegistration, TypeInv
<1>4. CASE op[d] = Idle
  BY <1>1, <1>2, <1>3, <1>4, DeviceRests DEF ResetRegistration, TypeInv
<1>5. CASE op[d] # Idle
  <2> DEFINE o == [op[d] EXCEPT !.saved = EmptyTree]
  <2>1. /\ o \in Ops(Len(commits)) /\ o.phase = op[d].phase
        /\ op[d].phase = "answered" => o.left = op[d].left /\ o.answer = op[d].answer
    BY <1>3, <1>5, TypeInvOp, SavedForgotten
  <2>2. op' = [op EXCEPT ![d] = o]
    BY <1>5 DEF ResetRegistration, TypeInv
  <2>3. o.phase = "answered" => o.left \subseteq DOMAIN o.answer.files
    BY <2>1 DEF TypeInv, LeftListed
  <2> HIDE DEF o
  <2> QED BY <1>1, <1>2, <1>3, <2>1, <2>2, <2>3, DeviceMoves DEF ResetRegistration, TypeInv
<1> QED BY <1>4, <1>5

LEMMA ChooseTypes ==
  ASSUME TypeInv, NEW d \in Devices, NEW kind \in Choices, Choose(d, kind)
  PROVE  TypeInv'
<1> DEFINE o == [phase |-> "probe", kind |-> kind, saved |-> synced[d]]
<1>1. o \in Ops(Len(commits)) /\ o.phase = "probe"
  BY DEF TypeInv, Ops, Probes
<1>2. op' = [op EXCEPT ![d] = o]
  BY DEF Choose
<1> QED BY <1>1, <1>2, DeviceMoves DEF Choose, TypeInv, auxVars

(* The answer to a probe, which changes nothing.                           *)
LEMMA ProbeFacts ==
  ASSUME TypeInv, NEW d \in Devices
  PROVE  /\ Probe(d) \in Syncing(Len(commits)) /\ WellFormed(Probe(d))
         /\ ClashesOf(d, Probe(d), CommitAllIfChanged(commits, work)) = {}
<1>1. [p \in {} |-> Absent] \in Writes
  BY WritesMember DEF FilesOf
<1>2. Probe(d) \in Syncing(Len(commits))
  BY <1>1, EmptyTreeType DEF Probe, Syncing, TypeInv
<1>3. DOMAIN Probe(d).changes = {}
  BY DEF Probe
<1> QED BY <1>2, <1>3, SyncingFacts, LenCommits DEF ClashesOf, TypeInv

LEMMA ServerProbedTypes ==
  ASSUME TypeInv, NEW d \in Devices, ServerProbed(d)
  PROVE  /\ TypeInv' /\ Extends(commits, commits') /\ commits' = SyncHistory(d, Probe(d))
         /\ op'[d].phase = "probed" /\ op'[d].kind = op[d].kind
         /\ op'[d].answer = SyncAnswer(d, Probe(d))
<1> DEFINE answer == SyncAnswer(d, Probe(d))
           o == [phase |-> "probed", kind |-> op[d].kind, saved |-> op[d].saved,
                 answer |-> answer]
<1>1. WellFormed(Probe(d)) /\ HandleSync(d, Probe(d))
  BY ProbeFacts DEF ServerProbed
<1>2. TypeOK' /\ Extends(commits, commits') /\ commits' = SyncHistory(d, Probe(d))
  BY <1>1, SyncTypes DEF TypeInv, HandleSync
<1>3. answer \in Answers(Len(commits'))
  BY <1>1, <1>2, SyncAnswerType DEF TypeInv
<1>4. op[d] \in Probes
  BY TypeInvOp, OpShape DEF ServerProbed, In
<1>5. o \in Ops(Len(commits')) /\ o.phase = "probed"
  BY <1>3, <1>4 DEF Probes, ProbeAnswers, Ops
<1>6. op' = [op EXCEPT ![d] = o]
  BY DEF ServerProbed
<1>7. op'[d] = o
  BY <1>6 DEF TypeInv
<1> HIDE DEF answer
<1>8. TypeInv'
  BY <1>2, <1>5, <1>6, ServerMoves DEF ServerProbed
<1> QED BY <1>2, <1>7, <1>8 DEF answer

LEMMA StartPushTypes ==
  ASSUME TypeInv, NEW d \in Devices, StartPush(d)
  PROVE  TypeInv'
<1> DEFINE changes == [p \in {q \in Paths : disk[d][q] # OnServer(d, q)} |-> disk[d][p]]
           o == [phase |-> "sent", kind |-> "push", saved |-> op[d].saved,
                 request |-> [base |-> op[d].answer.head, changes |-> changes,
                              manifest |-> disk[d]]]
<1>1. op[d] \in ProbeAnswers(Len(commits)) /\ disk[d] \in Trees
  BY TypeInvOp, OpShape DEF StartPush, In, TypeInv
<1>2. changes \in Writes
  BY <1>1, WritesMember DEF FilesOf, Trees
<1>3. o \in SentSyncs(Len(commits))
  BY <1>1, <1>2 DEF SentSyncs, Syncing, ProbeAnswers, Answers
<1>4. o \in Ops(Len(commits)) /\ o.phase = "sent"
  BY <1>3 DEF Ops
<1>5. op' = [op EXCEPT ![d] = o]
  BY DEF StartPush
<1> QED BY <1>4, <1>5, DeviceMoves DEF StartPush, TypeInv, auxVars

(* The request of a push, its handling and its answer.                     *)
LEMMA ServerPushesFacts ==
  ASSUME TypeInv, NEW d \in Devices, ServerPushes(d)
  PROVE  LET req == op[d].request IN
         /\ op[d].phase = "sent" /\ op[d].kind = "push"
         /\ req \in Syncing(Len(commits)) /\ WellFormed(req)
         /\ HandleSync(d, req) /\ commits' = SyncHistory(d, req)
         /\ op'[d].phase = "answered" /\ op'[d].kind = "push"
         /\ op'[d].request = req /\ op'[d].answer = SyncAnswer(d, req)
         /\ TypeInv' /\ Extends(commits, commits')
         /\ disk' = disk /\ setUp' = setUp
         /\ partial' = Raced(d, req)
<1> DEFINE req    == op[d].request
           answer == SyncAnswer(d, req)
           o == [phase |-> "answered", kind |-> op[d].kind, saved |-> op[d].saved,
                 request |-> req, answer |-> answer, local |-> EmptyTree,
                 left |-> DOMAIN answer.files]
<1>1. op[d].phase = "sent" /\ op[d].kind = "push"
  BY DEF ServerPushes, In
<1>2. op[d] \in SentSyncs(Len(commits)) /\ Len(commits) \in Nat
  BY <1>1, TypeInvOp, OpShape
<1>3. req \in Syncing(Len(commits)) /\ op[d].saved \in Trees
  BY <1>2 DEF SentSyncs
<1>4. WellFormed(req) /\ HandleSync(d, req)
  BY <1>2, <1>3, SyncingFacts DEF ServerPushes, Pushed
<1>5. TypeOK' /\ Extends(commits, commits') /\ commits' = SyncHistory(d, req)
  BY <1>4, SyncTypes DEF TypeInv, HandleSync
<1>6. answer \in Answers(Len(commits'))
  BY <1>4, <1>5, SyncAnswerType DEF TypeInv
<1>7. req \in Syncing(Len(commits'))
  <2>1. Len(commits) <= Len(commits') /\ Len(commits') \in Nat
    BY <1>5, SMT DEF Extends, TypeOK
  <2> QED BY <1>2, <1>3, <2>1, SMT DEF Syncing
<1>8. DOMAIN answer.files \subseteq Paths
  BY <1>6, WritesFacts DEF Answers, FilesOf
<1>9. o \in TakenSyncs(Len(commits'))
  BY <1>1, <1>3, <1>6, <1>7, <1>8, EmptyTreeType DEF TakenSyncs
<1>10. o \in Ops(Len(commits')) /\ o.left \subseteq DOMAIN o.answer.files
  BY <1>9 DEF Ops
<1>11. op' = [op EXCEPT ![d] = o]
  BY DEF ServerPushes, Pushed, Answered
<1>12. UNCHANGED <<disk, synced, base, reported, auxVars>> /\ setUp' = setUp
       /\ partial' = Raced(d, req)
  BY DEF ServerPushes, Pushed
<1>13. TypeInv'
  BY <1>5, <1>10, <1>11, <1>12, ServerMoves
<1>14. op'[d].phase = "answered" /\ op'[d].kind = "push" /\ op'[d].request = req
       /\ op'[d].answer = answer
  <2>1. op'[d] = o
    BY <1>11 DEF TypeInv
  <2> QED BY <1>1, <2>1
<1> QED BY <1>1, <1>3, <1>4, <1>5, <1>12, <1>13, <1>14

(* The device probed deletes first what the probe does not list.           *)
LEMMA DeleteMissingTypes ==
  ASSUME TypeInv, NEW d \in Devices, DeleteMissing(d)
  PROVE  /\ TypeInv' /\ op[d].phase = "probed"
         /\ op'[d].phase = "answered" /\ op'[d].kind = "overwrite"
         /\ op'[d].answer = op[d].answer /\ op'[d].local = disk[d]
         /\ op'[d].left = DOMAIN op[d].answer.files
         /\ disk'[d] = [p \in Paths |-> IF p \in Listed(d) THEN disk[d][p] ELSE Absent]
<1> DEFINE o == [phase |-> "answered", kind |-> "overwrite", saved |-> op[d].saved,
                 answer |-> op[d].answer, local |-> disk[d],
                 left |-> DOMAIN op[d].answer.files]
           kept == [p \in Paths |-> IF p \in Listed(d) THEN disk[d][p] ELSE Absent]
<1>1. op[d] \in ProbeAnswers(Len(commits)) /\ disk[d] \in Trees /\ op[d].phase = "probed"
  BY TypeInvOp, OpShape DEF DeleteMissing, In, TypeInv
<1>2. op[d].answer \in Answers(Len(commits)) /\ op[d].saved \in Trees
  BY <1>1 DEF ProbeAnswers
<1>3. DOMAIN op[d].answer.files \subseteq Paths
  BY <1>2, WritesFacts DEF Answers, FilesOf
<1>4. o \in Overwrites(Len(commits))
  BY <1>1, <1>2, <1>3 DEF Overwrites
<1>5. o \in Ops(Len(commits)) /\ o.left \subseteq DOMAIN o.answer.files
  BY <1>4 DEF Ops
<1>6. kept \in Trees
  BY <1>1 DEF Trees, Files
<1>7. op' = [op EXCEPT ![d] = o] /\ disk' = [disk EXCEPT ![d] = kept]
  BY DEF DeleteMissing
<1>8. disk' \in [Devices -> Trees] /\ op'[d] = o /\ disk'[d] = kept
  BY <1>6, <1>7 DEF TypeInv
<1> HIDE DEF kept
<1>9. TypeInv'
  BY <1>5, <1>7, <1>8, DeviceMoves DEF DeleteMissing, TypeInv, auxVars
<1> QED BY <1>1, <1>8, <1>9 DEF kept

(* The device is set up, or not.                                           *)
LEMMA FinishFirstTypes ==
  ASSUME TypeInv, NEW d \in Devices, FinishPush(d) \/ FinishOverwrite(d)
  PROVE  TypeInv'
<1>1. op[d].answer.head \in 0..Len(commits)
  BY AnsweredFacts DEF FinishPush, FinishOverwrite, In
<1>2. /\ base' \in [Devices -> 0..Len(commits)] /\ synced' \in [Devices -> Trees]
      /\ skipped' \in [Devices -> SUBSET Paths]
  BY <1>1 DEF FinishPush, FinishOverwrite, SetUpDone, TypeInv
<1>3. op' = [op EXCEPT ![d] = Idle]
      /\ UNCHANGED <<serverVars, disk, reported, edits, bounds, seen>>
  BY DEF FinishPush, FinishOverwrite
<1> QED BY <1>2, <1>3, IdleOp, DeviceMoves DEF TypeInv

LEMMA SetUpLostTypes ==
  ASSUME TypeInv, NEW d \in Devices, SetUpLost(d)
  PROVE  TypeInv'
<1>1. bounds' \in Bounds
  BY CountType DEF SetUpLost, TypeInv
<1> QED BY <1>1, OpStops DEF SetUpLost, TypeInv

(* The server is stopped in the middle of a sync or a resolution only.     *)
LEMMA OrdinaryTypes ==
  ASSUME TypeInv, NEW d \in Devices, Ordinary(d)
  PROVE  TypeInv' /\ Extends(commits, commits')
<1>1. UNCHANGED serverVars => Extends(commits, commits')
  BY LenCommits DEF serverVars, Extends, TypeInv
<1>2. CASE User(d)
  <2>1. UNCHANGED serverVars
    BY <1>2 DEF User, Edit, Delete, ResetLocalSyncState, StartResolve, StartSync
  <2> QED BY <1>1, <1>2, <2>1, UserTypes
<1>3. CASE Server(d)
  BY <1>3, ServerSyncsTypes, ServerResolvesTypes DEF Server
<1>4. CASE FinishResolve(d)
  BY <1>1, <1>4, FinishResolveTypes DEF FinishResolve
<1>5. CASE \E p \in Paths : ApplyFile(d, p)
  <2>1. PICK p \in Paths : ApplyFile(d, p)
    BY <1>5
  <2>2. UNCHANGED serverVars
    BY <2>1 DEF ApplyFile
  <2> QED BY <1>1, <2>1, <2>2, ApplyFileFacts
<1>6. CASE AnswerLost(d)
  BY <1>1, <1>6, AnswerLostTypes DEF AnswerLost
<1>7. CASE ~Choosing(d) /\ ServerStops(d)
  <2>1. op[d] # Idle /\ op[d].phase = "sent"
    BY <1>7, IdleOp DEF ServerStops
  <2>2. op[d].kind \in {"sync", "push", "resolve"}
    BY <2>1, TypeInvOp, OpShape DEF SentSyncs, SentResolves
  <2>3. op[d].kind \in {"sync", "resolve"}
    BY <1>7, <2>1, <2>2 DEF Choosing, Choices
  <2> QED BY <1>7, <2>3, ServerStopsTypes
<1>8. CASE DownloadFails(d)
  BY <1>1, <1>8, DownloadFailsTypes DEF DownloadFails
<1> QED BY <1>2, <1>3, <1>4, <1>5, <1>6, <1>7, <1>8 DEF Ordinary

LEMMA FirstStepTypes ==
  ASSUME TypeInv, NEW d \in Devices, StepOf(d)
  PROVE  TypeInv' /\ Extends(commits, commits')
<1>1. UNCHANGED serverVars => Extends(commits, commits')
  BY LenCommits DEF serverVars, Extends, TypeInv
<1>2. CASE Asks(d)
  <2>1. CASE ResetRegistration(d)
    BY <1>1, <2>1, ResetRegistrationTypes DEF ResetRegistration
  <2>2. CASE OpenDialog(d) \/ CloseDialog(d)
    <3>1. UNCHANGED <<serverVars, deviceVars, auxVars>>
      BY <2>2 DEF OpenDialog, CloseDialog, vars
    <3> QED BY <1>1, <3>1, DeviceRests DEF TypeInv, deviceVars, auxVars
  <2>3. CASE \E kind \in Choices : Choose(d, kind)
    BY <1>1, <2>3, ChooseTypes DEF Choose
  <2> QED BY <1>2, <2>1, <2>2, <2>3 DEF Asks
<1>3. CASE FirstStep(d)
  <2>1. UNCHANGED serverVars
    BY <1>3 DEF FirstStep, StartPush, FinishPush, DeleteMissing, FinishOverwrite
  <2> QED BY <1>1, <1>3, <2>1, StartPushTypes, DeleteMissingTypes, FinishFirstTypes DEF FirstStep
<1>4. CASE ServerProbed(d) \/ ServerPushes(d)
  BY <1>4, ServerProbedTypes, ServerPushesFacts
<1>5. CASE SetUpLost(d)
  BY <1>1, <1>5, SetUpLostTypes DEF SetUpLost
<1>6. CASE FinishFirst(d)
  BY <1>1, <1>6, FinishSyncTypes DEF FinishFirst, FinishSync
<1>7. CASE Killed(d)
  BY <1>1, <1>7, AppKilledTypes DEF Killed, AppKilled
<1> QED BY <1>2, <1>3, <1>4, <1>5, <1>6, <1>7, OrdinaryTypes DEF StepOf

(* A step of one device leaves the others' first syncs alone.              *)
LEMMA FirstOthers ==
  ASSUME TypeInv, setUp \in [Devices -> BOOLEAN], NEW d \in Devices, StepOf(d),
         NEW e \in Devices \ {d}
  PROVE  /\ disk'[e] = disk[e] /\ op'[e] = op[e] /\ setUp'[e] = setUp[e]
         /\ e \in partial' => e \in partial
         /\ e \in partial => e \in partial'
<1> DEFINE Rest == /\ disk'[e] = disk[e] /\ op'[e] = op[e] /\ setUp'[e] = setUp[e]
                   /\ e \in partial' => e \in partial
                   /\ e \in partial => e \in partial'
<1>1. /\ disk \in [Devices -> Trees] /\ op \in [Devices -> Ops(Len(commits))]
  BY DEF TypeInv
<1>2. CASE Asks(d)
  BY <1>1, <1>2 DEF Asks, ResetRegistration, OpenDialog, CloseDialog, Choose, vars, deviceVars
<1>3. CASE FirstStep(d)
  BY <1>1, <1>3 DEF FirstStep, StartPush, FinishPush, DeleteMissing, FinishOverwrite,
     SetUpDone, firstVars
<1>4. CASE ServerProbed(d)
  BY <1>1, <1>4 DEF ServerProbed
<1>5. CASE ServerPushes(d)
  BY <1>1, <1>5 DEF ServerPushes, Pushed, Answered, Raced
<1>6. CASE SetUpLost(d)
  BY <1>1, <1>6 DEF SetUpLost, firstVars
<1>7. CASE FinishFirst(d)
  BY <1>1, <1>7 DEF FinishFirst, FinishSync
<1>8. CASE Killed(d)
  BY <1>1, <1>8 DEF Killed, AppKilled
<1>9. CASE Ordinary(d) /\ UNCHANGED firstVars
  <2>1. User(d) \/ Plugin(d) \/ Server(d) \/ Fault(d)
    BY <1>9 DEF Ordinary, Plugin, Fault
  <2> QED BY <1>9, <2>1, OthersRest DEF firstVars
<1> QED BY <1>2, <1>3, <1>4, <1>5, <1>6, <1>7, <1>8, <1>9 DEF StepOf

(***************************************************************************)
(* What a first sync knows: a probe's files are those of the head it was   *)
(* answered with, and a push is based on such a head and deletes only      *)
(* files that head has.                                                    *)
(***************************************************************************)
PushKept(d) ==
  /\ op[d].phase = "probed" =>
       /\ op[d].answer.head # 0
       /\ \A p \in DOMAIN op[d].answer.files : op[d].answer.files[p] = Sent(d)[p]
  /\ op[d].phase = "sent" /\ op[d].kind = "push" =>
       op[d].request.base # 0 /\ BlindDeletions(op[d].request) = {}

PushInv == \A d \in Devices : PushKept(d)

(***************************************************************************)
(* Undisturbed, a device knows at every point of its first sync how its    *)
(* disk differs from the commit it will name as its base.                  *)
(***************************************************************************)
MatchKept(d) ==
  /\ op[d].phase = "probed" => \A p \in Paths : OnServer(d, p) = Sent(d)[p]
  /\ op[d].phase = "sent" /\ op[d].kind = "push" =>
       \A p \in Paths :
         disk[d][p] = IF p \in DOMAIN op[d].request.changes
                      THEN op[d].request.changes[p]
                      ELSE TreeAt(commits, op[d].request.base)[p]
  /\ op[d].phase = "answered" /\ op[d].kind = "push" /\ op[d].answer.status = "ok" =>
       \A p \in Paths : disk[d][p] = Sent(d)[p]
  /\ op[d].phase = "answered" /\ op[d].kind = "overwrite" =>
       \A p \in Paths :
         IF p \in op[d].left
         THEN /\ op[d].answer.files[p] = Sent(d)[p]
              /\ op[d].answer.files[p] = Absent \/ disk[d][p] = op[d].local[p]
         ELSE disk[d][p] = Sent(d)[p]

MatchInv == \A d \in Devices \ partial : MatchKept(d)

FirstInv == TypeInv /\ setUp \in [Devices -> BOOLEAN] /\ PushInv

(* The device's operation is where it was, whatever was committed.         *)
SameOp(d) ==
  /\ op'[d].phase = op[d].phase
  /\ op[d].phase \in {"sent", "answered"} => op'[d].kind = op[d].kind
  /\ op[d].phase = "sent" => op'[d].request = op[d].request
  /\ op[d].phase \in {"answered", "probed"} => op'[d].answer = op[d].answer
  /\ op[d].phase = "answered" => op'[d].left = op[d].left /\ op'[d].local = op[d].local

LEMMA FirstTrees ==
  ASSUME TypeInv, TypeOK', Extends(commits, commits'), NEW d \in Devices
  PROVE  /\ op[d].phase \in {"answered", "probed"} =>
              TreeAt(commits', op[d].answer.head) = Sent(d)
         /\ op[d].phase = "sent" /\ op[d].kind = "push" =>
              /\ WellFormed(op[d].request)
              /\ op[d].request.base \in 0..Len(commits)
              /\ TreeAt(commits', op[d].request.base) = TreeAt(commits, op[d].request.base)
<1>1. commits \in Seq(Trees) /\ commits' \in Seq(Trees)
  BY DEF TypeInv, TypeOK
<1>2. \A n \in 0..Len(commits) : TreeAt(commits', n) = TreeAt(commits, n)
  BY <1>1, TreeAtKept
<1>3. op[d].phase = "probed" => op[d].answer.head \in 0..Len(commits)
  <2>1. op[d].phase = "probed" => op[d] \in ProbeAnswers(Len(commits))
    BY TypeInvOp, OpShape
  <2> QED BY <2>1 DEF ProbeAnswers, Answers
<1>4. op[d].phase = "answered" => op[d].answer.head \in 0..Len(commits)
  BY AnsweredFacts
<1>5. op[d].phase = "sent" /\ op[d].kind = "push" =>
        WellFormed(op[d].request) /\ op[d].request.base \in 0..Len(commits)
  <2>1. op[d].phase = "sent" /\ op[d].kind = "push" => op[d] \in SentSyncs(Len(commits))
    BY TypeInvOp, OpShape
  <2>2. op[d].phase = "sent" /\ op[d].kind = "push" => op[d].request \in Syncing(Len(commits))
    BY <2>1 DEF SentSyncs
  <2>3. op[d].request \in Syncing(Len(commits)) => op[d].request.base \in 0..Len(commits)
    BY DEF Syncing
  <2> QED BY <2>2, <2>3, TypeInvOp, SyncingFacts
<1> QED BY <1>2, <1>3, <1>4, <1>5 DEF Sent

LEMMA FirstWaits ==
  ASSUME TypeInv, TypeOK', Extends(commits, commits'), NEW d \in Devices, SameOp(d)
  PROVE  /\ PushKept(d) => PushKept(d)'
         /\ MatchKept(d) /\ disk'[d] = disk[d] => MatchKept(d)'
<1>1. op[d].phase \in {"answered", "probed"} => Sent(d)' = Sent(d)
  BY FirstTrees DEF SameOp, Sent
<1>2. op[d].phase = "sent" /\ op[d].kind = "push" =>
        TreeAt(commits, op[d].request.base)' = TreeAt(commits, op[d].request.base)
  BY FirstTrees DEF SameOp
<1>3. ASSUME PushKept(d) PROVE PushKept(d)'
  <2>1. ASSUME op[d].phase = "sent", op[d].kind = "push"
        PROVE  BlindDeletions(op[d].request)' = BlindDeletions(op[d].request)
    BY <1>2, <2>1 DEF SameOp, BlindDeletions
  <2> QED BY <1>1, <1>3, <2>1 DEF PushKept, SameOp
<1>4. ASSUME MatchKept(d), disk'[d] = disk[d] PROVE MatchKept(d)'
  <2>1. ASSUME op[d].phase = "probed" PROVE \A p \in Paths : OnServer(d, p)' = OnServer(d, p)
    BY <2>1 DEF SameOp, OnServer, Listed
  <2> QED BY <1>1, <1>2, <1>4, <2>1 DEF MatchKept, SameOp
<1> QED BY <1>3, <1>4

(* The device is not in the middle of a first sync afterwards.             *)
LEMMA FirstOver ==
  ASSUME NEW d \in Devices,
         \/ op'[d].phase \notin {"probed", "sent", "answered"}
         \/ op'[d].phase \in {"sent", "answered"} /\ op'[d].kind \in {"sync", "resolve"}
  PROVE  PushKept(d)' /\ MatchKept(d)'
  BY DEF PushKept, MatchKept

(* A file of the probe is put on the disk.                                 *)
LEMMA OverwriteApplies ==
  ASSUME TypeInv, NEW d \in Devices, NEW p \in Paths, ApplyFile(d, p),
         op[d].kind = "overwrite", MatchKept(d)
  PROVE  MatchKept(d)'
<1> DEFINE file == op[d].answer.files[p]
<1>1. /\ op[d].phase = "answered" /\ p \in op[d].left
      /\ op'[d].phase = "answered" /\ op'[d].kind = "overwrite"
      /\ op'[d].left = op[d].left \ {p}
      /\ op'[d].answer = op[d].answer /\ op'[d].local = op[d].local
      /\ commits' = commits
  BY ApplyFileFacts
<1>2. Sent(d)' = Sent(d)
  BY <1>1 DEF Sent
<1>3. file = Sent(d)[p] /\ (file = Absent \/ disk[d][p] = op[d].local[p])
  BY <1>1 DEF MatchKept
<1>4. disk \in [Devices -> Trees]
  BY DEF TypeInv
<1>5. disk'[d][p] = Sent(d)[p] /\ \A q \in Paths \ {p} : disk'[d][q] = disk[d][q]
  <2>1. CASE AlreadyLocal(d, p)
    <3>1. disk' = disk /\ file # Absent /\ op[d].local[p] = file
      BY <2>1 DEF ApplyFile, AlreadyLocal
    <3> QED BY <1>3, <3>1
  <2>2. CASE ~AlreadyLocal(d, p)
    <3>1. disk' = [disk EXCEPT ![d][p] = file]
      BY <2>2 DEF ApplyFile
    <3>2. disk[d] \in Trees
      BY <1>4
    <3> HIDE DEF file
    <3> QED BY <1>3, <1>4, <3>1, <3>2 DEF Trees
  <2> QED BY <2>1, <2>2
<1>6. ASSUME NEW q \in Paths
      PROVE  IF q \in op'[d].left
             THEN /\ op'[d].answer.files[q] = Sent(d)[q]
                  /\ op'[d].answer.files[q] = Absent \/ disk'[d][q] = op'[d].local[q]
             ELSE disk'[d][q] = Sent(d)[q]
  BY <1>1, <1>5, <1>6 DEF MatchKept
<1> QED BY <1>1, <1>2, <1>6 DEF MatchKept

LEMMA OrdinaryKept ==
  ASSUME TypeInv, NEW d \in Devices, Ordinary(d)
  PROVE  /\ PushKept(d) => PushKept(d)'
         /\ EditWhileSyncing = FALSE /\ MatchKept(d) => MatchKept(d)'
<1> DEFINE Stay == /\ PushKept(d) => PushKept(d)'
                   /\ EditWhileSyncing = FALSE /\ MatchKept(d) => MatchKept(d)'
<1>1. /\ op \in [Devices -> Ops(Len(commits))] /\ TypeOK' /\ Extends(commits, commits')
  BY OrdinaryTypes DEF TypeInv
<1>2. Idle.phase = "idle"
  BY IdleOp
<1>3. ASSUME op' = op, op[d] = Idle \/ MayEdit(d) PROVE Stay
  <2>1. SameOp(d)
    BY <1>3 DEF SameOp
  <2>2. EditWhileSyncing = FALSE => op'[d].phase = "idle"
    BY <1>2, <1>3 DEF MayEdit
  <2> QED BY <1>1, <2>1, <2>2, FirstWaits, FirstOver
<1>4. CASE User(d)
  <2>1. CASE Edit(d) \/ (\E p \in Paths : Delete(d, p)) \/ ResetLocalSyncState(d)
    BY <1>3, <2>1 DEF Edit, Delete, ResetLocalSyncState
  <2>2. CASE StartResolve(d) \/ StartSync(d)
    <3>1. op'[d].phase = "sent" /\ op'[d].kind \in {"sync", "resolve"}
      BY <1>1, <2>2 DEF StartResolve, StartSync
    <3> QED BY <3>1, FirstOver
  <2> QED BY <1>4, <2>1, <2>2 DEF User
<1>5. CASE Server(d)
  <2>1. op'[d].phase = "answered" /\ op'[d].kind \in {"sync", "resolve"}
    BY <1>5, ServerSyncsFacts, ServerResolvesFacts DEF Server
  <2> QED BY <2>1, FirstOver
<1>6. CASE FinishResolve(d) \/ AnswerLost(d) \/ ServerStops(d) \/ DownloadFails(d)
  <2>1. op'[d] = Idle
    BY <1>1, <1>6 DEF FinishResolve, AnswerLost, ServerStops, DownloadFails
  <2> QED BY <1>2, <2>1, FirstOver
<1>7. CASE ~In(d, "answered", {"push"}) /\ \E p \in Paths : ApplyFile(d, p)
  <2>1. PICK p \in Paths : ApplyFile(d, p)
    BY <1>7
  <2>2. /\ op[d].phase = "answered" /\ op'[d].phase = "answered"
        /\ op'[d].kind = op[d].kind
    BY <2>1, ApplyFileFacts
  <2>3. op[d].kind \in {"sync", "push", "resolve", "overwrite"} /\ op[d] # Idle
    BY <1>2, <2>2, TypeInvOp, OpShape
  <2>4. op[d].kind # "push"
    BY <1>7, <2>2, <2>3 DEF In, Choosing, Choices
  <2>5. CASE op[d].kind = "overwrite"
    <3>1. PushKept(d)'
      BY <2>2 DEF PushKept
    <3> QED BY <2>1, <2>5, <3>1, OverwriteApplies
  <2>6. CASE op[d].kind \in {"sync", "resolve"}
    BY <2>2, <2>6, FirstOver
  <2> QED BY <2>3, <2>4, <2>5, <2>6
<1> QED BY <1>4, <1>5, <1>6, <1>7 DEF Ordinary

-----------------------------------------------------------------------------
(* The server answers a probe: nothing clashes, so what it lists is the    *)
(* head's; without a base, and with no conflict pending, it lists it all.  *)
LEMMA ServerProbedKept ==
  ASSUME TypeInv, NEW d \in Devices, ServerProbed(d)
  PROVE  PushKept(d)' /\ (d \notin partial' => MatchKept(d)')
<1> DEFINE answer == SyncAnswer(d, Probe(d))
<1>1. /\ TypeInv' /\ commits' = SyncHistory(d, Probe(d))
      /\ op'[d].phase = "probed" /\ op'[d].answer = answer
  BY ServerProbedTypes
<1>2. /\ ClashesOf(d, Probe(d), CommitAllIfChanged(commits, work)) = {}
      /\ Probe(d).base = base[d] /\ Probe(d).manifest = EmptyTree
  BY ProbeFacts DEF Probe
<1>3. /\ answer.head = Len(commits')
      /\ answer.status = "ok" =>
           answer.files = ChangedFilesSince(commits', base[d], EmptyTree)
      /\ answer.status # "ok" => answer.files = <<>> /\ answer.status = "conflict"
  BY <1>1, <1>2, SyncAnswerCases, SMT DEF Answer
<1>4. Sent(d)' = HeadTree(commits') /\ op'[d].answer.head # 0
  BY <1>1, <1>3, LenCommits, SMT DEF Sent, HeadTree, TypeInv
<1>5. \A p \in DOMAIN answer.files : answer.files[p] = HeadTree(commits')[p]
  <2>1. CASE answer.status = "ok"
    BY <1>3, <2>1 DEF ChangedFilesSince
  <2>2. CASE answer.status # "ok"
    <3>1. DOMAIN answer.files = {}
      BY <1>3, <2>2
    <3> QED BY <3>1
  <2> QED BY <2>1, <2>2
<1>6. PushKept(d)'
  BY <1>1, <1>4, <1>5 DEF PushKept
<1>7. ASSUME d \notin partial', NEW p \in Paths
      PROVE  OnServer(d, p)' = HeadTree(commits')[p]
  <2>1. answer.status # "conflict" /\ base[d] = 0
    BY <1>7 DEF ServerProbed
  <2>2. answer.files = ChangedFilesSince(commits', 0, EmptyTree)
    BY <1>3, <2>1
  <2>3. /\ DOMAIN answer.files = {q \in Paths : HeadTree(commits')[q] # Absent}
        /\ \A q \in DOMAIN answer.files : answer.files[q] = HeadTree(commits')[q]
    BY <2>2 DEF ChangedFilesSince, EmptyTree
  <2> QED BY <1>1, <1>7, <2>3 DEF OnServer, Listed
<1> QED BY <1>1, <1>4, <1>6, <1>7 DEF MatchKept

LEMMA ProbedFacts ==
  ASSUME TypeInv, NEW d \in Devices, op[d].phase = "probed"
  PROVE  /\ op[d].answer.head \in 0..Len(commits)
         /\ DOMAIN op[d].answer.files \subseteq Paths
         /\ Sent(d) \in Trees
<1>1. op[d] \in ProbeAnswers(Len(commits))
  BY TypeInvOp, OpShape
<1>2. op[d].answer \in Answers(Len(commits))
  BY <1>1 DEF ProbeAnswers
<1>3. op[d].answer.head \in 0..Len(commits) /\ op[d].answer.files \in Writes
  BY <1>2 DEF Answers
<1>4. commits \in Seq(Trees)
  BY DEF TypeInv, TypeOK
<1>5. op[d].answer.head \in Nat
  BY <1>3, SMT
<1> QED BY <1>3, <1>4, <1>5, WritesFacts, TreeAtType DEF FilesOf, Sent

(* The push asks for what the disk has and the probe has not.              *)
LEMMA StartPushKept ==
  ASSUME TypeInv, NEW d \in Devices, StartPush(d), PushKept(d)
  PROVE  PushKept(d)' /\ (MatchKept(d) => MatchKept(d)')
<1> DEFINE changes == [p \in {q \in Paths : disk[d][q] # OnServer(d, q)} |-> disk[d][p]]
<1>1. op[d].phase = "probed" /\ commits' = commits /\ disk' = disk
  BY DEF StartPush, In, serverVars
<1>2. /\ op'[d].phase = "sent" /\ op'[d].kind = "push"
      /\ op'[d].request = [base |-> op[d].answer.head, changes |-> changes,
                           manifest |-> disk[d]]
  BY DEF StartPush, TypeInv
<1>3. op'[d].request.base = op[d].answer.head /\ op'[d].request.changes = changes
  BY <1>2
<1>4. TreeAt(commits', op'[d].request.base) = Sent(d)
  BY <1>1, <1>3 DEF Sent
<1>5. ASSUME NEW p \in DOMAIN changes, changes[p] = Absent
      PROVE  Sent(d)[p] # Absent
  <2>1. p \in Listed(d)
    BY <1>5 DEF OnServer
  <2> QED BY <1>1, <2>1 DEF Listed, PushKept
<1>6. BlindDeletions(op[d].request)' = {}
  BY <1>3, <1>4, <1>5 DEF BlindDeletions
<1>7. PushKept(d)'
  BY <1>1, <1>2, <1>3, <1>6 DEF PushKept
<1>8. ASSUME MatchKept(d), NEW p \in Paths
      PROVE  disk'[d][p] = IF p \in DOMAIN changes THEN changes[p] ELSE Sent(d)[p]
  BY <1>1, <1>8 DEF MatchKept
<1>9. MatchKept(d) => MatchKept(d)'
  <2> HIDE DEF changes
  <2> QED BY <1>1, <1>2, <1>3, <1>4, <1>8 DEF MatchKept
<1> QED BY <1>7, <1>9

(* A change of a file that nobody changed since the base is taken as it is.*)
LEMMA OutcomeUnraced ==
  ASSUME TypeOK, NEW d \in Devices, NEW req, WellFormed(req),
         NEW h \in Seq(Trees), NEW p \in DOMAIN req.changes,
         TreeAt(h, req.base) = HeadTree(h),
         ~ChangeOutcome(d, req, h, p).clash
  PROVE  ChangeOutcome(d, req, h, p).content = req.changes[p]
<1> DEFINE b   == TreeAt(h, req.base)[p]
           s   == HeadTree(h)[p]
           c   == req.changes[p]
           out == ChangeOutcome(d, req, h, p)
<1>1. pending[p] = NoOwner
  BY OutcomeCases, SMT DEF Clashed
<1>2. s \in Files /\ c \in Files /\ (c # Absent => c \in Contents) /\ b = s
  BY OutcomeCases
<1>3. CASE p \notin TextPaths
  <2>1. out = BinaryChange(req.base # 0, s, s, c)
    BY <1>1, <1>2, <1>3, OutcomeCases
  <2> QED BY <2>1 DEF BinaryChange, Written
<1>4. CASE p \in TextPaths /\ c = Absent
  <2>1. out = TextDelete(s, s)
    BY <1>1, <1>2, <1>4, OutcomeCases
  <2> QED BY <1>4, <2>1 DEF TextDelete, Written
<1>5. CASE p \in TextPaths /\ c # Absent
  <2>1. out = TextUpsert(s, p \in acks[d], s, c)
    BY <1>1, <1>2, <1>5, OutcomeCases
  <2>2. (p \in acks[d]) \in BOOLEAN /\ c \in Contents
    BY <1>2, <1>5
  <2> HIDE DEF b, s, c, out
  <2>3. TextUpsert(s, p \in acks[d], s, c) = Written(c)
    BY ONLY <1>2, <2>2, TextUpsertUnraced
  <2>4. out.content = c
    BY <2>1, <2>3 DEF Written
  <2> QED BY <2>4 DEF out, c
<1> QED BY <1>3, <1>4, <1>5

LEMMA ServerPushesKept ==
  ASSUME TypeInv, NEW d \in Devices, ServerPushes(d),
         d \notin partial => MatchKept(d)
  PROVE  PushKept(d)' /\ (d \notin partial' => MatchKept(d)')
<1> DEFINE req    == op[d].request
           answer == SyncAnswer(d, req)
           before == CommitAllIfChanged(commits, work)
<1>1. /\ op[d].phase = "sent" /\ op[d].kind = "push" /\ WellFormed(req)
      /\ req \in Syncing(Len(commits)) /\ commits' = SyncHistory(d, req)
      /\ op'[d].phase = "answered" /\ op'[d].kind = "push" /\ op'[d].answer = answer
      /\ TypeInv' /\ disk' = disk /\ partial' = Raced(d, req)
  BY ServerPushesFacts
<1>2. PushKept(d)'
  BY <1>1 DEF PushKept
<1>3. SUFFICES ASSUME d \notin partial', answer.status = "ok", NEW p \in Paths
               PROVE  disk'[d][p] = Sent(d)'[p]
  BY <1>1, <1>2 DEF MatchKept
<1>4. req.base = Len(before) /\ d \notin partial
  BY <1>1, <1>3, SMT DEF Raced
<1>5. ClashesOf(d, req, before) = {} /\ answer.head = Len(commits')
  BY <1>1, <1>3, SyncAnswerCases
<1>6. Sent(d)' = HeadTree(commits')
  BY <1>1, <1>5 DEF Sent, HeadTree
<1>7. TypeOK /\ TypeOK' /\ before \in Seq(Trees)
  BY <1>1, SyncHead DEF TypeInv
<1>8. TreeAt(commits, req.base) = TreeAt(before, req.base)
      /\ TreeAt(before, req.base) = HeadTree(before)
  <2>1. Extends(commits, before)
    <3>1. Len(commits) <= Len(before) /\ \A n \in 1..Len(commits) : before[n] = commits[n]
      BY <1>1, <1>7, SyncHistoryFacts
    <3> QED BY <3>1 DEF Extends
  <2>2. req.base \in 0..Len(commits)
    BY <1>1 DEF Syncing
  <2> QED BY <1>4, <1>7, <2>1, <2>2, TreeAtKept DEF TypeOK, HeadTree
<1>9. disk[d][p] = IF p \in DOMAIN req.changes THEN req.changes[p]
                   ELSE TreeAt(commits, req.base)[p]
  BY <1>1, <1>3, <1>4 DEF MatchKept
<1>10. CASE p \in DOMAIN req.changes
  <2>1. /\ ~ChangeOutcome(d, req, before, p).clash
        /\ HeadTree(commits')[p] = ChangeOutcome(d, req, before, p).content
    BY <1>1, <1>5, <1>7, <1>10, SyncHead
  <2>2. ChangeOutcome(d, req, before, p).content = req.changes[p]
    BY <1>1, <1>7, <1>8, <1>10, <2>1, OutcomeUnraced
  <2> QED BY <1>1, <1>6, <1>9, <1>10, <2>1, <2>2
<1>11. CASE p \notin DOMAIN req.changes
  <2>1. HeadTree(commits')[p] = HeadTree(before)[p]
    BY <1>1, <1>3, <1>5, <1>7, <1>11, SyncHead
  <2> QED BY <1>1, <1>6, <1>8, <1>9, <1>11, <2>1
<1> QED BY <1>10, <1>11

(* What the head does not have is deleted, the rest is still to come.      *)
LEMMA DeleteMissingKept ==
  ASSUME TypeInv, NEW d \in Devices, DeleteMissing(d), PushKept(d)
  PROVE  PushKept(d)' /\ (MatchKept(d) => MatchKept(d)')
<1>1. /\ op[d].phase = "probed" /\ op'[d].phase = "answered" /\ op'[d].kind = "overwrite"
      /\ op'[d].answer = op[d].answer /\ op'[d].local = disk[d]
      /\ op'[d].left = DOMAIN op[d].answer.files
      /\ disk'[d] = [p \in Paths |-> IF p \in Listed(d) THEN disk[d][p] ELSE Absent]
  BY DeleteMissingTypes
<1>2. Sent(d)' = Sent(d)
  BY <1>1 DEF DeleteMissing, serverVars, Sent
<1>3. PushKept(d)'
  BY <1>1 DEF PushKept
<1>4. ASSUME MatchKept(d), NEW p \in Paths
      PROVE  IF p \in op'[d].left
             THEN /\ op'[d].answer.files[p] = Sent(d)[p]
                  /\ op'[d].answer.files[p] = Absent \/ disk'[d][p] = op'[d].local[p]
             ELSE disk'[d][p] = Sent(d)[p]
  <2>1. OnServer(d, p) = Sent(d)[p]
    BY <1>1, <1>4 DEF MatchKept
  <2> QED BY <1>1, <1>4, <2>1 DEF OnServer, Listed, PushKept
<1> QED BY <1>1, <1>2, <1>3, <1>4 DEF MatchKept

LEMMA SetUpTypes ==
  ASSUME TypeInv, setUp \in [Devices -> BOOLEAN], NEW d \in Devices, StepOf(d)
  PROVE  setUp' \in [Devices -> BOOLEAN]
<1>1. CASE Asks(d)
  BY <1>1 DEF Asks, ResetRegistration, OpenDialog, CloseDialog, Choose
<1>2. CASE FirstStep(d)
  BY <1>2 DEF FirstStep, StartPush, FinishPush, DeleteMissing, FinishOverwrite, SetUpDone,
     firstVars
<1>3. CASE ServerProbed(d) \/ ServerPushes(d) \/ SetUpLost(d) \/ Killed(d)
  BY <1>3 DEF ServerProbed, ServerPushes, Pushed, SetUpLost, Killed, firstVars
<1>4. CASE FinishFirst(d)
  BY <1>4 DEF FinishFirst
<1>5. CASE UNCHANGED firstVars
  BY <1>5 DEF firstVars
<1> QED BY <1>1, <1>2, <1>3, <1>4, <1>5 DEF StepOf

(* A step of the device itself.                                            *)
LEMMA OwnStepKept ==
  ASSUME TypeInv, NEW d \in Devices, StepOf(d), PushKept(d)
  PROVE  /\ PushKept(d)'
         /\ EditWhileSyncing = FALSE /\ (d \notin partial => MatchKept(d)) /\ d \notin partial'
              => MatchKept(d)'
<1> DEFINE Stay == /\ PushKept(d)'
                   /\ EditWhileSyncing = FALSE /\ (d \notin partial => MatchKept(d))
                        /\ d \notin partial' => MatchKept(d)'
<1>1. /\ op \in [Devices -> Ops(Len(commits))] /\ TypeOK' /\ Extends(commits, commits')
  BY FirstStepTypes DEF TypeInv
<1>2. Idle.phase = "idle"
  BY IdleOp
<1>3. ASSUME op'[d] = Idle PROVE Stay
  BY <1>2, <1>3, FirstOver
<1>4. CASE Asks(d)
  <2>1. CASE ResetRegistration(d)
    <3>1. CASE op[d] = Idle
      <4>1. op'[d] = Idle
        BY <2>1, <3>1 DEF ResetRegistration
      <4> QED BY <1>3, <4>1
    <3>2. CASE op[d] # Idle
      <4>1. d \in partial'
        BY <2>1, <3>2 DEF ResetRegistration
      <4>2. op'[d] = [op[d] EXCEPT !.saved = EmptyTree]
        BY <1>1, <2>1, <3>2 DEF ResetRegistration
      <4>3. SameOp(d)
        BY <3>2, <4>2, TypeInvOp, EmptyTreeType, SavedForgotten DEF SameOp
      <4> QED BY <1>1, <4>1, <4>3, FirstWaits
    <3> QED BY <3>1, <3>2
  <2>2. CASE OpenDialog(d) \/ CloseDialog(d)
    <3>1. op' = op /\ disk' = disk /\ partial' = partial
      BY <2>2 DEF OpenDialog, CloseDialog, vars, deviceVars
    <3>2. SameOp(d)
      BY <3>1 DEF SameOp
    <3> QED BY <1>1, <3>1, <3>2, FirstWaits
  <2>3. CASE \E kind \in Choices : Choose(d, kind)
    <3>1. op'[d].phase = "probe"
      BY <1>1, <2>3 DEF Choose
    <3> QED BY <3>1, FirstOver
  <2> QED BY <1>4, <2>1, <2>2, <2>3 DEF Asks
<1>5. CASE FirstStep(d)
  <2>1. CASE StartPush(d)
    <3>1. partial' = partial
      BY <2>1 DEF StartPush, firstVars
    <3> QED BY <2>1, <3>1, StartPushKept
  <2>2. CASE DeleteMissing(d)
    <3>1. partial' = partial
      BY <2>2 DEF DeleteMissing, firstVars
    <3> QED BY <2>2, <3>1, DeleteMissingKept
  <2>3. CASE FinishPush(d) \/ FinishOverwrite(d)
    BY <1>1, <1>3, <2>3 DEF FinishPush, FinishOverwrite
  <2> QED BY <1>5, <2>1, <2>2, <2>3 DEF FirstStep
<1>6. CASE ServerProbed(d)
  BY <1>6, ServerProbedKept
<1>7. CASE ServerPushes(d)
  <2>1. (d \notin partial => MatchKept(d)) => Stay
    BY <1>7, ServerPushesKept
  <2>2. PushKept(d)'
    <3>1. op'[d].phase = "answered"
      BY <1>7, ServerPushesFacts
    <3> QED BY <3>1 DEF PushKept
  <2> QED BY <2>1, <2>2
<1>8. CASE SetUpLost(d) \/ FinishFirst(d) \/ Killed(d)
  BY <1>1, <1>3, <1>8 DEF SetUpLost, FinishFirst, FinishSync, Killed, AppKilled
<1>9. CASE Ordinary(d) /\ UNCHANGED firstVars
  <2>1. partial' = partial
    BY <1>9 DEF firstVars
  <2> QED BY <1>9, <2>1, OrdinaryKept
<1> QED BY <1>4, <1>5, <1>6, <1>7, <1>8, <1>9 DEF StepOf

LEMMA NextKeepsFirst ==
  ASSUME FirstInv, [FirstNext]_allVars
  PROVE  /\ FirstInv'
         /\ EditWhileSyncing = FALSE /\ MatchInv => MatchInv'
<1>1. TypeInv /\ setUp \in [Devices -> BOOLEAN] /\ PushInv
  BY DEF FirstInv
<1>2. CASE UNCHANGED allVars
  <2>1. UNCHANGED <<serverVars, deviceVars, auxVars, setUp, partial>>
    BY <1>2 DEF allVars, vars, firstVars
  <2>2. TypeInv'
    BY <1>1, <2>1, DeviceRests DEF TypeInv, deviceVars, auxVars
  <2>3. Extends(commits, commits') /\ TypeOK'
    BY <1>1, <2>1, <2>2, LenCommits DEF serverVars, Extends, TypeInv
  <2>4. op' = op /\ disk' = disk
    BY <2>1 DEF deviceVars
  <2>5. ASSUME NEW d \in Devices
        PROVE  (PushKept(d) => PushKept(d)') /\ (MatchKept(d) => MatchKept(d)')
    <3>1. SameOp(d)
      BY <2>4 DEF SameOp
    <3> QED BY <1>1, <2>3, <2>4, <3>1, FirstWaits
  <2> QED BY <1>1, <2>1, <2>2, <2>5 DEF FirstInv, PushInv, MatchInv
<1>3. CASE FirstNext
  <2>1. PICK d \in Devices : StepOf(d)
    BY <1>3 DEF FirstNext, StepOf
  <2>2. TypeInv' /\ Extends(commits, commits') /\ TypeOK'
    BY <1>1, <2>1, FirstStepTypes DEF TypeInv
  <2>3. setUp' \in [Devices -> BOOLEAN]
    BY <1>1, <2>1, SetUpTypes
  <2>4. ASSUME NEW e \in Devices \ {d}
        PROVE  /\ PushKept(e)'
               /\ MatchInv /\ e \notin partial' => MatchKept(e)'
    <3>1. disk'[e] = disk[e] /\ op'[e] = op[e] /\ (e \in partial => e \in partial')
      BY <1>1, <2>1, FirstOthers
    <3>2. SameOp(e) /\ PushKept(e)
      BY <1>1, <3>1 DEF SameOp, PushInv
    <3>3. MatchInv /\ e \notin partial' => MatchKept(e)
      BY <3>1 DEF MatchInv
    <3> QED BY <1>1, <2>2, <3>1, <3>2, <3>3, FirstWaits
  <2>5. /\ PushKept(d)'
        /\ EditWhileSyncing = FALSE /\ MatchInv /\ d \notin partial' => MatchKept(d)'
    <3>1. PushKept(d) /\ (MatchInv => (d \notin partial => MatchKept(d)))
      BY <1>1 DEF PushInv, MatchInv
    <3> QED BY <1>1, <2>1, <3>1, OwnStepKept
  <2>6. PushInv'
    BY <2>4, <2>5 DEF PushInv
  <2>7. EditWhileSyncing = FALSE /\ MatchInv => MatchInv'
    BY <2>4, <2>5 DEF MatchInv
  <2> QED BY <2>2, <2>3, <2>6, <2>7 DEF FirstInv
<1> QED BY <1>2, <1>3

LEMMA InitFirst == FirstInit => FirstInv /\ MatchInv
<1> SUFFICES ASSUME FirstInit PROVE FirstInv /\ MatchInv
  OBVIOUS
<1>1. TypeInv /\ op = [d \in Devices |-> Idle]
  BY InitSyncInv DEF FirstInit, SyncInv, SyncInit
<1>2. \A d \in Devices : op[d].phase = "idle"
  BY <1>1, IdleOp
<1>3. \A d \in Devices : PushKept(d) /\ MatchKept(d)
  BY <1>2 DEF PushKept, MatchKept
<1> QED BY <1>1, <1>3 DEF FirstInit, FirstInv, PushInv, MatchInv

(* Whatever is lost, raced with or reset during a first sync.              *)
THEOREM FirstInvariant == FirstSpec => []FirstInv
<1>1. FirstInv /\ [FirstNext]_allVars => FirstInv'
  BY NextKeepsFirst
<1> QED BY <1>1, InitFirst, PTL DEF FirstSpec

(* Only the server answers a push.                                         *)
LEMMA PushHandledBy ==
  ASSUME FirstInv, [FirstNext]_allVars, NEW d \in Devices, Handled(d, "push")
  PROVE  ServerPushes(d)
<1>1. /\ TypeInv /\ op \in [Devices -> Ops(Len(commits))] /\ setUp \in [Devices -> BOOLEAN]
      /\ op[d].phase = "sent" /\ op[d].kind = "push" /\ op'[d].phase = "answered"
  BY DEF FirstInv, TypeInv, Handled
<1>2. op'[d] # op[d] /\ Idle.phase = "idle"
  BY <1>1, IdleOp
<1>3. PICK e \in Devices : StepOf(e)
  BY <1>2 DEF FirstNext, StepOf, allVars, vars, deviceVars
<1>4. StepOf(d)
  BY <1>1, <1>2, <1>3, FirstOthers
<1>5. ~Asks(d)
  <2>1. ~ResetRegistration(d)
    <3> SUFFICES ASSUME ResetRegistration(d) PROVE FALSE
      OBVIOUS
    <3>1. op'[d] = [op[d] EXCEPT !.saved = EmptyTree] /\ op[d] # Idle
      BY <1>1, <1>2 DEF ResetRegistration
    <3>2. op'[d].phase = op[d].phase
      BY <1>1, <3>1, TypeInvOp, EmptyTreeType, SavedForgotten
    <3> QED BY <1>1, <3>2
  <2> QED BY <1>1, <1>2, <2>1 DEF Asks, OpenDialog, CloseDialog, Choose, vars, deviceVars
<1>6. ~FirstStep(d)
  BY <1>1, <1>2 DEF FirstStep, StartPush, FinishPush, DeleteMissing, FinishOverwrite, In
<1>7. ~ServerProbed(d) /\ ~SetUpLost(d) /\ ~FinishFirst(d) /\ ~Killed(d)
  BY <1>1, <1>2 DEF ServerProbed, SetUpLost, FinishFirst, FinishSync, Killed, AppKilled, In
<1>8. ~Ordinary(d)
  <2>1. ~User(d)
    BY <1>1, <1>2 DEF User, Edit, Delete, ResetLocalSyncState, StartResolve, StartSync
  <2>2. ~Server(d) /\ ~FinishResolve(d) /\ ~\E p \in Paths : ApplyFile(d, p)
    BY <1>1 DEF Server, ServerSyncs, ServerResolves, FinishResolve, ApplyFile
  <2>3. ~AnswerLost(d) /\ ~ServerStops(d) /\ ~DownloadFails(d)
    BY <1>1, <1>2 DEF AnswerLost, ServerStops, DownloadFails
  <2> QED BY <2>1, <2>2, <2>3 DEF Ordinary
<1> QED BY <1>4, <1>5, <1>6, <1>7, <1>8 DEF StepOf

(***************************************************************************)
(* However late a force push arrives, and whoever changed the vault since  *)
(* it was probed: the server merges it against the probe's head, so it     *)
(* destroys only what the probe showed to be there.                        *)
(***************************************************************************)
THEOREM PushesSpareLater == FirstSpec => PushSparesLater
<1> DEFINE Spares(d) ==
      In(d, "sent", {"push"}) /\ Handled(d, "push") /\ work = HeadTree(commits)
        => \A p \in Paths :
             LostValues(p) \subseteq ValuesIn(TreeAt(commits, op[d].request.base)[p])
<1>1. ASSUME FirstInv, [FirstNext]_allVars, NEW d \in Devices PROVE Spares(d)
  <2> SUFFICES ASSUME Handled(d, "push"), work = HeadTree(commits), NEW p \in Paths
               PROVE  LostValues(p) \subseteq
                        ValuesIn(TreeAt(commits, op[d].request.base)[p])
    OBVIOUS
  <2>1. ServerPushes(d) /\ TypeInv /\ TypeOK
    BY <1>1, PushHandledBy DEF FirstInv, TypeInv
  <2>2. /\ WellFormed(op[d].request) /\ HandleSync(d, op[d].request)
        /\ op[d].phase = "sent" /\ op[d].kind = "push"
    BY <1>1, <2>1, ServerPushesFacts
  <2>3. op[d].request.base # 0 /\ BlindDeletions(op[d].request) = {}
    BY <1>1, <2>2 DEF FirstInv, PushInv, PushKept
  <2> QED BY <1>1, <2>1, <2>2, <2>3, HandleSyncDrops
<1>2. FirstInv /\ [FirstNext]_allVars => [\A d \in Devices : Spares(d)]_allVars
  BY <1>1
<1> QED BY <1>2, FirstInvariant, PTL DEF FirstSpec, PushSparesLater

(* A device is set up by the end of its own first sync, or of a sync.      *)
LEMMA SetUpBy ==
  ASSUME FirstInv, [FirstNext]_allVars, NEW d \in Devices,
         op[d] # Idle, op[d].kind \in Choices, ~setUp[d], setUp'[d]
  PROVE  FinishPush(d) \/ FinishOverwrite(d)
<1>1. TypeInv /\ setUp \in [Devices -> BOOLEAN]
  BY DEF FirstInv
<1>2. PICK e \in Devices : StepOf(e)
  BY DEF FirstNext, StepOf, allVars, firstVars
<1>3. StepOf(d)
  BY <1>1, <1>2, FirstOthers
<1>4. ~Asks(d)
  BY <1>1 DEF Asks, ResetRegistration, OpenDialog, CloseDialog, Choose
<1>5. ~ServerProbed(d) /\ ~ServerPushes(d) /\ ~SetUpLost(d) /\ ~Killed(d)
      /\ ~StartPush(d) /\ ~DeleteMissing(d) /\ ~UNCHANGED firstVars
  BY DEF ServerProbed, ServerPushes, Pushed, SetUpLost, Killed, StartPush, DeleteMissing,
     firstVars
<1>6. ~FinishFirst(d)
  BY DEF FinishFirst, FinishSync, Choices
<1> QED BY <1>3, <1>4, <1>5, <1>6 DEF StepOf, FirstStep

(***************************************************************************)
(* Whichever side overwrote the other, and whatever other devices did: a   *)
(* device whose probe saw the whole vault, whose push was not raced and    *)
(* whose user waited is set up with exactly the commit it names.           *)
(***************************************************************************)
THEOREM SetUpsMatchBase == EditWhileSyncing = FALSE => (FirstSpec => SetUpMatchesBase)
<1> DEFINE Matches(d) ==
      op[d] # Idle /\ op[d].kind \in Choices /\ ~setUp[d] /\ setUp'[d]
        => disk'[d] = TreeAt(commits, base'[d])
<1>1. ASSUME FirstInv, MatchInv, [FirstNext]_allVars, NEW d \in Devices \ partial
      PROVE  Matches(d)
  <2> SUFFICES ASSUME op[d] # Idle, op[d].kind \in Choices, ~setUp[d], setUp'[d]
               PROVE  disk'[d] = TreeAt(commits, base'[d])
    OBVIOUS
  <2>1. FinishPush(d) \/ FinishOverwrite(d)
    BY <1>1, SetUpBy
  <2>2. op[d].phase = "answered" /\ disk' = disk /\ TypeInv /\ MatchKept(d)
    BY <1>1, <2>1 DEF FinishPush, FinishOverwrite, In, FirstInv, MatchInv
  <2>3. base'[d] = op[d].answer.head
    <3>1. base \in [Devices -> 0..Len(commits)] /\ setUp'[d] # setUp[d]
      BY <2>2 DEF TypeInv
    <3> QED BY <2>1, <3>1 DEF FinishPush, FinishOverwrite, SetUpDone
  <2>4. Sent(d) \in Trees /\ disk[d] \in Trees
    <3>1. commits \in Seq(Trees)
      BY <2>2 DEF TypeInv, TypeOK
    <3>2. op[d].answer.head \in Nat
      BY <2>2, AnsweredFacts, SMT
    <3> QED BY <2>2, <3>1, <3>2, TreeAtType DEF TypeInv, Sent
  <2>5. \A p \in Paths : disk[d][p] = Sent(d)[p]
    <3>1. CASE FinishPush(d)
      <4>1. op[d].answer.status \in {"ok", "conflict"} /\ op[d].answer.status # "conflict"
        BY <2>2, <3>1, AnsweredFacts DEF FinishPush, Answers
      <4> QED BY <2>2, <3>1, <4>1 DEF FinishPush, In, MatchKept
    <3>2. CASE FinishOverwrite(d)
      BY <2>2, <3>2 DEF FinishOverwrite, In, MatchKept
    <3> QED BY <2>1, <3>1, <3>2
  <2> QED BY <2>2, <2>3, <2>4, <2>5 DEF Trees, Sent
<1>2. FirstInv /\ MatchInv /\ [FirstNext]_allVars
        => [\A d \in Devices \ partial : Matches(d)]_allVars
  BY <1>1
<1>3. CASE EditWhileSyncing = FALSE
  <2>1. FirstInv /\ MatchInv /\ [FirstNext]_allVars => FirstInv' /\ MatchInv'
    BY <1>3, NextKeepsFirst
  <2> QED BY <1>2, <2>1, InitFirst, PTL DEF FirstSpec, SetUpMatchesBase
<1> QED BY <1>3
=============================================================================
