-------------------------- MODULE VaultServerProofs --------------------------
(***************************************************************************)
(* What VaultServer keeps for every vault, every number of devices and any *)
(* length of the branch.                                                   *)
(***************************************************************************)
EXTENDS VaultServer, TLAPS

-----------------------------------------------------------------------------
(* One file.                                                               *)

(* git merge-file yields a text, or the server's version, or markers.      *)
LEMMA MergeTextFileType ==
  ASSUME NEW b \in Contents, NEW s \in Contents, NEW c \in Contents
  PROVE  MergeTextFile(b, s, c) \in Outcomes
<1>1. CASE {b, s, c} \cap NulTexts # {}
  BY <1>1, SMT DEF MergeTextFile, Outcomes, Clashed, Files
<1>2. CASE {b, s, c} \cap NulTexts = {} /\ (Markers \in {b, s, c} \/ RegionsClash(b, s, c))
  BY <1>2, SMT DEF MergeTextFile, Outcomes, Clashed, Files, Contents
<1>3. CASE {b, s, c} \cap NulTexts = {} /\ ~(Markers \in {b, s, c} \/ RegionsClash(b, s, c))
  <2>1. b \in Texts /\ s \in Texts /\ c \in Texts
    BY <1>3 DEF Contents
  <2>2. MergedRegions(b, s, c) \in Texts
    BY <2>1 DEF MergedRegions, Texts
  <2>3. MergeTextFile(b, s, c) = Written(MergedRegions(b, s, c))
    BY <1>3 DEF MergeTextFile
  <2> QED BY <2>2, <2>3, SMT DEF Outcomes, Written, Files, Contents
<1> QED BY <1>1, <1>2, <1>3

(* A merge that is no conflict and starts without markers has none.        *)
LEMMA MergeTextFileClean ==
  ASSUME NEW b \in Contents, NEW s \in Contents, NEW c \in Contents,
         ~MergeTextFile(b, s, c).clash
  PROVE  MergeTextFile(b, s, c).content \in Texts
<1>1. ~(Markers \in {b, s, c} \/ RegionsClash(b, s, c)) /\ {b, s, c} \cap NulTexts = {}
  BY SMT DEF MergeTextFile, Clashed
<1>2. b \in Texts /\ s \in Texts /\ c \in Texts
  BY <1>1 DEF Contents
<1>3. MergedRegions(b, s, c) \in Texts
  BY <1>2 DEF MergedRegions, Texts
<1>4. MergeTextFile(b, s, c) = Written(MergedRegions(b, s, c))
  BY <1>1 DEF MergeTextFile
<1> QED BY <1>3, <1>4 DEF Written

(***************************************************************************)
(* What TextUpsert yields: an outcome; without a conflict, a file that is  *)
(* one of the three it was given or a text; absent only if the device      *)
(* uploads its unchanged base again.                                       *)
(***************************************************************************)
LEMMA TextUpsertOutcome ==
  ASSUME NEW b \in Files, NEW acked \in BOOLEAN, NEW s \in Files, NEW c \in Contents
  PROVE  LET out == TextUpsert(b, acked, s, c) IN
         /\ out \in Outcomes
         /\ ~out.clash => /\ out.content \in {s, c} \cup Texts
                          /\ out.content = Absent => b # Absent
<1> DEFINE base == UpsertBase(b, acked, s)
           out  == TextUpsert(b, acked, s, c)
<1>0. base \in Files /\ (base # Absent => b = base) /\ c \in Files /\ c # Absent
  BY TextAssumption DEF UpsertBase, Files
<1>1. CASE s = c
  <2>1. out = Kept(s) BY <1>1 DEF TextUpsert
  <2> QED BY <2>1, <1>0, <1>1, SMT DEF Kept, Outcomes
<1>2. CASE s # c /\ base = Absent /\ s = Absent
  <2>1. out = Written(c) BY <1>2 DEF TextUpsert
  <2> QED BY <2>1, <1>0, SMT DEF Written, Outcomes
<1>3. CASE s # c /\ ~(base = Absent /\ s = Absent) /\ c = base
  <2>1. out = Kept(s) BY <1>3 DEF TextUpsert
  <2> QED BY <2>1, <1>0, <1>3, SMT DEF Kept, Outcomes
<1>4. CASE s # c /\ ~(base = Absent /\ s = Absent) /\ c # base /\ Absent \in {base, s}
  <2>1. out = Clashed(Markers) BY <1>4 DEF TextUpsert
  <2> QED BY <2>1, SMT DEF Clashed, Outcomes, Files, Contents
<1>5. CASE s # c /\ Absent \notin {base, s} /\ c # base /\ s = base
  <2>1. out = Written(c) BY <1>5 DEF TextUpsert
  <2> QED BY <2>1, <1>0, SMT DEF Written, Outcomes
<1>6. CASE s # c /\ Absent \notin {base, s} /\ c # base /\ s # base
  <2>1. base \in Contents /\ s \in Contents
    BY <1>0, <1>6 DEF Files
  <2>2. out = MergeTextFile(base, s, c) BY <1>6 DEF TextUpsert
  <2>3. out \in Outcomes /\ (~out.clash => out.content \in Texts)
    BY <2>1, <2>2, MergeTextFileType, MergeTextFileClean
  <2>4. Absent \notin Texts
    BY TextAssumption DEF Contents
  <2> QED BY <2>3, <2>4
<1> QED BY <1>1, <1>2, <1>3, <1>4, <1>5, <1>6

(***************************************************************************)
(* An upload that is accepted without a conflict loses neither side: every *)
(* region the server changed since the device's base and every region the  *)
(* device changed is in the result.                                        *)
(***************************************************************************)
THEOREM UpsertKeepsBothSides ==
  ASSUME NEW b \in Texts, NEW acked \in BOOLEAN, NEW s \in Texts, NEW c \in Texts,
         ~TextUpsert(b, acked, s, c).clash,
         NEW r \in Regions
  PROVE  LET result == TextUpsert(b, acked, s, c).content IN
         /\ s[r] # b[r] => result[r] = s[r]
         /\ c[r] # b[r] => result[r] = c[r]
<1>1. Absent \notin Texts /\ Markers \notin Texts
  BY TextAssumption DEF Contents
<1>2. UpsertBase(b, acked, s) = b
  BY <1>1 DEF UpsertBase
<1>3. CASE s = c
  BY <1>3 DEF TextUpsert, Kept
<1>4. CASE s # c /\ c = b
  BY <1>1, <1>2, <1>4 DEF TextUpsert, Kept
<1>5. CASE s # c /\ c # b /\ s = b
  BY <1>1, <1>2, <1>5 DEF TextUpsert, Written
<1>6. CASE s # c /\ c # b /\ s # b
  <2>1. TextUpsert(b, acked, s, c) = MergeTextFile(b, s, c)
    BY <1>1, <1>2, <1>6 DEF TextUpsert
  <2>2. {b, s, c} \cap NulTexts = {} /\ ~(Markers \in {b, s, c} \/ RegionsClash(b, s, c))
    BY <2>1, SMT DEF MergeTextFile, Clashed
  <2>3. TextUpsert(b, acked, s, c).content = MergedRegions(b, s, c)
    BY <2>1, <2>2 DEF MergeTextFile, Written
  <2>4. s[r] = b[r] \/ c[r] = b[r] \/ s[r] = c[r]
    BY <2>2 DEF RegionsClash
  <2> QED BY <2>3, <2>4 DEF MergedRegions
<1> QED BY <1>3, <1>4, <1>5, <1>6

(* A deletion leaves nothing, or markers and a conflict.                   *)
LEMMA TextDeleteOutcome ==
  ASSUME NEW b \in Files, NEW s \in Files
  PROVE  /\ TextDelete(b, s) \in Outcomes
         /\ ~TextDelete(b, s).clash => TextDelete(b, s).content = Absent
  BY SMT DEF TextDelete, Outcomes, Written, Clashed, Files, Contents

-----------------------------------------------------------------------------
(* The branch.                                                             *)

LEMMA EmptyTreeType == EmptyTree \in Trees
  BY DEF EmptyTree, Trees, Files

LEMMA TreeAtType ==
  ASSUME NEW h \in Seq(Trees), NEW n \in Nat
  PROVE  TreeAt(h, n) \in Trees /\ HeadTree(h) \in Trees
  BY EmptyTreeType, SMT DEF TreeAt, HeadTree

(* A commit is the new head, and it leaves the earlier ones alone.         *)
LEMMA CommitExtends ==
  ASSUME NEW h \in Seq(Trees), NEW t \in Trees
  PROVE  /\ CommitAllIfChanged(h, t) \in Seq(Trees)
         /\ HeadTree(CommitAllIfChanged(h, t)) = t
         /\ Len(h) <= Len(CommitAllIfChanged(h, t))
         /\ \A n \in 1..Len(h) : CommitAllIfChanged(h, t)[n] = h[n]
         /\ \A n \in 1..Len(CommitAllIfChanged(h, t)) :
              n \in 1..Len(h) \/ CommitAllIfChanged(h, t)[n] = t
<1>1. CASE t = HeadTree(h)
  BY <1>1, SMT DEF CommitAllIfChanged
<1>2. CASE t # HeadTree(h)
  <2>1. CommitAllIfChanged(h, t) = Append(h, t)
    BY <1>2 DEF CommitAllIfChanged
  <2> QED BY <2>1, SMT DEF HeadTree, TreeAt
<1> QED BY <1>1, <1>2

-----------------------------------------------------------------------------
(* Requests.                                                               *)

LEMMA ChangesType ==
  ASSUME NEW ch \in Changes
  PROVE  /\ DOMAIN ch \subseteq Paths
         /\ \A p \in DOMAIN ch : ch[p] \in Uploads \cup {Absent} /\ ch[p] \in Files
  BY ServerAssumption, SMT DEF Changes, Files

LEMMA RequestType ==
  ASSUME NEW req \in Requests
  PROVE  req.base \in 0..Len(commits) /\ req.changes \in Changes
  BY SMT DEF Requests

(* What the server relies on: a base and files of the vault's paths.       *)
FilesOf(changes)   == /\ DOMAIN changes \subseteq Paths
                      /\ \A p \in DOMAIN changes : changes[p] \in Files
WellFormed(req)    == req.base \in Nat /\ FilesOf(req.changes)

LEMMA RequestWellFormed ==
  ASSUME TypeOK, NEW req \in Requests
  PROVE  WellFormed(req)
<1>1. req.base \in Nat
  BY RequestType, SMT DEF TypeOK
<1> QED BY <1>1, RequestType, ChangesType DEF WellFormed, FilesOf

(* Writing files of the vault over a tree of it gives a tree.              *)
LEMMA OverwrittenType ==
  ASSUME NEW tree \in Trees, NEW files,
         \A p \in DOMAIN files : files[p] \in Files
  PROVE  Overwritten(tree, files) \in Trees
  BY SMT DEF Overwritten, Trees

(***************************************************************************)
(* The outcome of one change of a request.  Accepted, it is for a path     *)
(* with no pending conflict, it is what was there, what was sent or a      *)
(* merged text, and nothing disappears that was neither deleted by the     *)
(* request nor known to the device's base.                                 *)
(***************************************************************************)
LEMMA ChangeOutcomeFacts ==
  ASSUME TypeOK, NEW d \in Devices, NEW req, WellFormed(req),
         NEW h \in Seq(Trees), NEW p \in DOMAIN req.changes
  PROVE  LET out == ChangeOutcome(d, req, h, p) IN
         /\ out \in Outcomes
         /\ ~out.clash =>
              /\ pending[p] = NoOwner
              /\ out.content \in {HeadTree(h)[p], req.changes[p], Absent} \cup Texts
              /\ out.content = Absent =>
                   req.changes[p] = Absent \/ TreeAt(h, req.base)[p] # Absent
         /\ pending[p] # NoOwner => out = Clashed(HeadTree(h)[p])
<1> DEFINE current  == HeadTree(h)[p]
           baseFile == TreeAt(h, req.base)[p]
           new      == req.changes[p]
           out      == ChangeOutcome(d, req, h, p)
<1>1. /\ p \in Paths /\ new \in Files /\ (new # Absent => new \in Contents)
      /\ req.base \in Nat
  BY DEF Files, WellFormed, FilesOf
<1>2. current \in Files /\ baseFile \in Files
  BY <1>1, TreeAtType DEF Trees
<1>3. CASE p \notin Unowned(pending)
  <2>1. out = Clashed(current) BY <1>3 DEF ChangeOutcome
  <2> QED BY <2>1, <1>2, SMT DEF Clashed, Outcomes
<1>4. CASE p \in Unowned(pending)
  <2>0. pending[p] = NoOwner BY <1>4 DEF Unowned
  <2>1. CASE p \notin TextPaths
    <3>1. out = BinaryChange(req.base # 0, baseFile, current, new)
      BY <1>4, <2>1 DEF ChangeOutcome
    <3>2. out \in Outcomes /\ (~out.clash => out.content = new)
      BY <3>1, <1>1, <1>2, SMT DEF BinaryChange, Outcomes, Written, Clashed
    <3> QED BY <3>2, <2>0
  <2>2. CASE p \in TextPaths /\ new = Absent
    <3>1. out = TextDelete(baseFile, current)
      BY <1>4, <2>2 DEF ChangeOutcome
    <3> QED BY <3>1, <2>0, <2>2, <1>2, TextDeleteOutcome
  <2>3. CASE p \in TextPaths /\ new # Absent
    <3>1. out = TextUpsert(baseFile, p \in acks[d], current, new)
      BY <1>4, <2>3 DEF ChangeOutcome
    <3>2. new \in Contents /\ (p \in acks[d]) \in BOOLEAN
      BY <1>1, <2>3
    <3>3. /\ out \in Outcomes
          /\ ~out.clash => /\ out.content \in {current, new} \cup Texts
                           /\ out.content = Absent => baseFile # Absent
      BY <3>1, <3>2, <1>2, TextUpsertOutcome
    <3> QED BY <3>3, <2>0
  <2> QED BY <2>1, <2>2, <2>3
<1> QED BY <1>3, <1>4

(* What a request leaves in the working tree is a tree.                    *)
LEMMA AppliedType ==
  ASSUME TypeOK, NEW d \in Devices, NEW req, WellFormed(req),
         NEW h \in Seq(Trees), NEW paths \in SUBSET DOMAIN req.changes
  PROVE  Applied(d, req, h, paths) \in Trees
<1>1. \A p \in paths : ChangeOutcome(d, req, h, p).content \in Files
  BY ChangeOutcomeFacts, SMT DEF Outcomes
<1>2. \A p \in Paths : HeadTree(h)[p] \in Files
  BY TreeAtType, SMT DEF Trees
<1> QED BY <1>1, <1>2 DEF Applied, Trees

-----------------------------------------------------------------------------
(***************************************************************************)
(* The inductive invariant.  What is committed has no markers only because *)
(* the working tree never differs from the head between operations; and an *)
(* acknowledged path existed because what a request is accepted with, or   *)
(* sent, is in a commit.                                                   *)
(***************************************************************************)
IInv == TypeOK /\ WorkIsHead /\ NoMarkersCommitted /\ AckedPathsExisted

(* After a clean start of an operation the branch is what it was.          *)
LEMMA CleanHistory ==
  ASSUME work = HeadTree(commits)
  PROVE  CommitAllIfChanged(commits, work) = commits
  BY DEF CommitAllIfChanged

(* The steps of a sync that runs to its end.                               *)
LEMMA SyncHistoryFacts ==
  ASSUME TypeOK, NEW d \in Devices, NEW req, WellFormed(req),
         NEW before, before = CommitAllIfChanged(commits, work),
         NEW after,  after  = SyncHistory(d, req),
         NEW tree,   tree   = Applied(d, req, before, DOMAIN req.changes)
  PROVE  /\ before \in Seq(Trees) /\ HeadTree(before) = work
         /\ tree \in Trees
         /\ after \in Seq(Trees)
         /\ Len(commits) <= Len(before) /\ Len(before) <= Len(after)
         /\ \A n \in 1..Len(commits) : before[n] = commits[n] /\ after[n] = commits[n]
         /\ \A n \in 1..Len(after) :
              n \in 1..Len(commits) \/ after[n] \in {work, tree}
         /\ ClashesOf(d, req, before) # {} => after = before
         /\ ClashesOf(d, req, before) = {} => HeadTree(after) = tree
<1>1. commits \in Seq(Trees) /\ work \in Trees
  BY DEF TypeOK
<1>2. /\ before \in Seq(Trees) /\ HeadTree(before) = work
      /\ Len(commits) <= Len(before)
      /\ \A n \in 1..Len(commits) : before[n] = commits[n]
      /\ \A n \in 1..Len(before) : n \in 1..Len(commits) \/ before[n] = work
  BY <1>1, CommitExtends
<1>3. tree \in Trees
  BY <1>2, AppliedType
<1>4. CASE ClashesOf(d, req, before) # {}
  <2>1. after = before
    BY <1>4 DEF SyncHistory
  <2> QED BY <2>1, <1>2, <1>3, <1>4
<1>5. CASE ClashesOf(d, req, before) = {}
  <2>1. after = CommitAllIfChanged(before, tree)
    BY <1>5 DEF SyncHistory
  <2>2. /\ after \in Seq(Trees) /\ HeadTree(after) = tree
        /\ Len(before) <= Len(after)
        /\ \A n \in 1..Len(before) : after[n] = before[n]
        /\ \A n \in 1..Len(after) : n \in 1..Len(before) \/ after[n] = tree
    <3>1. before \in Seq(Trees) /\ tree \in Trees
      BY <1>2, <1>3
    <3> QED BY ONLY <3>1, <2>1, CommitExtends
  <2>3. \A n \in 1..Len(commits) : n \in 1..Len(before)
    BY <1>1, <1>2, SMT
  <2>4. \A n \in 1..Len(after) :
          n \in 1..Len(commits) \/ after[n] \in {work, tree}
    BY <1>2, <2>2
  <2> QED BY <2>2, <2>3, <2>4, <1>2, <1>3, <1>5
<1> QED BY <1>4, <1>5

-----------------------------------------------------------------------------
(* The three parts of the invariant beside the types, over a longer branch.*)

Extends(history, longer) ==
  /\ Len(history) <= Len(longer)
  /\ \A n \in 1..Len(history) : longer[n] = history[n]

(* While nothing is acknowledged, a longer branch keeps what existed.      *)
LEMMA AcksKept ==
  ASSUME TypeOK, AckedPathsExisted, acks' = acks,
         commits' \in Seq(Trees), Extends(commits, commits')
  PROVE  AckedPathsExisted'
<1>1. SUFFICES ASSUME NEW d \in Devices, NEW p \in acks[d]
               PROVE  \E n \in 1..Len(commits') : commits'[n][p] # Absent
  BY DEF AckedPathsExisted
<1>2. PICK n \in 1..Len(commits) : commits[n][p] # Absent
  BY DEF AckedPathsExisted
<1>3. n \in 1..Len(commits') /\ commits'[n] = commits[n]
  BY <1>2, SMT DEF Extends, TypeOK
<1> QED BY <1>2, <1>3

(* The paths that hold markers in a tree.                                  *)
Clean(tree) == \A p \in Paths : tree[p] # Markers

LEMMA EmptyTreeClean == Clean(EmptyTree)
  BY TextAssumption DEF Clean, EmptyTree, Contents

LEMMA WorkClean ==
  ASSUME TypeOK, WorkIsHead, NoMarkersCommitted, faults = 0, Markers \notin Uploads
  PROVE  Clean(work) /\ work = HeadTree(commits)
<1>1. work = HeadTree(commits)
  BY DEF WorkIsHead
<1>2. \A n \in 1..Len(commits) : Clean(commits[n])
  BY DEF NoMarkersCommitted, Clean
<1> QED BY <1>1, <1>2, EmptyTreeClean, SMT DEF HeadTree, TreeAt

(* Such an operation keeps the types and lengthens the branch to its tree. *)
LEMMA OverwriteTypes ==
  ASSUME TypeOK, NEW files, \A p \in DOMAIN files : files[p] \in Files,
         work' = Overwritten(work, files),
         commits' = CommitAllIfChanged(commits, Overwritten(work, files)),
         pending' = ClearPending(pending, DOMAIN files),
         acks' = acks, faults' = faults
  PROVE  /\ TypeOK' /\ Extends(commits, commits')
         /\ HeadTree(commits') = Overwritten(work, files)
         /\ \A n \in 1..Len(commits') : n \in 1..Len(commits) \/ commits'[n] = work'
<1>1. commits \in Seq(Trees) /\ Overwritten(work, files) \in Trees
  BY OverwrittenType DEF TypeOK
<1>2. /\ commits' \in Seq(Trees) /\ HeadTree(commits') = Overwritten(work, files)
      /\ Extends(commits, commits')
      /\ \A n \in 1..Len(commits') : n \in 1..Len(commits) \/ commits'[n] = work'
  BY ONLY <1>1, CommitExtends, work' = Overwritten(work, files),
          commits' = CommitAllIfChanged(commits, Overwritten(work, files))
     DEF Extends
<1>3. pending' \in [Paths -> Owners]
  BY SMT DEF TypeOK, ClearPending, Owners
<1> QED BY <1>1, <1>2, <1>3 DEF TypeOK

(***************************************************************************)
(* The operations that write their files over the tree and commit it: a    *)
(* resolution and every WebDAV request.                                    *)
(***************************************************************************)
LEMMA OverwriteKeepsIInv ==
  ASSUME IInv, NEW files, \A p \in DOMAIN files : files[p] \in Files,
         faults = 0 /\ Markers \notin Uploads =>
           \A p \in DOMAIN files : files[p] # Markers,
         work' = Overwritten(work, files),
         commits' = CommitAllIfChanged(commits, Overwritten(work, files)),
         pending' = ClearPending(pending, DOMAIN files),
         acks' = acks, faults' = faults
  PROVE  IInv'
<1>2. /\ HeadTree(commits') = work' /\ Extends(commits, commits')
      /\ \A n \in 1..Len(commits') : n \in 1..Len(commits) \/ commits'[n] = work'
      /\ TypeOK'
  BY OverwriteTypes DEF IInv
<1>3. commits' \in Seq(Trees)
  BY <1>2 DEF TypeOK
<1>4. WorkIsHead'
  BY <1>2 DEF WorkIsHead, HeadTree, TreeAt, EmptyTree
<1>5. NoMarkersCommitted'
  <2>1. SUFFICES ASSUME faults = 0, Markers \notin Uploads,
                        NEW n \in 1..Len(commits'), NEW p \in Paths
                 PROVE  commits'[n][p] # Markers
    BY DEF NoMarkersCommitted
  <2>2. work[p] # Markers
    BY <2>1, WorkClean DEF IInv, Clean
  <2>3. work'[p] # Markers
    BY <2>1, <2>2 DEF Overwritten
  <2>4. CASE n \in 1..Len(commits)
    BY <1>2, <2>1, <2>4 DEF IInv, NoMarkersCommitted, Extends
  <2>5. CASE commits'[n] = work'
    BY <2>3, <2>5
  <2> QED BY <1>2, <2>4, <2>5
<1>6. AckedPathsExisted'
  BY <1>2, <1>3, AcksKept DEF IInv
<1> QED BY <1>2, <1>4, <1>5, <1>6 DEF IInv

-----------------------------------------------------------------------------
(* A sync.                                                                 *)

(* A file of some tree of the branch is a file of some commit.             *)
LEMMA TreeAtWitness ==
  ASSUME NEW h \in Seq(Trees), NEW n \in Nat, NEW p \in Paths,
         TreeAt(h, n)[p] # Absent
  PROVE  n \in 1..Len(h) /\ h[n][p] # Absent
  BY DEF TreeAt, EmptyTree

(* A successful answer means no clash, and it carries paths of the head.   *)
LEMMA SyncAnswerOk ==
  ASSUME NEW d \in Devices, NEW req, SyncAnswer(d, req).status = "ok"
  PROVE  LET files == SyncAnswer(d, req).files IN
         /\ ClashesOf(d, req, CommitAllIfChanged(commits, work)) = {}
         /\ DOMAIN files \subseteq Paths
         /\ \A p \in DOMAIN files : files[p] = HeadTree(SyncHistory(d, req))[p]
<1>1. /\ ClashesOf(d, req, CommitAllIfChanged(commits, work)) = {}
      /\ PendingFor(pending, d) = {}
  BY SMT DEF SyncAnswer, Answer
<1>2. SyncAnswer(d, req).files
        = ChangedFilesSince(SyncHistory(d, req), req.base, req.manifest)
  BY <1>1 DEF SyncAnswer, Answer
<1> QED BY <1>1, <1>2 DEF ChangedFilesSince

LEMMA SyncAcksType ==
  ASSUME TypeOK, NEW d \in Devices, NEW req, WellFormed(req)
  PROVE  SyncAcks(d, req) \in [Devices -> SUBSET Paths]
<1> DEFINE answer == SyncAnswer(d, req)
<1>1. DOMAIN req.changes \subseteq Paths
  BY DEF WellFormed, FilesOf
<1>2. CASE answer.status = "ok" /\ answer.head # 0
  <2>1. DOMAIN answer.files \subseteq Paths
    BY <1>2, SyncAnswerOk
  <2> QED BY <1>1, <1>2, <2>1 DEF SyncAcks, TypeOK
<1>3. CASE ~(answer.status = "ok" /\ answer.head # 0)
  BY <1>3 DEF SyncAcks, TypeOK
<1> QED BY <1>2, <1>3

(***************************************************************************)
(* What a sync newly acknowledges exists: the device sent it and the       *)
(* server has it now, or had it at the device's base; or the device is     *)
(* being sent it.                                                          *)
(***************************************************************************)
LEMMA SyncAcksExisted ==
  ASSUME TypeOK, AckedPathsExisted, NEW d \in Devices, NEW req \in Requests,
         NEW e \in Devices, NEW p \in SyncAcks(d, req)[e]
  PROVE  \E n \in 1..Len(SyncHistory(d, req)) : SyncHistory(d, req)[n][p] # Absent
<1> DEFINE answer == SyncAnswer(d, req)
           before == CommitAllIfChanged(commits, work)
           after  == SyncHistory(d, req)
           tree   == Applied(d, req, before, DOMAIN req.changes)
<1>1. /\ before \in Seq(Trees) /\ after \in Seq(Trees)
      /\ Len(commits) <= Len(before) /\ Len(before) <= Len(after)
      /\ \A n \in 1..Len(commits) : before[n] = commits[n] /\ after[n] = commits[n]
      /\ ClashesOf(d, req, before) = {} => HeadTree(after) = tree
  BY RequestWellFormed, SyncHistoryFacts
<1>2. p \in Paths
  BY RequestWellFormed, SyncAcksType DEF TypeOK
<1>3. CASE p \in acks[e]
  <2>1. PICK n \in 1..Len(commits) : commits[n][p] # Absent
    BY <1>3 DEF AckedPathsExisted
  <2>2. n \in 1..Len(after) /\ after[n] = commits[n]
    BY ONLY <1>1, TypeOK, n \in 1..Len(commits) DEF TypeOK
  <2> QED BY <2>1, <2>2
<1>4. CASE p \notin acks[e]
  <2>1. answer.status = "ok"
    BY <1>4 DEF SyncAcks
  <2>2. \/ p \in DOMAIN req.changes /\ req.changes[p] # Absent
        \/ p \in DOMAIN answer.files /\ answer.files[p] # Absent
    BY <1>4 DEF SyncAcks, DeletedIn, TypeOK
  <2>3. ClashesOf(d, req, before) = {}
    BY <2>1, SyncAnswerOk
  <2>4. ASSUME HeadTree(after)[p] # Absent
        PROVE  \E n \in 1..Len(after) : after[n][p] # Absent
    <3>1. Len(after) \in Nat /\ TreeAt(after, Len(after))[p] # Absent
      BY <1>1, <2>4 DEF HeadTree
    <3> HIDE DEF after
    <3> QED BY <1>1, <1>2, <3>1, TreeAtWitness
  <2>5. CASE p \in DOMAIN answer.files /\ answer.files[p] # Absent
    BY <2>1, <2>4, <2>5, SyncAnswerOk
  <2>6. CASE p \in DOMAIN req.changes /\ req.changes[p] # Absent
    <3> DEFINE out == ChangeOutcome(d, req, before, p)
    <3>1. ~out.clash
      BY <2>3, <2>6 DEF ClashesOf
    <3>2. HeadTree(after)[p] = out.content
      BY <1>1, <1>2, <2>3, <2>6 DEF Applied
    <3>3. out.content = Absent => TreeAt(before, req.base)[p] # Absent
      BY <1>1, <2>6, <3>1, RequestWellFormed, ChangeOutcomeFacts
    <3>4. CASE TreeAt(before, req.base)[p] # Absent
      <4>1. req.base \in 0..Len(commits) /\ Len(commits) \in Nat
        BY RequestType DEF TypeOK
      <4> HIDE DEF before, after
      <4>2. req.base \in 1..Len(before) /\ before[req.base][p] # Absent
        BY <1>1, <1>2, <3>4, <4>1, TreeAtWitness
      <4>3. req.base \in 1..Len(commits) /\ req.base \in 1..Len(after)
        BY <1>1, <4>1, <4>2
      <4>4. after[req.base] = before[req.base]
        BY <1>1, <4>3
      <4>5. \E n \in 1..Len(after) : after[n][p] # Absent
        BY <4>2, <4>3, <4>4
      <4> QED BY <4>5 DEF after
    <3> QED BY <2>4, <3>2, <3>3, <3>4
  <2> QED BY <2>2, <2>5, <2>6
<1> QED BY <1>3, <1>4

(* An accepted request puts no markers of its own into the tree.           *)
LEMMA AppliedClean ==
  ASSUME TypeOK, NEW d \in Devices, NEW req \in Requests,
         NEW h \in Seq(Trees), Clean(HeadTree(h)), Markers \notin Uploads,
         ClashesOf(d, req, h) = {}
  PROVE  Clean(Applied(d, req, h, DOMAIN req.changes))
<1>1. SUFFICES ASSUME NEW p \in DOMAIN req.changes
               PROVE  ChangeOutcome(d, req, h, p).content # Markers
  BY DEF Clean, Applied
<1>2. req.changes[p] # Markers /\ p \in Paths
  BY RequestType, ChangesType, TextAssumption DEF Contents
<1>3. ~ChangeOutcome(d, req, h, p).clash
  BY DEF ClashesOf
<1>4. ChangeOutcome(d, req, h, p).content
        \in {HeadTree(h)[p], req.changes[p], Absent} \cup Texts
  BY <1>3, RequestWellFormed, ChangeOutcomeFacts
<1>5. Absent # Markers /\ Markers \notin Texts
  BY TextAssumption DEF Contents
<1> QED BY <1>2, <1>4, <1>5 DEF Clean

LEMMA RecordPendingType ==
  ASSUME TypeOK, NEW d \in Devices, NEW paths
  PROVE  RecordPending(pending, d, paths) \in [Paths -> Owners]
  BY SMT DEF TypeOK, RecordPending, Owners

(***************************************************************************)
(* A sync that runs to its end, and one that stops half way, keep the      *)
(* types and only ever lengthen the branch.                                *)
(***************************************************************************)
LEMMA SyncTypes ==
  ASSUME TypeOK, NEW d \in Devices, NEW req, WellFormed(req), HandleSync(d, req)
  PROVE  TypeOK' /\ Extends(commits, commits')
<1> DEFINE before == CommitAllIfChanged(commits, work)
           after  == SyncHistory(d, req)
<1>1. /\ after \in Seq(Trees)
      /\ Len(commits) <= Len(before) /\ Len(before) <= Len(after)
      /\ before \in Seq(Trees)
      /\ \A n \in 1..Len(commits) : after[n] = commits[n]
  BY SyncHistoryFacts
<1>2. /\ commits' = after /\ work' = HeadTree(commits') /\ faults' = faults
      /\ pending' = RecordPending(pending, d, ClashesOf(d, req, before))
      /\ acks' = SyncAcks(d, req)
  BY DEF HandleSync
<1>3. work' \in Trees
  BY <1>1, <1>2, TreeAtType
<1>4. pending' \in [Paths -> Owners] /\ acks' \in [Devices -> SUBSET Paths]
  BY <1>2, RecordPendingType, SyncAcksType
<1>5. Len(commits) <= Len(after)
  BY <1>1, SMT DEF TypeOK
<1> QED BY <1>1, <1>2, <1>3, <1>4, <1>5 DEF TypeOK, Extends

SyncStopsAt(d, req) ==
  \/ SyncStopsApplying(d, req)
  \/ SyncStopsBeforeCleanup(d, req)
  \/ SyncStopsAfterApplying(d, req)

LEMMA StoppedTypes ==
  ASSUME TypeOK, Stopped, acks' = acks,
         work' \in Trees, pending' \in [Paths -> Owners],
         commits' \in Seq(Trees)
  PROVE  TypeOK' /\ faults' # 0
<1>1. faults' \in 0..MaxFaults /\ faults' # 0
  BY ServerAssumption, SMT DEF Stopped, TypeOK
<1> QED BY <1>1 DEF TypeOK

LEMMA SyncStopsTypes ==
  ASSUME TypeOK, NEW d \in Devices, NEW req, WellFormed(req), SyncStopsAt(d, req)
  PROVE  TypeOK' /\ faults' # 0 /\ acks' = acks /\ Extends(commits, commits')
<1> DEFINE before == CommitAllIfChanged(commits, work)
           after  == SyncHistory(d, req)
           tree   == Applied(d, req, before, DOMAIN req.changes)
<1>1. /\ before \in Seq(Trees) /\ after \in Seq(Trees) /\ tree \in Trees
      /\ Len(commits) <= Len(before) /\ Len(before) <= Len(after)
      /\ \A n \in 1..Len(commits) : before[n] = commits[n] /\ after[n] = commits[n]
  BY SyncHistoryFacts
<1>2. Extends(commits, before) /\ Extends(commits, after)
  BY <1>1 DEF Extends, TypeOK
<1>3. CASE SyncStopsApplying(d, req)
  <2>1. PICK paths \in SUBSET (DOMAIN req.changes \cap TextPaths) :
          work' = Applied(d, req, before, paths)
    BY <1>3 DEF SyncStopsApplying
  <2>2. work' \in Trees
    BY <1>1, <2>1, AppliedType
  <2> QED BY <1>1, <1>2, <1>3, <2>2, StoppedTypes DEF SyncStopsApplying, TypeOK
<1>4. CASE SyncStopsBeforeCleanup(d, req)
  <2>1. pending' \in [Paths -> Owners]
    BY <1>4, RecordPendingType DEF SyncStopsBeforeCleanup, TypeOK
  <2> QED BY <1>1, <1>2, <1>4, <2>1, StoppedTypes DEF SyncStopsBeforeCleanup
<1>5. CASE SyncStopsAfterApplying(d, req)
  <2>1. commits' \in {before, after} /\ work' = tree /\ Stopped
        /\ pending' = pending /\ acks' = acks
    BY <1>5 DEF SyncStopsAfterApplying
  <2>2. pending' \in [Paths -> Owners]
    BY <2>1 DEF TypeOK
  <2>3. commits' \in Seq(Trees) /\ Extends(commits, commits')
    BY <1>1, <1>2, <2>1
  <2> QED BY <1>1, <2>1, <2>2, <2>3, StoppedTypes
<1> QED BY <1>3, <1>4, <1>5 DEF SyncStopsAt

LEMMA SyncKeepsIInv ==
  ASSUME IInv, NEW d \in Devices, NEW req \in Requests, HandleSync(d, req)
  PROVE  IInv'
<1> DEFINE before == CommitAllIfChanged(commits, work)
           after  == SyncHistory(d, req)
           tree   == Applied(d, req, before, DOMAIN req.changes)
<1>1. TypeOK
  BY DEF IInv
<1>2. /\ before \in Seq(Trees) /\ HeadTree(before) = work
      /\ tree \in Trees /\ after \in Seq(Trees)
      /\ Len(commits) <= Len(before) /\ Len(before) <= Len(after)
      /\ \A n \in 1..Len(commits) : after[n] = commits[n]
      /\ \A n \in 1..Len(after) : n \in 1..Len(commits) \/ after[n] \in {work, tree}
      /\ ClashesOf(d, req, before) # {} => after = before
      /\ ClashesOf(d, req, before) = {} => HeadTree(after) = tree
  BY <1>1, RequestWellFormed, SyncHistoryFacts
<1>3. commits' = after /\ work' = HeadTree(commits') /\ faults' = faults
      /\ pending' = RecordPending(pending, d, ClashesOf(d, req, before))
      /\ acks' = SyncAcks(d, req)
  BY DEF HandleSync
<1>4. TypeOK'
  BY <1>1, RequestWellFormed, SyncTypes
<1>5. WorkIsHead'
  BY <1>3 DEF WorkIsHead
<1>6. NoMarkersCommitted'
  <2>1. SUFFICES ASSUME faults = 0, Markers \notin Uploads,
                        NEW n \in 1..Len(commits'), NEW p \in Paths
                 PROVE  commits'[n][p] # Markers
    BY <1>3 DEF NoMarkersCommitted
  <2>2. Clean(work) /\ work = HeadTree(commits)
    BY <2>1, WorkClean DEF IInv
  <2>3. before = commits
    BY <2>2, CleanHistory
  <2>4. CASE n \in 1..Len(commits)
    BY <1>2, <1>3, <2>1, <2>4 DEF IInv, NoMarkersCommitted
  <2>5. CASE ClashesOf(d, req, before) # {}
    BY <1>2, <1>3, <2>3, <2>4, <2>5
  <2>6. CASE ClashesOf(d, req, before) = {}
    <3>1. Clean(tree)
      BY <1>1, <1>2, <2>1, <2>2, <2>6, AppliedClean
    <3>2. n \in 1..Len(commits) \/ commits'[n] \in {work, tree}
      BY <1>2, <1>3
    <3> QED BY <2>2, <2>4, <3>1, <3>2 DEF Clean
  <2> QED BY <2>5, <2>6
<1>7. AckedPathsExisted'
  BY <1>1, <1>3, SyncAcksExisted, RequestWellFormed, SyncAcksType DEF IInv, AckedPathsExisted
<1> QED BY <1>4, <1>5, <1>6, <1>7 DEF IInv

-----------------------------------------------------------------------------
(***************************************************************************)
(* An operation that stops half way: the tree and the branch stay what     *)
(* they must be, and the next operation no longer starts from a clean one. *)
(***************************************************************************)
LEMMA StoppedKeepsIInv ==
  ASSUME IInv, TypeOK', faults' # 0, acks' = acks, Extends(commits, commits')
  PROVE  IInv'
<1>1. AckedPathsExisted'
  BY AcksKept DEF IInv, TypeOK
<1> QED BY <1>1 DEF IInv, WorkIsHead, NoMarkersCommitted

LEMMA SyncStopsKeepIInv ==
  ASSUME IInv, NEW d \in Devices, NEW req \in Requests, SyncStopsAt(d, req)
  PROVE  IInv'
  BY RequestWellFormed, SyncStopsTypes, StoppedKeepsIInv DEF IInv

LEMMA ClearPendingType ==
  ASSUME TypeOK, NEW paths
  PROVE  ClearPending(pending, paths) \in [Paths -> Owners]
  BY SMT DEF TypeOK, ClearPending, Owners

LEMMA ResolveStopsTypes ==
  ASSUME TypeOK, NEW files, \A p \in DOMAIN files : files[p] \in Files,
         ResolveStops(files)
  PROVE  TypeOK' /\ faults' # 0 /\ acks' = acks /\ Extends(commits, commits')
<1>1. work \in Trees /\ commits \in Seq(Trees)
  BY DEF TypeOK
<1>2. Stopped /\ acks' = acks /\ pending' \in [Paths -> Owners]
  BY DEF ResolveStops, TypeOK
<1>3. CASE /\ \E paths \in SUBSET DOMAIN files :
                work' = Overwritten(work, [p \in paths |-> files[p]])
           /\ UNCHANGED commits
  <2>1. PICK paths \in SUBSET DOMAIN files :
          work' = Overwritten(work, [p \in paths |-> files[p]])
    BY <1>3
  <2>2. work' \in Trees
    BY <1>1, <2>1, OverwrittenType
  <2>3. commits' \in Seq(Trees) /\ Extends(commits, commits')
    BY <1>1, <1>3 DEF Extends
  <2> QED BY <1>2, <2>2, <2>3, StoppedTypes
<1>4. CASE commits' = ResolveHistory(files) /\ work' = Overwritten(work, files)
  <2>1. Overwritten(work, files) \in Trees
    BY <1>1, OverwrittenType
  <2>2. commits' \in Seq(Trees) /\ Extends(commits, commits')
    BY ONLY <1>1, <1>4, <2>1, CommitExtends DEF ResolveHistory, Extends
  <2> QED BY <1>2, <1>4, <2>1, <2>2, StoppedTypes
<1> QED BY <1>3, <1>4 DEF ResolveStops

LEMMA ResolveStopsKeepsIInv ==
  ASSUME IInv, NEW files \in Changes, ResolveStops(files)
  PROVE  IInv'
  BY ChangesType, ResolveStopsTypes, StoppedKeepsIInv DEF IInv

(* A tablet writes files of the vault, without markers if it has none.     *)
LEMMA DavRequestsType ==
  ASSUME TypeOK, NEW files \in DavRequests
  PROVE  /\ \A p \in DOMAIN files : files[p] \in Files
         /\ Clean(work) => \A p \in DOMAIN files : files[p] # Markers
<1>0. work \in [Paths -> Files] /\ Absent \in Files /\ Absent # Markers /\ Uploads \subseteq Files
  BY ServerAssumption, TextAssumption DEF TypeOK, Trees, Files, Contents
<1>1. CASE \E p \in Paths, c \in Uploads \ {Markers} : files = DavPut(p, c)
  BY <1>0, <1>1 DEF DavPut
<1>2. CASE \E ps \in (SUBSET Present) \ {{}} : files = DavDelete(ps)
  BY <1>0, <1>2 DEF DavDelete
<1>3. CASE \E p \in Present, q \in Paths : files = DavCopy(p, q)
  BY <1>0, <1>3 DEF DavCopy, Present, Clean
<1>4. CASE \E p \in Present, q \in Paths : files = DavMove(p, q)
  BY <1>0, <1>4 DEF DavMove, Present, Clean
<1> QED BY <1>1, <1>2, <1>3, <1>4 DEF DavRequests

LEMMA DavStopsKeepsIInv ==
  ASSUME IInv, NEW files \in DavRequests, DavStops(files)
  PROVE  IInv'
<1>1. TypeOK /\ work \in Trees /\ commits \in Seq(Trees)
  BY DEF IInv, TypeOK
<1>2. work' \in Trees
  BY <1>1, DavRequestsType, OverwrittenType DEF DavStops
<1>3. pending' \in [Paths -> Owners]
  BY <1>1, ClearPendingType DEF DavStops, TypeOK
<1>4. commits' \in Seq(Trees) /\ Extends(commits, commits')
  BY <1>1 DEF DavStops, Extends
<1>5. TypeOK' /\ faults' # 0
  BY <1>1, <1>2, <1>3, <1>4, StoppedTypes DEF DavStops
<1> QED BY <1>4, <1>5, StoppedKeepsIInv DEF DavStops

-----------------------------------------------------------------------------
(* Every step.                                                             *)

LEMMA InitIInv == Init => IInv
<1> SUFFICES ASSUME Init PROVE IInv
  OBVIOUS
<1>1. TypeOK
  BY EmptyTreeType, ServerAssumption, SMT DEF Init, TypeOK, Owners
<1> QED BY <1>1 DEF Init, IInv, WorkIsHead, HeadTree, TreeAt, NoMarkersCommitted,
                    AckedPathsExisted

LEMMA NextKeepsIInv == IInv /\ [Next]_serverVars => IInv'
<1> SUFFICES ASSUME IInv, [Next]_serverVars PROVE IInv'
  OBVIOUS
<1>1. ASSUME NEW d \in Devices, Sync(d) PROVE IInv'
  BY <1>1, SyncKeepsIInv DEF Sync
<1>2. ASSUME NEW d \in Devices, Resolve(d) PROVE IInv'
  <2>1. PICK files \in Changes : HandleResolve(files)
    BY <1>2 DEF Resolve
  <2>2. /\ \A p \in DOMAIN files : files[p] \in Files
        /\ Markers \notin Uploads => \A p \in DOMAIN files : files[p] # Markers
    BY ChangesType, TextAssumption DEF Contents
  <2> QED BY <2>1, <2>2, OverwriteKeepsIInv DEF HandleResolve, ResolveHistory
<1>3. ASSUME NEW d \in Devices, SyncStops(d) PROVE IInv'
  BY <1>3, SyncStopsKeepIInv DEF SyncStops, SyncStopsAt
<1>4. ASSUME Dav PROVE IInv'
  <2>1. PICK files \in DavRequests : HandleDav(files)
    BY <1>4 DEF Dav
  <2>2. /\ \A p \in DOMAIN files : files[p] \in Files
        /\ Clean(work) => \A p \in DOMAIN files : files[p] # Markers
    BY DavRequestsType DEF IInv
  <2>3. faults = 0 /\ Markers \notin Uploads => Clean(work)
    BY WorkClean DEF IInv
  <2> QED BY <2>1, <2>2, <2>3, OverwriteKeepsIInv DEF HandleDav
<1>5. ASSUME ResolveStopping PROVE IInv'
  BY <1>5, ResolveStopsKeepsIInv DEF ResolveStopping
<1>6. ASSUME DavStopping PROVE IInv'
  BY <1>6, DavStopsKeepsIInv DEF DavStopping
<1>7. ASSUME UNCHANGED serverVars PROVE IInv'
  BY <1>7 DEF serverVars, IInv, TypeOK, WorkIsHead, NoMarkersCommitted,
              AckedPathsExisted, HeadTree, TreeAt, EmptyTree
<1> QED BY <1>1, <1>2, <1>3, <1>4, <1>5, <1>6, <1>7 DEF Next

(***************************************************************************)
(* The invariant holds in every reachable state of every vault.            *)
(***************************************************************************)
THEOREM ServerInvariant == Spec => []IInv
  BY InitIInv, NextKeepsIInv, PTL DEF Spec

(* The state keeps its types, whatever the clients ask for.                *)
THEOREM TypeCorrect == Spec => []TypeOK
<1>1. IInv => TypeOK
  BY DEF IInv
<1> QED BY <1>1, ServerInvariant, PTL

(* Operations that run to their end leave a clean working tree.            *)
THEOREM WorkStaysHead == Spec => []WorkIsHead
<1>1. IInv => WorkIsHead
  BY DEF IInv
<1> QED BY <1>1, ServerInvariant, PTL

(* Without an interrupted operation no commit carries conflict markers.    *)
THEOREM MarkersStayOut == Spec => []NoMarkersCommitted
<1>1. IInv => NoMarkersCommitted
  BY DEF IInv
<1> QED BY <1>1, ServerInvariant, PTL

(* Nothing is acknowledged that never was on the branch.                   *)
THEOREM AcksAreOfCommits == Spec => []AckedPathsExisted
<1>1. IInv => AckedPathsExisted
  BY DEF IInv
<1> QED BY <1>1, ServerInvariant, PTL

(***************************************************************************)
(* A pending path is refused in a sync, whose whole request is dropped     *)
(* then; a resolution or a WebDAV request for it ends its being pending.   *)
(***************************************************************************)
LEMMA StepFreezesPending ==
  ASSUME IInv, Next, NEW p \in Paths, faults' = faults, work = HeadTree(commits),
         pending[p] # NoOwner, pending'[p] # NoOwner
  PROVE  HeadTree(commits')[p] = HeadTree(commits)[p]
<1>0. TypeOK /\ faults # faults + 1
  BY SMT DEF IInv, TypeOK
<1>1. ASSUME NEW d \in Devices, NEW req \in Requests, HandleSync(d, req)
      PROVE  HeadTree(commits')[p] = HeadTree(commits)[p]
  <2> DEFINE before == CommitAllIfChanged(commits, work)
             tree   == Applied(d, req, before, DOMAIN req.changes)
  <2>1. before = commits /\ commits' = SyncHistory(d, req)
    BY <1>1, CleanHistory DEF HandleSync
  <2>2. CASE ClashesOf(d, req, before) # {}
    BY <1>0, <2>1, <2>2, RequestWellFormed, SyncHistoryFacts
  <2>3. CASE ClashesOf(d, req, before) = {}
    <3>1. HeadTree(commits') = tree
      BY <1>0, <2>1, <2>3, RequestWellFormed, SyncHistoryFacts
    <3>2. p \notin DOMAIN req.changes
      <4>1. ASSUME p \in DOMAIN req.changes
            PROVE  ChangeOutcome(d, req, before, p) = Clashed(HeadTree(before)[p])
        BY <1>0, <2>1, <4>1, RequestWellFormed, ChangeOutcomeFacts DEF TypeOK
      <4> QED BY <2>3, <4>1 DEF ClashesOf, Clashed
    <3> QED BY <2>1, <3>1, <3>2 DEF Applied
  <2> QED BY <2>2, <2>3
<1>2. ASSUME NEW files, \A q \in DOMAIN files : files[q] \in Files,
             commits' = CommitAllIfChanged(commits, Overwritten(work, files)),
             pending' = ClearPending(pending, DOMAIN files)
      PROVE  HeadTree(commits')[p] = HeadTree(commits)[p]
  <2>1. p \notin DOMAIN files
    BY <1>2 DEF ClearPending
  <2>2. commits \in Seq(Trees) /\ Overwritten(work, files) \in Trees
    BY <1>0, <1>2, OverwrittenType DEF TypeOK
  <2>3. HeadTree(commits') = Overwritten(work, files)
    BY <1>2, <2>2, CommitExtends
  <2> QED BY <2>1, <2>3 DEF Overwritten
<1>3. ASSUME NEW d \in Devices, Resolve(d)
      PROVE  HeadTree(commits')[p] = HeadTree(commits)[p]
  BY <1>2, <1>3, ChangesType DEF Resolve, HandleResolve, ResolveHistory
<1>4. ASSUME Dav PROVE HeadTree(commits')[p] = HeadTree(commits)[p]
  BY <1>0, <1>2, <1>4, DavRequestsType DEF Dav, HandleDav
<1>5. ASSUME NEW d \in Devices, SyncStops(d) PROVE FALSE
  BY <1>0, <1>5 DEF SyncStops, SyncStopsApplying, SyncStopsBeforeCleanup,
                    SyncStopsAfterApplying, Stopped
<1>6. ASSUME ResolveStopping \/ DavStopping PROVE FALSE
  BY <1>0, <1>6 DEF ResolveStopping, ResolveStops, DavStopping, DavStops, Stopped
<1> QED BY <1>1, <1>3, <1>4, <1>5, <1>6 DEF Next, Sync

(* What a device is resolving is still what the server has.                *)
THEOREM PendingStaysFrozen == Spec => PendingFrozen
<1>1. IInv /\ [Next]_serverVars
        => [\A p \in Paths :
              /\ faults' = faults /\ work = HeadTree(commits)
              /\ pending[p] # NoOwner /\ pending'[p] # NoOwner
              => HeadTree(commits')[p] = HeadTree(commits)[p]]_serverVars
  BY StepFreezesPending
<1> QED BY <1>1, ServerInvariant, PTL DEF Spec, PendingFrozen
=============================================================================
