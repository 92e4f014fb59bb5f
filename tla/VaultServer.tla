----------------------------- MODULE VaultServer -----------------------------
(***************************************************************************)
(* One vault of the sync server, kept in a repository without a remote:    *)
(* the operations `VaultService` runs under the vault's lock, each with    *)
(* the points at which an error or a crash may leave it half done.         *)
(*                                                                         *)
(* The branch is linear, so a commit is its position in `commits`; the     *)
(* binary manifest is committed with the tree it describes, so one tree    *)
(* holds text and binary files alike.  A request's changes are a function  *)
(* from the paths it touches to the file it leaves there (Absent deletes). *)
(***************************************************************************)
EXTENDS VaultText, Sequences, FiniteSets

CONSTANTS
  Devices,     \* the clientIds of the plugin's installations
  Paths,       \* the paths of the vault
  TextPaths,   \* the paths merged as text; the rest go to the binary store
  NoOwner,     \* the path has no pending conflict
  Uploads,     \* the files a request may carry
  Manifests,   \* the client manifests a request may carry
  MaxCommits,  \* bound: no operation starts once the branch is this long
  MaxFaults    \* bound: operations that stop half way

ASSUME ServerAssumption ==
  /\ TextPaths \subseteq Paths
  /\ NoOwner \notin Devices
  /\ Uploads \subseteq Contents
  /\ Manifests \subseteq [Paths -> Files]
  /\ MaxCommits \in Nat /\ MaxFaults \in Nat

VARIABLES
  commits,     \* the trees committed to the branch, oldest first
  work,        \* the working tree, with the working binary manifest
  pending,     \* pending-conflicts.json: path -> the device that must resolve it
  acks,        \* devices.json: device -> the paths it has an acknowledgement for
  faults       \* how many operations stopped half way

serverVars == <<commits, work, pending, acks, faults>>

Trees     == [Paths -> Files]
EmptyTree == [p \in Paths |-> Absent]
Owners    == Devices \cup {NoOwner}

Changes   == {ch \in UNION {[S -> Uploads \cup {Absent}] : S \in SUBSET Paths} :
                \A p \in DOMAIN ch \ TextPaths : ch[p] # Markers}
Requests  == [base : 0..Len(commits), changes : Changes, manifest : Manifests]

(* Commit 0 is the unborn branch: `None` where the code has an Option.     *)
TreeAt(history, n) == IF n \in 1..Len(history) THEN history[n] ELSE EmptyTree
HeadTree(history)  == TreeAt(history, Len(history))

CommitAllIfChanged(history, tree) ==
  IF tree = HeadTree(history) THEN history ELSE Append(history, tree)

PendingFor(owners, d) == {p \in Paths : owners[p] = d}

(* Mutant: pending conflicts are not looked at.                            *)
EveryPath(owners)     == Paths

Unowned(owners)       == {p \in Paths : owners[p] = NoOwner}

-----------------------------------------------------------------------------
(***************************************************************************)
(* apply_client_changes.  `history` is the branch once the server's own    *)
(* pending changes are committed.                                          *)
(***************************************************************************)
ChangeOutcome(d, req, history, p) ==
  LET current  == HeadTree(history)[p]
      baseFile == TreeAt(history, req.base)[p]
      new      == req.changes[p]
  IN IF p \notin Unowned(pending) THEN Clashed(current)
     ELSE IF p \notin TextPaths
     THEN BinaryChange(req.base # 0, baseFile, current, new)
     ELSE IF new = Absent THEN TextDelete(baseFile, current)
     ELSE TextUpsert(baseFile, p \in acks[d], current, new)

ClashesOf(d, req, history) ==
  {p \in DOMAIN req.changes : ChangeOutcome(d, req, history, p).clash}

(* The working tree once the changes at `paths` have been applied to it.   *)
Applied(d, req, history, paths) ==
  [p \in Paths |-> IF p \in paths
                   THEN ChangeOutcome(d, req, history, p).content
                   ELSE HeadTree(history)[p]]

(* Mutant: the last device to clash takes the conflict over.               *)
TakeOver(owners, d, paths) ==
  [p \in Paths |-> IF p \in paths THEN d ELSE owners[p]]

RecordPending(owners, d, paths) ==
  [p \in Paths |-> IF p \in paths /\ owners[p] = NoOwner THEN d ELSE owners[p]]

ClearPending(owners, paths) ==
  [p \in Paths |-> IF p \in paths THEN NoOwner ELSE owners[p]]

-----------------------------------------------------------------------------
(***************************************************************************)
(* What an answer carries: the status, the head the device is told, the    *)
(* files it must put on its disk and the paths reported as conflicts.      *)
(***************************************************************************)

(* Mutant: the head is off by one.                                         *)
AnswerOneAhead(status, head, files, conflicts) ==
  [status |-> status, head |-> head + 1, files |-> files, conflicts |-> conflicts]

Answer(status, head, files, conflicts) ==
  [status |-> status, head |-> head, files |-> files, conflicts |-> conflicts]

(* Mutant: the diff leaves deletions out.                                  *)
ChangedWithoutDeletions(history, base, manifest) ==
  LET head == HeadTree(history)
  IN [p \in {q \in Paths : head[q] # Absent /\ head[q] # TreeAt(history, base)[q]} |-> head[p]]

(* changed_files_since: the diff from the device's base; without a base,   *)
(* everything the server holds that the device did not list, and so never  *)
(* a deletion.                                                             *)
ChangedFilesSince(history, base, manifest) ==
  LET head    == HeadTree(history)
      changed == IF base = 0
                 THEN {p \in Paths : head[p] # Absent /\ manifest[p] # head[p]}
                 ELSE {p \in Paths : head[p] # TreeAt(history, base)[p]}
  IN [p \in changed |-> head[p]]

(* conflict_response: the text conflicts found by this very request, read  *)
(* from the working tree before it is cleaned up.                          *)
ConflictFiles(d, req, history) ==
  [p \in ClashesOf(d, req, history) \cap TextPaths \cap Unowned(pending) |->
     ChangeOutcome(d, req, history, p).content]

(***************************************************************************)
(* sync_with_sources                                                       *)
(***************************************************************************)

(* Mutant: the changes are committed with their conflicts.                 *)
CommitDespiteClashes(d, req) ==
  LET history == CommitAllIfChanged(commits, work) IN
  CommitAllIfChanged(history, Applied(d, req, history, DOMAIN req.changes))

SyncHistory(d, req) ==
  LET history == CommitAllIfChanged(commits, work) IN
  IF ClashesOf(d, req, history) # {} THEN history
  ELSE CommitAllIfChanged(history, Applied(d, req, history, DOMAIN req.changes))

SyncAnswer(d, req) ==
  LET history == CommitAllIfChanged(commits, work)
      clashes == ClashesOf(d, req, history)
      after   == SyncHistory(d, req)
      mine    == PendingFor(pending, d)
  IN IF clashes # {}
     THEN Answer("conflict", Len(after), ConflictFiles(d, req, history), clashes)
     ELSE IF mine # {} THEN Answer("conflict", Len(after), <<>>, mine)
     ELSE Answer("ok", Len(after),
                 ChangedFilesSince(after, req.base, req.manifest), {})

(* The acknowledgements an answer adds: the device's own changes and the   *)
(* files it is sent.                                                       *)
DeletedIn(files) == {p \in DOMAIN files : files[p] = Absent}

(* Mutant: a deletion is acknowledged like an upload.                      *)
AckDeletions(d, req) ==
  LET answer == SyncAnswer(d, req) IN
  IF answer.status = "ok" /\ answer.head # 0
  THEN [acks EXCEPT ![d] = @ \cup DOMAIN req.changes \cup DOMAIN answer.files]
  ELSE acks

SyncAcks(d, req) ==
  LET answer == SyncAnswer(d, req) IN
  IF answer.status = "ok" /\ answer.head # 0
  THEN [acks EXCEPT ![d] =
          (@ \cup DOMAIN req.changes \cup DOMAIN answer.files)
             \ (DeletedIn(req.changes) \cup DeletedIn(answer.files))]
  ELSE acks

(* Mutant: the working tree is not cleaned up after a conflict.            *)
SyncWithoutCleanup(d, req) ==
  LET history == CommitAllIfChanged(commits, work) IN
  /\ Len(commits) < MaxCommits
  /\ commits' = SyncHistory(d, req)
  /\ work' = Applied(d, req, history, DOMAIN req.changes)
  /\ pending' = RecordPending(pending, d, ClashesOf(d, req, history))
  /\ acks' = SyncAcks(d, req)
  /\ UNCHANGED faults

HandleSync(d, req) ==
  /\ Len(commits) < MaxCommits
  /\ commits' = SyncHistory(d, req)
  /\ work' = HeadTree(commits')
  /\ pending' = RecordPending(pending, d,
                  ClashesOf(d, req, CommitAllIfChanged(commits, work)))
  /\ acks' = SyncAcks(d, req)
  /\ UNCHANGED faults

(***************************************************************************)
(* An error or a crash inside the handler.  Nothing is undone: the next    *)
(* operation finds the working tree as it was left.                        *)
(*  - while the changes are applied: some texts are written, the binary    *)
(*    manifest (written once, at the end) is not;                          *)
(*  - with a conflict on the disk, before the clean-up;                    *)
(*  - with everything applied, before the commit or before devices.json.   *)
(***************************************************************************)
Stopped ==
  /\ faults < MaxFaults /\ Len(commits) < MaxCommits
  /\ faults' = faults + 1

SyncStopsApplying(d, req) ==
  LET history == CommitAllIfChanged(commits, work) IN
  /\ Stopped
  /\ commits' = history
  /\ \E paths \in SUBSET (DOMAIN req.changes \cap TextPaths) :
       work' = Applied(d, req, history, paths)
  /\ UNCHANGED <<pending, acks>>

SyncStopsBeforeCleanup(d, req) ==
  LET history == CommitAllIfChanged(commits, work)
      clashes == ClashesOf(d, req, history)
  IN /\ Stopped
     /\ clashes # {}
     /\ commits' = history
     /\ work' = Applied(d, req, history, DOMAIN req.changes)
     /\ pending' \in {pending, RecordPending(pending, d, clashes)}
     /\ UNCHANGED acks

SyncStopsAfterApplying(d, req) ==
  LET history == CommitAllIfChanged(commits, work) IN
  /\ Stopped
  /\ ClashesOf(d, req, history) = {}
  /\ commits' \in {history, SyncHistory(d, req)}
  /\ work' = Applied(d, req, history, DOMAIN req.changes)
  /\ UNCHANGED <<pending, acks>>

-----------------------------------------------------------------------------
(***************************************************************************)
(* resolve_with_sources: the chosen contents replace the files whatever    *)
(* the server holds, then every file of the vault is sent back, but for    *)
(* those the device still has to resolve.                                  *)
(***************************************************************************)

(* Mutant: the files are taken for the whole tree.                         *)
FilesAlone(tree, files) == files

Overwritten(tree, files) ==
  [p \in Paths |-> IF p \in DOMAIN files THEN files[p] ELSE tree[p]]

ResolveHistory(files) == CommitAllIfChanged(commits, Overwritten(work, files))

(* Mutant: the files the device still has to resolve are sent as well.     *)
ResolveAnswerWithPending(d, files) ==
  LET after == ResolveHistory(files)
  IN Answer("ok", Len(after), ChangedFilesSince(after, 0, EmptyTree), {})

ResolveAnswer(d, files) ==
  LET after == ResolveHistory(files)
      all   == ChangedFilesSince(after, 0, EmptyTree)
      mine  == PendingFor(ClearPending(pending, DOMAIN files), d)
  IN Answer("ok", Len(after), [p \in DOMAIN all \ mine |-> all[p]], {})

HandleResolve(files) ==
  /\ Len(commits) < MaxCommits
  /\ commits' = ResolveHistory(files)
  /\ work' = Overwritten(work, files)
  /\ pending' = ClearPending(pending, DOMAIN files)
  /\ UNCHANGED <<acks, faults>>

(* A resolve that stops: some files are written, or all are committed but  *)
(* still pending.                                                          *)
ResolveStops(files) ==
  /\ Stopped
  /\ \/ /\ \E paths \in SUBSET DOMAIN files :
             work' = Overwritten(work, [p \in paths |-> files[p]])
        /\ UNCHANGED commits
     \/ /\ commits' = ResolveHistory(files)
        /\ work' = Overwritten(work, files)
  /\ UNCHANGED <<pending, acks>>

-----------------------------------------------------------------------------
(***************************************************************************)
(* WebDAV (vault/dav.rs): the last write wins, a pending conflict on a     *)
(* path it writes or deletes is dropped.  `files` is what the operation    *)
(* leaves at the paths it touches.                                         *)
(***************************************************************************)
DavPut(p, c)  == [q \in {p} |-> c]
DavDelete(ps) == [q \in ps |-> Absent]
DavCopy(from, to) == [q \in {to} |-> work[from]]
DavMove(from, to) ==
  [q \in {from, to} |-> IF q = to THEN work[from] ELSE Absent]

(* What a tablet may ask for: a PUT, a DELETE of a file or of a directory  *)
(* with everything below it, a COPY or a MOVE of a file.                   *)
Present     == {p \in Paths : work[p] # Absent}
DavRequests ==
  {DavPut(p, c) : p \in Paths, c \in Uploads \ {Markers}}
    \cup {DavDelete(ps) : ps \in (SUBSET Present) \ {{}}}
    \cup {DavCopy(ft[1], ft[2]) :
             ft \in {pq \in Present \X Paths : pq[1] # pq[2]}}
    \cup {DavMove(ft[1], ft[2]) :
             ft \in {pq \in Present \X Paths : pq[1] # pq[2]}}

HandleDav(files) ==
  /\ Len(commits) < MaxCommits
  /\ work' = Overwritten(work, files)
  /\ commits' = CommitAllIfChanged(commits, Overwritten(work, files))
  /\ pending' = ClearPending(pending, DOMAIN files)
  /\ UNCHANGED <<acks, faults>>

(* A WebDAV operation that stops before its commit: the pending conflicts  *)
(* are dropped between the write and the commit.                           *)
DavStops(files) ==
  /\ Stopped
  /\ work' = Overwritten(work, files)
  /\ pending' \in {pending, ClearPending(pending, DOMAIN files)}
  /\ UNCHANGED <<commits, acks>>

-----------------------------------------------------------------------------
(***************************************************************************)
(* The server among clients that may ask for anything.                     *)
(***************************************************************************)
Init ==
  /\ commits = <<>>
  /\ work = EmptyTree
  /\ pending = [p \in Paths |-> NoOwner]
  /\ acks = [d \in Devices |-> {}]
  /\ faults = 0

Sync(d)    == \E req \in Requests : HandleSync(d, req)
Resolve(d) == \E files \in Changes : DOMAIN files # {} /\ HandleResolve(files)
Dav        == \E files \in DavRequests : HandleDav(files)

SyncStops(d) ==
  \E req \in Requests : \/ SyncStopsApplying(d, req)
                        \/ SyncStopsBeforeCleanup(d, req)
                        \/ SyncStopsAfterApplying(d, req)

ResolveStopping == \E files \in Changes : ResolveStops(files)
DavStopping     == \E files \in DavRequests : DavStops(files)

Next ==
  \/ \E d \in Devices : Sync(d) \/ Resolve(d) \/ SyncStops(d)
  \/ Dav \/ ResolveStopping \/ DavStopping

Spec == Init /\ [][Next]_serverVars

TypeOK ==
  /\ commits \in Seq(Trees)
  /\ work \in Trees
  /\ pending \in [Paths -> Owners]
  /\ acks \in [Devices -> SUBSET Paths]
  /\ faults \in 0..MaxFaults

(***************************************************************************)
(* A path with a pending conflict is frozen: no operation that runs to its *)
(* end on a clean working tree commits another content for it and leaves   *)
(* it pending.  What the device is resolving is still what the server has. *)
(***************************************************************************)
PendingFrozen ==
  [][\A p \in Paths :
       /\ faults' = faults /\ work = HeadTree(commits)
       /\ pending[p] # NoOwner /\ pending'[p] # NoOwner
       => HeadTree(commits')[p] = HeadTree(commits)[p]]_serverVars

(***************************************************************************)
(* Operations that run to their end leave a working tree without changes   *)
(* for the next one to commit in the name of the server: a conflict is     *)
(* cleaned up completely, an accepted request committed completely.        *)
(***************************************************************************)
WorkIsHead == faults = 0 => work = HeadTree(commits)

(***************************************************************************)
(* The server never commits conflict markers of its own making: they are   *)
(* written to the working tree, sent to the device and cleaned up.  Only   *)
(* an interrupted operation can leave them for the next commit.            *)
(***************************************************************************)
NoMarkersCommitted ==
  faults = 0 /\ Markers \notin Uploads
    => \A n \in 1..Len(commits) : \A p \in Paths : commits[n][p] # Markers

(***************************************************************************)
(* A per-path acknowledgement is only ever held for a path that some       *)
(* commit had: `apply_text_upsert` takes it for a proof that the device    *)
(* may have seen the file it is uploading over a deleted path.             *)
(***************************************************************************)
AckedPathsExisted ==
  \A d \in Devices : \A p \in acks[d] :
    \E n \in 1..Len(commits) : commits[n][p] # Absent
=============================================================================
