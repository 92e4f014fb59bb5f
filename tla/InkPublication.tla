--------------------------- MODULE InkPublication ---------------------------
(***************************************************************************)
(* Publication of InkVault notes (vault/inkvault.rs) in a vault without a  *)
(* remote: every operation holds the vault's lock and first rolls a        *)
(* journalled publication forward; the server may crash between any two    *)
(* writes to its disk.  What is on the disk survives; the operation does   *)
(* not.  A step that returns an error leaves the same state as a crash.    *)
(*                                                                         *)
(* Commits are positions on the branch, which only this server extends.    *)
(* Documentation: docs/INKVAULT_NOTES_V1.md, "Publication and recovery".   *)
(***************************************************************************)
EXTENDS Integers, Sequences, FiniteSets

CONSTANTS
  Notes, PdfPaths, Inks, Scans, Annotated, MaxRevision, Absent, \* see InkPairs
  NoJournal,   \* inkvault-publication.json does not exist
  NoRequest,   \* the running operation is not about a managed note
  FirstLedger, \* the vault's first commit
  Uploading,   \* whether requests name uploads, carry the files, or either
  MaxCommits,  \* bound: nothing is accepted once the branch is this long
  MaxCrashes   \* bound: crashes of the server

VARIABLES
  commits,   \* the ledgers on the branch, oldest first
  work,      \* the ledger in the working tree
  journal,   \* inkvault-publication.json
  status,    \* inkvault-render.json
  staged,    \* whether the uploads the request names are still there
  step,      \* where the operation that holds the lock is
  request,   \* what it was asked
  published, \* whether it wrote the journal itself
  crashes    \* how often the server crashed

disk == <<commits, work, journal, status, staged>>
task == <<step, request, published>>
vars == <<disk, task, crashes>>

Pairs == INSTANCE InkPairs WITH branch <- commits

Tip == Pairs!HeadLedger(commits)

ASSUME PublicationAssumption ==
  /\ FirstLedger \in Pairs!Ledgers /\ Pairs!Whole(FirstLedger)
  /\ Absent \notin Pairs!Sources \cup Scans
  /\ Scans \cap Pairs!Sources = {}
  /\ Annotated \subseteq Scans \cup Pairs!Plain
  /\ NoJournal \notin [old : Nat, next : Pairs!Ledgers]
  /\ Uploading \subseteq BOOLEAN
  /\ {MaxCommits, MaxCrashes} \subseteq Nat

Steps == {"idle", "ref", "ledger", "status", "clean", "run", "decide",
          "render", "journal", "answer", "commit"}

(* new is the package the request leaves behind, Absent to delete it.  A   *)
(* resolution names the head its user was shown.                           *)
Requests ==
  [note : Notes, new : Pairs!Sources \cup {Absent}, base : 0..Len(commits),
   resolving : BOOLEAN, uploaded : Uploading]

-----------------------------------------------------------------------------
(***************************************************************************)
(* What the server makes of a request.                                     *)
(***************************************************************************)
Note     == request.note
New      == request.new
Old      == work.source[Note]
Base     == Pairs!LedgerAt(commits, request.base)
Deleting == New = Absent

(* The manifest that names the PDF: the new one, or for a deletion the     *)
(* one there is, or was at the device's base.                              *)
Source == IF ~Deleting THEN New ELSE IF Old # Absent THEN Old ELSE Base.source[Note]

(* The PDF a publication replaces: the note's own, or the annotated one    *)
(* when a first publication moves it.                                      *)
OldPdf ==
  IF Old # Absent THEN {Old.pdf}
  ELSE IF Source.over # Absent THEN {Source.over.path} ELSE {}

PairPaths == {Source.pdf} \cup OldPdf

(* A document created and deleted before any of it reached the server.     *)
NeverPublished == Deleting /\ Old = Absent /\ Base.source[Note] = Absent

(* Mutant: a replay is recognised by its revision alone.                   *)
ReplayedByRevision ==
  ~Deleting /\ Old # Absent /\ New.revision = Old.revision

Replayed ==
  IF Deleting THEN Old = Absent /\ \A p \in PairPaths : work.pdf[p] = Absent
  ELSE New = Old

(* Mutant: the base of a request is not looked at.                         *)
NeverStale == FALSE

Stale ==
  \/ Old # Base.source[Note]
  \/ \E p \in PairPaths : work.pdf[p] # Base.pdf[p]

(* Mutant: the PDFs of the other notes are not looked at.                  *)
AnyPdf == TRUE

(* No other note owns the PDF, nor the PDF that is annotated.              *)
PdfIsFree ==
  \A m \in Notes \ {Note} :
    /\ ~Pairs!Owns(work, m, Source.pdf)
    /\ Old = Absent /\ Source.over # Absent
         => ~Pairs!Owns(work, m, Source.over.path)

(* Mutant: the PDF is written over whatever is there.                      *)
PublishableOverFiles ==
  ~Deleting /\ Old # Absent
    => New.revision > Old.revision /\ New.over \in {Old.over, Absent}

(* A move does not overwrite a file, a new PDF neither.  An annotated PDF  *)
(* is the committed one; an update may leave it out, but not name another. *)
Publishable ==
  /\ OldPdf # {Source.pdf} => work.pdf[Source.pdf] = Absent
  /\ ~Deleting /\ Old # Absent
       => New.revision > Old.revision /\ New.over \in {Old.over, Absent}
  /\ ~Deleting /\ Old = Absent /\ New.over # Absent
       => /\ work.pdf[New.over.path] = New.over.pdf
          /\ \E k \in 1..Len(commits) : commits[k].pdf[New.over.path] = New.over.pdf

(* Mutant: the new ledger is not a copy of the current one.                *)
PairAlone ==
  [source |-> [work.source EXCEPT ![Note] = New],
   pdf    |-> [p \in PairPaths |-> IF ~Deleting /\ p = New.pdf THEN New ELSE Absent]]

NextLedger ==
  [source |-> [work.source EXCEPT ![Note] = New],
   pdf    |-> [p \in PdfPaths |->
                 IF ~Deleting /\ p = New.pdf THEN New
                 ELSE IF p \in PairPaths THEN Absent ELSE work.pdf[p]]]

-----------------------------------------------------------------------------
Goto(s) == step' = s /\ UNCHANGED <<request, published>>
End     == step' = "idle" /\ request' = NoRequest /\ published' = FALSE

(* Mutant: the operation starts without recovering the vault.              *)
BeginWithoutRecovery(r) ==
  /\ step = "idle"
  /\ step' = "run"
  /\ request' = r
  /\ staged' \in {FALSE, r # NoRequest /\ r.uploaded}
  /\ UNCHANGED <<commits, work, journal, status, published, crashes>>

(* with_lock: recovery comes before the operation itself.  A retry may     *)
(* name uploads that an earlier request used up.                           *)
Begin(r) ==
  /\ step = "idle"
  /\ step' = IF journal = NoJournal THEN "run" ELSE "ref"
  /\ request' = r
  /\ staged' \in {FALSE, r # NoRequest /\ r.uploaded}
  /\ UNCHANGED <<commits, work, journal, status, published, crashes>>

(***************************************************************************)
(* recover_inkvault, which also ends every publication.  Any other head is *)
(* an error, of this operation and of every later one.                     *)
(***************************************************************************)
HeadFitsJournal ==
  \/ Len(commits) = journal.old
  \/ Len(commits) = journal.old + 1 /\ Tip = journal.next

(* Mutant: recovery only knows a ref that has not moved yet.               *)
MoveRefOnce ==
  /\ step = "ref" /\ Len(commits) = journal.old
  /\ commits' = Append(commits, journal.next)
  /\ Goto("ledger")
  /\ UNCHANGED <<work, journal, status, staged, crashes>>

MoveRef ==
  /\ step = "ref" /\ HeadFitsJournal
  /\ commits' = IF Len(commits) = journal.old THEN Append(commits, journal.next)
                ELSE commits
  /\ Goto("ledger")
  /\ UNCHANGED <<work, journal, status, staged, crashes>>

WriteLedger ==
  /\ step = "ledger"
  /\ work' = journal.next
  /\ Goto("status")
  /\ UNCHANGED <<commits, journal, status, staged, crashes>>

SetReady ==
  /\ step = "status"
  /\ status' = "ready"
  /\ Goto("clean")
  /\ UNCHANGED <<commits, work, journal, staged, crashes>>

RemoveJournal ==
  /\ step = "clean"
  /\ journal' = NoJournal
  /\ Goto(IF published THEN "answer" ELSE "run")
  /\ UNCHANGED <<commits, work, status, staged, crashes>>

Recover == MoveRef \/ WriteLedger \/ SetReady \/ RemoveJournal

-----------------------------------------------------------------------------
(***************************************************************************)
(* sync_inkvault_locked, for a request about a note.                       *)
(***************************************************************************)
OutdatedResolution == request.resolving /\ (request.base = 0 \/ request.base # Len(commits))

UploadMissing == request.uploaded /\ ~staged

(* Uploads are used up when they are read, whatever becomes of the request. *)
ReadRequest ==
  /\ step = "run" /\ request # NoRequest
  /\ ~OutdatedResolution /\ ~UploadMissing
  /\ staged' = FALSE
  /\ Goto("decide")
  /\ UNCHANGED <<commits, work, journal, status, crashes>>

(* Refused or a conflict: any package may fail its validation.             *)
Refuse ==
  /\ request # NoRequest
  /\ \/ step = "run" /\ (OutdatedResolution \/ UploadMissing)
     \/ step = "decide" /\ ~NeverPublished
  /\ End
  /\ UNCHANGED <<disk, crashes>>

AnswerAtOnce ==
  /\ step = "decide"
  /\ ~NeverPublished => PdfIsFree /\ Replayed
  /\ Goto("answer")
  /\ UNCHANGED <<disk, crashes>>

Accept ==
  /\ step = "decide" /\ Len(commits) < MaxCommits
  /\ ~NeverPublished
  /\ PdfIsFree /\ ~Replayed /\ ~Stale /\ Publishable
  /\ IF Deleting THEN Goto("journal") /\ UNCHANGED status
     ELSE Goto("render") /\ status' = "pending"
  /\ UNCHANGED <<commits, work, journal, staged, crashes>>

Rendered ==
  /\ step = "render"
  /\ Goto("journal")
  /\ UNCHANGED <<disk, crashes>>

RenderFails ==
  /\ step = "render"
  /\ status' = "failed"
  /\ End
  /\ UNCHANGED <<commits, work, journal, staged, crashes>>

(* publish_inkvault: the commit object is written before the journal, and  *)
(* is not on the branch yet.                                               *)
WriteJournal ==
  /\ step = "journal"
  /\ journal' = [old |-> Len(commits), next |-> NextLedger]
  /\ step' = "ref" /\ published' = TRUE
  /\ UNCHANGED <<request, commits, work, status, staged, crashes>>

Acknowledge ==
  /\ step = "answer"
  /\ End
  /\ UNCHANGED <<disk, crashes>>

-----------------------------------------------------------------------------
(***************************************************************************)
(* Every other operation that writes (sync, resolve, WebDAV), behind       *)
(* guard_inkvault_paths.  A sync first commits what an interrupted         *)
(* operation left in the working tree.                                     *)
(***************************************************************************)
CommitAllIfChanged(history, ledger) ==
  IF ledger = Pairs!HeadLedger(history) THEN history ELSE Append(history, ledger)

Unmanaged == {p \in PdfPaths : ~Pairs!Managed(work, p)}

OrdinaryWrites(files) ==
  /\ step = "run" /\ request = NoRequest /\ Len(commits) < MaxCommits
  /\ commits' \in {commits, CommitAllIfChanged(commits, work)}
  /\ work' = [work EXCEPT !.pdf =
                [p \in PdfPaths |-> IF p \in DOMAIN files THEN files[p] ELSE @[p]]]
  /\ Goto("commit")
  /\ UNCHANGED <<journal, status, staged, crashes>>

OrdinaryCommits ==
  /\ step = "commit"
  /\ commits' = CommitAllIfChanged(commits, work)
  /\ End
  /\ UNCHANGED <<work, journal, status, staged, crashes>>

(* Refused by the guard, or a conflict, or nothing to write.               *)
OrdinaryEnds ==
  /\ step = "run" /\ request = NoRequest
  /\ commits' \in {commits, CommitAllIfChanged(commits, work)}
  /\ End
  /\ UNCHANGED <<work, journal, status, staged, crashes>>

-----------------------------------------------------------------------------
Crash ==
  /\ step # "idle" /\ crashes < MaxCrashes
  /\ crashes' = crashes + 1
  /\ End
  /\ UNCHANGED disk

Init ==
  /\ commits = <<FirstLedger>>
  /\ work = FirstLedger
  /\ journal = NoJournal
  /\ status = "none"
  /\ staged = FALSE
  /\ step = "idle" /\ request = NoRequest /\ published = FALSE
  /\ crashes = 0

Call  == \E r \in Requests \cup {NoRequest} : Begin(r)
Serve ==
  \/ ReadRequest \/ Refuse \/ AnswerAtOnce \/ Accept
  \/ Rendered \/ RenderFails \/ WriteJournal \/ Acknowledge
  \/ \E S \in SUBSET Unmanaged : \E files \in [S -> Scans \cup {Absent}] : OrdinaryWrites(files)
  \/ OrdinaryCommits \/ OrdinaryEnds

Next == Call \/ Recover \/ Serve \/ Crash

(* Devices keep synchronising on a timer, and an operation that holds the  *)
(* lock goes on.                                                           *)
Spec     == Init /\ [][Next]_vars
FairSpec == Spec /\ WF_vars(Call) /\ WF_vars(Recover) /\ WF_vars(Serve)

-----------------------------------------------------------------------------
InkTypeOK ==
  /\ commits \in Seq(Pairs!Ledgers)
  /\ work \in Pairs!Ledgers
  /\ journal \in [old : Nat, next : Pairs!Ledgers] \cup {NoJournal}
  /\ status \in {"none", "pending", "failed", "ready"}
  /\ staged \in BOOLEAN
  /\ step \in Steps
  /\ request \in Requests \cup {NoRequest}
  /\ published \in BOOLEAN
  /\ crashes \in 0..MaxCrashes

(***************************************************************************)
(* Recovery always finds the head the journal expects, before the ref was  *)
(* moved or after: no crash wedges a vault for good.                       *)
(***************************************************************************)
JournalFitsBranch == journal # NoJournal => HeadFitsJournal

(***************************************************************************)
(* Every commit holds whole pairs and changes one note at most, whatever   *)
(* crashes: publication implements the atomic one of InkPairs.             *)
(***************************************************************************)
PublishesAtomically == Pairs!Spec

(***************************************************************************)
(* An operation that accepts a request leaves the note as requested, on    *)
(* the branch and in the working tree, with nothing left to recover.       *)
(***************************************************************************)
AnsweredIsDurable ==
  step = "answer" =>
    /\ journal = NoJournal
    /\ Tip.source[Note] = New /\ work.source[Note] = New

(***************************************************************************)
(* No lost update: the note a publication or a deletion replaces is the    *)
(* one its device had at its base.                                         *)
(***************************************************************************)
PublishesOverBase ==
  [][WriteJournal => Tip.source[Note] = Base.source[Note]]_vars

(***************************************************************************)
(* Publishing a note takes no PDF out of the vault that was neither its    *)
(* own nor the one it annotates.                                           *)
(***************************************************************************)
Annotates(ledger, p, scan) ==
  \E n \in Notes : /\ ledger.source[n] # Absent
                   /\ ledger.source[n].over = [path |-> p, pdf |-> scan]

OtherPdfsKept ==
  [][MoveRef => \A p \in PdfPaths :
       /\ Tip.pdf[p] \in Scans /\ work.pdf[p] = Tip.pdf[p]
       => \/ Tip'.pdf[p] = Tip.pdf[p]
          \/ Annotates(journal.next, p, Tip.pdf[p])]_vars

(***************************************************************************)
(* A journalled publication is rolled forward in the end: once operations  *)
(* keep coming, the vault is always recovered.                             *)
(***************************************************************************)
JournalRollsForward ==
  journal # NoJournal ~> (journal = NoJournal /\ work = Tip)

(***************************************************************************)
(* docs/INKVAULT_NOTES_V1.md: when a render fails, completed upload        *)
(* objects remain available for retry.                                     *)
(***************************************************************************)
FailedRenderKeepsUpload ==
  [][RenderFails /\ request.uploaded => staged']_vars

(***************************************************************************)
(* docs/INKVAULT_NOTES_V1.md: the base of an annotated note stays fixed.   *)
(* This does not hold: the base is compared only if the new manifest names *)
(* one (inkvault.rs:414), so an update without basePdfHash is published,   *)
(* and the PDF is rendered again without the original below the ink.       *)
(***************************************************************************)
BaseStaysFixed ==
  [][MoveRef => \A n \in Notes :
       Absent \notin {Tip.source[n], Tip'.source[n]}
       => Tip'.source[n].over = Tip.source[n].over]_vars
=============================================================================
