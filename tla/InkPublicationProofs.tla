------------------------ MODULE InkPublicationProofs ------------------------
(***************************************************************************)
(* InkPublication keeps its promises for every number of notes and paths,  *)
(* any length of the branch and any number of crashes.                     *)
(***************************************************************************)
EXTENDS InkPublication, TLAPS

Branches == Seq(Pairs!Ledgers)

-----------------------------------------------------------------------------
(* Ledgers and branches.                                                   *)

LEMMA LedgerAtType ==
  ASSUME NEW history \in Branches, NEW k
  PROVE  /\ Pairs!LedgerAt(history, k) \in Pairs!Ledgers
         /\ Pairs!HeadLedger(history) \in Pairs!Ledgers
<1>1. Pairs!EmptyLedger \in Pairs!Ledgers
  BY DEF Pairs!EmptyLedger, Pairs!Ledgers, Pairs!Pdfs
<1>2. \A i \in 1..Len(history) : history[i] \in Pairs!Ledgers
  BY DEF Branches
<1> QED BY <1>1, <1>2 DEF Pairs!LedgerAt, Pairs!HeadLedger

LEMMA AppendLedger ==
  ASSUME NEW history \in Branches, NEW ledger \in Pairs!Ledgers
  PROVE  /\ Append(history, ledger) \in Branches
         /\ Len(Append(history, ledger)) = Len(history) + 1
         /\ Pairs!HeadLedger(Append(history, ledger)) = ledger
         /\ \A k \in 0..Len(history) :
              Pairs!LedgerAt(Append(history, ledger), k) = Pairs!LedgerAt(history, k)
         /\ \A k \in 1..Len(history) + 1 :
              Append(history, ledger)[k] = IF k = Len(history) + 1 THEN ledger ELSE history[k]
<1> DEFINE after == Append(history, ledger)
<1>1. /\ after \in Branches
      /\ Len(after) = Len(history) + 1
      /\ Len(history) \in Nat
      /\ \A k \in 1..Len(history) + 1 :
           after[k] = IF k = Len(history) + 1 THEN ledger ELSE history[k]
  BY DEF Branches
<1>2. Pairs!HeadLedger(after) = ledger
  BY <1>1 DEF Pairs!LedgerAt, Pairs!HeadLedger
<1>3. \A k \in 0..Len(history) : Pairs!LedgerAt(after, k) = Pairs!LedgerAt(history, k)
  BY <1>1 DEF Pairs!LedgerAt
<1> QED BY <1>1, <1>2, <1>3

LEMMA EmptyIsWhole == Pairs!Whole(Pairs!EmptyLedger)
BY DEF Pairs!Whole, Pairs!EmptyLedger

-----------------------------------------------------------------------------
(***************************************************************************)
(* The inductive invariant: the types, what the branch, the working tree   *)
(* and the journal have to do with each other, and what each step of an    *)
(* operation knows.                                                        *)
(***************************************************************************)
BranchFits ==
  /\ \A k \in 1..Len(commits) : Pairs!Whole(commits[k])
  /\ Pairs!Whole(work)
  /\ journal = NoJournal => work.source = Tip.source
  /\ journal # NoJournal =>
       /\ HeadFitsJournal
       /\ Pairs!Whole(journal.next)
       /\ \E n \in Notes :
            Pairs!Changes(Pairs!LedgerAt(commits, journal.old), journal.next, n)

StepFits ==
  /\ step \in {"run", "decide", "render", "journal", "answer", "commit"} => journal = NoJournal
  /\ step \in {"ref", "ledger", "status", "clean"} => journal # NoJournal
  /\ step \in {"ledger", "status", "clean"} => Len(commits) = journal.old + 1 /\ Tip = journal.next
  /\ step \in {"status", "clean"} => work = journal.next

RequestFits ==
  /\ step \in {"decide", "render", "journal", "answer"} => request # NoRequest
  /\ step \in {"render", "journal"} =>
       PdfIsFree /\ Publishable /\ ~NeverPublished /\ Old = Base.source[Note]
  /\ step = "answer" => work.source[Note] = New
  /\ published => /\ step \in {"ref", "ledger", "status", "clean", "answer"}
                  /\ request # NoRequest
                  /\ step # "answer" => journal.next.source[Note] = New

IInv == InkTypeOK /\ BranchFits /\ StepFits /\ RequestFits

USE PublicationAssumption

-----------------------------------------------------------------------------
(* The ledger a publication commits.                                       *)
LEMMA NextLedgerFits ==
  ASSUME InkTypeOK, request # NoRequest, Pairs!Whole(work), work.source = Tip.source,
         PdfIsFree, Publishable, ~NeverPublished
  PROVE  /\ NextLedger \in Pairs!Ledgers
         /\ Pairs!Whole(NextLedger)
         /\ NextLedger.source[Note] = New
         /\ Pairs!Changes(Tip, NextLedger, Note)
<1>1. request \in Requests /\ Note \in Notes /\ New \in Pairs!Sources \cup {Absent}
  BY DEF InkTypeOK, Requests, Note, New
<1>2. /\ work \in Pairs!Ledgers
      /\ work.source \in [Notes -> Pairs!Sources \cup {Absent}]
      /\ work.pdf \in [PdfPaths -> Pairs!Pdfs]
  BY DEF InkTypeOK, Pairs!Ledgers
<1>3. New # Absent => New \in Pairs!Sources /\ New.pdf \in PdfPaths
  BY <1>1 DEF Pairs!Sources
<1>4. /\ NextLedger.source = [work.source EXCEPT ![Note] = New]
      /\ NextLedger.pdf = [p \in PdfPaths |->
                             IF ~Deleting /\ p = New.pdf THEN New
                             ELSE IF p \in PairPaths THEN Absent ELSE work.pdf[p]]
  BY DEF NextLedger
<1>5. NextLedger \in Pairs!Ledgers
  <2>1. NextLedger.source \in [Notes -> Pairs!Sources \cup {Absent}]
    BY <1>1, <1>2, <1>4
  <2>2. NextLedger.pdf \in [PdfPaths -> Pairs!Pdfs]
    BY <1>1, <1>2, <1>4, <1>3 DEF Pairs!Pdfs, Deleting
  <2> QED BY <2>1, <2>2 DEF NextLedger, Pairs!Ledgers
<1>6. NextLedger.source[Note] = New /\ \A m \in Notes \ {Note} : NextLedger.source[m] = work.source[m]
  BY <1>1, <1>2, <1>4
<1>7. Pairs!Whole(NextLedger)
  <2> SUFFICES ASSUME NEW n \in Notes, NextLedger.source[n] # Absent
               PROVE  /\ NextLedger.pdf[NextLedger.source[n].pdf] = NextLedger.source[n]
                      /\ \A m \in Notes \ {n} : ~Pairs!Owns(NextLedger, m, NextLedger.source[n].pdf)
    BY DEF Pairs!Whole
  <2>1. CASE n = Note
    <3>1. ~Deleting /\ New.pdf \in PdfPaths /\ Source = New
      BY <2>1, <1>6, <1>3 DEF Deleting, Source
    <3>2. NextLedger.pdf[New.pdf] = New
      BY <3>1, <1>4
    <3>3. \A m \in Notes \ {Note} : ~Pairs!Owns(work, m, New.pdf)
      BY <3>1 DEF PdfIsFree
    <3> QED BY <2>1, <3>2, <3>3, <1>6 DEF Pairs!Owns
  <2>2. CASE n # Note
    <3> DEFINE s == work.source[n]
    <3>1. NextLedger.source[n] = s /\ s \in Pairs!Sources /\ s.pdf \in PdfPaths
      BY <2>2, <1>6, <1>2 DEF Pairs!Sources
    <3>2. work.pdf[s.pdf] = s /\ \A m \in Notes \ {n} : ~Pairs!Owns(work, m, s.pdf)
      BY <3>1, <2>2 DEF Pairs!Whole
    <3>3. Pairs!Owns(work, n, s.pdf)
      BY <3>1 DEF Pairs!Owns
    <3>4. s.pdf # Source.pdf /\ (~Deleting => Source = New)
      BY <3>3, <2>2 DEF PdfIsFree, Source
    <3>5. s.pdf \notin OldPdf
      <4>1. CASE Old # Absent
        <5>1. ~Pairs!Owns(work, Note, s.pdf)
          BY <3>2, <2>2, <1>1
        <5> QED BY <4>1, <5>1 DEF OldPdf, Old, Pairs!Owns
      <4>2. CASE Old = Absent
        BY <4>2, <3>3, <2>2 DEF OldPdf, PdfIsFree
      <4> QED BY <4>1, <4>2
    <3>6. NextLedger.pdf[s.pdf] = s
      BY <3>1, <3>2, <3>4, <3>5, <1>4 DEF PairPaths
    <3>7. ~Pairs!Owns(NextLedger, Note, s.pdf)
      BY <3>4, <1>6 DEF Pairs!Owns, Deleting
    <3>8. \A m \in Notes \ {n} : ~Pairs!Owns(NextLedger, m, s.pdf)
      BY <3>2, <3>7, <1>6 DEF Pairs!Owns
    <3> QED BY <3>1, <3>6, <3>8
  <2> QED BY <2>1, <2>2
<1>8. Pairs!Changes(Tip, NextLedger, Note)
  <2>1. Tip.source[Note] = Old /\ \A m \in Notes \ {Note} : NextLedger.source[m] = Tip.source[m]
    BY <1>6 DEF Old
  <2>2. New # Absent /\ Old # Absent => New.revision > Old.revision
    BY DEF Publishable, Deleting
  <2> QED BY <2>1, <2>2, <1>6 DEF Pairs!Changes
<1> QED BY <1>5, <1>6, <1>7, <1>8

-----------------------------------------------------------------------------
LEMMA InitIInv == Init => IInv
<1> SUFFICES ASSUME Init PROVE IInv
  OBVIOUS
<1>1. commits \in Branches /\ Len(commits) = 1 /\ commits[1] = FirstLedger /\ Tip = FirstLedger
  BY DEF Init, Branches, Tip, Pairs!HeadLedger, Pairs!LedgerAt
<1>2. InkTypeOK
  <2>1. work \in Pairs!Ledgers /\ 0 \in 0..MaxCrashes
    BY DEF Init
  <2>2. commits \in Seq(Pairs!Ledgers)
    BY <1>1 DEF Branches
  <2> QED BY <2>1, <2>2, Zenon DEF Init, InkTypeOK, Steps
<1>3. BranchFits
  BY <1>1 DEF Init, BranchFits
<1>4. StepFits /\ RequestFits
  BY DEF Init, StepFits, RequestFits
<1> QED BY <1>2, <1>3, <1>4 DEF IInv

(* A step that leaves the branch, the working tree and the journal alone.  *)
LEMMA QuietStep ==
  ASSUME IInv, UNCHANGED <<commits, work, journal>>
  PROVE  BranchFits' /\ Requests' = Requests
BY DEF IInv, BranchFits, Tip, HeadFitsJournal, Requests

(* What End leaves behind satisfies all the invariant says of a task.      *)
LEMMA EndFits ==
  ASSUME End
  PROVE  StepFits' /\ RequestFits' /\ step' \in Steps /\ request' = NoRequest /\ published' \in BOOLEAN
BY DEF End, StepFits, RequestFits, Steps

LEMMA CommitFits ==
  ASSUME IInv, NEW ledger \in Pairs!Ledgers, Pairs!Whole(ledger), ledger.source = work.source,
         journal = NoJournal,
         NEW after, after = CommitAllIfChanged(commits, ledger)
  PROVE  /\ after \in Branches
         /\ \A k \in 1..Len(after) : Pairs!Whole(after[k])
         /\ Pairs!HeadLedger(after) = ledger
         /\ Len(commits) <= Len(after)
<1>1. commits \in Branches /\ Len(commits) \in Nat
  BY DEF IInv, InkTypeOK, Branches
<1>2. CASE after = commits /\ ledger = Pairs!HeadLedger(commits)
  BY <1>1, <1>2 DEF IInv, BranchFits
<1>3. CASE after = Append(commits, ledger)
  BY <1>1, <1>3, AppendLedger DEF IInv, BranchFits
<1> QED BY <1>2, <1>3 DEF CommitAllIfChanged

(* A request stays one when the branch grows.                              *)
LEMMA RequestsGrow ==
  ASSUME Len(commits) \in Nat, Len(commits') \in Nat, Len(commits) <= Len(commits'),
         NEW r \in Requests
  PROVE  r \in Requests'
<1>1. 0..Len(commits) \subseteq 0..Len(commits')
  OBVIOUS
<1> QED BY <1>1 DEF Requests

-----------------------------------------------------------------------------
(* The invariant is preserved by every action.                             *)

LEMMA BeginKeeps ==
  ASSUME IInv, NEW r \in Requests \cup {NoRequest}, Begin(r)
  PROVE  IInv'
<1>1. BranchFits' /\ Requests' = Requests
  BY QuietStep DEF Begin
<1>2. InkTypeOK'
  <2>1. step' \in Steps /\ staged' \in BOOLEAN /\ published' \in BOOLEAN
    <3>1. CASE r = NoRequest
      BY <3>1 DEF Begin, Steps, IInv, InkTypeOK
    <3>2. CASE r # NoRequest
      <4>1. r.uploaded \in BOOLEAN
        BY <3>2 DEF Requests
      <4> QED BY <3>2, <4>1 DEF Begin, Steps, IInv, InkTypeOK
    <3> QED BY <3>1, <3>2
  <2> QED BY <1>1, <2>1, Zenon DEF Begin, IInv, InkTypeOK
<1>3. published = FALSE
  BY DEF IInv, RequestFits, Begin
<1>4. StepFits' /\ RequestFits'
  BY <1>3 DEF Begin, StepFits, RequestFits
<1> QED BY <1>1, <1>2, <1>4 DEF IInv

LEMMA MoveRefKeeps ==
  ASSUME IInv, MoveRef
  PROVE  IInv'
<1>1. /\ journal # NoJournal /\ journal \in [old : Nat, next : Pairs!Ledgers]
      /\ commits \in Branches /\ Len(commits) \in Nat
  BY DEF IInv, StepFits, MoveRef, InkTypeOK, Branches
<1>2. /\ commits' \in Branches /\ Len(commits') = journal.old + 1 /\ Tip' = journal.next
      /\ Len(commits) <= Len(commits')
      /\ \A k \in 1..Len(commits') : Pairs!Whole(commits'[k])
      /\ Pairs!LedgerAt(commits', journal.old) = Pairs!LedgerAt(commits, journal.old)
  <2>1. CASE Len(commits) = journal.old
    <3>1. commits' = Append(commits, journal.next)
      BY <2>1 DEF MoveRef
    <3> QED BY <1>1, <2>1, <3>1, AppendLedger DEF IInv, BranchFits, Tip
  <2>2. CASE Len(commits) # journal.old
    <3>1. commits' = commits /\ Len(commits) = journal.old + 1 /\ Tip = journal.next
      BY <2>2 DEF MoveRef, HeadFitsJournal
    <3> QED BY <1>1, <3>1 DEF IInv, BranchFits, Tip
  <2> QED BY <2>1, <2>2
<1>3. InkTypeOK'
  <2>1. request \in Requests => request \in Requests'
    BY <1>1, <1>2, RequestsGrow
  <2>2. commits' \in Seq(Pairs!Ledgers) /\ step' \in Steps
    BY <1>2 DEF Branches, MoveRef, Goto, Steps
  <2> QED BY <2>1, <2>2, Zenon DEF MoveRef, Goto, IInv, InkTypeOK
<1>4. BranchFits'
  BY <1>1, <1>2 DEF MoveRef, IInv, BranchFits, HeadFitsJournal, Tip
<1>5. StepFits' /\ RequestFits'
  BY <1>1, <1>2 DEF MoveRef, Goto, IInv, StepFits, RequestFits, Note, New
<1> QED BY <1>3, <1>4, <1>5 DEF IInv

LEMMA WriteLedgerKeeps ==
  ASSUME IInv, WriteLedger
  PROVE  IInv'
<1>1. /\ journal # NoJournal /\ journal \in [old : Nat, next : Pairs!Ledgers]
      /\ Requests' = Requests
  BY DEF IInv, StepFits, WriteLedger, InkTypeOK, Requests
<1>2. InkTypeOK'
  <2>1. work' \in Pairs!Ledgers /\ step' \in Steps
    BY <1>1 DEF WriteLedger, Goto, Steps
  <2> QED BY <1>1, <2>1, Zenon DEF WriteLedger, Goto, IInv, InkTypeOK
<1>3. BranchFits'
  BY <1>1 DEF WriteLedger, IInv, BranchFits, HeadFitsJournal, Tip
<1>4. StepFits' /\ RequestFits'
  BY <1>1 DEF WriteLedger, Goto, IInv, StepFits, RequestFits, Note, New, Tip
<1> QED BY <1>2, <1>3, <1>4 DEF IInv

LEMMA SetReadyKeeps ==
  ASSUME IInv, SetReady
  PROVE  IInv'
<1>1. BranchFits' /\ Requests' = Requests
  BY QuietStep DEF SetReady
<1>2. InkTypeOK'
  <2>1. step' \in Steps
    BY DEF SetReady, Goto, Steps
  <2> QED BY <1>1, <2>1, Zenon DEF SetReady, Goto, IInv, InkTypeOK
<1>3. StepFits' /\ RequestFits'
  BY DEF SetReady, Goto, IInv, StepFits, RequestFits, Note, New, Tip
<1> QED BY <1>1, <1>2, <1>3 DEF IInv

LEMMA RemoveJournalKeeps ==
  ASSUME IInv, RemoveJournal
  PROVE  IInv'
<1>1. work = journal.next /\ Tip = journal.next /\ journal # NoJournal /\ Requests' = Requests
  BY DEF IInv, StepFits, RemoveJournal, Requests
<1>2. InkTypeOK'
  <2>1. step' \in Steps
    BY DEF RemoveJournal, Goto, Steps
  <2> QED BY <1>1, <2>1, Zenon DEF RemoveJournal, Goto, IInv, InkTypeOK
<1>3. BranchFits'
  BY <1>1 DEF RemoveJournal, IInv, BranchFits, Tip
<1>4. StepFits' /\ RequestFits'
  BY <1>1 DEF RemoveJournal, Goto, IInv, InkTypeOK, StepFits, RequestFits, Note, New, Tip
<1> QED BY <1>2, <1>3, <1>4 DEF IInv

(* The steps of a request about a note, up to the journal.                 *)
LEMMA ReadRequestKeeps ==
  ASSUME IInv, ReadRequest
  PROVE  IInv'
<1>1. BranchFits' /\ Requests' = Requests
  BY QuietStep DEF ReadRequest
<1>2. InkTypeOK'
  <2>1. step' \in Steps /\ staged' \in BOOLEAN
    BY DEF ReadRequest, Goto, Steps
  <2> QED BY <1>1, <2>1, Zenon DEF ReadRequest, Goto, IInv, InkTypeOK
<1>3. StepFits' /\ RequestFits'
  BY DEF ReadRequest, Goto, IInv, StepFits, RequestFits
<1> QED BY <1>1, <1>2, <1>3 DEF IInv

LEMMA AnswerAtOnceKeeps ==
  ASSUME IInv, AnswerAtOnce
  PROVE  IInv'
<1>1. BranchFits' /\ Requests' = Requests
  BY QuietStep DEF AnswerAtOnce, disk
<1>2. InkTypeOK'
  <2>1. step' \in Steps
    BY DEF AnswerAtOnce, Goto, Steps
  <2> QED BY <1>1, <2>1, Zenon DEF AnswerAtOnce, Goto, IInv, InkTypeOK, disk
<1>3. work.source[Note] = New
  BY DEF AnswerAtOnce, NeverPublished, Replayed, Deleting, Old
<1>4. StepFits' /\ RequestFits'
  BY <1>3 DEF AnswerAtOnce, Goto, IInv, StepFits, RequestFits, disk, Note, New
<1> QED BY <1>1, <1>2, <1>4 DEF IInv

LEMMA AcceptKeeps ==
  ASSUME IInv, Accept
  PROVE  IInv'
<1>1. BranchFits' /\ Requests' = Requests
  BY QuietStep DEF Accept
<1>2. step' \in {"journal", "render"} /\ status' \in {status, "pending"} /\ step = "decide"
      /\ UNCHANGED <<commits, work, journal, request, published>>
  BY DEF Accept, Goto
<1>3. InkTypeOK'
  <2>1. step' \in Steps /\ status' \in {"none", "pending", "failed", "ready"}
    BY <1>2 DEF Steps, IInv, InkTypeOK
  <2> QED BY <1>1, <1>2, <2>1, Zenon DEF Accept, IInv, InkTypeOK
<1>4. (PdfIsFree /\ Publishable /\ ~NeverPublished /\ Old = Base.source[Note])'
  <2>1. PdfIsFree /\ Publishable /\ ~NeverPublished /\ Old = Base.source[Note]
    BY DEF Accept, Stale
  <2>2. /\ PdfIsFree' = PdfIsFree /\ Publishable' = Publishable /\ NeverPublished' = NeverPublished
        /\ (Old = Base.source[Note])' = (Old = Base.source[Note])
    BY <1>2 DEF PdfIsFree, Publishable, NeverPublished, OldPdf, Source, Deleting, New, Note, Old, Base
  <2> QED BY <2>1, <2>2
<1>5. StepFits' /\ RequestFits'
  BY <1>2, <1>4 DEF IInv, StepFits, RequestFits
<1> QED BY <1>1, <1>3, <1>5 DEF IInv

LEMMA RenderedKeeps ==
  ASSUME IInv, Rendered
  PROVE  IInv'
<1>1. BranchFits' /\ Requests' = Requests
  BY QuietStep DEF Rendered, disk
<1>2. InkTypeOK'
  <2>1. step' \in Steps
    BY DEF Rendered, Goto, Steps
  <2> QED BY <1>1, <2>1, Zenon DEF Rendered, Goto, IInv, InkTypeOK, disk
<1>3. (PdfIsFree /\ Publishable /\ ~NeverPublished /\ Old = Base.source[Note])'
  <2>1. PdfIsFree /\ Publishable /\ ~NeverPublished /\ Old = Base.source[Note]
    BY DEF Rendered, IInv, RequestFits
  <2>2. /\ PdfIsFree' = PdfIsFree /\ Publishable' = Publishable /\ NeverPublished' = NeverPublished
        /\ (Old = Base.source[Note])' = (Old = Base.source[Note])
    BY DEF Rendered, Goto, disk, PdfIsFree, Publishable, NeverPublished, OldPdf, Source, Deleting, New, Note, Old, Base
  <2> QED BY <2>1, <2>2
<1>4. StepFits' /\ RequestFits'
  BY <1>3 DEF Rendered, Goto, IInv, StepFits, RequestFits, disk
<1> QED BY <1>1, <1>2, <1>4 DEF IInv

LEMMA WriteJournalKeeps ==
  ASSUME IInv, WriteJournal
  PROVE  IInv'
<1>1. /\ request # NoRequest /\ journal = NoJournal /\ request \in Requests
      /\ Len(commits) \in Nat /\ Requests' = Requests /\ Note \in Notes
  BY DEF IInv, InkTypeOK, RequestFits, StepFits, WriteJournal, Requests, Note
<1>2. /\ NextLedger \in Pairs!Ledgers /\ Pairs!Whole(NextLedger)
      /\ NextLedger.source[Note] = New /\ Pairs!Changes(Tip, NextLedger, Note)
  BY <1>1, NextLedgerFits DEF IInv, BranchFits, RequestFits, WriteJournal
<1>3. /\ journal' = [old |-> Len(commits), next |-> NextLedger]
      /\ journal' \in [old : Nat, next : Pairs!Ledgers]
      /\ journal' # NoJournal
      /\ journal'.old = Len(commits) /\ journal'.next = NextLedger
  BY <1>1, <1>2 DEF WriteJournal
<1>4. InkTypeOK'
  <2>1. step' \in Steps /\ published' \in BOOLEAN
    BY DEF WriteJournal, Steps
  <2> QED BY <1>1, <1>3, <2>1, Zenon DEF WriteJournal, IInv, InkTypeOK
<1>5. BranchFits'
  <2>1. HeadFitsJournal' /\ Pairs!Whole(journal'.next)
    BY <1>2, <1>3 DEF WriteJournal, HeadFitsJournal
  <2>2. Pairs!Changes(Pairs!LedgerAt(commits', journal'.old), journal'.next, Note)
    BY <1>2, <1>3 DEF WriteJournal, Tip, Pairs!HeadLedger
  <2> QED BY <1>1, <1>3, <2>1, <2>2 DEF WriteJournal, IInv, BranchFits, Tip
<1>6. StepFits' /\ RequestFits'
  BY <1>1, <1>2, <1>3 DEF WriteJournal, IInv, StepFits, RequestFits, Note, New
<1> QED BY <1>4, <1>5, <1>6 DEF IInv

(* The steps that end an operation and change nothing but the status.      *)
LEMMA EndKeeps ==
  ASSUME IInv, Refuse \/ RenderFails \/ Acknowledge \/ Crash
  PROVE  IInv'
<1>1. /\ End /\ UNCHANGED <<commits, work, journal, staged>>
      /\ status' \in {status, "failed"}
      /\ crashes' = crashes \/ (crashes < MaxCrashes /\ crashes' = crashes + 1)
  BY DEF Refuse, RenderFails, Acknowledge, Crash, disk
<1>2. BranchFits' /\ Requests' = Requests
  BY <1>1, QuietStep
<1>3. StepFits' /\ RequestFits' /\ step' \in Steps /\ request' = NoRequest /\ published' \in BOOLEAN
  BY <1>1, EndFits
<1>4. InkTypeOK'
  <2>1. status' \in {"none", "pending", "failed", "ready"}
    BY <1>1 DEF IInv, InkTypeOK
  <2>2. crashes' \in 0..MaxCrashes
    BY <1>1 DEF IInv, InkTypeOK
  <2> QED BY <1>1, <1>3, <2>1, <2>2, Zenon DEF IInv, InkTypeOK
<1> QED BY <1>2, <1>3, <1>4 DEF IInv

(* Ordinary files change, the notes and their PDFs stay.                   *)
LEMMA OrdinaryWritesKeeps ==
  ASSUME IInv, NEW S \in SUBSET Unmanaged, NEW files \in [S -> Scans \cup {Absent}],
         OrdinaryWrites(files)
  PROVE  IInv'
<1>1. /\ journal = NoJournal /\ journal' = NoJournal /\ request = NoRequest /\ request' = NoRequest
      /\ step' = "commit" /\ published' = published /\ published = FALSE
      /\ work \in Pairs!Ledgers /\ Pairs!Whole(work) /\ work.source = Tip.source
  BY DEF OrdinaryWrites, Goto, IInv, StepFits, RequestFits, BranchFits, InkTypeOK
<1>2. /\ work.source \in [Notes -> Pairs!Sources \cup {Absent}]
      /\ work.pdf \in [PdfPaths -> Pairs!Pdfs]
  BY <1>1 DEF Pairs!Ledgers
<1>3. /\ work'.source = work.source
      /\ work'.pdf = [p \in PdfPaths |-> IF p \in S THEN files[p] ELSE work.pdf[p]]
  BY <1>1, DOMAIN files = S DEF OrdinaryWrites, Pairs!Ledgers
<1>4. work' \in Pairs!Ledgers
  <2>1. work'.pdf \in [PdfPaths -> Pairs!Pdfs]
    BY <1>2, <1>3 DEF Pairs!Pdfs
  <2>2. work' = [source |-> work'.source, pdf |-> work'.pdf]
    BY <1>1 DEF OrdinaryWrites, Pairs!Ledgers
  <2> QED BY <1>2, <1>3, <2>1, <2>2 DEF Pairs!Ledgers
<1>5. Pairs!Whole(work')
  <2> SUFFICES ASSUME NEW n \in Notes, work.source[n] # Absent
               PROVE  /\ work'.pdf[work.source[n].pdf] = work.source[n]
                      /\ \A m \in Notes \ {n} : ~Pairs!Owns(work', m, work.source[n].pdf)
    BY <1>3 DEF Pairs!Whole
  <2>1. work.source[n].pdf \in PdfPaths
    BY <1>2 DEF Pairs!Sources
  <2>2. Pairs!Managed(work, work.source[n].pdf)
    BY DEF Pairs!Managed, Pairs!Owns
  <2>3. work.source[n].pdf \notin S
    BY <2>2 DEF Unmanaged
  <2>4. work'.pdf[work.source[n].pdf] = work.pdf[work.source[n].pdf]
    BY <2>1, <2>3, <1>3
  <2> QED BY <1>1, <1>3, <2>4 DEF Pairs!Whole, Pairs!Owns
<1>6. /\ commits' \in Branches /\ Len(commits) <= Len(commits')
      /\ \A k \in 1..Len(commits') : Pairs!Whole(commits'[k])
      /\ Pairs!HeadLedger(commits').source = work.source
  <2>1. CASE commits' = commits
    BY <1>1, <2>1 DEF IInv, BranchFits, InkTypeOK, Branches, Tip
  <2>2. CASE commits' = CommitAllIfChanged(commits, work)
    BY <1>1, <2>2, CommitFits
  <2> QED BY <2>1, <2>2 DEF OrdinaryWrites
<1>7. InkTypeOK'
  <2>1. commits' \in Seq(Pairs!Ledgers) /\ step' \in Steps
    BY <1>1, <1>6 DEF Branches, Steps
  <2> QED BY <1>1, <1>4, <2>1, Zenon DEF OrdinaryWrites, IInv, InkTypeOK
<1>8. BranchFits'
  BY <1>1, <1>3, <1>5, <1>6 DEF BranchFits, Tip
<1>9. StepFits' /\ RequestFits'
  BY <1>1 DEF StepFits, RequestFits
<1> QED BY <1>7, <1>8, <1>9 DEF IInv

LEMMA OrdinaryCommitKeeps ==
  ASSUME IInv, OrdinaryCommits \/ OrdinaryEnds
  PROVE  IInv'
<1>1. /\ journal = NoJournal /\ End /\ UNCHANGED <<work, journal, status, staged, crashes>>
      /\ commits' \in {commits, CommitAllIfChanged(commits, work)}
      /\ work \in Pairs!Ledgers /\ Pairs!Whole(work) /\ work.source = Tip.source
  BY DEF OrdinaryCommits, OrdinaryEnds, IInv, StepFits, BranchFits, InkTypeOK
<1>2. /\ commits' \in Branches
      /\ \A k \in 1..Len(commits') : Pairs!Whole(commits'[k])
      /\ Pairs!HeadLedger(commits').source = work.source
  <2>1. CASE commits' = commits
    BY <1>1, <2>1 DEF IInv, BranchFits, InkTypeOK, Branches, Tip
  <2>2. CASE commits' = CommitAllIfChanged(commits, work)
    BY <1>1, <2>2, CommitFits
  <2> QED BY <1>1, <2>1, <2>2
<1>3. StepFits' /\ RequestFits' /\ step' \in Steps /\ request' = NoRequest /\ published' \in BOOLEAN
  BY <1>1, EndFits
<1>4. InkTypeOK'
  <2>1. commits' \in Seq(Pairs!Ledgers)
    BY <1>2 DEF Branches
  <2> QED BY <1>1, <1>3, <2>1, Zenon DEF IInv, InkTypeOK
<1>5. BranchFits'
  BY <1>1, <1>2 DEF BranchFits, Tip
<1> QED BY <1>3, <1>4, <1>5 DEF IInv

LEMMA NextKeeps == IInv /\ [Next]_vars => IInv'
<1> SUFFICES ASSUME IInv, [Next]_vars PROVE IInv'
  OBVIOUS
<1>1. CASE Call
  BY <1>1, BeginKeeps DEF Call
<1>2. CASE Recover
  BY <1>2, MoveRefKeeps, WriteLedgerKeeps, SetReadyKeeps, RemoveJournalKeeps DEF Recover
<1>3. CASE Serve
  BY <1>3, ReadRequestKeeps, AnswerAtOnceKeeps, AcceptKeeps, RenderedKeeps, WriteJournalKeeps,
     EndKeeps, OrdinaryWritesKeeps, OrdinaryCommitKeeps DEF Serve
<1>4. CASE Crash
  BY <1>4, EndKeeps
<1>5. CASE UNCHANGED vars
  <2>1. BranchFits' /\ Requests' = Requests
    BY <1>5, QuietStep DEF vars, disk
  <2>2. InkTypeOK'
    BY <1>5, <2>1, Zenon DEF vars, disk, task, IInv, InkTypeOK
  <2>3. StepFits' /\ RequestFits'
    BY <1>5 DEF vars, disk, task, IInv, StepFits, RequestFits, Note, New, Tip, PdfIsFree,
       Publishable, NeverPublished, OldPdf, Source, Deleting, Old, Base
  <2> QED BY <2>1, <2>2, <2>3 DEF IInv
<1> QED BY <1>1, <1>2, <1>3, <1>4, <1>5 DEF Next

(***************************************************************************)
(* The inductive invariant holds in every state the server reaches.        *)
(***************************************************************************)
THEOREM PublicationInvariant == Spec => []IInv
BY InitIInv, NextKeeps, PTL DEF Spec

(***************************************************************************)
(* Every variable keeps its type, whatever crashes.                        *)
(***************************************************************************)
THEOREM PublicationTypes == Spec => []InkTypeOK
<1>1. IInv => InkTypeOK
  BY DEF IInv
<1> QED BY <1>1, PublicationInvariant, PTL

(***************************************************************************)
(* No crash leaves a journal that recovery would refuse: the branch is     *)
(* always where the journal expects it.                                    *)
(***************************************************************************)
THEOREM RecoveryNeverRefuses == Spec => []JournalFitsBranch
<1>1. IInv => JournalFitsBranch
  BY DEF IInv, BranchFits, JournalFitsBranch
<1> QED BY <1>1, PublicationInvariant, PTL

(***************************************************************************)
(* A device is only told that its note is published, or deleted, when it   *)
(* is: on the branch and in the working tree.                              *)
(***************************************************************************)
THEOREM AnswersAreTrue == Spec => []AnsweredIsDurable
<1>1. IInv => AnsweredIsDurable
  BY DEF IInv, BranchFits, StepFits, RequestFits, AnsweredIsDurable
<1> QED BY <1>1, PublicationInvariant, PTL

(***************************************************************************)
(* No publication replaces a note its device had not got.                  *)
(***************************************************************************)
THEOREM NoPublicationIsLost == Spec => PublishesOverBase
<1>1. IInv => (WriteJournal => Tip.source[Note] = Base.source[Note])
  BY DEF IInv, BranchFits, StepFits, RequestFits, WriteJournal, Old
<1> QED BY <1>1, PublicationInvariant, PTL DEF PublishesOverBase

-----------------------------------------------------------------------------
(* The PDFs that are not part of the published pair.                       *)

KeepsOthers(old, new) ==
  \A p \in PdfPaths : old.pdf[p] \in Scans =>
    new.pdf[p] = old.pdf[p] \/ Annotates(new, p, old.pdf[p])

JournalKeepsOthers ==
  journal # NoJournal /\ Len(commits) = journal.old => KeepsOthers(work, journal.next)

LEMMA NextLedgerKeepsOthers ==
  ASSUME IInv, step = "journal"
  PROVE  KeepsOthers(work, NextLedger)
<1>1. /\ request \in Requests /\ Note \in Notes /\ New \in Pairs!Sources \cup {Absent}
      /\ work \in Pairs!Ledgers /\ Pairs!Whole(work)
      /\ PdfIsFree /\ Publishable /\ (Deleting => Old # Absent)
  BY DEF IInv, InkTypeOK, RequestFits, BranchFits, Requests, Note, New, NeverPublished
<1>2. /\ work.source \in [Notes -> Pairs!Sources \cup {Absent}]
      /\ NextLedger.source = [work.source EXCEPT ![Note] = New]
      /\ NextLedger.source[Note] = New
  BY <1>1 DEF Pairs!Ledgers, NextLedger
<1> SUFFICES ASSUME NEW p \in PdfPaths, work.pdf[p] \in Scans, p \in PairPaths
             PROVE  Annotates(NextLedger, p, work.pdf[p])
  <2>1. ASSUME NEW p \in PdfPaths, p \notin PairPaths
        PROVE  NextLedger.pdf[p] = work.pdf[p]
    BY <2>1 DEF NextLedger, PairPaths, Source
  <2> QED BY <2>1 DEF KeepsOthers
<1>3. Old # Absent => Old \in Pairs!Sources /\ work.pdf[Old.pdf] = Old
  BY <1>1, <1>2 DEF Old, Pairs!Whole
<1>4. Old # Absent => p # Old.pdf
  BY <1>3
<1>5. ~Deleting /\ Source = New
  BY <1>1, <1>4 DEF PairPaths, OldPdf, Source
<1>6. CASE Old # Absent
  <2>1. p = Source.pdf /\ OldPdf # {Source.pdf}
    BY <1>4, <1>6 DEF PairPaths, OldPdf
  <2>2. work.pdf[p] = Absent
    BY <1>1, <2>1 DEF Publishable
  <2> QED BY <2>2
<1>7. CASE Old = Absent /\ New.over = Absent
  <2>1. p = Source.pdf /\ OldPdf = {}
    BY <1>5, <1>7 DEF PairPaths, OldPdf
  <2>2. work.pdf[p] = Absent
    BY <1>1, <2>1 DEF Publishable
  <2> QED BY <2>2
<1>8. CASE Old = Absent /\ New.over # Absent
  <2>1. /\ New \in Pairs!Sources /\ New # Absent
        /\ New.over \in [path : PdfPaths, pdf : Annotated]
        /\ OldPdf = {New.over.path} /\ work.pdf[New.over.path] = New.over.pdf
    BY <1>1, <1>5, <1>8 DEF Deleting, OldPdf, Publishable, Pairs!Sources
  <2>2. p = New.over.path
    <3>1. CASE p = Source.pdf /\ p # New.over.path
      <4>1. OldPdf # {Source.pdf}
        BY <2>1, <3>1
      <4>2. work.pdf[p] = Absent
        BY <1>1, <3>1, <4>1 DEF Publishable
      <4> QED BY <4>2
    <3> QED BY <2>1, <3>1 DEF PairPaths
  <2>3. New.over = [path |-> p, pdf |-> work.pdf[p]]
    BY <2>1, <2>2
  <2> QED BY <1>1, <1>2, <2>1, <2>3 DEF Annotates
<1> QED BY <1>6, <1>7, <1>8

LEMMA JournalKeepsOthersInit == Init => JournalKeepsOthers
BY DEF Init, JournalKeepsOthers

LEMMA JournalKeepsOthersNext == IInv /\ JournalKeepsOthers /\ [Next]_vars => JournalKeepsOthers'
<1> SUFFICES ASSUME IInv, JournalKeepsOthers, [Next]_vars PROVE JournalKeepsOthers'
  OBVIOUS
<1>1. CASE WriteJournal
  <2>1. journal'.next = NextLedger /\ work' = work /\ step = "journal"
    BY <1>1 DEF WriteJournal
  <2>2. KeepsOthers(work', journal'.next)
    BY <2>1, NextLedgerKeepsOthers DEF KeepsOthers, Annotates
  <2> QED BY <2>2 DEF JournalKeepsOthers
<1>2. CASE MoveRef
  <2>1. /\ journal' = journal /\ journal # NoJournal /\ journal.old \in Nat
        /\ commits \in Branches /\ journal.next \in Pairs!Ledgers
    BY <1>2 DEF MoveRef, IInv, StepFits, InkTypeOK, Branches
  <2>2. Len(commits') = journal.old + 1
    BY <1>2, <2>1, AppendLedger DEF MoveRef, HeadFitsJournal
  <2> QED BY <2>1, <2>2 DEF JournalKeepsOthers
<1>3. CASE WriteLedger
  <2>1. /\ journal' = journal /\ commits' = commits /\ journal \in [old : Nat, next : Pairs!Ledgers]
        /\ Len(commits) = journal.old + 1
    BY <1>3 DEF WriteLedger, IInv, StepFits, InkTypeOK
  <2> QED BY <2>1 DEF JournalKeepsOthers
<1>4. CASE journal' = NoJournal
  BY <1>4 DEF JournalKeepsOthers
<1>5. CASE UNCHANGED <<commits, work, journal>>
  BY <1>5 DEF JournalKeepsOthers, KeepsOthers, Annotates
<1>6. ASSUME NEW S \in SUBSET Unmanaged, NEW files \in [S -> Scans \cup {Absent}],
             OrdinaryWrites(files)
      PROVE  journal' = NoJournal
  BY <1>6 DEF OrdinaryWrites, IInv, StepFits
<1>7. CASE OrdinaryCommits \/ OrdinaryEnds
  BY <1>4, <1>7 DEF OrdinaryCommits, OrdinaryEnds, IInv, StepFits
<1> QED
  BY <1>1, <1>2, <1>3, <1>4, <1>5, <1>6, <1>7
  DEF Next, Call, Begin, Recover, SetReady, RemoveJournal, Serve, ReadRequest,
      Refuse, AnswerAtOnce, Accept, Rendered, RenderFails, Acknowledge,
      Crash, disk, vars

(***************************************************************************)
(* Publishing a note takes no PDF out of the vault but its own and the one *)
(* it annotates, even when a crash lets a later operation finish it.       *)
(***************************************************************************)
THEOREM PublicationKeepsOtherPdfs == Spec => OtherPdfsKept
<1>1. ASSUME IInv, JournalKeepsOthers, MoveRef
      PROVE  \A p \in PdfPaths :
               /\ Tip.pdf[p] \in Scans /\ work.pdf[p] = Tip.pdf[p]
               => \/ Tip'.pdf[p] = Tip.pdf[p]
                  \/ Annotates(journal.next, p, Tip.pdf[p])
  <2>1. journal # NoJournal /\ commits \in Branches /\ journal.next \in Pairs!Ledgers
    BY <1>1 DEF MoveRef, IInv, StepFits, InkTypeOK, Branches
  <2>2. CASE Len(commits) = journal.old
    <3>1. Tip' = journal.next
      BY <1>1, <2>1, <2>2, AppendLedger DEF MoveRef, Tip
    <3>2. KeepsOthers(work, journal.next)
      BY <1>1, <2>1, <2>2 DEF JournalKeepsOthers
    <3> QED BY <3>1, <3>2 DEF KeepsOthers
  <2>3. CASE Len(commits) # journal.old
    BY <1>1, <2>3 DEF MoveRef, Tip
  <2> QED BY <2>2, <2>3
<1>2. IInv /\ JournalKeepsOthers =>
        (MoveRef => \A p \in PdfPaths :
           /\ Tip.pdf[p] \in Scans /\ work.pdf[p] = Tip.pdf[p]
           => \/ Tip'.pdf[p] = Tip.pdf[p]
              \/ Annotates(journal.next, p, Tip.pdf[p]))
  BY <1>1
<1>3. Spec => []JournalKeepsOthers
  BY PublicationInvariant, JournalKeepsOthersInit, JournalKeepsOthersNext, PTL DEF Spec
<1> QED BY <1>2, <1>3, PublicationInvariant, PTL DEF OtherPdfsKept

-----------------------------------------------------------------------------
(* Publication implements the atomic one.                                  *)

LEMMA InitPairs == Init => Pairs!Init
<1> SUFFICES ASSUME Init PROVE Pairs!Init
  OBVIOUS
<1>1. commits \in Seq(Pairs!Ledgers) /\ Len(commits) = 1 /\ commits[1] = FirstLedger
  BY DEF Init
<1> QED BY <1>1 DEF Pairs!Init

(* A commit of an ordinary operation.                                      *)
LEMMA OrdinaryStep ==
  ASSUME IInv, journal = NoJournal,
         commits' \in {commits, CommitAllIfChanged(commits, work)}
  PROVE  [Pairs!Next]_commits
<1>1. /\ commits \in Branches /\ work \in Pairs!Ledgers /\ Pairs!Whole(work)
      /\ work.source = Pairs!HeadLedger(commits).source
  BY DEF IInv, BranchFits, InkTypeOK, Branches, Tip
<1>2. CASE commits' = Append(commits, work)
  <2>1. Pairs!HeadLedger(commits') = work
    BY <1>1, <1>2, AppendLedger
  <2>2. Pairs!Ordinary
    BY <1>1, <1>2, <2>1 DEF Pairs!Ordinary, Pairs!Commits
  <2> QED BY <2>2 DEF Pairs!Next
<1>3. CASE commits' = commits
  BY <1>3
<1> QED BY <1>2, <1>3 DEF CommitAllIfChanged

(* The ref moves: one note is published.                                   *)
LEMMA MoveRefStep ==
  ASSUME IInv, MoveRef
  PROVE  [Pairs!Next]_commits
<1>1. /\ journal # NoJournal /\ commits \in Branches /\ journal.next \in Pairs!Ledgers
      /\ Pairs!Whole(journal.next)
  BY DEF IInv, StepFits, BranchFits, MoveRef, InkTypeOK, Branches
<1>2. CASE Len(commits) = journal.old
  <2>1. commits' = Append(commits, journal.next)
    BY <1>2 DEF MoveRef
  <2>2. Pairs!HeadLedger(commits') = journal.next
    BY <1>1, <2>1, AppendLedger
  <2>3. PICK n \in Notes : Pairs!Changes(Pairs!HeadLedger(commits), journal.next, n)
    BY <1>1, <1>2 DEF IInv, BranchFits, Pairs!HeadLedger
  <2>4. Pairs!Publish(n)
    BY <1>1, <2>1, <2>2, <2>3 DEF Pairs!Publish, Pairs!Commits
  <2> QED BY <2>4 DEF Pairs!Next
<1>3. CASE Len(commits) # journal.old
  BY <1>3 DEF MoveRef
<1> QED BY <1>2, <1>3

LEMMA NextPairs == IInv /\ [Next]_vars => [Pairs!Next]_commits
<1> SUFFICES ASSUME IInv, [Next]_vars PROVE [Pairs!Next]_commits
  OBVIOUS
<1>1. CASE MoveRef
  BY <1>1, MoveRefStep
<1>2. ASSUME NEW S \in SUBSET Unmanaged, NEW files \in [S -> Scans \cup {Absent}],
             OrdinaryWrites(files)
      PROVE  [Pairs!Next]_commits
  BY <1>2, OrdinaryStep DEF OrdinaryWrites, IInv, StepFits
<1>3. CASE OrdinaryCommits \/ OrdinaryEnds
  BY <1>3, OrdinaryStep DEF OrdinaryCommits, OrdinaryEnds, IInv, StepFits
<1>4. CASE UNCHANGED commits
  BY <1>4
<1> QED
  BY <1>1, <1>2, <1>3, <1>4
  DEF Next, Call, Begin, Recover, WriteLedger, SetReady, RemoveJournal, Serve, ReadRequest,
      Refuse, AnswerAtOnce, Accept, Rendered, RenderFails, WriteJournal, Acknowledge,
      Crash, disk, vars

(***************************************************************************)
(* With all its crashes, publication implements the atomic one: every      *)
(* commit holds whole pairs and changes one note, whose revision advances. *)
(***************************************************************************)
THEOREM PublicationIsAtomic == Spec => PublishesAtomically
<1>1. Spec => Pairs!Spec
  BY InitPairs, NextPairs, PublicationInvariant, PTL DEF Spec, Pairs!Spec
<1> QED BY <1>1 DEF PublishesAtomically
=============================================================================
