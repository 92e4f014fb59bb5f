------------------------------ MODULE InkPairs ------------------------------
(***************************************************************************)
(* What the publication of InkVault notes promises.  A managed note is a   *)
(* pair: its source package below .inkvault/ and the visible PDF rendered  *)
(* from it.  Every commit of the vault holds whole pairs, and is made by   *)
(* one publication or by an ordinary change of unmanaged files.            *)
(*                                                                         *)
(* A source package is one value (its pages and assets travel together);   *)
(* the PDF the renderer makes of a source is told apart by that source, so *)
(* the source itself stands for it.  Scans are PDFs made elsewhere.        *)
(***************************************************************************)
EXTENDS Integers, Sequences

CONSTANTS
  Notes,        \* the documents below .inkvault/
  PdfPaths,     \* the vault paths of PDFs
  Inks,         \* what the pages of a note may hold
  Scans,        \* the PDFs that are not rendered by the server
  Annotated,    \* the PDFs a note may be drawn over
  MaxRevision,  \* bound: the highest sourceRevision a device uses
  Absent        \* no file, no note, or no annotated PDF

VARIABLE branch \* the ledgers (binary manifests) committed so far

(* `over` is the PDF the note annotates: its path and its content, a scan  *)
(* or what was rendered from a plain note.                                 *)
Plain ==
  [revision : 1..MaxRevision, ink : Inks, pdf : PdfPaths, over : {Absent}]

Sources ==
  [revision : 1..MaxRevision, ink : Inks, pdf : PdfPaths,
   over : [path : PdfPaths, pdf : Annotated] \cup {Absent}]

Pdfs    == Sources \cup Scans \cup {Absent}
Ledgers == [source : [Notes -> Sources \cup {Absent}], pdf : [PdfPaths -> Pdfs]]

EmptyLedger == [source |-> [n \in Notes |-> Absent],
                pdf    |-> [p \in PdfPaths |-> Absent]]

(* Ledger 0 is that of the unborn branch.                                  *)
LedgerAt(history, k) == IF k \in 1..Len(history) THEN history[k] ELSE EmptyLedger
HeadLedger(history)  == LedgerAt(history, Len(history))

Owns(ledger, n, p)   == ledger.source[n] # Absent /\ ledger.source[n].pdf = p
Managed(ledger, p)   == \E n \in Notes : Owns(ledger, n, p)

(* Every note has its own PDF, and it is the rendering of its source.      *)
Whole(ledger) ==
  \A n \in Notes : ledger.source[n] # Absent =>
    /\ ledger.pdf[ledger.source[n].pdf] = ledger.source[n]
    /\ \A m \in Notes \ {n} : ~Owns(ledger, m, ledger.source[n].pdf)

-----------------------------------------------------------------------------
Init ==
  /\ branch \in Seq(Ledgers) /\ Len(branch) <= 1
  /\ \A k \in 1..Len(branch) : Whole(branch[k])

(* One note is published, renamed or deleted; its revision advances.       *)
Changes(old, new, n) ==
  /\ \A m \in Notes \ {n} : new.source[m] = old.source[m]
  /\ Absent \notin {old.source[n], new.source[n]}
       => new.source[n].revision > old.source[n].revision

(* The branch grows by one commit, all of whose pairs are whole.           *)
Commits ==
  /\ branch' = Append(branch, HeadLedger(branch'))
  /\ HeadLedger(branch') \in Ledgers
  /\ Whole(HeadLedger(branch'))

Publish(n) == Commits /\ Changes(HeadLedger(branch), HeadLedger(branch'), n)

Ordinary ==
  Commits /\ HeadLedger(branch').source = HeadLedger(branch).source

Next == Ordinary \/ \E n \in Notes : Publish(n)

Spec == Init /\ [][Next]_branch
=============================================================================
