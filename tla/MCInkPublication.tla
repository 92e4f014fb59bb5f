-------------------------- MODULE MCInkPublication --------------------------
(***************************************************************************)
(* InkPublication with two notes that may want the same PDF path.          *)
(***************************************************************************)
EXTENDS InkPublication, TLC

CONSTANTS n1, n2, p1, p2, scan, ink

(* The vault starts with one scanned PDF.                                  *)
OneScan == [source |-> [n \in Notes |-> Absent],
            pdf    |-> [p \in PdfPaths |-> IF p = p1 THEN scan ELSE Absent]]

(* What a note may annotate: the scan, or the first revision of a note.    *)
ScanOrNote == {scan, [revision |-> 1, ink |-> ink, pdf |-> p1, over |-> Absent]}

=============================================================================
