------------------------------ MODULE VaultText ------------------------------
(***************************************************************************)
(* What the sync server does to one file of a vault when a device uploads  *)
(* or deletes it: the pure part of `apply_client_changes`.                 *)
(*                                                                         *)
(* A text is a value for each region of the file (a region stands for the  *)
(* lines git merges independently).  A file that carries conflict markers  *)
(* is the one value Markers: which sides it shows is not told apart.  A    *)
(* binary file is an opaque manifest entry, drawn from the same Contents.  *)
(***************************************************************************)
EXTENDS Naturals

CONSTANTS
  Regions,   \* the parts of a text that git merges independently
  Values,    \* what a region may hold
  NulTexts,  \* the texts that contain a NUL byte: git is never asked to merge them
  Absent,    \* the file does not exist
  Markers    \* a text with conflict markers

Texts    == [Regions -> Values]
Contents == Texts \cup {Markers}
Files    == Contents \cup {Absent}

ASSUME TextAssumption ==
  /\ Absent \notin Contents
  /\ Markers \notin Texts
  /\ NulTexts \subseteq Texts

-----------------------------------------------------------------------------
(***************************************************************************)
(* The outcome of one change: the content the working tree then holds, and *)
(* whether the change is reported as a conflict.                           *)
(***************************************************************************)
Kept(file)         == [content |-> file, clash |-> FALSE]
Written(file)      == [content |-> file, clash |-> FALSE]
Clashed(file)      == [content |-> file, clash |-> TRUE]
Outcomes           == [content : Files, clash : BOOLEAN]

(* Two sides of a region that both moved away from the base, differently.  *)
RegionsClash(b, s, c) ==
  \E r \in Regions : s[r] # b[r] /\ c[r] # b[r] /\ s[r] # c[r]

MergedRegions(b, s, c) ==
  [r \in Regions |-> IF c[r] = b[r] THEN s[r] ELSE c[r]]

(***************************************************************************)
(* git merge-file, and what the server makes of its exit code.  A text     *)
(* with a NUL byte is reported as a conflict and the working tree keeps    *)
(* the server's version, without markers.                                  *)
(***************************************************************************)
MergeTextFile(b, s, c) ==
  IF {b, s, c} \cap NulTexts # {} THEN Clashed(s)
  ELSE IF Markers \in {b, s, c} \/ RegionsClash(b, s, c) THEN Clashed(Markers)
  ELSE Written(MergedRegions(b, s, c))

(* The merge base of an upload: an unacknowledged path the server does not *)
(* hold counts as never seen, whatever the device's base commit says.      *)
UpsertBase(baseFile, acked, current) ==
  IF current = Absent /\ ~acked THEN Absent ELSE baseFile

(* Mutant: an upload of a file the base does not have is taken as it is.   *)
UpsertOverUnknown(baseFile, acked, current, new) ==
  LET base == UpsertBase(baseFile, acked, current) IN
  IF base = Absent \/ current = base THEN Written(new)
  ELSE IF current = new \/ new = base THEN Kept(current)
  ELSE IF current = Absent THEN Clashed(Markers)
  ELSE MergeTextFile(base, current, new)

TextUpsert(baseFile, acked, current, new) ==
  LET base == UpsertBase(baseFile, acked, current) IN
  IF current = new THEN Kept(current)
  ELSE IF base = Absent /\ current = Absent THEN Written(new)
  ELSE IF new = base THEN Kept(current)
  ELSE IF Absent \in {base, current} THEN Clashed(Markers)
  ELSE IF current = base THEN Written(new)
  ELSE MergeTextFile(base, current, new)

(* Mutant: a deletion does not look at what the server holds.              *)
DeleteUnchecked(baseFile, current) == Written(Absent)

TextDelete(baseFile, current) ==
  IF current = Absent \/ baseFile \in {current, Absent}
  THEN Written(Absent) ELSE Clashed(Markers)

(* A binary change is refused when the manifest entry is not the one the   *)
(* device based it on; a device without a base overwrites.                 *)
BinaryChange(hasBase, baseFile, current, new) ==
  IF hasBase /\ current # baseFile THEN Clashed(current) ELSE Written(new)
=============================================================================
