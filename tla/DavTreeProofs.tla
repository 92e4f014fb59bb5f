----------------------------- MODULE DavTreeProofs -----------------------------
(***************************************************************************)
(* What holds of the requests of DavTree for every vault and every folder. *)
(***************************************************************************)
EXTENDS DavTree, TLAPS

(* Being within is transitive.                                             *)
LEMMA WithinTransitive ==
  ASSUME NEW p \in Seq(Names), NEW q \in Seq(Names), NEW r \in Seq(Names),
         Within(p, q), Within(q, r)
  PROVE  Within(p, r)
BY DEF Within

(* Of two directories above one path, one is within the other.             *)
LEMMA AboveComparable ==
  ASSUME NEW p \in Seq(Names), NEW q \in Seq(Names), NEW r \in Seq(Names),
         Within(p, q), Within(p, r)
  PROVE  Within(q, r) \/ Within(r, q)
<1>1. Len(q) \in Nat /\ Len(r) \in Nat
  OBVIOUS
<1>2. CASE Len(q) <= Len(r)
  BY <1>1, <1>2 DEF Within
<1>3. CASE Len(r) <= Len(q)
  BY <1>1, <1>3 DEF Within
<1> QED
  BY <1>1, <1>2, <1>3

-----------------------------------------------------------------------------
(* What the proofs need of a state.                                        *)
HasFiles == at \in [Files -> Contents \cup {Absent}]

(* Files keep their type, whatever request is made and wherever it stops.  *)
LEMMA StepKeepsType ==
  ASSUME PathsOK, HasFiles, [Next]_vars
  PROVE  HasFiles'
<1>1. CASE UNCHANGED vars
  BY <1>1 DEF HasFiles, vars
<1>2. CASE \E p \in Files, c \in Contents : Put(p, c)
  BY <1>2 DEF HasFiles, Put
<1>3. CASE \E d \in Directories : Mkcol(d)
  BY <1>3 DEF HasFiles, Mkcol
<1>4. CASE \E p \in Paths : Delete(p) \/ DeleteStops(p)
  BY <1>4 DEF HasFiles, Delete, DeleteStops
<1>5. ASSUME NEW from \in Paths, NEW to \in Paths, NEW overwrite \in BOOLEAN,
             NEW removes \in BOOLEAN, MoveOrCopy(from, to, overwrite, removes)
      PROVE  HasFiles'
  <2>1. \A q \in Arrivals(Sources(from, to), from, to) : Origin(q, from, to) \in Files
    BY DEF Arrivals, Sources, Present
  <2> QED
    BY <1>5, <2>1 DEF HasFiles, MoveOrCopy
<1>6. ASSUME NEW from \in Paths, NEW to \in Paths, NEW overwrite \in BOOLEAN,
             NEW removes \in BOOLEAN, MoveStops(from, to, overwrite, removes)
      PROVE  HasFiles'
  <2>1. PICK gone \in SUBSET (Present(to) \cap Text), S \in SUBSET Sources(from, to) :
          LET new == Arrivals(S, from, to) \cap Text
              out == IF removes THEN S \cap Text ELSE {}
          IN at' = [q \in Files |-> IF q \in new THEN at[Origin(q, from, to)]
                                    ELSE IF q \in gone \cup out THEN Absent ELSE at[q]]
    BY <1>6 DEF MoveStops
  <2>2. \A q \in Arrivals(S, from, to) : Origin(q, from, to) \in Files
    BY DEF Arrivals, Sources, Present
  <2> QED
    BY <2>1, <2>2 DEF HasFiles
<1> QED
  BY <1>1, <1>2, <1>3, <1>4, <1>5, <1>6 DEF Next

(***************************************************************************)
(* Nothing outside the granted folder changes: a file outside is not       *)
(* within a path inside.                                                   *)
(***************************************************************************)
LEMMA StepKeepsOutside ==
  ASSUME PathsOK, HasFiles, [Next]_vars, NEW q \in Files, ~Within(q, Folder)
  PROVE  at'[q] = at[q]
<1>0. q \in Seq(Names) /\ Folder \in Seq(Names) /\ \A p \in Paths : p \in Seq(Names)
  BY DEF PathsOK, Paths
<1>1. \A p \in Paths : Grants(p) => p # q /\ ~Within(q, p)
  BY <1>0, WithinTransitive DEF Grants
<1>2. CASE UNCHANGED vars
  BY <1>2 DEF vars
<1>3. CASE \E p \in Files, c \in Contents : Put(p, c)
  BY <1>3, <1>1 DEF HasFiles, Put, Paths
<1>4. CASE \E d \in Directories : Mkcol(d)
  BY <1>4 DEF Mkcol
<1>5. CASE \E p \in Paths : Delete(p) \/ DeleteStops(p)
  BY <1>5, <1>1 DEF Delete, DeleteStops, Present
<1>6. ASSUME NEW from \in Paths, NEW to \in Paths, NEW overwrite \in BOOLEAN,
             NEW removes \in BOOLEAN, MoveOrCopy(from, to, overwrite, removes)
      PROVE  at'[q] = at[q]
  BY <1>6, <1>1 DEF MoveOrCopy, MayMove, Arrivals
<1>7. ASSUME NEW from \in Paths, NEW to \in Paths, NEW overwrite \in BOOLEAN,
             NEW removes \in BOOLEAN, MoveStops(from, to, overwrite, removes)
      PROVE  at'[q] = at[q]
  <2>1. ~Within(q, from) /\ ~Within(q, to)
    BY <1>7, <1>1 DEF MoveStops, MayMove
  <2>2. PICK gone \in SUBSET (Present(to) \cap Text), S \in SUBSET Sources(from, to) :
          LET new == Arrivals(S, from, to) \cap Text
              out == IF removes THEN S \cap Text ELSE {}
          IN at' = [r \in Files |-> IF r \in new THEN at[Origin(r, from, to)]
                                    ELSE IF r \in gone \cup out THEN Absent ELSE at[r]]
    BY <1>7 DEF MoveStops
  <2>3. q \notin Arrivals(S, from, to) /\ q \notin gone /\ q \notin S
    BY <2>1 DEF Arrivals, Present, Sources
  <2> QED
    BY <2>2, <2>3
<1> QED
  BY <1>2, <1>3, <1>4, <1>5, <1>6, <1>7 DEF Next

(***************************************************************************)
(* A successful MOVE or COPY that does not go above its source brings      *)
(* every file: none of the source is in the destination that is cleared,   *)
(* for of two directories above one file one is within the other.          *)
(***************************************************************************)
LEMMA SourceIsDisjoint ==
  ASSUME PathsOK, NEW from \in Paths, NEW to \in Paths,
         ~Within(from, to), ~Within(to, from)
  PROVE  \A p \in Files : Within(p, from) => ~Within(p, to)
BY AboveComparable DEF PathsOK, Paths

LEMMA StepBringsFiles ==
  ASSUME PathsOK, HasFiles, MovedUnlessUp, [Next]_vars
  PROVE  MovedUnlessUp'
<1>1. CASE UNCHANGED vars
  BY <1>1 DEF vars, MovedUnlessUp, MovedIsThere, Moves
<1>2. ASSUME NEW from \in Paths, NEW to \in Paths, NEW overwrite \in BOOLEAN,
             NEW removes \in BOOLEAN, MoveOrCopy(from, to, overwrite, removes)
      PROVE  MovedUnlessUp'
  <2>1. last'.from = from /\ last'.to = to
        /\ last'.had = {<<p, at[p]>> : p \in Present(from)}
    BY <1>2 DEF MoveOrCopy, Answers
  <2> SUFFICES ASSUME ~Within(from, to), NEW q \in Files, Within(q, to),
                      NEW p \in Present(from), p = Origin(q, from, to)
               PROVE  at'[q] = at[p]
    BY <2>1 DEF MovedUnlessUp, MovedIsThere
  <2>2. p \in Sources(from, to)
    BY <1>2, SourceIsDisjoint DEF MoveOrCopy, MayMove, Present, Sources
  <2>3. q \in Arrivals(Sources(from, to), from, to)
    BY <2>2 DEF Arrivals
  <2> QED
    BY <1>2, <2>3 DEF MoveOrCopy
<1>3. ASSUME NEW from \in Paths, NEW to \in Paths, NEW overwrite \in BOOLEAN,
             NEW removes \in BOOLEAN, MoveStops(from, to, overwrite, removes)
      PROVE  MovedUnlessUp'
  <2>1. ~last'.ok
    BY <1>3 DEF MoveStops, Answers
  <2> QED
    BY <2>1 DEF MovedUnlessUp, MovedIsThere, Moves
<1>4. CASE \/ \E p \in Files, c \in Contents : Put(p, c)
           \/ \E d \in Directories : Mkcol(d)
           \/ \E p \in Paths : Delete(p) \/ DeleteStops(p)
  <2>1. last'.op \notin {"move", "copy"}
    BY <1>4 DEF Put, Mkcol, Delete, DeleteStops, Answers
  <2> QED
    BY <2>1 DEF MovedUnlessUp, MovedIsThere, Moves
<1> QED
  BY <1>1, <1>2, <1>3, <1>4 DEF Next

(* A COPY that does not go above its source keeps it, stopped or not.      *)
LEMMA StepKeepsSource ==
  ASSUME PathsOK, HasFiles, CopyKeepsSource, [Next]_vars
  PROVE  CopyKeepsSource'
<1>1. CASE UNCHANGED vars
  BY <1>1 DEF vars, CopyKeepsSource
<1>2. ASSUME NEW from \in Paths, NEW to \in Paths, NEW overwrite \in BOOLEAN,
             NEW removes \in BOOLEAN,
             \/ MoveOrCopy(from, to, overwrite, removes)
             \/ MoveStops(from, to, overwrite, removes)
      PROVE  CopyKeepsSource'
  <2>1. /\ last'.from = from /\ last'.to = to
        /\ last'.had = {<<p, at[p]>> : p \in Present(from)}
        /\ last'.op = IF removes THEN "move" ELSE "copy"
    BY <1>2 DEF MoveOrCopy, MoveStops, Answers
  <2> SUFFICES ASSUME ~removes, ~Within(from, to), NEW p \in Present(from)
               PROVE  at'[p] = at[p]
    BY <2>1 DEF CopyKeepsSource
  <2>2. p \in Files /\ ~Within(p, to)
    BY <1>2, SourceIsDisjoint DEF MoveOrCopy, MoveStops, MayMove, Present
  <2>3. CASE MoveOrCopy(from, to, overwrite, removes)
    BY <2>2, <2>3 DEF MoveOrCopy, Arrivals
  <2>4. CASE MoveStops(from, to, overwrite, removes)
    <3>1. PICK gone \in SUBSET (Present(to) \cap Text), S \in SUBSET Sources(from, to) :
            at' = [q \in Files |->
                     IF q \in Arrivals(S, from, to) \cap Text THEN at[Origin(q, from, to)]
                     ELSE IF q \in gone THEN Absent ELSE at[q]]
      BY <2>4 DEF MoveStops
    <3> QED
      BY <2>2, <3>1 DEF Arrivals, Present
  <2> QED
    BY <1>2, <2>3, <2>4
<1>3. CASE \/ \E p \in Files, c \in Contents : Put(p, c)
           \/ \E d \in Directories : Mkcol(d)
           \/ \E p \in Paths : Delete(p) \/ DeleteStops(p)
  <2>1. last'.op # "copy"
    BY <1>3 DEF Put, Mkcol, Delete, DeleteStops, Answers
  <2> QED
    BY <2>1 DEF CopyKeepsSource
<1> QED
  BY <1>1, <1>2, <1>3 DEF Next

-----------------------------------------------------------------------------
(***************************************************************************)
(* Nothing outside the folder granted to a device changes, whatever it     *)
(* asks for and wherever its request stops (webdav.rs, resolve_target).    *)
(***************************************************************************)
THEOREM FolderIsTheLimit ==
  ASSUME PathsOK
  PROVE  Spec => OutsideKept
<1>1. Init => HasFiles
  BY DEF Init, HasFiles
<1>2. HasFiles /\ [Next]_vars => HasFiles'
  BY StepKeepsType
<1>3. HasFiles /\ [Next]_vars
      => [\A q \in Files : ~Within(q, Folder) => at'[q] = at[q]]_vars
  BY StepKeepsOutside
<1> QED
  BY <1>1, <1>2, <1>3, PTL DEF Spec, OutsideKept

(***************************************************************************)
(* Every MOVE and COPY that is answered with success, and does not go to a *)
(* directory above its source, brings every file (vault/dav.rs,            *)
(* dav_move_or_copy).                                                      *)
(***************************************************************************)
THEOREM MovesBringTheirFiles ==
  ASSUME PathsOK
  PROVE  Spec => []MovedUnlessUp
<1>1. Init => HasFiles /\ MovedUnlessUp
  BY DEF Init, HasFiles, NoRequest, MovedUnlessUp, MovedIsThere, Moves
<1>2. HasFiles /\ MovedUnlessUp /\ [Next]_vars => (HasFiles /\ MovedUnlessUp)'
  BY StepKeepsType, StepBringsFiles
<1> QED
  BY <1>1, <1>2, PTL DEF Spec

(***************************************************************************)
(* A COPY takes nothing from its source, also when it stops half way.      *)
(***************************************************************************)
THEOREM CopiesKeepTheirSource ==
  ASSUME PathsOK
  PROVE  Spec => []CopyKeepsSource
<1>1. Init => HasFiles /\ CopyKeepsSource
  BY DEF Init, HasFiles, NoRequest, CopyKeepsSource
<1>2. HasFiles /\ CopyKeepsSource /\ [Next]_vars => (HasFiles /\ CopyKeepsSource)'
  BY StepKeepsType, StepKeepsSource
<1> QED
  BY <1>1, <1>2, PTL DEF Spec
=============================================================================
