-------------------------------- MODULE DavTree --------------------------------
(***************************************************************************)
(* The folder a device works in over WebDAV, with the collections that     *)
(* VaultServer leaves out.  Text files and directories are in the working  *)
(* tree, other files only in the binary manifest.  A request runs under    *)
(* the vault's lock, so it is one step; when it stops half way, the        *)
(* working tree keeps what was done, and the manifest, written at the end, *)
(* is as it was.                                                           *)
(*                                                                         *)
(* A path is the sequence of its segments, and names either a file or a    *)
(* directory for good.                                                     *)
(***************************************************************************)
EXTENDS Naturals, Sequences, FiniteSets

CONSTANTS
  Names,       \* the names that are the segments of paths
  Files,       \* the paths of files
  Text,        \* those of them that are merged as text
  Directories, \* the paths of directories
  Folder,      \* the folder granted to the device
  Contents,    \* what a file may hold
  Absent,      \* ... when there is none
  MaxRequests  \* bound: requests

VARIABLES
  at,          \* the content of every file
  dirs,        \* the directories of the working tree
  last,        \* the last request, and what was at its source
  requests     \* requests so far

vars == <<at, dirs, last, requests>>

Paths   == Files \cup Directories
PathsOK == Paths \cup {Folder} \subseteq Seq(Names) /\ Text \subseteq Files

Within(p, d) == Len(d) <= Len(p) /\ \A i \in 1..Len(d) : p[i] = d[i]
Above(p)     == {d \in Directories : Within(p, d) /\ d # p}

Present(p) == {q \in Files : Within(q, p) /\ at[q] # Absent}

(* A directory without text files need not be in the working tree.         *)
IsDir(p)   == p \in Directories /\ (p \in dirs \/ Present(p) # {})
Exists(p)  == IsDir(p) \/ Present(p) # {}

(* Requests are about paths inside the granted folder.                     *)
Grants(p)  == Within(p, Folder) /\ p # Folder

NoRequest == [op |-> "none", from |-> <<>>, to |-> <<>>, ok |-> FALSE, had |-> {}]

(* What was at the source when the request came.                           *)
Answers(op, from, to, ok) ==
  /\ requests < MaxRequests
  /\ requests' = requests + 1
  /\ last' = [op |-> op, from |-> from, to |-> to, ok |-> ok,
              had |-> {<<p, at[p]>> : p \in Present(from)}]

-----------------------------------------------------------------------------
Put(p, c) ==
  /\ Grants(p)
  /\ at' = [at EXCEPT ![p] = c]
  /\ dirs' = IF p \in Text THEN dirs \cup Above(p) ELSE dirs
  /\ Answers("put", p, p, TRUE)

Mkcol(d) ==
  /\ Grants(d) /\ ~Exists(d)
  /\ \A e \in Above(d) : Len(e) = Len(d) - 1 => IsDir(e) \/ e = Folder
  /\ dirs' = dirs \cup Above(d) \cup {d}
  /\ UNCHANGED at
  /\ Answers("mkcol", d, d, TRUE)

Delete(p) ==
  /\ Grants(p) /\ Exists(p)
  /\ at' = [q \in Files |-> IF Within(q, p) THEN Absent ELSE at[q]]
  /\ dirs' = {d \in dirs : ~Within(d, p)}
  /\ Answers("delete", p, p, TRUE)

(* What the removal of directory `p` has removed, if it stops: a directory *)
(* goes after those below it.                                              *)
Removals(p) ==
  {some \in SUBSET {d \in dirs : Within(d, p)} :
     \A d \in some, e \in dirs : Within(e, d) => e \in some}

(* The files go first, then the directories, then the manifest is written. *)
DeleteStops(p) ==
  /\ Grants(p) /\ Exists(p)
  /\ \E gone \in SUBSET (Present(p) \cap Text), some \in Removals(p) :
       /\ some # {} => gone = Present(p) \cap Text
       /\ at' = [q \in Files |-> IF q \in gone THEN Absent ELSE at[q]]
       /\ dirs' = dirs \ some
  /\ Answers("delete", p, p, FALSE)

-----------------------------------------------------------------------------
(***************************************************************************)
(* MOVE and COPY: what is at the destination goes; then the files that are *)
(* at the source are read and written, each removed when it is moved.      *)
(***************************************************************************)
MayMove(from, to, overwrite) ==
  /\ Grants(from) /\ Grants(to) /\ ~Within(to, from)
  /\ from \in Files <=> to \in Files
  /\ Exists(from)
  /\ Exists(to) => overwrite

(* Where the file that comes to `q` is taken from.                         *)
Origin(q, from, to) == from \o SubSeq(q, Len(to) + 1, Len(q))

(* The files of the source, once the destination has been cleared.         *)
Sources(from, to) == {p \in Present(from) : ~Within(p, to)}

(* The files that come to the destination when `S` have been brought.      *)
Arrivals(S, from, to) == {q \in Files : Within(q, to) /\ Origin(q, from, to) \in S}

MoveOrCopy(from, to, overwrite, removes) ==
  LET S    == Sources(from, to)
      new  == Arrivals(S, from, to)
      made == IF from \in Directories /\ ~removes THEN Above(to) \cup {to} ELSE {}
  IN /\ MayMove(from, to, overwrite)
     /\ S = {Origin(q, from, to) : q \in new}
     /\ at' = [q \in Files |-> IF q \in new THEN at[Origin(q, from, to)]
                               ELSE IF Within(q, to) \/ (removes /\ Within(q, from))
                                    THEN Absent
                               ELSE at[q]]
     /\ dirs' = {d \in dirs : ~Within(d, to) /\ (removes => ~Within(d, from))}
                  \cup made \cup UNION {Above(q) : q \in new \cap Text}
     /\ Answers(IF removes THEN "move" ELSE "copy", from, to, TRUE)

(* It stops while the destination is cleared, with some files brought (the *)
(* directories of the next may be there), or when they all have been and   *)
(* the directories of the source go, or an empty copy comes.               *)
MoveStops(from, to, overwrite, removes) ==
  /\ MayMove(from, to, overwrite)
  /\ \E gone \in SUBSET (Present(to) \cap Text), some \in Removals(to),
        S \in SUBSET Sources(from, to), next \in SUBSET Sources(from, to) :
       LET new  == Arrivals(S, from, to) \cap Text
           out  == IF removes THEN S \cap Text ELSE {}
           made == UNION {Above(q) : q \in Arrivals(S \cup next, from, to) \cap Text}
           kept == (dirs \ some) \cup made
       IN /\ some # {} => gone = Present(to) \cap Text
          /\ S \cup next # {} => /\ gone = Present(to) \cap Text
                                /\ some = {d \in dirs : Within(d, to)}
          /\ at' = [q \in Files |-> IF q \in new THEN at[Origin(q, from, to)]
                                    ELSE IF q \in gone \cup out THEN Absent ELSE at[q]]
          /\ \/ dirs' = kept /\ Cardinality(next) <= 1
             \/ /\ S = Sources(from, to) /\ next = {} /\ from \in Directories
                /\ some = {d \in dirs : Within(d, to)}
                /\ dirs' \in IF removes THEN {kept \ past : past \in Removals(from)}
                                        ELSE {kept \cup Above(to) \cup {to}}
  /\ Answers(IF removes THEN "move" ELSE "copy", from, to, FALSE)

-----------------------------------------------------------------------------
Init ==
  /\ at \in [Files -> Contents \cup {Absent}]
  /\ dirs = UNION {Above(p) : p \in {q \in Text : at[q] # Absent}}
  /\ last = NoRequest /\ requests = 0

Next ==
  \/ \E p \in Files, c \in Contents : Put(p, c)
  \/ \E d \in Directories : Mkcol(d)
  \/ \E p \in Paths : Delete(p) \/ DeleteStops(p)
  \/ \E from, to \in Paths, overwrite, removes \in BOOLEAN :
       MoveOrCopy(from, to, overwrite, removes) \/ MoveStops(from, to, overwrite, removes)

Spec == Init /\ [][Next]_vars

(***************************************************************************)
(* "Moves or copies a file or directory" (vault/dav.rs:329): when a        *)
(* request is answered with success, every file that was at the source is  *)
(* at the destination.                                                     *)
(***************************************************************************)
Moves == last.op \in {"move", "copy"} /\ last.ok

MovedIsThere ==
  Moves => \A q \in Files : Within(q, last.to)
             => \A h \in last.had : h[1] = Origin(q, last.from, last.to) => at[q] = h[2]

(***************************************************************************)
(* The same of every request but those onto a directory above the source.  *)
(***************************************************************************)
MovedUnlessUp == ~Within(last.from, last.to) => MovedIsThere

(***************************************************************************)
(* Whatever a device asks for, and wherever its request stops, nothing     *)
(* outside the folder granted to it changes.                               *)
(***************************************************************************)
OutsideKept ==
  [][\A q \in Files : ~Within(q, Folder) => at'[q] = at[q]]_vars

(***************************************************************************)
(* A copy takes nothing from its source, unless it goes above it.          *)
(***************************************************************************)
CopyKeepsSource ==
  last.op = "copy" /\ ~Within(last.from, last.to)
  => \A h \in last.had : at[h[1]] = h[2]
=============================================================================
