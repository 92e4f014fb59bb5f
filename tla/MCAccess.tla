------------------------------- MODULE MCAccess -------------------------------
(***************************************************************************)
(* Instances of DeviceAccess for TLC.                                      *)
(***************************************************************************)
EXTENDS DeviceAccess, TLC

CONSTANTS addr, u1, c1, c2, v1, v2, p1, p2

(* An address is locked by its second failure, a name by its third.        *)
MCLimit == [k \in Addresses \cup Names |-> IF k \in Addresses THEN 2 ELSE 3]

Alike == Permutations(Callers) \cup Permutations(Visitors)
           \cup Permutations(Passwords)
===============================================================================
