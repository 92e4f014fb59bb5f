----------------------------- MODULE MCTabletPush -----------------------------
(***************************************************************************)
(* Instances of TabletPush for TLC.                                        *)
(***************************************************************************)
EXTENDS TabletPush, TLC

CONSTANTS n1, n2

MCListings == {{n1}, {n1, n2}}
OneListing == {{n1}}
=============================================================================
