------------------------------- MODULE MCDavTree -------------------------------
(***************************************************************************)
(* Instances of DavTree for TLC: the granted folder `t` of a vault with a  *)
(* file beside it, and in it two directories, one in the other.            *)
(***************************************************************************)
EXTENDS DavTree

CONSTANTS c1, c2

MCText        == {<<"t", "a", "x">>, <<"t", "a", "b", "x">>, <<"x">>}
MCFiles       == MCText \cup {<<"t", "a", "b", "y">>, <<"t", "a", "y">>}
MCDirectories == {<<"t">>, <<"t", "a">>, <<"t", "a", "b">>, <<"t", "b">>}
MCNames       == {"t", "a", "b", "x", "y"}
MCFolder      == <<"t">>
=============================================================================
