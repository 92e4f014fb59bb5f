---------------------------- MODULE MCVaultServer ----------------------------
(***************************************************************************)
(* VaultServer with one note and one binary file, shared by two devices,   *)
(* a tablet and a crashing server.                                         *)
(***************************************************************************)
EXTENDS VaultServer, TLC

CONSTANTS d1, d2, note, photo, r1, v1, v2, v3

MCUploads   == Texts
MCManifests == {EmptyTree}
MCNulTexts  == {}

Symmetry == Permutations(Devices) \cup Permutations(Values)
=============================================================================
