------------------------------ MODULE MCFirstSync ------------------------------
(***************************************************************************)
(* FirstSync on the vaults of MCVaultSync.                                 *)
(***************************************************************************)
EXTENDS FirstSync, MCVaultSync

(* Nothing FirstSync does or states depends on the two histories left out. *)
Seenless == <<serverVars, deviceVars, edits, bounds, firstVars>>
=============================================================================
