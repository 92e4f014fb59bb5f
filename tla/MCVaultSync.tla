----------------------------- MODULE MCVaultSync -----------------------------
(***************************************************************************)
(* VaultSync on small vaults.                                              *)
(***************************************************************************)
EXTENDS VaultSync, TLC

CONSTANTS d1, d2, note, other, r1, r2

MCValues    == 0..MaxEdits
MCUploads   == Contents
MCManifests == {}
NoTexts     == {}

(* Every file of the vault starts with the value 0 in each region.         *)
AllPresent  == [p \in Paths |-> [r \in Regions |-> 0]]

(* Only the file `other` is there at the start.                             *)
OnlyOther   == [p \in Paths |->
                  IF p = other THEN [r \in Regions |-> 0] ELSE Absent]

(* The contents whose first region holds an even number contain a NUL byte. *)
EvenTexts   == {t \in Texts : t[r1] \in {0, 2}}

Symmetry == Permutations(Devices)

(* Where every note starts alike, the notes and their regions are          *)
(* interchangeable as well.                                                *)
NoteSymmetry ==
  Permutations(Devices) \cup Permutations(Paths) \cup Permutations(Regions)
=============================================================================
