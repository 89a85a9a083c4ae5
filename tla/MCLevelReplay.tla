--------------------------- MODULE MCLevelReplay ---------------------------
(***************************************************************************)
(* Small instances of LevelReplay.                                         *)
(***************************************************************************)
EXTENDS LevelReplay, TLC

(* Addresses and ids are only compared for equality.                       *)
Symmetry == Permutations(Nodes) \cup Permutations(OrderIds)
=============================================================================
