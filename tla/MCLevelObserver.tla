-------------------------- MODULE MCLevelObserver --------------------------
(***************************************************************************)
(* Small instances of LevelObserver.                                       *)
(***************************************************************************)
EXTENDS LevelObserver, TLC

(* Addresses and ids are only compared for equality.                       *)
Symmetry == Permutations(Nodes) \cup Permutations(OrderIds)
=============================================================================
