---------------------------- MODULE MCLevelTests ----------------------------
(***************************************************************************)
(* The unit tests with the ids and quantities of the code.                 *)
(***************************************************************************)
EXTENDS LevelTests

Ids == 1..4 \cup Earlier
=============================================================================
