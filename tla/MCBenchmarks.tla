---------------------------- MODULE MCBenchmarks ----------------------------
(***************************************************************************)
(* The benchmarks at the size the code gives them.                         *)
(***************************************************************************)
EXTENDS Benchmarks

Ids == 0..N - 1
=============================================================================
