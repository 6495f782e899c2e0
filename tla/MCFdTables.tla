------------------------------ MODULE MCFdTables ------------------------------
(* TLC instances of FdTables. *)
EXTENDS FdTables, TLC

Symmetry == Permutations(Threads)
=============================================================================
