------------------------------ MODULE MCIdleLoop ------------------------------
(* TLC instances of IdleLoop. *)
EXTENDS IdleLoop, TLC

Symmetry == Permutations(Workers)
=============================================================================
