------------------------------- MODULE MCHookIo -------------------------------
(* Instances of HookIo for TLC.                                              *)
EXTENDS HookIo, TLC

(* The doroutines that close are alike, and so are the others.               *)
Symmetry == Permutations(Closers) \cup Permutations(Doroutines \ Closers)
=============================================================================
