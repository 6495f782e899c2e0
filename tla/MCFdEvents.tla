------------------------------ MODULE MCFdEvents ------------------------------
(* Instances of FdEvents for TLC.                                            *)
EXTENDS FdEvents, TLC

(* Descriptors and worker threads are interchangeable.                       *)
Symmetry == Permutations(Fds) \cup Permutations(Workers)
=============================================================================
