----------------------------- MODULE MCScheduler -----------------------------
(* Instances of Scheduler for TLC.                                          *)
EXTENDS Scheduler, TLC

(* Doroutines and threads are only compared, never chosen between; for runs *)
(* that check no liveness.                                                  *)
Symmetry == Permutations(Doroutines) \cup Permutations(Workers)
=============================================================================
