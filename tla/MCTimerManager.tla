---------------------------- MODULE MCTimerManager ----------------------------
(* Instances of TimerManager for TLC.                                        *)
EXTENDS TimerManager, TLC

(* The worker threads are interchangeable; their names never compare.        *)
Symmetry == Permutations(Workers)
=============================================================================
