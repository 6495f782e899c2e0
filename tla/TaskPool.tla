------------------------------ MODULE TaskPool ------------------------------
(***************************************************************************)
(* What a caller of KSC::Scheduler relies on, with no queue, no coroutine  *)
(* state and no idle loop: a task handed to schedule() is run by one thread *)
(* at a time, none is lost, and stop() returns only after a moment at which *)
(* nothing was pending or running, after which nothing runs any more.       *)
(* Scheduler.tla is shown to implement this specification.                  *)
(***************************************************************************)
CONSTANTS Threads,  (* the threads that run tasks                      *)
          Tasks,    (* what can be submitted                           *)
          NoTask    (* held by a thread that runs nothing              *)

VARIABLES pending,  (* submitted and not yet taken                     *)
          busy,     (* busy[t]: the task thread t runs, or NoTask      *)
          closed,   (* the pool was found empty and runs nothing more  *)
          returned  (* stop() has returned                             *)

poolVars == <<pending, busy, closed, returned>>

Init ==
    /\ pending = {}
    /\ busy = [t \in Threads |-> NoTask]
    /\ closed = FALSE
    /\ returned = FALSE

Submit(d) ==
    /\ ~closed
    /\ d \notin pending
    /\ pending' = pending \cup {d}
    /\ UNCHANGED <<busy, closed, returned>>

(* A task begins on one thread only, however often it was submitted.       *)
Begin(t, d) ==
    /\ busy[t] = NoTask
    /\ d \in pending
    /\ \A u \in Threads : busy[u] # d
    /\ pending' = pending \ {d}
    /\ busy' = [busy EXCEPT ![t] = d]
    /\ UNCHANGED <<closed, returned>>

End(t) ==
    /\ busy[t] # NoTask
    /\ busy' = [busy EXCEPT ![t] = NoTask]
    /\ UNCHANGED <<pending, closed, returned>>

Close ==
    /\ pending = {}
    /\ \A t \in Threads : busy[t] = NoTask
    /\ closed' = TRUE
    /\ UNCHANGED <<pending, busy, returned>>

Return ==
    /\ closed
    /\ returned' = TRUE
    /\ UNCHANGED <<pending, busy, closed>>

Next ==
    \/ \E d \in Tasks : Submit(d)
    \/ \E t \in Threads, d \in Tasks : Begin(t, d)
    \/ \E t \in Threads : End(t)
    \/ Close
    \/ Return

Spec == Init /\ [][Next]_poolVars
=============================================================================
