----------------------------- MODULE EventWaits -----------------------------
(***************************************************************************)
(* What a program relies on when it waits for events with addEvent(): the  *)
(* callback of an event is scheduled only while it waits for the event; a  *)
(* wait ends once, by its event, by delEvent() (without the callback) or by*)
(* cancelEvent() and cancelAll() (with it); a wait with repeat goes on. If *)
(* one thread makes the calls and dispatches, an event comes only when the *)
(* descriptor has been ready since the wait began. No descriptors' locks,  *)
(* no epoll: FdEvents.tla is shown to implement this specification.        *)
(***************************************************************************)
CONSTANTS Event,      (* what can be waited for                            *)
          Exact,      (* one thread makes the calls and dispatches         *)
          Safe        (* triggerEvent() meets no event that nobody waits for*)

VARIABLES wait,       (* how an event is waited for: null, once, repeat    *)
          ready,      (* the events that the descriptors are ready for     *)
          reported,   (* those reported since the wait for them began      *)
          scheduled,  (* those whose callback is scheduled                 *)
          failed      (* the program has dereferenced a null scheduler      *)

waitVars == <<wait, ready, reported, scheduled, failed>>

Init ==
    /\ wait = [e \in Event |-> "null"]
    /\ ready = {}
    /\ reported = {}
    /\ scheduled = {}
    /\ failed = FALSE

Awaited == {e \in Event : wait[e] # "null"}

End(E) == wait' = [e \in Event |-> IF e \in E THEN "null" ELSE wait[e]]

ReadyChanges ==
    /\ ready' \in SUBSET Event
    /\ UNCHANGED <<wait, reported, scheduled, failed>>

Report(E) ==
    /\ E \subseteq Awaited \cap ready
    /\ reported' = reported \cup E
    /\ UNCHANGED <<wait, ready, scheduled, failed>>

(* A wait that begins has not seen anything yet.                           *)
Add(e, repeat) ==
    /\ Exact => e \notin reported
    /\ wait' = [wait EXCEPT ![e] = IF repeat THEN "repeat" ELSE "once"]
    /\ reported' \subseteq reported
    /\ UNCHANGED <<ready, scheduled, failed>>

Delete(e) ==
    /\ e \in Awaited
    /\ End({e})
    /\ reported' \subseteq reported \ {e}
    /\ UNCHANGED <<ready, scheduled, failed>>

Cancel(E) ==
    /\ E \subseteq Awaited
    /\ End(E)
    /\ scheduled' = scheduled \cup E
    /\ reported' \subseteq reported \ E
    /\ UNCHANGED <<ready, failed>>

Trigger(E) ==
    /\ E \subseteq Awaited
    /\ Exact => E \subseteq reported
    /\ End({e \in E : wait[e] = "once"})
    /\ scheduled' = scheduled \cup E
    /\ reported' \subseteq reported
    /\ UNCHANGED <<ready, failed>>

Run(e) ==
    /\ e \in scheduled
    /\ scheduled' = scheduled \ {e}
    /\ UNCHANGED <<wait, ready, reported, failed>>

Fail ==
    /\ ~Safe
    /\ failed' = TRUE
    /\ reported' \subseteq reported
    /\ UNCHANGED <<wait, ready, scheduled>>

Next ==
    /\ ~failed
    /\ \/ \E e \in Event :
             \/ \E repeat \in BOOLEAN : Add(e, repeat)
             \/ Delete(e)
             \/ Run(e)
       \/ \E E \in SUBSET Event : Report(E) \/ Cancel(E) \/ Trigger(E)
       \/ ReadyChanges
       \/ Fail

Spec == Init /\ [][Next]_waitVars
=============================================================================
