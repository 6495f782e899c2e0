------------------------------- MODULE Alarms -------------------------------
(***************************************************************************)
(* What a program relies on when it uses KSC::TimerManager, with no set,   *)
(* no lock and no threads: a timer rings when it is due and never before,  *)
(* a one-shot timer rings once or is cancelled, and a cancelled timer does *)
(* not ring. TimerManager.tla is shown to implement this specification.    *)
(***************************************************************************)
EXTENDS Naturals

CONSTANTS Alarm,      (* the timers                                        *)
          Recurring   (* those that ring more than once                    *)

VARIABLES clock,
          due,        (* when each of them rings next                      *)
          state,      (* unset, set, rung, cancelled                       *)
          rings       (* how often each of them has rung                   *)

alarmVars == <<clock, due, state, rings>>

Init ==
    /\ clock \in Nat
    /\ due = [a \in Alarm |-> 0]
    /\ state = [a \in Alarm |-> "unset"]
    /\ rings = [a \in Alarm |-> 0]

Wait ==
    /\ clock' = clock + 1
    /\ UNCHANGED <<due, state, rings>>

(* For which time a timer is set is left open.                             *)
SetFor(a) ==
    /\ due' \in [Alarm -> Nat]
    /\ \A b \in Alarm \ {a} : due'[b] = due[b]
    /\ UNCHANGED <<clock, rings>>

Add(a) ==
    /\ state[a] = "unset"
    /\ state' = [state EXCEPT ![a] = "set"]
    /\ SetFor(a)

Change(a) ==
    /\ state[a] = "set"
    /\ SetFor(a)
    /\ UNCHANGED state

Cancel(a) ==
    /\ state[a] = "set"
    /\ state' = [state EXCEPT ![a] = "cancelled"]
    /\ UNCHANGED <<clock, due, rings>>

(* Timers that are due ring together; those that recur are set again, for  *)
(* a time that is not before the one they were due at.                     *)
Ring(A) ==
    /\ \A a \in A : state[a] = "set" /\ due[a] <= clock
    /\ rings' = [a \in Alarm |-> IF a \in A THEN rings[a] + 1 ELSE rings[a]]
    /\ state' = [a \in Alarm |-> IF a \in A \ Recurring THEN "rung" ELSE state[a]]
    /\ due' \in [Alarm -> Nat]
    /\ \A a \in Alarm : IF a \in A \cap Recurring THEN due'[a] >= due[a]
                                                  ELSE due'[a] = due[a]
    /\ UNCHANGED clock

Next ==
    \/ Wait
    \/ \E a \in Alarm : Add(a) \/ Change(a) \/ Cancel(a)
    \/ \E A \in SUBSET Alarm : Ring(A)

Spec == Init /\ [][Next]_alarmVars
=============================================================================
