---------------------------- MODULE BlockingCalls ----------------------------
(***************************************************************************)
(* What a doroutine relies on when it makes a hooked call: the call returns*)
(* once; if it waits, it goes on when it is woken, once for each wait; what*)
(* it returns then is ETIMEDOUT exactly if a timeout was asked for and has *)
(* passed; sleep() is woken by its timer only. With one thread a wait ends *)
(* for one of three reasons (readiness, the timeout of this very call,     *)
(* close()), close() leaves nobody waiting, and connect has been decided   *)
(* when it returns. No scheduler, no events, no callbacks: HookIo.tla is   *)
(* shown to implement this specification.                                  *)
(***************************************************************************)
CONSTANTS Caller,
          NoCall,   (* what call is of who makes none                      *)
          Exact     (* one thread makes the calls and runs the callbacks   *)

VARIABLES phase,    (* none, running, waiting, woken, ending, closing      *)
          call,     (* the kind of the call; was a timeout asked for?      *)
          timeout,  (* of the call: off, set, passed                       *)
          answer,   (* what the last call to return has returned           *)
          ready,    (* the descriptor is readable (writable)               *)
          open      (* and it is open                                      *)

callingVars == <<phase, call, timeout, answer, ready, open>>

Init ==
    /\ phase = [c \in Caller |-> "none"]
    /\ call = [c \in Caller |-> NoCall]
    /\ timeout = [c \in Caller |-> "off"]
    /\ answer = "none"
    /\ ready = FALSE
    /\ open = TRUE

Sleeps(c) == call[c].kind = "sleep"
Waiting   == {c \in Caller : phase[c] = "waiting" /\ ~Sleeps(c)}
Closing   == {c \in Caller : phase[c] = "closing"}

Enter(c, p) == phase' = [phase EXCEPT ![c] = p]

Begin(c, kind, timed) ==
    /\ phase[c] = "none"
    /\ kind # "sleep" => \A o \in Caller : phase[o] \in {"none", "closing"} \/ Sleeps(o)
    /\ Enter(c, "running")
    /\ call' = [call EXCEPT ![c] = [kind |-> kind, timed |-> timed]]
    /\ UNCHANGED <<timeout, answer, ready, open>>

Set(c) ==
    /\ phase[c] = "running" /\ call[c].timed /\ timeout[c] = "off"
    /\ timeout' = [timeout EXCEPT ![c] = "set"]
    /\ UNCHANGED <<phase, call, answer, ready, open>>

(* No call waits without the timeout it asked for, nor on a descriptor that*)
(* is closed or, with one thread, about to be.                             *)
Wait(c) ==
    /\ phase[c] = "running" /\ ~Sleeps(c)
    /\ call[c].timed => timeout[c] # "off"
    /\ open /\ (Exact => Closing = {})
    /\ Enter(c, "waiting")
    /\ UNCHANGED <<call, timeout, answer, ready, open>>

Sleep(c) ==
    /\ phase[c] = "running" /\ Sleeps(c)
    /\ Enter(c, "waiting")
    /\ timeout' = [timeout EXCEPT ![c] = "set"]
    /\ UNCHANGED <<call, answer, ready, open>>

Pass(c) ==
    /\ timeout[c] = "set" /\ ~Sleeps(c)
    /\ timeout' = [timeout EXCEPT ![c] = "passed"]
    /\ UNCHANGED <<phase, call, answer, ready, open>>

(* More than one thread may wake a call for a timeout that an earlier call *)
(* asked for.                                                              *)
Wake(c) ==
    /\ c \in Waiting
    /\ Exact => ready \/ timeout[c] = "passed"
    /\ Enter(c, "woken")
    /\ UNCHANGED <<call, timeout, answer, ready, open>>

WakeSleeper(c) ==
    /\ phase[c] = "waiting" /\ Sleeps(c) /\ timeout[c] = "set"
    /\ Enter(c, "woken")
    /\ timeout' = [timeout EXCEPT ![c] = "passed"]
    /\ UNCHANGED <<call, answer, ready, open>>

(* A timer that has been collected cannot be cancelled any more.           *)
Retry(c) ==
    /\ phase[c] = "woken" /\ call[c].kind = "io" /\ timeout[c] # "passed"
    /\ Enter(c, "running")
    /\ timeout' \in {timeout, [timeout EXCEPT ![c] = "off"]}
    /\ UNCHANGED <<call, answer, ready, open>>

(* connect does not try again: it asks for the outcome.                    *)
Conclude(c) ==
    /\ call[c].kind = "connect"
    /\ phase[c] = "running" \/ (phase[c] = "woken" /\ timeout[c] # "passed")
    /\ Enter(c, "ending")
    /\ UNCHANGED <<call, timeout, answer, ready, open>>

Answers(c) ==
    CASE phase[c] = "running" -> IF Sleeps(c) THEN {} ELSE {"ok", "error"}
      [] phase[c] = "woken"   -> IF Sleeps(c) THEN {"ok"}
                                 ELSE IF timeout[c] = "passed" THEN {"ETIMEDOUT"} ELSE {}
      [] phase[c] = "ending"  -> {"ok", "error"} \cup IF Exact THEN {} ELSE {"inProgress"}
      [] OTHER                -> {}

Return(c) ==
    /\ answer' \in Answers(c)
    /\ Enter(c, "none")
    /\ call' = [call EXCEPT ![c] = NoCall]
    /\ timeout' = [timeout EXCEPT ![c] = "off"]
    /\ ready' \in BOOLEAN
    /\ UNCHANGED open

-----------------------------------------------------------------------------
Close(c) ==
    /\ phase[c] = "none"
    /\ \E W \in SUBSET Waiting :
          /\ Exact => W = Waiting
          /\ phase' = [o \in Caller |-> IF o = c THEN "closing"
                                        ELSE IF o \in W THEN "woken" ELSE phase[o]]
    /\ UNCHANGED <<call, timeout, answer, ready, open>>

Closed(c) ==
    /\ c \in Closing
    /\ Enter(c, "none")
    /\ open' = FALSE
    /\ ready' = FALSE
    /\ UNCHANGED <<call, timeout, answer>>

Open ==
    /\ ~open
    /\ open' = TRUE
    /\ UNCHANGED <<phase, call, timeout, answer, ready>>

BecomeReady ==
    /\ ready' \in BOOLEAN
    /\ UNCHANGED <<phase, call, timeout, answer, open>>

Next ==
    \/ \E c \in Caller :
          \/ \E kind \in {"io", "connect"}, timed \in BOOLEAN : Begin(c, kind, timed)
          \/ Begin(c, "sleep", TRUE)
          \/ Set(c) \/ Wait(c) \/ Sleep(c) \/ Pass(c)
          \/ Wake(c) \/ WakeSleeper(c) \/ Retry(c) \/ Conclude(c) \/ Return(c)
          \/ Close(c) \/ Closed(c)
    \/ Open
    \/ BecomeReady

Spec == Init /\ [][Next]_callingVars
=============================================================================
