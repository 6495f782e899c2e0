-------------------------------- MODULE HookIo --------------------------------
(***************************************************************************)
(* The blocking calls that src/src/hook.cpp replaces: do_io() (read, recv, *)
(* write, accept...), connect_with_timeout(), sleep() and close(), as the  *)
(* doroutines of a program make them on one descriptor number and in one   *)
(* direction, with the timers and the event that park and wake them.       *)
(*                                                                         *)
(* Of the parts below it this module uses what their modules show: a ready *)
(* registered event is triggered (FdEvents), an armed timer is collected   *)
(* and a cancelled one is not (TimerManager), and a queued task is run by  *)
(* some thread, once it has left the one it is on (Scheduler). So addEvent *)
(* and the yield after it are one step: who is woken in between is not     *)
(* resumed before the yield. Hooks are enabled, the descriptor is a socket *)
(* and user_nonblock is off; otherwise the calls are the system's own.     *)
(***************************************************************************)
EXTENDS Naturals, FiniteSets

CONSTANTS
    Doroutines,  (* the doroutines that make the calls                       *)
    None,        (* no doroutine                                             *)
    Closers,     (* those that may close the descriptor and open it anew     *)
    NThreads,    (* threads of the IOManager. Bound: with more than two, the *)
                 (* unfinished callbacks of earlier calls had to be counted  *)
    Spurious     (* may readiness be gone when the woken call tries again?   *)

ASSUME HookAssumption ==
    /\ IsFiniteSet(Doroutines)
    /\ None \notin Doroutines
    /\ Closers \subseteq Doroutines
    /\ NThreads \in 1..2
    /\ Spurious \in BOOLEAN

VARIABLES
    pc,         (* where each doroutine is; user: between two calls          *)
    call,       (* the kind of its call, and whether it has a timeout        *)
    result,     (* what the last call to return has returned                 *)
    cancelled,  (* tinfo->cancelled of its call is ETIMEDOUT                 *)
    armed,      (* the timer of its call is in the TimerManager              *)
    queued,     (* a callback of its call's timer is handed to schedule()    *)
    stale,      (* a timer of an earlier call, whose timerInfo is destroyed, *)
                (* is still to be collected or to call back                  *)
    firing,     (* callbacks that set cancelled and did not yet cancelEvent():*)
                (* of its own call, of an older one                          *)
    waiter,     (* FdContext: the doroutine of the registered event          *)
    interest,   (* kernel: the event is registered with epoll                *)
    ready,      (* kernel: the descriptor is readable (writable)             *)
    socket,     (* kernel: what the descriptor is; new: not connected        *)
    fdCtx       (* FdManager has an FdCtx for it                             *)

callVars  == <<call, result>>
timerVars == <<cancelled, armed, queued, stale, firing>>
eventVars == <<waiter, interest>>
fdVars    == <<ready, socket, fdCtx>>
vars == <<pc, callVars, timerVars, eventVars, fdVars>>

OnThread == {"fun", "arm", "add", "woken", "getsockopt", "delFd", "close_f"}
Ages     == {"own", "old"}

TypeOK ==
    /\ pc \in [Doroutines -> OnThread \cup {"user", "parked", "runnable"}]
    /\ call \in [Doroutines -> [kind : {"io", "connect", "sleep"}, timed : BOOLEAN]]
    /\ result \in {"none", "ok", "error", "ETIMEDOUT", "inProgress"}
    /\ cancelled \in [Doroutines -> BOOLEAN]
    /\ armed \in [Doroutines -> BOOLEAN]
    /\ queued \in [Doroutines -> BOOLEAN]
    /\ stale \in [Doroutines -> BOOLEAN]
    /\ firing \in [Doroutines -> SUBSET Ages]
    /\ waiter \in Doroutines \cup {None}
    /\ interest \in BOOLEAN
    /\ ready \in BOOLEAN
    /\ socket \in {"closed", "new", "connecting", "connected"}
    /\ fdCtx \in BOOLEAN

(* What call is between two calls.                                         *)
NoCall == [kind |-> "io", timed |-> FALSE]

Init ==
    /\ pc = [d \in Doroutines |-> "user"]
    /\ call = [d \in Doroutines |-> NoCall]
    /\ result = "none"
    /\ cancelled = [d \in Doroutines |-> FALSE]
    /\ armed = [d \in Doroutines |-> FALSE]
    /\ queued = [d \in Doroutines |-> FALSE]
    /\ stale = [d \in Doroutines |-> FALSE]
    /\ firing = [d \in Doroutines |-> {}]
    /\ waiter = None
    /\ interest = FALSE
    /\ ready = FALSE
    /\ socket \in {"new", "connected"}
    /\ fdCtx = TRUE

-----------------------------------------------------------------------------
Calling(d) == pc[d] \notin {"user", "delFd", "close_f"}

(* A thread is free to run one more task.                                  *)
FreeThread ==
    Cardinality({d \in Doroutines : pc[d] \in OnThread}) +
    Cardinality({p \in Doroutines \X Ages : p[2] \in firing[p[1]]}) < NThreads

Goto(d, l) == pc' = [pc EXCEPT ![d] = l]

(* The call returns r and destroys its timerInfo; its timer may outlive it *)
(* if it was not cancelled, which has no effect once it is collected.      *)
Return(d, r, timerCancelled) ==
    /\ Goto(d, "user")
    /\ call' = [call EXCEPT ![d] = NoCall]
    /\ result' = r
    /\ cancelled' = [cancelled EXCEPT ![d] = FALSE]
    /\ armed' = [armed EXCEPT ![d] = FALSE]
    /\ queued' = [queued EXCEPT ![d] = FALSE]
    /\ stale' = [stale EXCEPT ![d] = @ \/ queued[d] \/ (armed[d] /\ ~timerCancelled)]
    /\ firing' = [firing EXCEPT ![d] = IF @ = {} THEN {} ELSE {"old"}]
    /\ UNCHANGED <<eventVars, fdCtx>>

(* cancelEvent(), cancelAll() or idle() triggers the registered event: it  *)
(* is removed and its doroutine is scheduled. epoll_ctl fails if the kernel*)
(* knows nothing of it, and then nothing happens.                          *)
CanTrigger == waiter # None /\ interest

(* Mutation: the event is removed, its doroutine is not scheduled.         *)
Trigger_NotScheduled ==
    /\ CanTrigger
    /\ waiter' = None
    /\ interest' = FALSE
    /\ UNCHANGED pc

Trigger ==
    /\ CanTrigger
    /\ Goto(waiter, "runnable")
    /\ waiter' = None
    /\ interest' = FALSE

-----------------------------------------------------------------------------
(* A call begins, sees the descriptor's FdCtx, and calls the original: one *)
(* call at a time, for the event has room for one doroutine.               *)
begin(d, kind, timed) ==
    /\ pc[d] = "user"
    /\ kind = "sleep" \/ (fdCtx /\ \A o \in Doroutines : Calling(o) => call[o].kind = "sleep")
    /\ FreeThread
    /\ call' = [call EXCEPT ![d] = [kind |-> kind, timed |-> timed]]
    /\ Goto(d, IF kind = "sleep" THEN "arm" ELSE "fun")
    /\ UNCHANGED <<result, timerVars, eventVars, fdVars>>

(* n = fun(fd, args...) of do_io()                                         *)
funIo(d) ==
    /\ pc[d] = "fun" /\ call[d].kind = "io"
    /\ \/ /\ socket \in {"closed", "new"}
          /\ Return(d, "error", TRUE)
          /\ UNCHANGED <<ready, socket>>
       \/ /\ socket = "connected" /\ ready
          /\ ready' \in {FALSE, TRUE}
          /\ Return(d, "ok", TRUE)
          /\ UNCHANGED socket
       \/ /\ socket = "connecting" \/ (socket = "connected" /\ ~ready)
          /\ Goto(d, "arm")
          /\ UNCHANGED <<callVars, timerVars, eventVars, fdVars>>

(* n = connect_f(fd, addr, addrlen): refused (of a socket that is new), an *)
(* error otherwise, done at once, or EINPROGRESS and then not writable     *)
(* until it is decided.                                                    *)
funConnect(d) ==
    /\ pc[d] = "fun" /\ call[d].kind = "connect"
    /\ \/ /\ Return(d, "error", TRUE)
          /\ UNCHANGED <<ready, socket>>
       \/ /\ socket = "new"
          /\ socket' = "connected"
          /\ Return(d, "ok", TRUE)
          /\ UNCHANGED ready
       \/ /\ socket = "new"
          /\ socket' = "connecting"
          /\ ready' = FALSE
          /\ Goto(d, "arm")
          /\ UNCHANGED <<callVars, timerVars, eventVars, fdCtx>>

(* addConditionalTimer() with the weak timerInfo, if there is a timeout.   *)
arm(d) ==
    /\ pc[d] = "arm" /\ call[d].kind # "sleep"
    /\ armed' = [armed EXCEPT ![d] = call[d].timed]
    /\ Goto(d, "add")
    /\ UNCHANGED <<callVars, cancelled, queued, stale, firing, eventVars, fdVars>>

(* addTimer(ms, schedule of this doroutine), yield                         *)
sleep(d) ==
    /\ pc[d] = "arm" /\ call[d].kind = "sleep"
    /\ armed' = [armed EXCEPT ![d] = TRUE]
    /\ Goto(d, "parked")
    /\ UNCHANGED <<callVars, cancelled, queued, stale, firing, eventVars, fdVars>>

CanAdd == socket # "closed" /\ (interest <=> waiter # None)

addEvent(d) ==
    /\ pc[d] = "add"
    /\ CanAdd
    /\ waiter' = d
    /\ interest' = TRUE
    /\ Goto(d, "parked")
    /\ UNCHANGED <<callVars, timerVars, fdVars>>

(* epoll_ctl refused: do_io() returns, connect looks at SO_ERROR. The timer*)
(* of connect is not cancelled: what addConditionalTimer() returned is     *)
(* dropped.                                                                *)
addEventFails(d) ==
    /\ pc[d] = "add"
    /\ ~CanAdd
    /\ IF call[d].kind = "connect"
       THEN /\ Goto(d, "getsockopt")
            /\ UNCHANGED <<callVars, timerVars, eventVars, fdVars>>
       ELSE /\ Return(d, "error", TRUE)
            /\ UNCHANGED <<ready, socket>>

-----------------------------------------------------------------------------
(* The scheduler resumes the doroutine after its yield().                  *)
resume(d) ==
    /\ pc[d] = "runnable"
    /\ FreeThread
    /\ Goto(d, "woken")
    /\ UNCHANGED <<callVars, timerVars, eventVars, fdVars>>

wokenIo(d) ==
    /\ pc[d] = "woken" /\ call[d].kind = "io"
    /\ IF cancelled[d]
       THEN /\ Return(d, "ETIMEDOUT", TRUE)
            /\ UNCHANGED <<ready, socket>>
       ELSE /\ armed' = [armed EXCEPT ![d] = FALSE]
            /\ Goto(d, "fun")
            /\ UNCHANGED <<callVars, cancelled, queued, stale, firing, eventVars, fdVars>>

wokenConnect(d) ==
    /\ pc[d] = "woken" /\ call[d].kind = "connect"
    /\ IF cancelled[d]
       THEN /\ Return(d, "ETIMEDOUT", FALSE)
            /\ UNCHANGED <<ready, socket>>
       ELSE /\ Goto(d, "getsockopt")
            /\ UNCHANGED <<callVars, timerVars, eventVars, fdVars>>

wokenSleep(d) ==
    /\ pc[d] = "woken" /\ call[d].kind = "sleep"
    /\ Return(d, "ok", FALSE)
    /\ UNCHANGED <<ready, socket>>

(* Mutation: connect returns what connect_f had returned.                  *)
getsockopt_Skipped(d) ==
    /\ pc[d] = "getsockopt"
    /\ Return(d, "EINPROGRESS", FALSE)
    /\ UNCHANGED <<ready, socket>>

(* SO_ERROR tells a refused connection; it is 0, and connect returns 0,    *)
(* also while the connection is undecided.                                 *)
getsockopt(d) ==
    /\ pc[d] = "getsockopt"
    /\ Return(d, CASE socket = "connecting" -> "inProgress"
                   [] socket = "connected" -> "ok"
                   [] OTHER -> "error", FALSE)
    /\ UNCHANGED <<ready, socket>>

-----------------------------------------------------------------------------
(* idle() collects an expired timer and schedules its callback.            *)
collect(d) ==
    /\ armed[d]
    /\ FreeThread
    /\ armed' = [armed EXCEPT ![d] = FALSE]
    /\ queued' = [queued EXCEPT ![d] = TRUE]
    /\ UNCHANGED <<pc, callVars, cancelled, stale, firing, eventVars, fdVars>>

(* Mutation: the call is marked, its event is left.                        *)
callback_OnlyMarks(d) ==
    /\ queued[d] /\ call[d].kind # "sleep"
    /\ FreeThread
    /\ queued' = [queued EXCEPT ![d] = FALSE]
    /\ cancelled' = [cancelled EXCEPT ![d] = TRUE]
    /\ UNCHANGED <<pc, callVars, armed, stale, firing, eventVars, fdVars>>

(* The callback: if the call is marked already it returns, else marks it.  *)
callback(d) ==
    /\ queued[d] /\ call[d].kind # "sleep"
    /\ FreeThread
    /\ queued' = [queued EXCEPT ![d] = FALSE]
    /\ cancelled' = [cancelled EXCEPT ![d] = TRUE]
    /\ firing' = [firing EXCEPT ![d] = IF cancelled[d] THEN @ ELSE @ \cup {"own"}]
    /\ UNCHANGED <<pc, callVars, armed, stale, eventVars, fdVars>>

(* Mutation: the callback does not ask whether its timerInfo still exists, *)
(* and marks the call that is in its place.                                *)
staleCallback_Unlocked(d) ==
    /\ stale[d]
    /\ FreeThread
    /\ stale' = [stale EXCEPT ![d] = FALSE]
    /\ cancelled' = [cancelled EXCEPT ![d] = Calling(d)]
    /\ UNCHANGED <<pc, callVars, armed, queued, firing, eventVars, fdVars>>

(* Mutation: it cancels whatever event is registered by then.              *)
staleCallback_Cancels(d) ==
    /\ stale[d]
    /\ FreeThread
    /\ stale' = [stale EXCEPT ![d] = FALSE]
    /\ \/ Trigger
       \/ ~CanTrigger /\ UNCHANGED <<pc, eventVars>>
    /\ UNCHANGED <<callVars, cancelled, armed, queued, firing, fdVars>>

(* The callback of an earlier call: winfo.lock() fails, it returns.        *)
staleCallback(d) ==
    /\ stale[d]
    /\ FreeThread
    /\ stale' = [stale EXCEPT ![d] = FALSE]
    /\ UNCHANGED <<pc, callVars, cancelled, armed, queued, firing, eventVars, fdVars>>

(* Mutation: the doroutine is scheduled directly, its event stays.         *)
cancelEvent_Keeps(d, age) ==
    /\ age \in firing[d]
    /\ firing' = [firing EXCEPT ![d] = @ \ {age}]
    /\ IF CanTrigger THEN Goto(waiter, "runnable") ELSE UNCHANGED pc
    /\ UNCHANGED <<callVars, cancelled, armed, queued, stale, eventVars, fdVars>>

(* A callback that has marked its call cancels the event: whichever is     *)
(* registered by then.                                                     *)
cancelEvent(d, age) ==
    /\ age \in firing[d]
    /\ firing' = [firing EXCEPT ![d] = @ \ {age}]
    /\ \/ Trigger
       \/ ~CanTrigger /\ UNCHANGED <<pc, eventVars>>
    /\ UNCHANGED <<callVars, cancelled, armed, queued, stale, fdVars>>

(* The timer of sleep() schedules the doroutine itself.                    *)
wake(d) ==
    /\ queued[d] /\ call[d].kind = "sleep"
    /\ FreeThread
    /\ queued' = [queued EXCEPT ![d] = FALSE]
    /\ Goto(d, "runnable")
    /\ UNCHANGED <<callVars, cancelled, armed, stale, firing, eventVars, fdVars>>

(* idle() gets the event from epoll.                                       *)
dispatch ==
    /\ ready
    /\ FreeThread
    /\ Trigger
    /\ UNCHANGED <<callVars, timerVars, fdVars>>

-----------------------------------------------------------------------------
(* Mutation: close() leaves the waiting doroutine where it is.             *)
close_NoCancel(d) ==
    /\ d \in Closers /\ pc[d] = "user"
    /\ FreeThread
    /\ pc' = [pc EXCEPT ![d] = IF fdCtx THEN "delFd" ELSE "close_f"]
    /\ UNCHANGED <<callVars, timerVars, eventVars, fdVars>>

(* close() by a doroutine: cancelAll, then delFd, then close_f.            *)
close(d) ==
    /\ d \in Closers /\ pc[d] = "user"
    /\ FreeThread
    /\ IF fdCtx /\ CanTrigger
       THEN /\ pc' = [pc EXCEPT ![d] = "delFd", ![waiter] = "runnable"]
            /\ waiter' = None
            /\ interest' = FALSE
       ELSE /\ pc' = [pc EXCEPT ![d] = IF fdCtx THEN "delFd" ELSE "close_f"]
            /\ UNCHANGED eventVars
    /\ UNCHANGED <<callVars, timerVars, fdVars>>

delFd(d) ==
    /\ pc[d] = "delFd"
    /\ fdCtx' = FALSE
    /\ Goto(d, "close_f")
    /\ UNCHANGED <<callVars, timerVars, eventVars, ready, socket>>

(* The kernel forgets the registration of a closed descriptor.             *)
close_f(d) ==
    /\ pc[d] = "close_f"
    /\ socket' = "closed"
    /\ interest' = FALSE
    /\ ready' = FALSE
    /\ Goto(d, "user")
    /\ UNCHANGED <<callVars, timerVars, waiter, fdCtx>>

(* socket() or accept() gives the number to a new socket; get(fd, true)    *)
(* makes its FdCtx.                                                        *)
newSocket(d) ==
    /\ d \in Closers /\ pc[d] = "user"
    /\ FreeThread
    /\ socket = "closed"
    /\ socket' \in {"new", "connected"}
    /\ fdCtx' = TRUE
    /\ UNCHANGED <<pc, callVars, timerVars, eventVars, ready>>

(* Data or room comes, or the end of a connection attempt.                 *)
becomeReady ==
    /\ socket \in {"connecting", "connected"} /\ ~ready
    /\ ready' = TRUE
    /\ socket' \in IF socket = "connecting" THEN {"new", "connected"} ELSE {socket}
    /\ UNCHANGED <<pc, callVars, timerVars, eventVars, fdCtx>>

(* It is gone before the call could use it.                                *)
readyLost ==
    /\ Spurious /\ ready /\ socket = "connected"
    /\ ready' = FALSE
    /\ UNCHANGED <<pc, callVars, timerVars, eventVars, socket, fdCtx>>

-----------------------------------------------------------------------------
Proceed(d) ==
    \/ funIo(d) \/ funConnect(d) \/ arm(d) \/ sleep(d)
    \/ addEvent(d) \/ addEventFails(d)
    \/ wokenIo(d) \/ wokenConnect(d) \/ wokenSleep(d) \/ getsockopt(d)
    \/ delFd(d) \/ close_f(d)

Next ==
    \/ \E d \in Doroutines :
          \/ \E kind \in {"io", "connect"}, timed \in BOOLEAN : begin(d, kind, timed)
          \/ begin(d, "sleep", TRUE)
          \/ Proceed(d)
          \/ resume(d)
          \/ wake(d)
          \/ close(d)
          \/ newSocket(d)
          \/ collect(d)
          \/ callback(d)
          \/ staleCallback(d)
          \/ \E age \in Ages : cancelEvent(d, age)
    \/ dispatch
    \/ becomeReady
    \/ readyLost

Spec == Init /\ [][Next]_vars

(* What is on a thread goes on. A runnable task gets a thread in its turn, *)
(* the list being served from the front (TaskIsTaken of Scheduler); between*)
(* tasks the threads come to idle(), where expired timers and ready events *)
(* are found (DueIsCollected, ReadyIsTriggered).                           *)
FairSpec ==
    /\ Spec
    /\ \A d \in Doroutines :
          /\ WF_vars(Proceed(d))
          /\ WF_vars(\E age \in Ages : cancelEvent(d, age))
          /\ SF_vars(resume(d) \/ wake(d))
          /\ SF_vars(collect(d))
          /\ SF_vars(callback(d))
    /\ SF_vars(dispatch)

-----------------------------------------------------------------------------
(* A doroutine that has yielded inside a call is known to who shall wake   *)
(* it: a sleeper to its timer or to the callback on its way, any other to  *)
(* the FdContext, whoever closes the descriptor and whatever late callbacks*)
(* of earlier calls do.                                                    *)
ParkedIsKnown ==
    \A d \in Doroutines : pc[d] = "parked" =>
        IF call[d].kind = "sleep" THEN armed[d] \/ queued[d] ELSE waiter = d

(* And what it waits for can happen: the kernel knows the event, of a      *)
(* descriptor that is open.                                                *)
ParkedCanWake ==
    \A d \in Doroutines : pc[d] = "parked" /\ call[d].kind # "sleep" =>
        interest /\ socket # "closed"

(* close() leaves no event behind: cancelAll() deletes all events of the   *)
(* descriptor (iomanager.h:50), and none comes back before close_f().      *)
ClosedHasNoEvent == socket = "closed" => waiter = None

(* A doroutine is scheduled once per yield: while its event is registered, *)
(* it waits inside that call and nothing else has scheduled it. A second   *)
(* schedule() would resume it inside a later call, or after its end.       *)
ScheduledOnce ==
    waiter # None => pc[waiter] = "parked" /\ call[waiter].kind # "sleep"

(* A call is marked as timed out by its own timer only, never by the timer *)
(* that an earlier call of the doroutine left behind.                      *)
OnlyOwnTimeout ==
    \A d \in Doroutines : cancelled[d] =>
        Calling(d) /\ call[d].timed /\ call[d].kind # "sleep"

(* A sleep() ends, and a call with a timeout returns, at the latest when   *)
(* the timer has cancelled its event (comment at hook.cpp:252, case 2).    *)
TimedCallReturns ==
    \A d \in Doroutines :
        (Calling(d) /\ (call[d].timed \/ call[d].kind = "sleep")) ~> pc[d] = "user"

(* A call on a descriptor that another doroutine closes does not wait for  *)
(* ever: close() wakes it.                                                 *)
ClosedCallReturns ==
    \A d \in Doroutines :
        (Calling(d) /\ socket = "closed") ~> (pc[d] = "user" \/ socket # "closed")

(* The comment at hook.cpp:250: connect is resumed because the descriptor  *)
(* became writable or because the timeout passed. So it never reports      *)
(* success while the connection is undecided.                              *)
ConnectIsDecided == result # "inProgress"
-----------------------------------------------------------------------------
(* What the calls of a program look like to it, whichever timers, events   *)
(* and callbacks they are made of.                                         *)
Phase(d) ==
    CASE pc[d] = "user"                -> "none"
      [] pc[d] \in {"fun", "arm", "add"} -> "running"
      [] pc[d] = "parked"              -> "waiting"
      [] pc[d] \in {"runnable", "woken"} -> "woken"
      [] pc[d] = "getsockopt"          -> "ending"
      [] OTHER                         -> "closing"

Timeout(d) ==
    IF cancelled[d] \/ (call[d].kind = "sleep" /\ pc[d] \in {"runnable", "woken"})
    THEN "passed"
    ELSE IF armed[d] \/ queued[d] THEN "set" ELSE "off"

Abstract == INSTANCE BlockingCalls WITH
    Caller  <- Doroutines,
    Exact   <- NThreads = 1,
    phase   <- [d \in Doroutines |-> Phase(d)],
    timeout <- [d \in Doroutines |-> Timeout(d)],
    answer  <- result,
    open    <- socket # "closed"

(* A hooked call behaves as a blocking one: it returns once, waits without *)
(* being forgotten or woken twice, and says ETIMEDOUT for its own timeout  *)
(* only; with one thread (comment at hook.cpp:250) it is woken for its own *)
(* reasons only, and connect is decided.                                   *)
CallSpec == Abstract!Spec
=============================================================================
