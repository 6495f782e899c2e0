------------------------------- MODULE FdEvents -------------------------------
(***************************************************************************)
(* The IO events of KSC::IOManager (src/src/iomanager.cpp): one FdContext  *)
(* per descriptor under its mtx, addEvent(), delEvent(), cancelEvent(),    *)
(* cancelAll(), and the part of idle() that waits on epoll and dispatches  *)
(* what it got. The kernel's edge-triggered epoll is modelled from how     *)
(* these calls use it. Every descriptor has an FdContext already, that is, *)
(* fd < m_fdContexts.size(); the growth of that vector is not modelled.    *)
(***************************************************************************)
EXTENDS Naturals, FiniteSets

CONSTANTS
    Fds,            (* descriptors                                            *)
    Workers,        (* threads in idle()                                      *)
    Events,         (* the events in use, of READ and WRITE                   *)
    Repeats,        (* values of addEvent's repeat in use                     *)
    OutsideCallers, (* may the calls come while a worker is between epoll_wait*)
                    (* and the dispatch? Not if one thread does everything    *)
    MaxPending      (* bound: addEvent() is called for an event that is       *)
                    (* registered already while the count is below this; 0 for*)
                    (* programs that never do                                 *)

ASSUME FdAssumption ==
    /\ IsFiniteSet(Fds)
    /\ Events \subseteq {"READ", "WRITE"}
    /\ Repeats \subseteq BOOLEAN
    /\ OutsideCallers \in BOOLEAN
    /\ MaxPending \in Nat

VARIABLES
    events,              (* FdContext::events                                *)
    ctx,                 (* the EventContext of an event: null (reset), once *)
                         (* or repeat, which also tells scheduler # nullptr  *)
    m_pendingEventCount,
    callbacks,           (* <<fd, event>> whose callback is scheduled        *)
    crashed,             (* a null scheduler was dereferenced                *)
    batch,               (* what epoll_wait gave a worker, not yet dispatched*)
    interest,            (* kernel: the events of the registration, or none  *)
    onList,              (* kernel: fd is on the ready list of the epoll fd  *)
    ready, hup           (* kernel: readiness and hang-up of the descriptor  *)

ioVars     == <<events, ctx, m_pendingEventCount, callbacks, crashed>>
kernelVars == <<interest, onList>>
fdVars     == <<ready, hup>>
vars == <<ioVars, batch, kernelVars, fdVars>>

TypeOK ==
    /\ events \in [Fds -> SUBSET Events]
    /\ ctx \in [Fds -> [Events -> {"null", "once", "repeat"}]]
    /\ m_pendingEventCount \in Nat
    /\ callbacks \subseteq Fds \X Events
    /\ crashed \in BOOLEAN
    /\ batch \in [Workers -> [Fds -> SUBSET (Events \cup {"HUP"})]]
    /\ interest \in [Fds -> SUBSET Events]
    /\ onList \in [Fds -> BOOLEAN]
    /\ ready \in [Fds -> SUBSET Events]
    /\ hup \in [Fds -> BOOLEAN]

Init ==
    /\ events = [fd \in Fds |-> {}]
    /\ ctx = [fd \in Fds |-> [e \in Events |-> "null"]]
    /\ m_pendingEventCount = 0
    /\ callbacks = {}
    /\ crashed = FALSE
    /\ batch = [w \in Workers |-> [fd \in Fds |-> {}]]
    /\ interest = [fd \in Fds |-> {}]
    /\ onList = [fd \in Fds |-> FALSE]
    /\ ready = [fd \in Fds |-> {}]
    /\ hup = [fd \in Fds |-> FALSE]

-----------------------------------------------------------------------------
(* epoll_ctl: ADD wants an unregistered descriptor, MOD and DEL a          *)
(* registered one; ADD and MOD look at the readiness again.                *)
epoll_ctl(op, fd, evs) ==
    /\ op = "ADD" <=> interest[fd] = {}
    /\ interest' = [interest EXCEPT ![fd] = evs]
    /\ onList' = [onList EXCEPT ![fd] = op # "DEL" /\ (hup[fd] \/ ready[fd] \cap evs # {})]

(* Mutation: what remains is not armed again.                              *)
rearm_DelOnly(fd, left) == epoll_ctl("DEL", fd, {})

(* int op = newEvent ? EPOLL_CTL_MOD : EPOLL_CTL_DEL                       *)
rearm(fd, left) == epoll_ctl(IF left # {} THEN "MOD" ELSE "DEL", fd, left)

(* The descriptor becomes ready (again), is drained, hangs up.             *)
becomeReady(fd, e) ==
    /\ ready' = [ready EXCEPT ![fd] = @ \cup {e}]
    /\ onList' = [onList EXCEPT ![fd] = @ \/ e \in interest[fd]]
    /\ UNCHANGED <<ioVars, batch, interest, hup>>

drain(fd, e) ==
    /\ e \in ready[fd]
    /\ ready' = [ready EXCEPT ![fd] = @ \ {e}]
    /\ UNCHANGED <<ioVars, batch, kernelVars, hup>>

hangUp(fd) ==
    /\ ~hup[fd]
    /\ hup' = [hup EXCEPT ![fd] = TRUE]
    /\ onList' = [onList EXCEPT ![fd] = interest[fd] # {}]
    /\ UNCHANGED <<ioVars, batch, interest, ready>>

-----------------------------------------------------------------------------
(* Mutation: lastTrigger is not asked for, what repeats stays registered.  *)
triggerEvents_LastIgnored(fd, evs, last) ==
    LET gone == {e \in evs : ctx[fd][e] # "repeat"}
    IN  /\ callbacks' = callbacks \cup {<<fd, e>> : e \in evs}
        /\ events' = [events EXCEPT ![fd] = @ \ gone]
        /\ ctx' = [ctx EXCEPT ![fd] = [e \in Events |-> IF e \in gone THEN "null" ELSE @[e]]]
        /\ m_pendingEventCount' = m_pendingEventCount - Cardinality(gone)
        /\ UNCHANGED crashed

(* triggerEvent() for every event of evs in turn: the callback is scheduled*)
(* through the context's scheduler, which is null for an event that is not *)
(* registered; the event is removed unless it repeats and is not last.     *)
triggerEvents(fd, evs, last) ==
    LET gone == {e \in evs : ctx[fd][e] # "repeat" \/ last}
    IN  IF \E e \in evs : ctx[fd][e] = "null"
        THEN /\ crashed' = TRUE
             /\ UNCHANGED <<events, ctx, m_pendingEventCount, callbacks>>
        ELSE /\ callbacks' = callbacks \cup {<<fd, e>> : e \in evs}
             /\ events' = [events EXCEPT ![fd] = @ \ gone]
             /\ ctx' = [ctx EXCEPT ![fd] = [e \in Events |-> IF e \in gone THEN "null" ELSE @[e]]]
             /\ m_pendingEventCount' = m_pendingEventCount - Cardinality(gone)
             /\ UNCHANGED crashed

MayCall == OutsideCallers \/ \A w \in Workers, fd \in Fds : batch[w][fd] = {}

(* Mutation: the registration is replaced instead of extended.             *)
addEvent_OldEventsLost(fd, e, repeat) ==
    /\ MayCall
    /\ e \in events[fd] => m_pendingEventCount < MaxPending
    /\ epoll_ctl(IF events[fd] # {} THEN "MOD" ELSE "ADD", fd, {e})
    /\ m_pendingEventCount' = m_pendingEventCount + 1
    /\ events' = [events EXCEPT ![fd] = @ \cup {e}]
    /\ ctx' = [ctx EXCEPT ![fd][e] = IF repeat THEN "repeat" ELSE "once"]
    /\ UNCHANGED <<callbacks, crashed, batch, fdVars>>

addEvent(fd, e, repeat) ==
    /\ MayCall
    /\ e \in events[fd] => m_pendingEventCount < MaxPending
    /\ epoll_ctl(IF events[fd] # {} THEN "MOD" ELSE "ADD", fd, events[fd] \cup {e})
    /\ m_pendingEventCount' = m_pendingEventCount + 1
    /\ events' = [events EXCEPT ![fd] = @ \cup {e}]
    /\ ctx' = [ctx EXCEPT ![fd][e] = IF repeat THEN "repeat" ELSE "once"]
    /\ UNCHANGED <<callbacks, crashed, batch, fdVars>>

(* Mutation: the count is left as it was.                                  *)
delEvent_Uncounted(fd, e) ==
    /\ MayCall
    /\ e \in events[fd]
    /\ rearm(fd, events[fd] \ {e})
    /\ events' = [events EXCEPT ![fd] = @ \ {e}]
    /\ ctx' = [ctx EXCEPT ![fd][e] = "null"]
    /\ UNCHANGED <<m_pendingEventCount, callbacks, crashed, batch, fdVars>>

delEvent(fd, e) ==
    /\ MayCall
    /\ e \in events[fd]
    /\ rearm(fd, events[fd] \ {e})
    /\ m_pendingEventCount' = m_pendingEventCount - 1
    /\ events' = [events EXCEPT ![fd] = @ \ {e}]
    /\ ctx' = [ctx EXCEPT ![fd][e] = "null"]
    /\ UNCHANGED <<callbacks, crashed, batch, fdVars>>

(* Mutation: counted down as in delEvent(), and again by triggerEvent().   *)
cancelEvent_Twice(fd, e) ==
    /\ MayCall
    /\ e \in events[fd]
    /\ rearm(fd, events[fd] \ {e})
    /\ callbacks' = callbacks \cup {<<fd, e>>}
    /\ events' = [events EXCEPT ![fd] = @ \ {e}]
    /\ ctx' = [ctx EXCEPT ![fd][e] = "null"]
    /\ m_pendingEventCount' = m_pendingEventCount - 2
    /\ UNCHANGED <<crashed, batch, fdVars>>

cancelEvent(fd, e) ==
    /\ MayCall
    /\ e \in events[fd]
    /\ rearm(fd, events[fd] \ {e})
    /\ triggerEvents(fd, {e}, TRUE)
    /\ UNCHANGED <<batch, fdVars>>

cancelAll(fd) ==
    /\ MayCall
    /\ events[fd] # {}
    /\ epoll_ctl("DEL", fd, {})
    /\ triggerEvents(fd, events[fd], TRUE)
    /\ UNCHANGED <<batch, fdVars>>

(* A scheduled callback has run.                                           *)
runCallback(fd, e) ==
    /\ MayCall
    /\ <<fd, e>> \in callbacks
    /\ callbacks' = callbacks \ {<<fd, e>>}
    /\ UNCHANGED <<events, ctx, m_pendingEventCount, crashed, batch, kernelVars, fdVars>>

-----------------------------------------------------------------------------
(* idle(): epoll_wait takes some descriptors off the ready list and reports*)
(* those that still have something to report.                              *)
epoll_wait(w) ==
    /\ \A fd \in Fds : batch[w][fd] = {}
    /\ \E S \in SUBSET {fd \in Fds : onList[fd]} :
          /\ S # {}
          /\ onList' = [fd \in Fds |-> onList[fd] /\ fd \notin S]
          /\ batch' = [batch EXCEPT ![w] = [fd \in Fds |->
                IF fd \in S THEN (ready[fd] \cap interest[fd]) \cup
                                 (IF hup[fd] THEN {"HUP"} ELSE {})
                            ELSE {}]]
    /\ UNCHANGED <<ioVars, interest, fdVars>>

RealEvents(w, fd) ==
    (batch[w][fd] \cap Events) \cup (IF "HUP" \in batch[w][fd] THEN events[fd] ELSE {})

(* Mutation: an event that repeats is not kept in the registration.        *)
LeftEvents_NoRepeat(fd, real) == events[fd] \ real

LeftEvents(fd, real) ==
    {e \in real : ctx[fd][e] = "repeat"} \cup (events[fd] \ real)

(* One descriptor of the batch, under its mtx.                             *)
dispatch(w, fd) ==
    /\ batch[w][fd] # {}
    /\ batch' = [batch EXCEPT ![w][fd] = {}]
    /\ LET real == RealEvents(w, fd)
       IN  IF events[fd] \cap real = {}
           THEN UNCHANGED <<ioVars, kernelVars>>
           ELSE /\ rearm(fd, LeftEvents(fd, real))
                /\ triggerEvents(fd, real, FALSE)
    /\ UNCHANGED fdVars

idle(w) == epoll_wait(w) \/ \E fd \in Fds : dispatch(w, fd)

Next ==
    /\ ~crashed
    /\ \/ \E fd \in Fds, e \in Events :
             \/ becomeReady(fd, e)
             \/ drain(fd, e)
             \/ \E repeat \in Repeats : addEvent(fd, e, repeat)
             \/ delEvent(fd, e)
             \/ cancelEvent(fd, e)
             \/ runCallback(fd, e)
       \/ \E fd \in Fds : hangUp(fd) \/ cancelAll(fd)
       \/ \E w \in Workers : idle(w)

Spec == Init /\ [][Next]_vars

(* An idle worker dispatches what it has and goes back to epoll_wait, which*)
(* takes descriptors from the head of the ready list: each gets its turn.  *)
taken(fd) == \E w \in Workers : epoll_wait(w) /\ onList[fd] /\ ~onList'[fd]

FairSpec ==
    /\ Spec
    /\ \A w \in Workers : WF_vars(~crashed /\ idle(w))
    /\ \A fd \in Fds : SF_vars(~crashed /\ taken(fd))

-----------------------------------------------------------------------------
(* m_pendingEventCount, which keeps stopping() from being true, is the     *)
(* number of registered events, through every way they end. (For programs  *)
(* that do not add what is registered: addEvent() counts that again.)      *)
Registered == {p \in Fds \X Events : p[2] \in events[p[1]]}

PendingExact == m_pendingEventCount = Cardinality(Registered)

(* Whatever the program adds, the unsigned count never gets below the      *)
(* number of registered events: the IOManager cannot stop under a          *)
(* doroutine that waits for one, and the count never wraps.                *)
PendingCovers == m_pendingEventCount >= Cardinality(Registered)

(* The three places that say what is registered agree: FdContext::events,  *)
(* the event contexts and the kernel.                                      *)
RegistrationsAgree ==
    \A fd \in Fds :
        /\ interest[fd] = events[fd]
        /\ \A e \in Events : e \in events[fd] <=> ctx[fd][e] # "null"

(* The check at iomanager.cpp:34: triggerEvent() is called for registered  *)
(* events only; for others the scheduler it uses is null.                  *)
TriggersRegistered == ~crashed

(* A registered event that is ready reaches its callback: no edge is lost  *)
(* between the threads that re-arm the descriptor.                         *)
ReadyIsTriggered ==
    \A fd \in Fds, e \in Events :
        (e \in events[fd] /\ (e \in ready[fd] \/ hup[fd]))
            ~> (e \notin events[fd] \/ <<fd, e>> \in callbacks
                    \/ ~(e \in ready[fd] \/ hup[fd]))

(* The safety behind it: a registered event whose descriptor is ready is on*)
(* epoll's ready list or reported to a worker that has yet to dispatch it, *)
(* however the MODs and DELs of the threads follow each other.             *)
NoEdgeLost ==
    ~crashed => \A fd \in Fds : \A e \in events[fd] :
        e \in ready[fd] \/ hup[fd] =>
            onList[fd] \/ \E w \in Workers : batch[w][fd] \cap {e, "HUP"} # {}

-----------------------------------------------------------------------------
(* What the waits of a program look like to it, without the kernel. What a *)
(* worker has got is meant for the registration it was got for only if     *)
(* nothing is registered in between.                                       *)
OneKind   == \A e, f \in Events : e = f
OneThread == ~OutsideCallers /\ \A v, w \in Workers : v = w

Reported ==
    {p \in Registered : \E w \in Workers : batch[w][p[1]] \cap {p[2], "HUP"} # {}}

Abstract == INSTANCE EventWaits WITH
    Event     <- Fds \X Events,
    Exact     <- ~OutsideCallers,
    Safe      <- OneKind \/ OneThread,
    wait      <- [p \in Fds \X Events |-> ctx[p[1]][p[2]]],
    ready     <- {p \in Fds \X Events : p[2] \in ready[p[1]] \/ hup[p[1]]},
    reported  <- IF OutsideCallers THEN {} ELSE Reported,
    scheduled <- callbacks,
    failed    <- crashed

(* The callback of an event is scheduled only for who waits for it, a wait *)
(* ends once, and, if nothing is called between epoll_wait and dispatch,   *)
(* no event comes for readiness from before its registration.              *)
WaitSpec == Abstract!Spec
=============================================================================
