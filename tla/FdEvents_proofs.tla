--------------------------- MODULE FdEvents_proofs ---------------------------
(***************************************************************************)
(* Theorems about FdEvents for any descriptors, any number of workers, any *)
(* events and any bound on repeated registrations.                         *)
(***************************************************************************)
EXTENDS FdEvents, FiniteSetTheorems, TLAPS

(* triggerEvents() with a null scheduler stops the program half way: only  *)
(* then do the three places disagree.                                      *)
AgreeUnlessCrashed == ~crashed => RegistrationsAgree

Inv == TypeOK /\ AgreeUnlessCrashed /\ PendingCovers

(* Next without the test that the program has not crashed, by the part of  *)
(* the state that is touched.                                              *)
Outside ==
    \/ \E fd \in Fds, e \in Events : becomeReady(fd, e) \/ drain(fd, e) \/ runCallback(fd, e)
    \/ \E fd \in Fds : hangUp(fd)
    \/ \E w \in Workers : epoll_wait(w)

-----------------------------------------------------------------------------
(* Every set of registered events is finite.                               *)
LEMMA RegisteredFinite ==
    /\ \A S \in SUBSET Events : IsFiniteSet(S) /\ Cardinality(S) \in Nat
    /\ IsFiniteSet(Registered) /\ Cardinality(Registered) \in Nat
<1>1. IsFiniteSet({"READ", "WRITE"})
  <2>1. IsFiniteSet({"READ"})
    BY FS_Singleton
  <2>2. IsFiniteSet({"READ"} \cup {"WRITE"})
    BY <2>1, FS_AddElement
  <2>3. {"READ", "WRITE"} = {"READ"} \cup {"WRITE"}
    OBVIOUS
  <2> QED
    BY <2>2, <2>3
<1>2. IsFiniteSet(Events)
  BY <1>1, FS_Subset, FdAssumption
<1>3. \A S \in SUBSET Events : IsFiniteSet(S) /\ Cardinality(S) \in Nat
  BY <1>2, FS_Subset, FS_CardinalityType
<1>4. IsFiniteSet(Fds \X Events)
  BY <1>2, FS_Product, FdAssumption
<1>5. Registered \in SUBSET (Fds \X Events)
  BY DEF Registered
<1>6. IsFiniteSet(Registered)
  BY <1>4, <1>5, FS_Subset
<1> QED
  BY <1>3, <1>6, FS_CardinalityType

(* Removing some registered events of one descriptor makes their number    *)
(* that much smaller.                                                      *)
LEMMA RemoveLemma ==
    ASSUME TypeOK, NEW fd \in Fds, NEW gone \in SUBSET events[fd],
           events' = [events EXCEPT ![fd] = @ \ gone]
    PROVE  /\ Cardinality(Registered') = Cardinality(Registered) - Cardinality(gone)
           /\ Cardinality(Registered') \in Nat
           /\ Cardinality(gone) \in Nat
<1> DEFINE R == {fd} \X gone
<1>1. gone \in SUBSET Events
  BY DEF TypeOK
<1>2. IsFiniteSet(gone) /\ Cardinality(gone) \in Nat
  BY <1>1, RegisteredFinite
<1>3. IsFiniteSet(R) /\ Cardinality(R) = Cardinality(gone)
  <2>1. IsFiniteSet({fd}) /\ Cardinality({fd}) = 1
    BY FS_Singleton
  <2>2. IsFiniteSet(R) /\ Cardinality(R) = 1 * Cardinality(gone)
    BY <2>1, <1>2, FS_Product
  <2> QED
    BY <2>2, <1>2
<1>4. Registered' = Registered \ R
  <2>1. \A p \in Fds \X Events : p[2] \in events'[p[1]] <=> p[2] \in events[p[1]] /\ p \notin R
    <3> SUFFICES ASSUME NEW f \in Fds, NEW e \in Events
                 PROVE  e \in events'[f] <=> e \in events[f] /\ <<f, e>> \notin R
      OBVIOUS
    <3>1. f \in DOMAIN events
      BY DEF TypeOK
    <3>2. <<f, e>> \in R <=> f = fd /\ e \in gone
      OBVIOUS
    <3> QED
      BY <3>1, <3>2
  <2> QED
    BY <2>1 DEF Registered
<1>5. Registered \cap R = R
  BY <1>1 DEF Registered
<1> HIDE DEF R
<1>6. /\ IsFiniteSet(Registered \ R)
      /\ Cardinality(Registered \ R) = Cardinality(Registered) - Cardinality(R)
  BY <1>5, RegisteredFinite, FS_Difference
<1> QED
  BY <1>2, <1>3, <1>4, <1>6, FS_CardinalityType

(* Registering one event makes it one more, or leaves it.                  *)
LEMMA AddLemma ==
    ASSUME TypeOK, NEW fd \in Fds, NEW e \in Events,
           events' = [events EXCEPT ![fd] = @ \cup {e}]
    PROVE  /\ Cardinality(Registered') \in Nat
           /\ Cardinality(Registered') =
                Cardinality(Registered) + IF e \in events[fd] THEN 0 ELSE 1
<1>1. Registered' = Registered \cup {<<fd, e>>}
  <2>1. \A p \in Fds \X Events :
           p[2] \in events'[p[1]] <=> p[2] \in events[p[1]] \/ p = <<fd, e>>
    <3> SUFFICES ASSUME NEW f \in Fds, NEW g \in Events
                 PROVE  g \in events'[f] <=> g \in events[f] \/ (f = fd /\ g = e)
      OBVIOUS
    <3> QED
      BY DEF TypeOK
  <2> QED
    BY <2>1 DEF Registered
<1>2. <<fd, e>> \in Registered <=> e \in events[fd]
  BY DEF Registered
<1> QED
  BY <1>1, <1>2, RegisteredFinite, FS_AddElement, FS_CardinalityType

-----------------------------------------------------------------------------
(* Of the events in evs, those that triggerEvent() removes, and what is    *)
(* registered after that.                                                  *)
Gone(fd, evs, last) == {e \in evs : ctx[fd][e] # "repeat" \/ last}
Left(fd, evs, last) ==
    {e \in evs : ctx[fd][e] = "repeat" /\ ~last} \cup (events[fd] \ evs)

(* triggerEvents() in a state in which the three places agree: either it   *)
(* meets an event that is not registered, or it removes what it should,    *)
(* and the count goes down by that many.                                   *)
LEMMA TriggerLemma ==
    ASSUME TypeOK, RegistrationsAgree, ~crashed,
           NEW fd \in Fds, NEW evs \in SUBSET Events, NEW last \in BOOLEAN,
           triggerEvents(fd, evs, last)
    PROVE  /\ crashed' \in BOOLEAN
           /\ crashed' => ~(evs \subseteq events[fd])
           /\ crashed' => UNCHANGED <<events, ctx, m_pendingEventCount, callbacks>>
           /\ ~crashed' =>
                /\ events' = [events EXCEPT ![fd] = @ \ Gone(fd, evs, last)]
                /\ events' \in [Fds -> SUBSET Events]
                /\ ctx' \in [Fds -> [Events -> {"null", "once", "repeat"}]]
                /\ callbacks' \subseteq Fds \X Events
                /\ \A f \in Fds, e \in Events : e \in events'[f] <=> ctx'[f][e] # "null"
                /\ Cardinality(Registered') \in Nat
                /\ m_pendingEventCount' \in Int
                /\ m_pendingEventCount' - Cardinality(Registered')
                        = m_pendingEventCount - Cardinality(Registered)
<1> DEFINE gone == Gone(fd, evs, last)
<1>1. evs \subseteq events[fd] <=> ~ \E e \in evs : ctx[fd][e] = "null"
  BY DEF TypeOK, RegistrationsAgree
<1>2. CASE ~(evs \subseteq events[fd])
  BY <1>1, <1>2 DEF triggerEvents
<1>3. CASE evs \subseteq events[fd]
  <2>1. /\ callbacks' = callbacks \cup {<<fd, e>> : e \in evs}
        /\ events' = [events EXCEPT ![fd] = @ \ gone]
        /\ ctx' = [ctx EXCEPT ![fd] = [e \in Events |-> IF e \in gone THEN "null" ELSE @[e]]]
        /\ m_pendingEventCount' = m_pendingEventCount - Cardinality(gone)
        /\ crashed' = FALSE
    BY <1>1, <1>3 DEF triggerEvents, Gone
  <2>2. gone \in SUBSET events[fd]
    BY <1>3 DEF Gone
  <2> HIDE DEF gone
  <2>3. /\ Cardinality(Registered') = Cardinality(Registered) - Cardinality(gone)
        /\ Cardinality(Registered') \in Nat
        /\ Cardinality(gone) \in Nat
    BY <2>1, <2>2, RemoveLemma
  <2>4. /\ m_pendingEventCount' - Cardinality(Registered')
                = m_pendingEventCount - Cardinality(Registered)
        /\ m_pendingEventCount' \in Int
    BY <2>1, <2>3, RegisteredFinite DEF TypeOK
  <2>5. events' \in [Fds -> SUBSET Events] /\ callbacks' \subseteq Fds \X Events
    BY <2>1 DEF TypeOK
  <2>6. ctx' \in [Fds -> [Events -> {"null", "once", "repeat"}]]
    BY <2>1 DEF TypeOK
  <2>7. \A f \in Fds, e \in Events : e \in events'[f] <=> ctx'[f][e] # "null"
    BY <2>1, <2>2 DEF TypeOK, RegistrationsAgree
  <2> QED
    BY <1>3, <2>1, <2>3, <2>4, <2>5, <2>6, <2>7 DEF gone
<1> QED
  BY <1>2, <1>3

(* The count keeps its distance from the number of registered events; only *)
(* adding what is registered increases it.                                 *)
Counted ==
    /\ m_pendingEventCount' \in Nat
    /\ m_pendingEventCount' >= Cardinality(Registered')
    /\ MaxPending = 0 /\ PendingExact => PendingExact'

LEMMA SameCount ==
    ASSUME Inv, Cardinality(Registered') \in Nat,
           \/ m_pendingEventCount' - Cardinality(Registered')
                    = m_pendingEventCount - Cardinality(Registered)
              /\ m_pendingEventCount' \in Int
           \/ UNCHANGED <<events, m_pendingEventCount>>
    PROVE  Counted
<1>1. m_pendingEventCount \in Nat /\ Cardinality(Registered) \in Nat
  BY RegisteredFinite DEF Inv, TypeOK
<1>2. UNCHANGED events => Registered' = Registered
  BY DEF Registered
<1>3. CASE /\ m_pendingEventCount' - Cardinality(Registered')
                    = m_pendingEventCount - Cardinality(Registered)
           /\ m_pendingEventCount' \in Int
  BY <1>1, <1>3 DEF Inv, PendingCovers, PendingExact, Counted
<1>4. CASE UNCHANGED <<events, m_pendingEventCount>>
  BY <1>1, <1>2, <1>4 DEF Inv, PendingCovers, PendingExact, Counted
<1> QED
  BY <1>3, <1>4

LEMMA OutsideStep ==
    ASSUME Inv, Outside
    PROVE  /\ TypeOK'
           /\ UNCHANGED <<events, ctx, m_pendingEventCount, crashed, interest>>
<1>1. ASSUME NEW fd \in Fds, NEW e \in Events, becomeReady(fd, e)
      PROVE  TypeOK' /\ UNCHANGED <<events, ctx, m_pendingEventCount, crashed, interest>>
  BY <1>1 DEF Inv, TypeOK, becomeReady, ioVars
<1>2. ASSUME NEW fd \in Fds, NEW e \in Events, drain(fd, e)
      PROVE  TypeOK' /\ UNCHANGED <<events, ctx, m_pendingEventCount, crashed, interest>>
  BY <1>2 DEF Inv, TypeOK, drain, ioVars, kernelVars
<1>3. ASSUME NEW fd \in Fds, NEW e \in Events, runCallback(fd, e)
      PROVE  TypeOK' /\ UNCHANGED <<events, ctx, m_pendingEventCount, crashed, interest>>
  BY <1>3 DEF Inv, TypeOK, runCallback, fdVars, kernelVars
<1>4. ASSUME NEW fd \in Fds, hangUp(fd)
      PROVE  TypeOK' /\ UNCHANGED <<events, ctx, m_pendingEventCount, crashed, interest>>
  BY <1>4 DEF Inv, TypeOK, hangUp, ioVars
<1>5. ASSUME NEW w \in Workers, epoll_wait(w)
      PROVE  TypeOK' /\ UNCHANGED <<events, ctx, m_pendingEventCount, crashed, interest>>
  BY <1>5 DEF Inv, TypeOK, epoll_wait, ioVars, fdVars
<1> QED
  BY <1>1, <1>2, <1>3, <1>4, <1>5 DEF Outside

LEMMA EpollCtlLemma ==
    ASSUME TypeOK, NEW op, NEW fd \in Fds, NEW evs \in SUBSET Events, epoll_ctl(op, fd, evs)
    PROVE  /\ interest' = [interest EXCEPT ![fd] = evs]
           /\ interest' \in [Fds -> SUBSET Events]
           /\ onList' \in [Fds -> BOOLEAN]
BY DEF TypeOK, epoll_ctl

LEMMA AddStep ==
    ASSUME Inv, ~crashed, NEW fd \in Fds, NEW e \in Events, NEW repeat \in Repeats,
           addEvent(fd, e, repeat)
    PROVE  TypeOK' /\ AgreeUnlessCrashed' /\ Counted /\ UNCHANGED <<crashed, batch>>
<1> USE DEF Inv
<1>1. events[fd] \cup {e} \in SUBSET Events
  BY DEF TypeOK
<1>2. /\ interest' = [interest EXCEPT ![fd] = events[fd] \cup {e}]
      /\ interest' \in [Fds -> SUBSET Events]
      /\ onList' \in [Fds -> BOOLEAN]
  BY <1>1, EpollCtlLemma DEF addEvent
<1>3. /\ events' = [events EXCEPT ![fd] = @ \cup {e}]
      /\ ctx' = [ctx EXCEPT ![fd][e] = IF repeat THEN "repeat" ELSE "once"]
      /\ m_pendingEventCount' = m_pendingEventCount + 1
      /\ UNCHANGED <<callbacks, crashed, batch, ready, hup>>
      /\ e \in events[fd] => m_pendingEventCount < MaxPending
  BY DEF addEvent, fdVars
<1>4. TypeOK'
  BY <1>2, <1>3 DEF TypeOK
<1>5. RegistrationsAgree'
  BY <1>2, <1>3 DEF TypeOK, RegistrationsAgree, AgreeUnlessCrashed
<1>6. Counted
  <2>1. /\ Cardinality(Registered') \in Nat
        /\ Cardinality(Registered') =
                Cardinality(Registered) + IF e \in events[fd] THEN 0 ELSE 1
    BY <1>3, AddLemma
  <2>2. m_pendingEventCount \in Nat /\ Cardinality(Registered) \in Nat /\ MaxPending \in Nat
    BY RegisteredFinite, FdAssumption DEF TypeOK
  <2>3. MaxPending = 0 => e \notin events[fd]
    BY <1>3, <2>2
  <2> QED
    BY <1>3, <2>1, <2>2, <2>3 DEF Counted, PendingCovers, PendingExact
<1> QED
  BY <1>3, <1>4, <1>5, <1>6 DEF AgreeUnlessCrashed

LEMMA DelStep ==
    ASSUME Inv, ~crashed, NEW fd \in Fds, NEW e \in Events, delEvent(fd, e)
    PROVE  TypeOK' /\ AgreeUnlessCrashed' /\ Counted /\ UNCHANGED <<crashed, batch>>
<1> USE DEF Inv
<1>1. events[fd] \ {e} \in SUBSET Events
  BY DEF TypeOK
<1>2. /\ interest' = [interest EXCEPT ![fd] = events[fd] \ {e}]
      /\ interest' \in [Fds -> SUBSET Events]
      /\ onList' \in [Fds -> BOOLEAN]
  BY <1>1, EpollCtlLemma DEF delEvent, rearm
<1>3. /\ events' = [events EXCEPT ![fd] = @ \ {e}]
      /\ ctx' = [ctx EXCEPT ![fd][e] = "null"]
      /\ m_pendingEventCount' = m_pendingEventCount - 1
      /\ UNCHANGED <<callbacks, crashed, batch, ready, hup>>
      /\ {e} \in SUBSET events[fd]
  BY DEF delEvent, fdVars
<1>4. RegistrationsAgree'
  BY <1>2, <1>3 DEF TypeOK, RegistrationsAgree, AgreeUnlessCrashed
<1>5. Cardinality({e}) = 1
  BY FS_Singleton
<1>6. /\ Cardinality(Registered') \in Nat
      /\ Cardinality(Registered') = Cardinality(Registered) - 1
  BY <1>3, <1>5, RemoveLemma
<1>7. Counted
  <2>1. m_pendingEventCount \in Nat /\ Cardinality(Registered) \in Nat
    BY RegisteredFinite DEF TypeOK
  <2> QED
    BY <1>3, <1>6, <2>1, SameCount
<1>8. TypeOK'
  BY <1>2, <1>3, <1>7 DEF TypeOK, Counted
<1> QED
  BY <1>3, <1>4, <1>7, <1>8 DEF AgreeUnlessCrashed

(* cancelEvent(), cancelAll() and the dispatch of idle() re-arm the        *)
(* descriptor for what they leave and trigger the rest.                    *)
LEMMA TriggerStep ==
    ASSUME Inv, ~crashed,
           NEW fd \in Fds, NEW evs \in SUBSET Events, NEW last \in BOOLEAN, NEW op,
           epoll_ctl(op, fd, Left(fd, evs, last)),
           triggerEvents(fd, evs, last),
           batch' \in [Workers -> [Fds -> SUBSET (Events \cup {"HUP"})]],
           UNCHANGED fdVars
    PROVE  /\ TypeOK' /\ AgreeUnlessCrashed' /\ Counted
           /\ evs \subseteq events[fd] => ~crashed'
<1> USE DEF Inv
<1> DEFINE left == Left(fd, evs, last)
<1>1. left \in SUBSET Events
  BY DEF TypeOK, Left
<1>2. RegistrationsAgree
  BY DEF AgreeUnlessCrashed
<1> HIDE DEF left
<1>3. epoll_ctl(op, fd, left)
  BY DEF left
<1>4. /\ interest' = [interest EXCEPT ![fd] = left]
      /\ interest' \in [Fds -> SUBSET Events]
      /\ onList' \in [Fds -> BOOLEAN]
  BY <1>1, <1>3, EpollCtlLemma
<1>5. CASE crashed'
  <2>1. /\ crashed' \in BOOLEAN /\ ~(evs \subseteq events[fd])
        /\ UNCHANGED <<events, ctx, m_pendingEventCount, callbacks>>
    BY <1>2, <1>5, TriggerLemma
  <2>2. TypeOK'
    BY <1>4, <2>1 DEF TypeOK, fdVars
  <2>3. Registered' = Registered
    BY <2>1 DEF Registered
  <2>4. Counted
    BY <2>1, <2>3, SameCount, RegisteredFinite
  <2> QED
    BY <1>5, <2>1, <2>2, <2>4 DEF AgreeUnlessCrashed
<1>6. CASE ~crashed'
  <2>1. crashed' \in BOOLEAN /\ evs \subseteq events[fd]
    <3>1. TypeOK
      OBVIOUS
    <3>2. crashed' \in BOOLEAN
      BY <1>2, <3>1, TriggerLemma
    <3>3. ~ \E e \in evs : ctx[fd][e] = "null"
      BY <1>6 DEF triggerEvents
    <3>4. \A e \in evs : e \in events[fd]
      BY <1>2, <3>3 DEF RegistrationsAgree
    <3> QED
      BY <3>2, <3>4
  <2>2. /\ events' = [events EXCEPT ![fd] = @ \ Gone(fd, evs, last)]
        /\ events' \in [Fds -> SUBSET Events]
        /\ ctx' \in [Fds -> [Events -> {"null", "once", "repeat"}]]
        /\ callbacks' \subseteq Fds \X Events
        /\ \A f \in Fds, e \in Events : e \in events'[f] <=> ctx'[f][e] # "null"
    BY <1>2, <1>6, TriggerLemma
  <2>7. /\ Cardinality(Registered') \in Nat
        /\ m_pendingEventCount' \in Int
        /\ m_pendingEventCount' - Cardinality(Registered')
                = m_pendingEventCount - Cardinality(Registered)
    BY <1>2, <1>6, TriggerLemma
  <2>3. Counted
    BY <2>7, SameCount
  <2>4. TypeOK'
    BY <1>4, <2>1, <2>2, <2>3 DEF TypeOK, Counted, fdVars
  <2>5. events'[fd] = left
    BY <2>1, <2>2 DEF left, Left, Gone, TypeOK
  <2>6. \A f \in Fds : interest'[f] = events'[f]
    <3> TAKE f \in Fds
    <3>1. f # fd => events'[f] = events[f] /\ interest'[f] = interest[f]
      BY <1>4, <2>2 DEF TypeOK
    <3>2. interest'[fd] = left
      BY <1>4 DEF TypeOK
    <3> QED
      BY <1>2, <2>5, <3>1, <3>2 DEF RegistrationsAgree
  <2> QED
    BY <1>6, <2>1, <2>2, <2>3, <2>4, <2>6 DEF AgreeUnlessCrashed, RegistrationsAgree
<1> QED
  BY <1>5, <1>6

LEMMA CancelEventStep ==
    ASSUME Inv, ~crashed, NEW fd \in Fds, NEW e \in Events, cancelEvent(fd, e)
    PROVE  TypeOK' /\ AgreeUnlessCrashed' /\ Counted /\ UNCHANGED <<crashed, batch>>
<1>1. {e} \in SUBSET Events /\ {e} \subseteq events[fd] /\ TRUE \in BOOLEAN
  BY DEF cancelEvent
<1>2. Left(fd, {e}, TRUE) = events[fd] \ {e}
  BY DEF Left
<1>3. epoll_ctl(IF events[fd] \ {e} # {} THEN "MOD" ELSE "DEL", fd, Left(fd, {e}, TRUE))
  BY <1>2 DEF cancelEvent, rearm
<1>4. /\ triggerEvents(fd, {e}, TRUE)
      /\ UNCHANGED fdVars /\ UNCHANGED batch
  BY DEF cancelEvent
<1>5. batch' \in [Workers -> [Fds -> SUBSET (Events \cup {"HUP"})]]
  BY <1>4 DEF Inv, TypeOK
<1>6. TypeOK' /\ AgreeUnlessCrashed' /\ Counted /\ ~crashed'
  BY <1>1, <1>3, <1>4, <1>5, TriggerStep
<1> QED
  BY <1>4, <1>6 DEF Inv, TypeOK

LEMMA CancelAllStep ==
    ASSUME Inv, ~crashed, NEW fd \in Fds, cancelAll(fd)
    PROVE  TypeOK' /\ AgreeUnlessCrashed' /\ Counted /\ UNCHANGED <<crashed, batch>>
<1>1. events[fd] \in SUBSET Events /\ events[fd] \subseteq events[fd] /\ TRUE \in BOOLEAN
  BY DEF Inv, TypeOK
<1>2. Left(fd, events[fd], TRUE) = {}
  BY DEF Left
<1>3. epoll_ctl("DEL", fd, Left(fd, events[fd], TRUE))
  BY <1>2 DEF cancelAll
<1>4. /\ triggerEvents(fd, events[fd], TRUE)
      /\ UNCHANGED fdVars /\ UNCHANGED batch
  BY DEF cancelAll
<1>5. batch' \in [Workers -> [Fds -> SUBSET (Events \cup {"HUP"})]]
  BY <1>4 DEF Inv, TypeOK
<1>6. TypeOK' /\ AgreeUnlessCrashed' /\ Counted /\ ~crashed'
  BY <1>1, <1>3, <1>4, <1>5, TriggerStep
<1> QED
  BY <1>4, <1>6 DEF Inv, TypeOK

(* A dispatch is safe if all that epoll has reported is still registered,  *)
(* or nothing of it is.                                                    *)
LEMMA DispatchStep ==
    ASSUME Inv, ~crashed, NEW w \in Workers, NEW fd \in Fds, dispatch(w, fd)
    PROVE  /\ TypeOK' /\ AgreeUnlessCrashed' /\ Counted
           /\ \/ RealEvents(w, fd) \subseteq events[fd]
              \/ RealEvents(w, fd) \cap events[fd] = {}
              => ~crashed'
           /\ \A f \in Fds : f # fd => events'[f] = events[f]
           /\ batch' = [batch EXCEPT ![w][fd] = {}]
<1> DEFINE real == RealEvents(w, fd)
<1>1. real \in SUBSET Events
  BY DEF Inv, TypeOK, RealEvents
<1>2. /\ batch' = [batch EXCEPT ![w][fd] = {}]
      /\ batch' \in [Workers -> [Fds -> SUBSET (Events \cup {"HUP"})]]
      /\ UNCHANGED fdVars
  BY DEF dispatch, Inv, TypeOK
<1>3. CASE events[fd] \cap real = {}
  <2>1. UNCHANGED <<ioVars, kernelVars>>
    BY <1>3 DEF dispatch
  <2>2. TypeOK'
    BY <1>2, <2>1 DEF Inv, TypeOK, ioVars, kernelVars, fdVars
  <2>3. Registered' = Registered /\ UNCHANGED <<events, m_pendingEventCount>>
    BY <2>1 DEF Registered, ioVars
  <2>4. Counted
    BY <2>3, RegisteredFinite, SameCount
  <2>5. AgreeUnlessCrashed' /\ ~crashed'
    BY <2>1 DEF Inv, AgreeUnlessCrashed, RegistrationsAgree, ioVars, kernelVars
  <2> QED
    BY <1>2, <2>2, <2>3, <2>4, <2>5
<1>4. CASE events[fd] \cap real # {}
  <2>1. FALSE \in BOOLEAN /\ Left(fd, real, FALSE) = LeftEvents(fd, real)
    BY DEF Left, LeftEvents
  <2>2. /\ epoll_ctl(IF LeftEvents(fd, real) # {} THEN "MOD" ELSE "DEL", fd,
                     Left(fd, real, FALSE))
        /\ triggerEvents(fd, real, FALSE)
    BY <1>4, <2>1 DEF dispatch, rearm
  <2>3. /\ TypeOK' /\ AgreeUnlessCrashed' /\ Counted
        /\ real \subseteq events[fd] => ~crashed'
    BY <1>1, <1>2, <2>1, <2>2, TriggerStep
  <2>4. \A f \in Fds : f # fd => events'[f] = events[f]
    BY <2>2 DEF triggerEvents, Inv, TypeOK
  <2> HIDE DEF real
  <2>5. ~(real \cap events[fd] = {})
    BY <1>4
  <2> QED
    BY <1>2, <2>3, <2>4, <2>5 DEF real
<1> QED
  BY <1>3, <1>4

LEMMA OutsideInv ==
    ASSUME Inv, Outside
    PROVE  TypeOK' /\ AgreeUnlessCrashed' /\ Counted
<1>1. TypeOK' /\ UNCHANGED <<events, ctx, m_pendingEventCount, crashed, interest>>
  BY OutsideStep
<1>2. AgreeUnlessCrashed'
  BY <1>1 DEF Inv, AgreeUnlessCrashed, RegistrationsAgree
<1>3. Cardinality(Registered') \in Nat
  BY <1>1, RegisteredFinite DEF Registered
<1> QED
  BY <1>1, <1>2, <1>3, SameCount

LEMMA InitInv == Init => Inv /\ PendingExact /\ ~crashed
<1> SUFFICES ASSUME Init
             PROVE  Inv /\ PendingExact /\ ~crashed
  OBVIOUS
<1>1. TypeOK /\ RegistrationsAgree /\ ~crashed
  BY DEF Init, TypeOK, RegistrationsAgree
<1>2. Registered = {}
  BY DEF Init, Registered
<1>3. Cardinality(Registered) = 0 /\ m_pendingEventCount = 0
  BY <1>2, FS_EmptySet DEF Init
<1> QED
  BY <1>1, <1>3 DEF Inv, AgreeUnlessCrashed, PendingCovers, PendingExact

LEMMA NextInv ==
    ASSUME Inv, [Next]_vars
    PROVE  Inv' /\ Counted
<1>1. ASSUME Next
      PROVE  TypeOK' /\ AgreeUnlessCrashed' /\ Counted
  <2>1. ~crashed
    BY <1>1 DEF Next
  <2>2. CASE Outside
    BY <2>2, OutsideInv
  <2>3. ASSUME NEW fd \in Fds, NEW e \in Events, NEW repeat \in Repeats, addEvent(fd, e, repeat)
        PROVE  TypeOK' /\ AgreeUnlessCrashed' /\ Counted
    BY <2>1, <2>3, AddStep
  <2>4. ASSUME NEW fd \in Fds, NEW e \in Events, delEvent(fd, e)
        PROVE  TypeOK' /\ AgreeUnlessCrashed' /\ Counted
    BY <2>1, <2>4, DelStep
  <2>5. ASSUME NEW fd \in Fds, NEW e \in Events, cancelEvent(fd, e)
        PROVE  TypeOK' /\ AgreeUnlessCrashed' /\ Counted
    BY <2>1, <2>5, CancelEventStep
  <2>6. ASSUME NEW fd \in Fds, cancelAll(fd)
        PROVE  TypeOK' /\ AgreeUnlessCrashed' /\ Counted
    BY <2>1, <2>6, CancelAllStep
  <2>7. ASSUME NEW w \in Workers, NEW fd \in Fds, dispatch(w, fd)
        PROVE  TypeOK' /\ AgreeUnlessCrashed' /\ Counted
    BY <2>1, <2>7, DispatchStep
  <2> QED
    BY <1>1, <2>2, <2>3, <2>4, <2>5, <2>6, <2>7 DEF Next, Outside, idle
<1>2. ASSUME UNCHANGED vars
      PROVE  TypeOK' /\ AgreeUnlessCrashed' /\ Counted
  <2>1. TypeOK' /\ AgreeUnlessCrashed' /\ UNCHANGED <<events, m_pendingEventCount>>
    BY <1>2 DEF vars, ioVars, kernelVars, fdVars, Inv, TypeOK, AgreeUnlessCrashed,
                RegistrationsAgree
  <2>2. Cardinality(Registered') \in Nat
    BY <2>1, RegisteredFinite DEF Registered
  <2> QED
    BY <2>1, <2>2, SameCount
<1>3. TypeOK' /\ AgreeUnlessCrashed' /\ Counted
  BY <1>1, <1>2
<1> QED
  BY <1>3 DEF Inv, Counted, PendingCovers

-----------------------------------------------------------------------------
(* The count of pending events is never below the number of registered     *)
(* ones, so it neither wraps nor lets the IOManager stop under a doroutine *)
(* that waits; until a null scheduler is met, FdContext, event contexts    *)
(* and kernel agree.                                                       *)
THEOREM Invariance == Spec => []Inv
<1>1. Inv /\ [Next]_vars => Inv'
  BY NextInv
<1> QED
  BY InitInv, <1>1, PTL DEF Spec

(* The variables keep their types; for the count that means: no underflow. *)
THEOREM TypeCorrect == Spec => []TypeOK
<1>1. Inv => TypeOK
  BY DEF Inv
<1> QED
  BY Invariance, <1>1, PTL

(* m_pendingEventCount covers what is registered, however often the program*)
(* adds an event and on whatever thread it is deleted or triggered.        *)
THEOREM CountCovers == Spec => []PendingCovers
<1>1. Inv => PendingCovers
  BY DEF Inv
<1> QED
  BY Invariance, <1>1, PTL

(* In programs that never add what is registered already, the count is     *)
(* exact through delEvent(), cancelEvent(), cancelAll() and dispatch.      *)
THEOREM CountIsExact ==
    ASSUME MaxPending = 0
    PROVE  Spec => []PendingExact
<1>1. Inv /\ PendingExact /\ [Next]_vars => PendingExact'
  BY NextInv DEF Counted
<1>2. Init => PendingExact
  BY InitInv
<1> QED
  BY Invariance, <1>1, <1>2, PTL DEF Spec

-----------------------------------------------------------------------------
(* When only one kind of event is in use, the test of events & realEvents  *)
(* in idle() is enough for triggerEvent() never to meet an event that is   *)
(* not registered, with any number of threads.                             *)
THEOREM OneKindIsSafe ==
    ASSUME \A e, f \in Events : e = f
    PROVE  Spec => []TriggersRegistered
<1>1. Inv /\ TriggersRegistered /\ [Next]_vars => TriggersRegistered'
  <2> SUFFICES ASSUME Inv, ~crashed, [Next]_vars
               PROVE  ~crashed'
    BY DEF TriggersRegistered
  <2>1. CASE Outside
    BY <2>1, OutsideStep
  <2>2. ASSUME NEW fd \in Fds, NEW e \in Events, NEW repeat \in Repeats, addEvent(fd, e, repeat)
        PROVE  ~crashed'
    BY <2>2, AddStep
  <2>3. ASSUME NEW fd \in Fds, NEW e \in Events, delEvent(fd, e)
        PROVE  ~crashed'
    BY <2>3, DelStep
  <2>4. ASSUME NEW fd \in Fds, NEW e \in Events, cancelEvent(fd, e)
        PROVE  ~crashed'
    BY <2>4, CancelEventStep
  <2>5. ASSUME NEW fd \in Fds, cancelAll(fd)
        PROVE  ~crashed'
    BY <2>5, CancelAllStep
  <2>6. ASSUME NEW w \in Workers, NEW fd \in Fds, dispatch(w, fd)
        PROVE  ~crashed'
    <3>1. RealEvents(w, fd) \in SUBSET Events /\ events[fd] \in SUBSET Events
      BY DEF Inv, TypeOK, RealEvents
    <3>2. RealEvents(w, fd) \subseteq events[fd] \/ RealEvents(w, fd) \cap events[fd] = {}
      BY <3>1
    <3> QED
      BY <2>6, <3>2, DispatchStep
  <2>7. CASE UNCHANGED vars
    BY <2>7 DEF vars, ioVars
  <2> QED
    BY <2>1, <2>2, <2>3, <2>4, <2>5, <2>6, <2>7 DEF Next, Outside, idle
<1>2. Init => TriggersRegistered
  BY InitInv DEF TriggersRegistered
<1> QED
  BY Invariance, <1>1, <1>2, PTL DEF Spec

(* What the worker has got from epoll_wait is registered.                  *)
BatchRegistered ==
    \A w \in Workers, fd \in Fds : batch[w][fd] \cap Events \subseteq events[fd]

(* When one thread does everything, nothing can change between epoll_wait  *)
(* and the dispatch: FdContext, event contexts and kernel always agree,    *)
(* whatever kinds of events are in use.                                    *)
THEOREM OneThreadAgrees ==
    ASSUME ~OutsideCallers, \A v, w \in Workers : v = w
    PROVE  Spec => [](TriggersRegistered /\ RegistrationsAgree)
<1> DEFINE J == ~crashed /\ BatchRegistered
<1>1. Inv /\ J /\ [Next]_vars => J'
  <2> SUFFICES ASSUME Inv, ~crashed, BatchRegistered, [Next]_vars
               PROVE  ~crashed' /\ BatchRegistered'
    OBVIOUS
  <2>a. MayCall => \A w \in Workers, fd \in Fds : batch[w][fd] = {}
    BY DEF MayCall
  <2>b. ASSUME MayCall, UNCHANGED batch
        PROVE  BatchRegistered'
    BY <2>a, <2>b DEF BatchRegistered
  <2>1. CASE Outside
    <3>1. /\ ~crashed' /\ UNCHANGED events
      BY <2>1, OutsideStep
    <3>2. ASSUME NEW w \in Workers, epoll_wait(w)
          PROVE  BatchRegistered'
      <4>1. \A fd \in Fds : interest[fd] = events[fd]
        BY DEF Inv, AgreeUnlessCrashed, RegistrationsAgree
      <4>2. "HUP" \notin Events
        BY FdAssumption
      <4>3. \A fd \in Fds : batch'[w][fd] \subseteq interest[fd] \cup {"HUP"}
        BY <3>2 DEF epoll_wait, Inv, TypeOK
      <4>4. \A v \in Workers : v = w
        OBVIOUS
      <4> QED
        BY <3>1, <4>1, <4>2, <4>3, <4>4 DEF BatchRegistered
    <3>3. CASE UNCHANGED batch
      BY <3>1, <3>3 DEF BatchRegistered
    <3> QED
      BY <2>1, <3>1, <3>2, <3>3 DEF Outside, becomeReady, drain, runCallback, hangUp
  <2>2. ASSUME NEW fd \in Fds, NEW e \in Events, NEW repeat \in Repeats, addEvent(fd, e, repeat)
        PROVE  ~crashed' /\ BatchRegistered'
    BY <2>2, <2>b, AddStep DEF addEvent
  <2>3. ASSUME NEW fd \in Fds, NEW e \in Events, delEvent(fd, e)
        PROVE  ~crashed' /\ BatchRegistered'
    BY <2>3, <2>b, DelStep DEF delEvent
  <2>4. ASSUME NEW fd \in Fds, NEW e \in Events, cancelEvent(fd, e)
        PROVE  ~crashed' /\ BatchRegistered'
    BY <2>4, <2>b, CancelEventStep DEF cancelEvent
  <2>5. ASSUME NEW fd \in Fds, cancelAll(fd)
        PROVE  ~crashed' /\ BatchRegistered'
    BY <2>5, <2>b, CancelAllStep DEF cancelAll
  <2>6. ASSUME NEW w \in Workers, NEW fd \in Fds, dispatch(w, fd)
        PROVE  ~crashed' /\ BatchRegistered'
    <3>1. RealEvents(w, fd) \subseteq events[fd]
      BY DEF BatchRegistered, RealEvents
    <3>2. /\ ~crashed'
          /\ \A f \in Fds : f # fd => events'[f] = events[f]
          /\ batch' = [batch EXCEPT ![w][fd] = {}]
      BY <2>6, <3>1, DispatchStep
    <3>3. batch'[w][fd] = {} /\ \A f \in Fds : f # fd => batch'[w][f] = batch[w][f]
      BY <3>2 DEF Inv, TypeOK
    <3> QED
      BY <3>2, <3>3 DEF BatchRegistered
  <2>7. CASE UNCHANGED vars
    BY <2>7 DEF vars, ioVars, BatchRegistered
  <2> QED
    BY <2>1, <2>2, <2>3, <2>4, <2>5, <2>6, <2>7 DEF Next, Outside, idle
<1>2. Init => J
  BY InitInv DEF Init, BatchRegistered
<1>3. Inv /\ J => TriggersRegistered /\ RegistrationsAgree
  BY DEF Inv, AgreeUnlessCrashed, TriggersRegistered
<1> QED
  BY Invariance, <1>1, <1>2, <1>3, PTL DEF Spec

-----------------------------------------------------------------------------
(* epoll_ctl() looks at the readiness again: whatever edge was reported to *)
(* somebody else, or was not meant for what is registered now, is not lost.*)
LEMMA CtlKeepsEdges ==
    ASSUME Inv, Inv', NoEdgeLost, ~crashed,
           NEW op, NEW fd \in Fds, NEW evs \in SUBSET Events, epoll_ctl(op, fd, evs),
           op = "DEL" => evs = {},
           UNCHANGED fdVars,
           \A f \in Fds \ {fd} : events'[f] = events[f],
           \A f \in Fds \ {fd}, w \in Workers : batch'[w][f] = batch[w][f]
    PROVE  NoEdgeLost'
<1> SUFFICES ASSUME ~crashed', NEW f \in Fds, NEW e \in events'[f],
                    e \in ready'[f] \/ hup'[f]
             PROVE  onList'[f] \/ \E w \in Workers : batch'[w][f] \cap {e, "HUP"} # {}
  BY DEF NoEdgeLost
<1>1. UNCHANGED <<ready, hup>>
  BY DEF fdVars
<1>2. CASE f = fd
  <2>1. e \in evs
    BY <1>2 DEF Inv, TypeOK, AgreeUnlessCrashed, RegistrationsAgree, epoll_ctl
  <2>2. onList'[fd] = (op # "DEL" /\ (hup[fd] \/ ready[fd] \cap evs # {}))
    BY DEF epoll_ctl, Inv, TypeOK
  <2> QED
    BY <1>1, <1>2, <2>1, <2>2
<1>3. CASE f # fd
  <2>1. onList'[f] = onList[f] /\ events'[f] = events[f]
    BY <1>3 DEF epoll_ctl, Inv, TypeOK
  <2> QED
    BY <1>1, <1>3, <2>1 DEF NoEdgeLost
<1> QED
  BY <1>2, <1>3

LEMMA NextEdges ==
    ASSUME Inv, Inv', NoEdgeLost, [Next]_vars
    PROVE  NoEdgeLost'
<1> USE DEF Inv, TypeOK
<1>0. ASSUME NEW fd \in Fds, NEW evs \in SUBSET Events, NEW last \in BOOLEAN,
             triggerEvents(fd, evs, last)
      PROVE  \A f \in Fds \ {fd} : events'[f] = events[f]
  BY <1>0 DEF triggerEvents
<1>1. ASSUME NEW fd \in Fds, NEW e \in Events, NEW repeat \in Repeats,
             addEvent(fd, e, repeat), ~crashed
      PROVE  NoEdgeLost'
  <2>1. events[fd] \cup {e} \in SUBSET Events
    OBVIOUS
  <2>2. epoll_ctl(IF events[fd] # {} THEN "MOD" ELSE "ADD", fd, events[fd] \cup {e})
    BY <1>1 DEF addEvent
  <2>3. \A f \in Fds \ {fd} : events'[f] = events[f]
    BY <1>1 DEF addEvent
  <2>4. UNCHANGED fdVars /\ UNCHANGED batch
    BY <1>1 DEF addEvent
  <2>5. "ADD" # "DEL" /\ "MOD" # "DEL"
    OBVIOUS
  <2> QED
    BY <1>1, <2>1, <2>2, <2>3, <2>4, <2>5, CtlKeepsEdges
<1>2. ASSUME NEW fd \in Fds, NEW e \in Events, delEvent(fd, e) \/ cancelEvent(fd, e), ~crashed
      PROVE  NoEdgeLost'
  <2>1. events[fd] \ {e} \in SUBSET Events
    OBVIOUS
  <2>2. epoll_ctl(IF events[fd] \ {e} # {} THEN "MOD" ELSE "DEL", fd, events[fd] \ {e})
    BY <1>2 DEF delEvent, cancelEvent, rearm
  <2>3. \A f \in Fds \ {fd} : events'[f] = events[f]
    BY <1>0, <1>2 DEF delEvent, cancelEvent
  <2>4. UNCHANGED fdVars /\ \A f \in Fds \ {fd}, w \in Workers : batch'[w][f] = batch[w][f]
    BY <1>2 DEF delEvent, cancelEvent
  <2> HIDE DEF Inv, TypeOK
  <2> QED
    BY <1>2, <2>1, <2>2, <2>3, <2>4, CtlKeepsEdges
<1>3. ASSUME NEW fd \in Fds, cancelAll(fd), ~crashed
      PROVE  NoEdgeLost'
  <2>1. /\ epoll_ctl("DEL", fd, {}) /\ UNCHANGED fdVars
        /\ \A f \in Fds \ {fd}, w \in Workers : batch'[w][f] = batch[w][f]
    BY <1>3 DEF cancelAll
  <2>2. \A f \in Fds \ {fd} : events'[f] = events[f]
    BY <1>0, <1>3 DEF cancelAll
  <2> HIDE DEF Inv, TypeOK
  <2> QED
    BY <1>3, <2>1, <2>2, CtlKeepsEdges
<1>4. ASSUME NEW w \in Workers, NEW fd \in Fds, dispatch(w, fd), ~crashed
      PROVE  NoEdgeLost'
  <2> DEFINE real == RealEvents(w, fd)
             left == LeftEvents(fd, real)
  <2>1. /\ real \in SUBSET Events /\ left \in SUBSET Events
        /\ batch' = [batch EXCEPT ![w][fd] = {}] /\ UNCHANGED fdVars
    BY <1>4 DEF dispatch, RealEvents, LeftEvents
  <2>2. CASE events[fd] \cap real # {}
    <3>1. /\ epoll_ctl(IF left # {} THEN "MOD" ELSE "DEL", fd, left)
          /\ triggerEvents(fd, real, FALSE)
      BY <1>4, <2>2 DEF dispatch, rearm
    <3> HIDE DEF real, left
    <3>2. \A f \in Fds \ {fd} : events'[f] = events[f]
      BY <1>0, <2>1, <3>1
    <3>3. \A f \in Fds \ {fd}, v \in Workers : batch'[v][f] = batch[v][f]
      BY <2>1
    <3> QED
      BY <1>4, <2>1, <3>1, <3>2, <3>3, CtlKeepsEdges
  <2>3. CASE events[fd] \cap real = {}
    <3>1. UNCHANGED <<ioVars, kernelVars, fdVars>>
      BY <1>4, <2>3 DEF dispatch
    <3>2. \A e \in events[fd] : batch[w][fd] \cap {e, "HUP"} = {}
      BY <2>3 DEF RealEvents
    <3> HIDE DEF real, left
    <3> SUFFICES ASSUME NEW f \in Fds, NEW e \in events[f], e \in ready[f] \/ hup[f], ~onList[f]
                 PROVE  \E v \in Workers : batch'[v][f] \cap {e, "HUP"} # {}
      BY <3>1 DEF NoEdgeLost, ioVars, kernelVars, fdVars
    <3>3. PICK v \in Workers : batch[v][f] \cap {e, "HUP"} # {}
      BY <1>4 DEF NoEdgeLost
    <3>4. ~(v = w /\ f = fd)
      BY <3>2, <3>3
    <3>5. batch'[v][f] = batch[v][f]
      BY <2>1, <3>4
    <3> QED
      BY <3>3, <3>5
  <2> QED
    BY <2>2, <2>3
<1>5. ASSUME NEW w \in Workers, epoll_wait(w), ~crashed
      PROVE  NoEdgeLost'
  <2>1. PICK S \in SUBSET Fds :
          /\ onList' = [fd \in Fds |-> onList[fd] /\ fd \notin S]
          /\ batch' = [batch EXCEPT ![w] = [fd \in Fds |->
                IF fd \in S THEN (ready[fd] \cap interest[fd]) \cup
                                 (IF hup[fd] THEN {"HUP"} ELSE {})
                            ELSE {}]]
    BY <1>5 DEF epoll_wait
  <2>2. UNCHANGED <<events, ready, hup, crashed>> /\ \A fd \in Fds : batch[w][fd] = {}
    BY <1>5 DEF epoll_wait, ioVars, fdVars
  <2>3. \A fd \in Fds : interest[fd] = events[fd]
    BY <1>5 DEF AgreeUnlessCrashed, RegistrationsAgree
  <2> SUFFICES ASSUME NEW f \in Fds, NEW e \in events[f], e \in ready[f] \/ hup[f], ~onList'[f]
               PROVE  \E v \in Workers : batch'[v][f] \cap {e, "HUP"} # {}
    BY <2>2 DEF NoEdgeLost
  <2>4. CASE f \in S
    <3>1. batch'[w][f] = (ready[f] \cap interest[f]) \cup (IF hup[f] THEN {"HUP"} ELSE {})
      BY <2>1, <2>4
    <3> QED
      BY <2>3, <3>1
  <2>5. CASE f \notin S
    <3>1. ~onList[f]
      BY <2>1, <2>5
    <3>2. PICK v \in Workers : batch[v][f] \cap {e, "HUP"} # {}
      BY <1>5, <3>1 DEF NoEdgeLost
    <3>3. v # w
      BY <2>2, <3>2
    <3>4. batch'[v][f] = batch[v][f]
      BY <2>1, <3>3
    <3> QED
      BY <3>2, <3>4
  <2> QED
    BY <2>4, <2>5
<1>6. ASSUME NEW fd \in Fds, NEW e \in Events, becomeReady(fd, e), ~crashed
      PROVE  NoEdgeLost'
  <2>1. /\ UNCHANGED <<events, crashed, batch, hup>>
        /\ ready' = [ready EXCEPT ![fd] = @ \cup {e}]
        /\ onList' = [onList EXCEPT ![fd] = @ \/ e \in interest[fd]]
    BY <1>6 DEF becomeReady, ioVars
  <2>2. interest[fd] = events[fd]
    BY <1>6 DEF AgreeUnlessCrashed, RegistrationsAgree
  <2> SUFFICES ASSUME NEW f \in Fds, NEW g \in events[f], g \in ready'[f] \/ hup[f], ~onList'[f]
               PROVE  \E v \in Workers : batch[v][f] \cap {g, "HUP"} # {}
    BY <2>1 DEF NoEdgeLost
  <2>3. ~onList[f] /\ ~(f = fd /\ e \in interest[fd])
    BY <2>1
  <2>4. g \in ready[f] \/ hup[f]
    BY <2>1, <2>2, <2>3
  <2> QED
    BY <1>6, <2>3, <2>4 DEF NoEdgeLost
<1>7. ASSUME NEW fd \in Fds, NEW e \in Events, drain(fd, e) \/ runCallback(fd, e), ~crashed
      PROVE  NoEdgeLost'
  <2>1. /\ UNCHANGED <<events, crashed, batch, hup, onList>>
        /\ \A f \in Fds : ready'[f] \subseteq ready[f]
    BY <1>7 DEF drain, runCallback, ioVars, kernelVars, fdVars
  <2> QED
    BY <1>7, <2>1 DEF NoEdgeLost
<1>8. ASSUME NEW fd \in Fds, hangUp(fd), ~crashed
      PROVE  NoEdgeLost'
  <2>1. /\ UNCHANGED <<events, crashed, batch, ready>>
        /\ hup' = [hup EXCEPT ![fd] = TRUE]
        /\ onList' = [onList EXCEPT ![fd] = interest[fd] # {}]
    BY <1>8 DEF hangUp, ioVars
  <2>2. interest[fd] = events[fd]
    BY <1>8 DEF AgreeUnlessCrashed, RegistrationsAgree
  <2> SUFFICES ASSUME NEW f \in Fds, NEW g \in events[f], g \in ready[f] \/ hup'[f], ~onList'[f]
               PROVE  \E v \in Workers : batch[v][f] \cap {g, "HUP"} # {}
    BY <2>1 DEF NoEdgeLost
  <2>3. ~onList[f] /\ (g \in ready[f] \/ hup[f])
    BY <2>1, <2>2
  <2> QED
    BY <1>8, <2>3 DEF NoEdgeLost
<1>9. CASE UNCHANGED vars
  BY <1>9 DEF vars, ioVars, kernelVars, fdVars, NoEdgeLost
<1> QED
  BY <1>1, <1>2, <1>3, <1>4, <1>5, <1>6, <1>7, <1>8, <1>9 DEF Next, idle

(* No edge of a registered event is lost, for any number of workers that   *)
(* wait, dispatch and re-arm, and of callers that add, delete and cancel.  *)
THEOREM EdgesAreKept == Spec => []NoEdgeLost
<1>1. Init => NoEdgeLost
  BY DEF Init, NoEdgeLost
<1> QED
  BY Invariance, <1>1, NextEdges, PTL DEF Spec
-----------------------------------------------------------------------------
(* The waits as the WITH clause of Abstract sees them.                     *)
WaitOf      == [p \in Fds \X Events |-> ctx[p[1]][p[2]]]
ReadyOf     == {p \in Fds \X Events : p[2] \in ready[p[1]] \/ hup[p[1]]}
ReportedOf  == IF OutsideCallers THEN {} ELSE Reported

LEMMA WaitInit == Init => Abstract!Init
BY DEF Init, Abstract!Init, Reported, Registered

LEMMA WaitStutter ==
    ASSUME UNCHANGED <<WaitOf, ReadyOf, ReportedOf, callbacks, crashed>>
    PROVE  UNCHANGED Abstract!waitVars
BY DEF Abstract!waitVars, WaitOf, ReadyOf, ReportedOf

(* Who is registered is awaited; what is called finds all batches empty.   *)
LEMMA AwaitedLemma ==
    ASSUME Inv, ~crashed
    PROVE  /\ Abstract!Awaited = Registered
           /\ \A fd \in Fds : \A E \in SUBSET events[fd] : {fd} \X E \subseteq Registered
<1>1. ASSUME NEW p \in Fds \X Events
      PROVE  WaitOf[p] # "null" <=> p[2] \in events[p[1]]
  BY DEF Inv, AgreeUnlessCrashed, RegistrationsAgree, WaitOf
<1>2. Abstract!Awaited = Registered
  BY <1>1 DEF Abstract!Awaited, Registered, WaitOf
<1>3. \A fd \in Fds : \A E \in SUBSET events[fd] : {fd} \X E \subseteq Registered
  BY DEF Inv, TypeOK, Registered
<1> QED
  BY <1>2, <1>3

LEMMA CallerLemma ==
    ASSUME MayCall, UNCHANGED batch
    PROVE  ReportedOf = {} /\ ReportedOf' = {}
<1>1. CASE OutsideCallers
  BY <1>1 DEF ReportedOf
<1>2. CASE ~OutsideCallers
  <2>1. \A w \in Workers, fd \in Fds : batch[w][fd] = {} /\ batch'[w][fd] = {}
    BY <1>2 DEF MayCall
  <2>2. \A p \in Registered : p[1] \in Fds
    BY DEF Registered
  <2>3. \A p \in Registered' : p[1] \in Fds
    BY DEF Registered
  <2> QED
    BY <2>1, <2>2, <2>3 DEF ReportedOf, Reported
<1> QED
  BY <1>1, <1>2

(* What triggerEvents() does to the waits of one descriptor.               *)
LEMMA TriggerWaits ==
    ASSUME TypeOK, NEW fd \in Fds, NEW evs \in SUBSET Events, NEW last \in BOOLEAN,
           triggerEvents(fd, evs, last), ~crashed, ~crashed'
    PROVE  /\ callbacks' = callbacks \cup ({fd} \X evs)
           /\ WaitOf' = [p \in Fds \X Events |->
                            IF p \in {fd} \X evs /\ (WaitOf[p] # "repeat" \/ last)
                            THEN "null" ELSE WaitOf[p]]
           /\ \A p \in {fd} \X evs : WaitOf[p] \in {"once", "repeat"}
<1> DEFINE gone == {e \in evs : ctx[fd][e] # "repeat" \/ last}
<1>1. /\ ~ \E e \in evs : ctx[fd][e] = "null"
      /\ callbacks' = callbacks \cup {<<fd, e>> : e \in evs}
      /\ ctx' = [ctx EXCEPT ![fd] = [e \in Events |-> IF e \in gone THEN "null" ELSE @[e]]]
  BY DEF triggerEvents
<1>2. {fd} \X evs = {<<fd, e>> : e \in evs}
  OBVIOUS
<1>3. ASSUME NEW f \in Fds, NEW e \in Events
      PROVE  ctx'[f][e] = IF f = fd /\ e \in evs /\ (ctx[f][e] # "repeat" \/ last)
                          THEN "null" ELSE ctx[f][e]
  BY <1>1 DEF TypeOK
<1>4. WaitOf' = [p \in Fds \X Events |->
                   IF p \in {fd} \X evs /\ (WaitOf[p] # "repeat" \/ last)
                   THEN "null" ELSE WaitOf[p]]
  <2>1. ASSUME NEW p \in Fds \X Events
        PROVE  ctx'[p[1]][p[2]] = IF p \in {fd} \X evs /\ (ctx[p[1]][p[2]] # "repeat" \/ last)
                                  THEN "null" ELSE ctx[p[1]][p[2]]
    <3>1. p[1] \in Fds /\ p[2] \in Events /\ (p \in {fd} \X evs <=> p[1] = fd /\ p[2] \in evs)
      OBVIOUS
    <3> QED
      BY <1>3, <3>1
  <2> QED
    BY <2>1 DEF WaitOf
<1>5. \A p \in {fd} \X evs : WaitOf[p] \in {"once", "repeat"}
  BY <1>1 DEF TypeOK, WaitOf
<1> QED
  BY <1>1, <1>2, <1>4, <1>5
(* addEvent() and delEvent().                                              *)
LEMMA AddWaits ==
    ASSUME Inv, ~crashed, NEW fd \in Fds, NEW e \in Events, NEW repeat \in Repeats,
           addEvent(fd, e, repeat)
    PROVE  Abstract!Next
<1> DEFINE p == <<fd, e>>
<1>1. p \in Fds \X Events /\ repeat \in BOOLEAN
  BY FdAssumption
<1>2. ReportedOf = {} /\ ReportedOf' = {}
  BY CallerLemma DEF addEvent
<1>3. WaitOf' = [WaitOf EXCEPT ![p] = IF repeat THEN "repeat" ELSE "once"]
  <2>1. ASSUME NEW q \in Fds \X Events
        PROVE  ctx'[q[1]][q[2]] = IF q = p THEN (IF repeat THEN "repeat" ELSE "once")
                                  ELSE ctx[q[1]][q[2]]
    <3>1. q[1] \in Fds /\ q[2] \in Events /\ (q = p <=> q[1] = fd /\ q[2] = e)
      OBVIOUS
    <3> QED
      BY <3>1 DEF addEvent, Inv, TypeOK
  <2> QED
    BY <1>1, <2>1 DEF WaitOf
<1>4. ReadyOf' = ReadyOf /\ UNCHANGED <<callbacks, crashed>>
  BY DEF addEvent, ReadyOf, fdVars
<1>5. Abstract!Add(p, repeat)
  BY <1>2, <1>3, <1>4 DEF Abstract!Add, WaitOf, ReadyOf, ReportedOf
<1> QED
  BY <1>1, <1>5 DEF Abstract!Next

LEMMA DelWaits ==
    ASSUME Inv, ~crashed, NEW fd \in Fds, NEW e \in Events, delEvent(fd, e)
    PROVE  Abstract!Next
<1> DEFINE p == <<fd, e>>
<1>1. p \in Fds \X Events /\ p \in Abstract!Awaited
  BY AwaitedLemma DEF delEvent, Registered
<1>2. ReportedOf = {} /\ ReportedOf' = {}
  BY CallerLemma DEF delEvent
<1>3. WaitOf' = [q \in Fds \X Events |-> IF q \in {p} THEN "null" ELSE WaitOf[q]]
  <2>1. ASSUME NEW q \in Fds \X Events
        PROVE  ctx'[q[1]][q[2]] = IF q \in {p} THEN "null" ELSE ctx[q[1]][q[2]]
    <3>1. q[1] \in Fds /\ q[2] \in Events /\ (q \in {p} <=> q[1] = fd /\ q[2] = e)
      OBVIOUS
    <3> QED
      BY <3>1 DEF delEvent, Inv, TypeOK
  <2> QED
    BY <1>1, <2>1 DEF WaitOf
<1>4. ReadyOf' = ReadyOf /\ UNCHANGED <<callbacks, crashed>>
  BY DEF delEvent, ReadyOf, fdVars
<1>5. Abstract!Delete(p)
  BY <1>1, <1>2, <1>3, <1>4 DEF Abstract!Delete, Abstract!End, WaitOf, ReadyOf, ReportedOf
<1> QED
  BY <1>1, <1>5 DEF Abstract!Next

(* cancelEvent() and cancelAll(): the callbacks of who waits, and nobody   *)
(* waits any more.                                                         *)
LEMMA CancelWaits ==
    ASSUME Inv, ~crashed, ~crashed', NEW fd \in Fds, NEW evs \in SUBSET events[fd],
           MayCall, triggerEvents(fd, evs, TRUE), UNCHANGED <<batch, fdVars>>
    PROVE  Abstract!Next
<1> DEFINE E == {fd} \X evs
<1>0. evs \in SUBSET Events
  BY DEF Inv, TypeOK
<1>1. E \in SUBSET (Fds \X Events) /\ E \subseteq Abstract!Awaited
  BY <1>0, AwaitedLemma
<1>2. ReportedOf = {} /\ ReportedOf' = {}
  BY CallerLemma
<1>3. /\ callbacks' = callbacks \cup E
      /\ WaitOf' = [p \in Fds \X Events |->
                        IF p \in E /\ (WaitOf[p] # "repeat" \/ TRUE)
                        THEN "null" ELSE WaitOf[p]]
  BY <1>0, TriggerWaits DEF Inv
<1>4. WaitOf' = [p \in Fds \X Events |-> IF p \in E THEN "null" ELSE WaitOf[p]]
  BY <1>3
<1>5. ReadyOf' = ReadyOf /\ crashed' = crashed
  BY DEF ReadyOf, fdVars, triggerEvents
<1> HIDE DEF E
<1>6. Abstract!Cancel(E)
  BY <1>1, <1>2, <1>3, <1>4, <1>5
     DEF Abstract!Cancel, Abstract!End, WaitOf, ReadyOf, ReportedOf
<1> QED
  BY <1>1, <1>6 DEF Abstract!Next

(* What a dispatch reports is triggered: a wait without repeat ends.       *)
LEMMA TriggerReported ==
    ASSUME Inv, ~crashed, ~crashed', NEW fd \in Fds, NEW evs \in SUBSET Events,
           triggerEvents(fd, evs, FALSE), UNCHANGED fdVars,
           ReportedOf' \subseteq ReportedOf,
           ~OutsideCallers => {fd} \X evs \subseteq ReportedOf
    PROVE  Abstract!Next
<1> DEFINE E == {fd} \X evs
<1>1. evs \subseteq events[fd]
  BY DEF triggerEvents, Inv, AgreeUnlessCrashed, RegistrationsAgree
<1>2. E \in SUBSET (Fds \X Events) /\ E \subseteq Abstract!Awaited
  BY <1>1, AwaitedLemma
<1>3. /\ callbacks' = callbacks \cup E
      /\ WaitOf' = [p \in Fds \X Events |->
                        IF p \in E /\ (WaitOf[p] # "repeat" \/ FALSE)
                        THEN "null" ELSE WaitOf[p]]
      /\ \A p \in E : WaitOf[p] \in {"once", "repeat"}
  BY TriggerWaits DEF Inv
<1>4. WaitOf' = [p \in Fds \X Events |->
                    IF p \in {q \in E : WaitOf[q] = "once"} THEN "null" ELSE WaitOf[p]]
  BY <1>3
<1>5. ReadyOf' = ReadyOf /\ crashed' = crashed
  BY DEF ReadyOf, fdVars, triggerEvents, Inv, TypeOK
<1>6. ~OutsideCallers => E \subseteq ReportedOf
  OBVIOUS
<1> HIDE DEF E
<1>7. Abstract!Trigger(E)
  BY <1>2, <1>3, <1>4, <1>5, <1>6
     DEF Abstract!Trigger, Abstract!End, WaitOf, ReadyOf, ReportedOf
<1> QED
  BY <1>2, <1>7 DEF Abstract!Next

(* A dispatch triggers what was reported, skips what is not registered any *)
(* more, or fails.                                                         *)
LEMMA DispatchWaits ==
    ASSUME Inv, ~crashed, NEW w \in Workers, NEW fd \in Fds, dispatch(w, fd),
           crashed' => ~(OneKind \/ OneThread)
    PROVE  Abstract!Next \/ UNCHANGED Abstract!waitVars
<1> DEFINE real == RealEvents(w, fd)
           E    == {fd} \X real
<1>1. /\ real \in SUBSET Events
      /\ batch' = [batch EXCEPT ![w][fd] = {}] /\ UNCHANGED fdVars
      /\ batch' \in [Workers -> [Fds -> SUBSET (Events \cup {"HUP"})]]
  BY DEF dispatch, RealEvents, Inv, TypeOK
<1>2. ReadyOf' = ReadyOf
  BY <1>1 DEF ReadyOf, fdVars
<1>3. \A v \in Workers, f \in Fds : batch'[v][f] \subseteq batch[v][f]
  BY <1>1 DEF Inv, TypeOK
<1>4. ASSUME Registered' \subseteq Registered
      PROVE  ReportedOf' \subseteq ReportedOf
  <2>1. CASE OutsideCallers
    BY <2>1 DEF ReportedOf
  <2>2. CASE ~OutsideCallers
    <3>1. ASSUME NEW p \in Reported'
          PROVE  p \in Reported
      <4>1. p \in Registered /\ p[1] \in Fds
        BY <1>4, <3>1 DEF Reported, Registered
      <4>2. PICK v \in Workers : batch'[v][p[1]] \cap {p[2], "HUP"} # {}
        BY <3>1 DEF Reported
      <4>3. batch[v][p[1]] \cap {p[2], "HUP"} # {}
        BY <1>3, <4>1, <4>2
      <4> QED
        BY <4>1, <4>3 DEF Reported
    <3> QED
      BY <2>2, <3>1 DEF ReportedOf
  <2> QED
    BY <2>1, <2>2
<1>5. CASE events[fd] \cap real = {}
  <2>1. UNCHANGED ioVars
    BY <1>5 DEF dispatch
  <2>2. Registered' = Registered
    BY <2>1 DEF ioVars, Registered
  <2>3. \A e \in events[fd] : batch[w][fd] \cap {e, "HUP"} = {}
    BY <1>5 DEF RealEvents, Inv, TypeOK
  <2> HIDE DEF real, E
  <2>4. ASSUME NEW p \in Reported
        PROVE  p \in Reported'
    <3>1. p \in Registered /\ p[1] \in Fds /\ p[2] \in events[p[1]]
      BY DEF Reported, Registered
    <3>2. PICK v \in Workers : batch[v][p[1]] \cap {p[2], "HUP"} # {}
      BY DEF Reported
    <3>3. ~(v = w /\ p[1] = fd)
      BY <2>3, <3>1, <3>2
    <3>4. batch'[v][p[1]] = batch[v][p[1]]
      BY <1>1, <3>1, <3>3 DEF Inv, TypeOK
    <3> QED
      BY <2>2, <3>1, <3>2, <3>4 DEF Reported
  <2>5. ReportedOf' = ReportedOf
    BY <1>4, <2>2, <2>4 DEF ReportedOf
  <2> QED
    BY <1>2, <2>1, <2>5, WaitStutter DEF ioVars, WaitOf
<1>6. CASE events[fd] \cap real # {}
  <2>1. triggerEvents(fd, real, FALSE)
    BY <1>6 DEF dispatch
  <2>2. CASE crashed'
    <3>1. UNCHANGED <<events, ctx, callbacks>> /\ crashed' = TRUE
      BY <2>1, <2>2 DEF triggerEvents
    <3>2. ReportedOf' \subseteq ReportedOf
      BY <1>4, <3>1 DEF Registered
    <3>3. Abstract!Fail
      BY <1>2, <2>2, <3>1, <3>2 DEF Abstract!Fail, WaitOf, ReadyOf, ReportedOf
    <3> QED
      BY <3>3 DEF Abstract!Next
  <2>3. CASE ~crashed'
    <3>1. real \subseteq events[fd]
      BY <2>1, <2>3, <1>1 DEF triggerEvents, Inv, AgreeUnlessCrashed, RegistrationsAgree
    <3>2. E \subseteq Registered
      BY <1>1, <3>1, AwaitedLemma
    <3>3. ReportedOf' \subseteq ReportedOf
      <4>1. \A f \in Fds : events'[f] \subseteq events[f]
        BY <2>1, <2>3 DEF triggerEvents, Inv, TypeOK
      <4> QED
        BY <1>4, <4>1 DEF Registered
    <3>4. ~OutsideCallers => E \subseteq ReportedOf
      <4>1. \A e \in real : batch[w][fd] \cap {e, "HUP"} # {}
        BY DEF RealEvents
      <4> HIDE DEF real
      <4> QED
        BY <3>2, <4>1 DEF ReportedOf, Reported
    <3> HIDE DEF real
    <3> QED
      BY <1>1, <2>1, <2>3, <3>3, <3>4, TriggerReported
  <2> QED
    BY <2>2, <2>3
<1> QED
  BY <1>5, <1>6

(* epoll_wait() reports what is awaited and ready.                         *)
LEMMA ReportWaits ==
    ASSUME Inv, ~crashed, NEW w \in Workers, epoll_wait(w)
    PROVE  Abstract!Next
<1> DEFINE E == ReportedOf' \ ReportedOf
<1>1. UNCHANGED <<events, ctx, callbacks, crashed, ready, hup>>
  BY DEF epoll_wait, ioVars, fdVars
<1>2. /\ \A fd \in Fds : batch[w][fd] = {}
      /\ \A fd \in Fds : batch'[w][fd] \subseteq
             (ready[fd] \cap interest[fd]) \cup (IF hup[fd] THEN {"HUP"} ELSE {})
      /\ \A v \in Workers \ {w} : batch'[v] = batch[v]
  BY DEF epoll_wait, Inv, TypeOK
<1>3. Registered' = Registered /\ ReadyOf' = ReadyOf /\ WaitOf' = WaitOf
  BY <1>1 DEF Registered, ReadyOf, WaitOf
<1>4. ReportedOf \subseteq ReportedOf'
  <2>1. ASSUME NEW p \in Reported
        PROVE  p \in Reported'
    <3>1. p \in Registered /\ p[1] \in Fds
      BY DEF Reported, Registered
    <3>2. PICK v \in Workers : batch[v][p[1]] \cap {p[2], "HUP"} # {}
      BY DEF Reported
    <3>3. v # w
      BY <1>2, <3>1, <3>2
    <3> QED
      BY <1>2, <1>3, <3>1, <3>2, <3>3 DEF Reported
  <2> QED
    BY <2>1 DEF ReportedOf
<1>5. E \subseteq Registered /\ E \subseteq ReadyOf
  <2>1. ASSUME NEW p \in Reported', p \notin Reported
        PROVE  p \in Registered /\ p \in ReadyOf
    <3>1. p \in Registered /\ p \in Fds \X Events /\ p[1] \in Fds /\ p[2] \in Events
      BY <1>3, <2>1 DEF Reported, Registered
    <3>2. PICK v \in Workers : batch'[v][p[1]] \cap {p[2], "HUP"} # {}
      BY <2>1 DEF Reported
    <3>3. v = w
      BY <1>2, <2>1, <3>1, <3>2 DEF Reported
    <3>4. PICK x \in batch'[w][p[1]] : x = p[2] \/ x = "HUP"
      BY <3>2, <3>3
    <3>5. x \in (ready[p[1]] \cap interest[p[1]]) \cup (IF hup[p[1]] THEN {"HUP"} ELSE {})
      BY <1>2, <3>1, <3>4
    <3>6. "HUP" \notin Events /\ ready[p[1]] \subseteq Events
      BY <3>1, FdAssumption DEF Inv, TypeOK
    <3>7. p[2] \in ready[p[1]] \/ hup[p[1]]
      BY <3>1, <3>4, <3>5, <3>6
    <3> QED
      BY <3>1, <3>7 DEF ReadyOf
  <2> QED
    BY <2>1 DEF ReportedOf
<1>6. E \in SUBSET (Fds \X Events) /\ E \subseteq Abstract!Awaited
  BY <1>5, AwaitedLemma DEF Registered
<1>7. ReportedOf' = ReportedOf \cup E
  BY <1>4
<1> HIDE DEF E
<1>8. Abstract!Report(E)
  BY <1>1, <1>3, <1>5, <1>6, <1>7 DEF Abstract!Report, WaitOf, ReadyOf, ReportedOf
<1> QED
  BY <1>6, <1>8 DEF Abstract!Next

(* The descriptor changes, or a callback has run.                          *)
LEMMA OutsideWaits ==
    ASSUME Inv, ~crashed, Outside
    PROVE  Abstract!Next
<1>1. UNCHANGED <<events, ctx, crashed>>
  BY OutsideStep
<1>2. WaitOf' = WaitOf /\ Registered' = Registered
  BY <1>1 DEF WaitOf, Registered
<1>3. ASSUME UNCHANGED batch
      PROVE  ReportedOf' = ReportedOf
  BY <1>2, <1>3 DEF ReportedOf, Reported
<1>4. ASSUME UNCHANGED <<batch, callbacks>>
      PROVE  Abstract!Next
  <2>1. ReadyOf' \in SUBSET (Fds \X Events)
    BY DEF ReadyOf
  <2>2. Abstract!ReadyChanges
    BY <1>1, <1>2, <1>3, <1>4, <2>1 DEF Abstract!ReadyChanges, WaitOf, ReadyOf, ReportedOf
  <2> QED
    BY <2>2 DEF Abstract!Next
<1>5. ASSUME NEW fd \in Fds, NEW e \in Events, runCallback(fd, e)
      PROVE  Abstract!Next
  <2>1. ReadyOf' = ReadyOf /\ UNCHANGED batch
    BY <1>5 DEF runCallback, ReadyOf, fdVars
  <2>2. Abstract!Run(<<fd, e>>)
    BY <1>1, <1>2, <1>3, <1>5, <2>1 DEF runCallback, Abstract!Run, WaitOf, ReadyOf, ReportedOf
  <2>3. <<fd, e>> \in Fds \X Events
    OBVIOUS
  <2> QED
    BY <2>2, <2>3 DEF Abstract!Next
<1> QED
  BY <1>4, <1>5, ReportWaits DEF Outside, becomeReady, drain, hangUp, ioVars

(* With one kind of event, or one thread, triggerEvent() is always right.  *)
LEMMA SafeLemma == Spec => [](OneKind \/ OneThread => ~crashed)
<1>1. CASE OneKind
  <2>1. TriggersRegistered => (OneKind \/ OneThread => ~crashed)
    BY DEF TriggersRegistered
  <2> QED
    BY <1>1, <2>1, OneKindIsSafe, PTL DEF OneKind
<1>2. CASE OneThread
  <2>1. TriggersRegistered => (OneKind \/ OneThread => ~crashed)
    BY DEF TriggersRegistered
  <2> QED
    BY <1>2, <2>1, OneThreadAgrees, PTL DEF OneThread
<1>3. CASE ~(OneKind \/ OneThread)
  <2>1. OneKind \/ OneThread => ~crashed
    BY <1>3
  <2> QED
    BY <2>1, PTL
<1> QED
  BY <1>1, <1>2, <1>3

(* Whatever the kernel, the workers and the callers do, for any descriptors*)
(* and workers: the events of a program behave as those of EventWaits, and *)
(* if nothing is called between epoll_wait and the dispatch, none comes for*)
(* what was ready before it was asked for.                                 *)
THEOREM ImplementsWaits == Spec => WaitSpec
<1> DEFINE S == OneKind \/ OneThread => ~crashed
<1>1. Inv /\ Inv' /\ S' /\ [Next]_vars => [Abstract!Next]_(Abstract!waitVars)
  <2> SUFFICES ASSUME Inv, Inv', S', [Next]_vars
               PROVE  Abstract!Next \/ UNCHANGED Abstract!waitVars
    OBVIOUS
  <2>1. CASE UNCHANGED vars
    <3>1. UNCHANGED <<WaitOf, ReadyOf, ReportedOf>>
      BY <2>1 DEF vars, ioVars, kernelVars, fdVars, WaitOf, ReadyOf, ReportedOf, Reported,
                   Registered
    <3> QED
      BY <2>1, <3>1, WaitStutter DEF vars, ioVars
  <2>2. CASE Next
    <3>0. ~crashed
      BY <2>2 DEF Next
    <3>1. ASSUME NEW fd \in Fds, NEW e \in Events, cancelEvent(fd, e)
          PROVE  Abstract!Next
      <4>1. {e} \in SUBSET events[fd] /\ MayCall /\ triggerEvents(fd, {e}, TRUE)
            /\ UNCHANGED <<batch, fdVars>>
        BY <3>1 DEF cancelEvent
      <4>2. ~crashed'
        BY <3>0, <3>1, CancelEventStep
      <4> QED
        BY <3>0, <4>1, <4>2, CancelWaits
    <3>2. ASSUME NEW fd \in Fds, cancelAll(fd)
          PROVE  Abstract!Next
      <4>1. MayCall /\ triggerEvents(fd, events[fd], TRUE) /\ UNCHANGED <<batch, fdVars>>
        BY <3>2 DEF cancelAll
      <4>2. ~crashed'
        BY <3>0, <3>2, CancelAllStep
      <4>3. events[fd] \in SUBSET events[fd]
        OBVIOUS
      <4> QED
        BY <3>0, <4>1, <4>2, <4>3, CancelWaits
    <3>3. ASSUME NEW w \in Workers, NEW fd \in Fds, dispatch(w, fd)
          PROVE  Abstract!Next \/ UNCHANGED Abstract!waitVars
      <4>1. crashed' => ~(OneKind \/ OneThread)
        BY DEF OneKind, OneThread
      <4> QED
        BY <3>0, <3>3, <4>1, DispatchWaits
    <3> QED
      BY <2>2, <3>0, <3>1, <3>2, <3>3, OutsideWaits, AddWaits, DelWaits DEF Next, Outside, idle
  <2> QED
    BY <2>1, <2>2
<1>2. Spec => []S
  BY SafeLemma
<1> HIDE DEF S
<1> QED
  BY Invariance, WaitInit, <1>1, <1>2, PTL DEF Spec, WaitSpec, Abstract!Spec
=============================================================================
