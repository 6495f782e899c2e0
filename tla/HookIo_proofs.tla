---------------------------- MODULE HookIo_proofs ----------------------------
(***************************************************************************)
(* Theorems about HookIo for any number of doroutines: those of the first  *)
(* part for one and for two threads, those of the second for one.          *)
(***************************************************************************)
EXTENDS HookIo, FiniteSetTheorems, TLAPS

(* A descriptor is used by one call at a time.                             *)
OneCall ==
    \A c, d \in Doroutines :
        Calling(c) /\ Calling(d) /\ call[c].kind # "sleep" /\ call[d].kind # "sleep" => c = d

(* A timer that can still have an effect belongs to a call with a timeout, *)
(* and who is marked is marked by it.                                      *)
TimerHasCall ==
    \A d \in Doroutines :
        /\ armed[d] \/ queued[d] \/ cancelled[d] \/ "own" \in firing[d] =>
                Calling(d) /\ call[d].timed
        /\ "own" \in firing[d] => cancelled[d]

(* sleep() uses its timer alone: that is armed or on its way exactly while *)
(* the doroutine is parked, and marks nothing.                             *)
SleeperHasTimer ==
    \A d \in Doroutines :
        /\ ~Calling(d) => call[d].kind # "sleep"
        /\ call[d].kind = "sleep" =>
              /\ pc[d] \in {"arm", "parked", "runnable", "woken"} /\ call[d].timed
              /\ ~cancelled[d] /\ "own" \notin firing[d]
              /\ pc[d] = "parked" <=> armed[d] \/ queued[d]
              /\ ~(armed[d] /\ queued[d])

Inv == TypeOK /\ OneCall /\ TimerHasCall /\ SleeperHasTimer /\ ScheduledOnce /\ ParkedIsKnown

(* With one thread: what is on it, a doroutine or a callback, is alone.    *)
OneOnThread ==
    /\ \A c, d \in Doroutines : pc[c] \in OnThread /\ pc[d] \in OnThread => c = d
    /\ \A c, d \in Doroutines : pc[c] \in OnThread => firing[d] = {}
    /\ \A c, d \in Doroutines : firing[c] # {} /\ firing[d] # {} => c = d
    /\ \A d \in Doroutines : firing[d] \subseteq {"own"}

(* Who is between cancelAll() and close_f() has left no event behind.      *)
Closing(d) == pc[d] \in {"delFd", "close_f"}

CloseIsAtomic ==
    /\ \A d \in Doroutines : Closing(d) => waiter = None
    /\ ~fdCtx => socket = "closed" \/ \E d \in Doroutines : pc[d] = "close_f"
    /\ interest <=> waiter # None
    /\ ready => socket \notin {"closed", "connecting"}

(* Who comes from a connect that was not timed out finds it decided.       *)
ResumedIsDecided ==
    socket = "connecting" =>
        \A d \in Doroutines :
            /\ pc[d] # "getsockopt"
            /\ call[d].kind = "connect" =>
                  /\ pc[d] = "woken" => cancelled[d]
                  /\ pc[d] = "runnable" => cancelled[d] \/ \E c \in Doroutines : Closing(c)

OneThreadInv ==
    OneOnThread /\ CloseIsAtomic /\ ResumedIsDecided /\ ClosedHasNoEvent /\ ConnectIsDecided

-----------------------------------------------------------------------------
(* A call returns: it leaves no timer of its own, and was not parked.      *)
LEMMA ReturnStep ==
    ASSUME Inv, NEW d \in Doroutines, pc[d] \in OnThread, Calling(d),
           NEW r \in {"ok", "error", "ETIMEDOUT", "inProgress"}, NEW b \in BOOLEAN,
           Return(d, r, b),
           ready' \in BOOLEAN, socket' \in {"closed", "new", "connecting", "connected"}
    PROVE  Inv'
<1> USE HookAssumption DEF Inv, Return, NoCall, Goto, eventVars, OnThread, Calling
<1>1. TypeOK'
  BY DEF TypeOK, Ages
<1>2. OneCall'
  BY DEF TypeOK, OneCall
<1>3. TimerHasCall'
  BY DEF TypeOK, TimerHasCall
<1>4. SleeperHasTimer'
  BY DEF TypeOK, SleeperHasTimer
<1>5. ScheduledOnce'
  BY DEF TypeOK, ScheduledOnce
<1>6. ParkedIsKnown'
  BY DEF TypeOK, ParkedIsKnown
<1> QED
  BY <1>1, <1>2, <1>3, <1>4, <1>5, <1>6

(* Every action, for any number of threads.                                *)
LEMMA NextInv ==
    ASSUME Inv, Next
    PROVE  Inv'
<1> USE HookAssumption DEF Inv, TypeOK, OnThread, Ages, Calling, OneCall, TimerHasCall,
              SleeperHasTimer, ScheduledOnce, ParkedIsKnown
<1>1. ASSUME NEW d \in Doroutines, NEW kind \in {"io", "connect"}, NEW timed \in BOOLEAN,
             begin(d, kind, timed)
      PROVE  Inv'
  BY <1>1 DEF begin, Goto, timerVars, eventVars, fdVars
<1>2. ASSUME NEW d \in Doroutines, begin(d, "sleep", TRUE)
      PROVE  Inv'
  BY <1>2 DEF begin, Goto, timerVars, eventVars, fdVars
<1>3. ASSUME NEW d \in Doroutines, funIo(d)
      PROVE  Inv'
  <2>1. CASE Return(d, "error", TRUE) /\ UNCHANGED <<ready, socket>>
    BY <1>3, <2>1, ReturnStep DEF funIo, Goto, callVars, timerVars, eventVars, fdVars
  <2>2. CASE Return(d, "ok", TRUE) /\ ready' \in BOOLEAN /\ UNCHANGED socket
    BY <1>3, <2>2, ReturnStep DEF funIo, Goto, callVars, timerVars, eventVars, fdVars
  <2>3. CASE Goto(d, "arm") /\ UNCHANGED <<callVars, timerVars, eventVars, fdVars>>
    BY <1>3, <2>3 DEF funIo, Goto, callVars, timerVars, eventVars, fdVars
  <2> QED
    BY <1>3, <2>1, <2>2, <2>3 DEF funIo
<1>4. ASSUME NEW d \in Doroutines, funConnect(d)
      PROVE  Inv'
  <2>1. CASE Return(d, "error", TRUE) /\ UNCHANGED <<ready, socket>>
    BY <1>4, <2>1, ReturnStep DEF funConnect, Goto, callVars, timerVars, eventVars
  <2>2. CASE Return(d, "ok", TRUE) /\ socket' = "connected" /\ UNCHANGED ready
    BY <1>4, <2>2, ReturnStep DEF funConnect, Goto, callVars, timerVars, eventVars
  <2>3. CASE /\ Goto(d, "arm") /\ socket' = "connecting" /\ ready' = FALSE
             /\ UNCHANGED <<callVars, timerVars, eventVars, fdCtx>>
    <3> USE <1>4, <2>3 DEF funConnect, Goto, callVars, timerVars, eventVars
    <3>1. TypeOK'
      OBVIOUS
    <3>2. OneCall'
      OBVIOUS
    <3>3. TimerHasCall'
      OBVIOUS
    <3>4. SleeperHasTimer'
      OBVIOUS
    <3>5. ScheduledOnce'
      OBVIOUS
    <3>6. ParkedIsKnown'
      OBVIOUS
    <3> QED
      BY <3>1, <3>2, <3>3, <3>4, <3>5, <3>6
  <2> QED
    BY <1>4, <2>1, <2>2, <2>3 DEF funConnect
<1>5. ASSUME NEW d \in Doroutines, arm(d)
      PROVE  Inv'
  BY <1>5 DEF arm, Goto, callVars, eventVars, fdVars
<1>6. ASSUME NEW d \in Doroutines, sleep(d)
      PROVE  Inv'
  BY <1>6 DEF sleep, Goto, callVars, eventVars, fdVars
<1>7. ASSUME NEW d \in Doroutines, addEvent(d)
      PROVE  Inv'
  <2> USE <1>7 DEF addEvent, Goto, callVars, timerVars, fdVars
  <2>1. TypeOK'
    OBVIOUS
  <2>2. OneCall'
    OBVIOUS
  <2>3. TimerHasCall'
    OBVIOUS
  <2>4. SleeperHasTimer'
    OBVIOUS
  <2>5. ScheduledOnce'
    OBVIOUS
  <2>6. ParkedIsKnown'
    OBVIOUS
  <2> QED
    BY <2>1, <2>2, <2>3, <2>4, <2>5, <2>6
<1>8. ASSUME NEW d \in Doroutines, addEventFails(d)
      PROVE  Inv'
  <2>1. CASE call[d].kind = "connect"
    BY <1>8, <2>1 DEF addEventFails, Goto, callVars, timerVars, eventVars, fdVars
  <2>2. CASE call[d].kind # "connect"
    BY <1>8, <2>2, ReturnStep DEF addEventFails, Goto, callVars, timerVars, eventVars, fdVars
  <2> QED
    BY <1>8, <2>1, <2>2 DEF addEventFails
<1>9. ASSUME NEW d \in Doroutines, wokenIo(d)
      PROVE  Inv'
  <2>1. CASE cancelled[d]
    BY <1>9, <2>1, ReturnStep DEF wokenIo, Goto, callVars, eventVars, fdVars
  <2>2. CASE ~cancelled[d]
    <3>1. /\ pc' = [pc EXCEPT ![d] = "fun"]
          /\ armed' = [armed EXCEPT ![d] = FALSE]
          /\ UNCHANGED <<callVars, cancelled, queued, stale, firing, eventVars, fdVars>>
      BY <1>9, <2>2 DEF wokenIo, Goto
    <3> QED
      BY <1>9, <3>1 DEF wokenIo, callVars, eventVars, fdVars
  <2> QED
    BY <1>9, <2>1, <2>2 DEF wokenIo
<1>10. ASSUME NEW d \in Doroutines, wokenConnect(d)
      PROVE  Inv'
  <2>1. CASE cancelled[d]
    BY <1>10, <2>1, ReturnStep DEF wokenConnect, Goto, callVars, timerVars, eventVars, fdVars
  <2>2. CASE ~cancelled[d]
    <3>1. Goto(d, "getsockopt") /\ UNCHANGED <<callVars, timerVars, eventVars, fdVars>>
      BY <1>10, <2>2 DEF wokenConnect
    <3> QED
      BY <1>10, <3>1 DEF wokenConnect, Goto, callVars, timerVars, eventVars, fdVars
  <2> QED
    BY <1>10, <2>1, <2>2 DEF wokenConnect
<1>11. ASSUME NEW d \in Doroutines, wokenSleep(d)
      PROVE  Inv'
  BY <1>11, ReturnStep DEF wokenSleep, Goto, eventVars
<1>12. ASSUME NEW d \in Doroutines, getsockopt(d)
      PROVE  Inv'
  BY <1>12, ReturnStep DEF getsockopt, Goto, eventVars
<1>13. ASSUME NEW d \in Doroutines, delFd(d)
      PROVE  Inv'
  <2> USE <1>13 DEF delFd, Goto, callVars, timerVars, eventVars
  <2>1. TypeOK'
    OBVIOUS
  <2>2. OneCall'
    OBVIOUS
  <2>3. TimerHasCall'
    OBVIOUS
  <2>4. SleeperHasTimer'
    OBVIOUS
  <2>5. ScheduledOnce'
    OBVIOUS
  <2>6. ParkedIsKnown'
    OBVIOUS
  <2> QED
    BY <2>1, <2>2, <2>3, <2>4, <2>5, <2>6
<1>14. ASSUME NEW d \in Doroutines, close_f(d)
      PROVE  Inv'
  <2> USE <1>14 DEF close_f, Goto, callVars, timerVars
  <2>1. TypeOK'
    OBVIOUS
  <2>2. OneCall'
    OBVIOUS
  <2>3. TimerHasCall'
    OBVIOUS
  <2>4. SleeperHasTimer'
    OBVIOUS
  <2>5. ScheduledOnce'
    OBVIOUS
  <2>6. ParkedIsKnown'
    OBVIOUS
  <2> QED
    BY <2>1, <2>2, <2>3, <2>4, <2>5, <2>6
<1>15. ASSUME NEW d \in Doroutines, resume(d)
      PROVE  Inv'
  BY <1>15 DEF resume, Goto, callVars, timerVars, eventVars, fdVars
<1>16. ASSUME NEW d \in Doroutines, wake(d)
      PROVE  Inv'
  BY <1>16 DEF wake, Goto, callVars, eventVars, fdVars
<1>17. ASSUME NEW d \in Doroutines, close(d)
      PROVE  Inv'
  <2>1. TypeOK'
    <3>1. pc' \in [Doroutines -> OnThread \cup {"user", "parked", "runnable"}]
      BY <1>17 DEF close, CanTrigger
    <3> QED
      BY <1>17, <3>1 DEF close, CanTrigger, callVars, timerVars, eventVars, fdVars
  <2>2. OneCall'
    BY <1>17 DEF close, CanTrigger, callVars, timerVars, eventVars, fdVars
  <2>3. TimerHasCall'
    BY <1>17 DEF close, CanTrigger, callVars, timerVars, eventVars, fdVars
  <2>4. SleeperHasTimer'
    BY <1>17 DEF close, CanTrigger, callVars, timerVars, eventVars, fdVars
  <2>5. ScheduledOnce'
    BY <1>17 DEF close, CanTrigger, callVars, timerVars, eventVars, fdVars
  <2>6. ParkedIsKnown'
    BY <1>17 DEF close, CanTrigger, callVars, timerVars, eventVars, fdVars
  <2> QED
    BY <2>1, <2>2, <2>3, <2>4, <2>5, <2>6
<1>18. ASSUME NEW d \in Doroutines, newSocket(d)
      PROVE  Inv'
  BY <1>18 DEF newSocket, callVars, timerVars, eventVars
<1>19. ASSUME NEW d \in Doroutines, collect(d)
      PROVE  Inv'
  BY <1>19 DEF collect, callVars, eventVars, fdVars
<1>20. ASSUME NEW d \in Doroutines, callback(d)
      PROVE  Inv'
  BY <1>20 DEF callback, callVars, eventVars, fdVars
<1>21. ASSUME NEW d \in Doroutines, staleCallback(d)
      PROVE  Inv'
  BY <1>21 DEF staleCallback, callVars, eventVars, fdVars
<1>22. ASSUME NEW d \in Doroutines, NEW age \in Ages, cancelEvent(d, age)
      PROVE  Inv'
  <2>a. CASE Trigger
    <3> USE <1>22, <2>a DEF cancelEvent, Trigger, CanTrigger, Goto, callVars, eventVars, fdVars
    <3>1. TypeOK'
      OBVIOUS
    <3>2. OneCall'
      OBVIOUS
    <3>3. TimerHasCall'
      OBVIOUS
    <3>4. SleeperHasTimer'
      OBVIOUS
    <3>5. ScheduledOnce'
      OBVIOUS
    <3>6. ParkedIsKnown'
      OBVIOUS
    <3> QED
      BY <3>1, <3>2, <3>3, <3>4, <3>5, <3>6
  <2>b. CASE ~CanTrigger /\ UNCHANGED <<pc, eventVars>>
    <3> USE <1>22, <2>b DEF cancelEvent, Trigger, CanTrigger, Goto, callVars, eventVars, fdVars
    <3>1. TypeOK'
      OBVIOUS
    <3>2. OneCall'
      OBVIOUS
    <3>3. TimerHasCall'
      OBVIOUS
    <3>4. SleeperHasTimer'
      OBVIOUS
    <3>5. ScheduledOnce'
      OBVIOUS
    <3>6. ParkedIsKnown'
      OBVIOUS
    <3> QED
      BY <3>1, <3>2, <3>3, <3>4, <3>5, <3>6
  <2> QED
    BY <1>22, <2>a, <2>b DEF cancelEvent
<1>23. ASSUME dispatch
      PROVE  Inv'
  <2> USE <1>23 DEF dispatch, Trigger, CanTrigger, Goto, callVars, timerVars, fdVars
  <2>1. TypeOK'
    OBVIOUS
  <2>2. OneCall'
    OBVIOUS
  <2>3. TimerHasCall'
    OBVIOUS
  <2>4. SleeperHasTimer'
    OBVIOUS
  <2>5. ScheduledOnce'
    OBVIOUS
  <2>6. ParkedIsKnown'
    OBVIOUS
  <2> QED
    BY <2>1, <2>2, <2>3, <2>4, <2>5, <2>6
<1>24. ASSUME becomeReady
      PROVE  Inv'
  BY <1>24 DEF becomeReady, callVars, timerVars, eventVars
<1>25. ASSUME readyLost
      PROVE  Inv'
  BY <1>25 DEF readyLost, callVars, timerVars, eventVars
<1> HIDE HookAssumption DEF Inv, TypeOK, OnThread, Ages, Calling, OneCall, TimerHasCall,
              SleeperHasTimer, ScheduledOnce, ParkedIsKnown
<1> QED
  BY <1>1, <1>2, <1>3, <1>4, <1>5, <1>6, <1>7, <1>8, <1>9, <1>10, <1>11, <1>12, <1>13, <1>14,
     <1>15, <1>16, <1>17, <1>18, <1>19, <1>20, <1>21, <1>22, <1>23, <1>24, <1>25 DEF Next, Proceed

-----------------------------------------------------------------------------
(* When the only thread is free, no doroutine and no callback is on it.    *)
LEMMA FreeLemma ==
    ASSUME NThreads = 1, TypeOK, FreeThread
    PROVE  \A d \in Doroutines : pc[d] \notin OnThread /\ firing[d] = {}
<1> DEFINE B == {d \in Doroutines : pc[d] \in OnThread}
           F == {p \in Doroutines \X Ages : p[2] \in firing[p[1]]}
<1>1. IsFiniteSet(B) /\ Cardinality(B) \in Nat
  BY HookAssumption, FS_Subset, FS_CardinalityType
<1>2. IsFiniteSet(F) /\ Cardinality(F) \in Nat
  <2>1. IsFiniteSet({"own"})
    BY FS_Singleton
  <2>2. IsFiniteSet({"own"} \cup {"old"})
    BY <2>1, FS_AddElement
  <2>3. Ages = {"own"} \cup {"old"}
    BY DEF Ages
  <2>4. IsFiniteSet(Doroutines \X Ages)
    BY <2>2, <2>3, HookAssumption, FS_Product
  <2> QED
    BY <2>4, FS_Subset, FS_CardinalityType
<1>3. Cardinality(B) + Cardinality(F) < 1
  BY DEF FreeThread
<1> HIDE DEF B, F
<1>4. Cardinality(B) = 0 /\ Cardinality(F) = 0
  BY <1>1, <1>2, <1>3
<1>5. B = {} /\ F = {}
  BY <1>1, <1>2, <1>4, FS_EmptySet
<1>6. \A d \in Doroutines, a \in Ages : a \notin firing[d]
  <2> TAKE d \in Doroutines, a \in Ages
  <2>1. <<d, a>> \in F <=> a \in firing[d]
    BY DEF F
  <2> QED
    BY <1>5, <2>1
<1> QED
  BY <1>5, <1>6 DEF B, TypeOK

(* A return leaves the thread free; it is decided what connect returns.    *)
LEMMA ReturnOneThread ==
    ASSUME Inv, OneThreadInv, NEW d \in Doroutines, pc[d] \in OnThread, Calling(d),
           NEW r \in {"ok", "error", "ETIMEDOUT"}, NEW b \in BOOLEAN, Return(d, r, b),
           \/ UNCHANGED <<ready, socket>>
           \/ ready' \in BOOLEAN /\ socket' = "connected" /\ socket # "closed"
    PROVE  OneThreadInv'
<1> USE DEF Inv, OneThreadInv, OnThread, Calling, Closing
<1>1. /\ pc' = [pc EXCEPT ![d] = "user"] /\ call' = [call EXCEPT ![d] = NoCall]
      /\ cancelled' = [cancelled EXCEPT ![d] = FALSE]
      /\ UNCHANGED <<waiter, interest, fdCtx>> /\ result' = r
  BY DEF Return, Goto, eventVars
<1>2. firing' = firing
  BY DEF Return, OneOnThread, TypeOK
<1>3. OneOnThread'
  BY <1>1, <1>2 DEF TypeOK, OneOnThread
<1>4. CloseIsAtomic'
  BY <1>1 DEF TypeOK, CloseIsAtomic
<1>5. ResumedIsDecided'
  BY <1>1 DEF TypeOK, ResumedIsDecided, NoCall
<1>6. ClosedHasNoEvent' /\ ConnectIsDecided'
  BY <1>1 DEF ClosedHasNoEvent, ConnectIsDecided
<1> QED
  BY <1>3, <1>4, <1>5, <1>6

(* Every action, when there is one thread.                                 *)
LEMMA NextOneThread ==
    ASSUME NThreads = 1, Inv, OneThreadInv, Next
    PROVE  OneThreadInv'
<1> USE HookAssumption DEF Inv, TypeOK, OneCall, TimerHasCall, SleeperHasTimer, ScheduledOnce,
              OnThread, Ages, Calling, Closing, OneOnThread, CloseIsAtomic, ResumedIsDecided,
              ClosedHasNoEvent, ConnectIsDecided, OneThreadInv
<1>0. FreeThread => \A d \in Doroutines : pc[d] \notin OnThread /\ firing[d] = {}
  BY FreeLemma
<1>1. ASSUME NEW d \in Doroutines, NEW kind \in {"io", "connect"}, NEW timed \in BOOLEAN,
             begin(d, kind, timed)
      PROVE  OneThreadInv'
  BY <1>0, <1>1 DEF begin, Goto, timerVars, eventVars, fdVars
<1>2. ASSUME NEW d \in Doroutines, begin(d, "sleep", TRUE)
      PROVE  OneThreadInv'
  BY <1>0, <1>2 DEF begin, Goto, timerVars, eventVars, fdVars
<1>3. ASSUME NEW d \in Doroutines, funIo(d)
      PROVE  OneThreadInv'
  <2>1. CASE Return(d, "error", TRUE) /\ UNCHANGED <<ready, socket>>
    BY <1>3, <2>1, ReturnOneThread DEF funIo
  <2>2. CASE /\ Return(d, "ok", TRUE) /\ ready' \in BOOLEAN
             /\ socket = "connected" /\ UNCHANGED socket
    BY <1>3, <2>2, ReturnOneThread DEF funIo
  <2>3. CASE Goto(d, "arm") /\ UNCHANGED <<callVars, timerVars, eventVars, fdVars>>
    BY <1>0, <1>3, <2>3 DEF funIo, Goto, callVars, timerVars, eventVars, fdVars
  <2> QED
    BY <1>3, <2>1, <2>2, <2>3 DEF funIo
<1>4. ASSUME NEW d \in Doroutines, funConnect(d)
      PROVE  OneThreadInv'
  <2>1. CASE Return(d, "error", TRUE) /\ UNCHANGED <<ready, socket>>
    BY <1>4, <2>1, ReturnOneThread DEF funConnect
  <2>2. CASE /\ Return(d, "ok", TRUE) /\ socket = "new" /\ socket' = "connected"
             /\ UNCHANGED ready
    BY <1>4, <2>2, ReturnOneThread DEF funConnect
  <2>3. CASE /\ Goto(d, "arm") /\ socket = "new" /\ socket' = "connecting" /\ ready' = FALSE
             /\ UNCHANGED <<callVars, timerVars, eventVars, fdCtx>>
    BY <1>0, <1>4, <2>3 DEF funConnect, Goto, callVars, timerVars, eventVars
  <2> QED
    BY <1>4, <2>1, <2>2, <2>3 DEF funConnect
<1>5. ASSUME NEW d \in Doroutines, arm(d)
      PROVE  OneThreadInv'
  BY <1>0, <1>5 DEF arm, Goto, callVars, eventVars, fdVars
<1>6. ASSUME NEW d \in Doroutines, sleep(d)
      PROVE  OneThreadInv'
  BY <1>0, <1>6 DEF sleep, Goto, callVars, eventVars, fdVars
<1>7. ASSUME NEW d \in Doroutines, addEvent(d)
      PROVE  OneThreadInv'
  BY <1>0, <1>7 DEF addEvent, CanAdd, Goto, callVars, timerVars, fdVars
<1>8. ASSUME NEW d \in Doroutines, addEventFails(d)
      PROVE  OneThreadInv'
  <2>1. CASE call[d].kind = "connect"
    BY <1>0, <1>8, <2>1 DEF addEventFails, CanAdd, Goto, callVars, timerVars, eventVars, fdVars
  <2>2. CASE call[d].kind # "connect"
    BY <1>8, <2>2, ReturnOneThread DEF addEventFails
  <2> QED
    BY <1>8, <2>1, <2>2 DEF addEventFails
<1>9. ASSUME NEW d \in Doroutines, wokenIo(d)
      PROVE  OneThreadInv'
  <2>1. CASE cancelled[d]
    BY <1>9, <2>1, ReturnOneThread DEF wokenIo
  <2>2. CASE ~cancelled[d]
    BY <1>0, <1>9, <2>2 DEF wokenIo, Goto, callVars, eventVars, fdVars
  <2> QED
    BY <1>9, <2>1, <2>2 DEF wokenIo
<1>10. ASSUME NEW d \in Doroutines, wokenConnect(d)
      PROVE  OneThreadInv'
  <2>1. CASE cancelled[d]
    BY <1>10, <2>1, ReturnOneThread DEF wokenConnect
  <2>2. CASE ~cancelled[d]
    BY <1>0, <1>10, <2>2 DEF wokenConnect, Goto, callVars, timerVars, eventVars, fdVars
  <2> QED
    BY <1>10, <2>1, <2>2 DEF wokenConnect
<1>11. ASSUME NEW d \in Doroutines, wokenSleep(d)
      PROVE  OneThreadInv'
  BY <1>11, ReturnOneThread DEF wokenSleep
<1>12. ASSUME NEW d \in Doroutines, getsockopt(d)
      PROVE  OneThreadInv'
  <2>1. socket # "connecting"
    BY <1>0, <1>12 DEF ResumedIsDecided, getsockopt
  <2>2. CASE socket = "connected"
    BY <1>12, <2>2, ReturnOneThread DEF getsockopt
  <2>3. CASE socket # "connected"
    BY <1>12, <2>1, <2>3, ReturnOneThread DEF getsockopt
  <2> QED
    BY <2>2, <2>3
<1>13. ASSUME NEW d \in Doroutines, delFd(d)
      PROVE  OneThreadInv'
  BY <1>0, <1>13 DEF delFd, Goto, callVars, timerVars, eventVars
<1>14. ASSUME NEW d \in Doroutines, close_f(d)
      PROVE  OneThreadInv'
  BY <1>0, <1>14 DEF close_f, Goto, callVars, timerVars
<1>15. ASSUME NEW d \in Doroutines, resume(d)
      PROVE  OneThreadInv'
  BY <1>0, <1>15 DEF resume, Goto, callVars, timerVars, eventVars, fdVars
<1>16. ASSUME NEW d \in Doroutines, wake(d)
      PROVE  OneThreadInv'
  BY <1>0, <1>16 DEF wake, Goto, callVars, eventVars, fdVars
<1>17. ASSUME NEW d \in Doroutines, close(d)
      PROVE  OneThreadInv'
  BY <1>0, <1>17 DEF close, CanTrigger, callVars, timerVars, eventVars, fdVars
<1>18. ASSUME NEW d \in Doroutines, newSocket(d)
      PROVE  OneThreadInv'
  BY <1>0, <1>18 DEF newSocket, callVars, timerVars, eventVars
<1>19. ASSUME NEW d \in Doroutines, collect(d)
      PROVE  OneThreadInv'
  BY <1>0, <1>19 DEF collect, callVars, eventVars, fdVars
<1>20. ASSUME NEW d \in Doroutines, callback(d)
      PROVE  OneThreadInv'
  BY <1>0, <1>20 DEF callback, callVars, eventVars, fdVars
<1>21. ASSUME NEW d \in Doroutines, staleCallback(d)
      PROVE  OneThreadInv'
  BY <1>0, <1>21 DEF staleCallback, callVars, eventVars, fdVars
<1>22. ASSUME NEW d \in Doroutines, NEW age \in Ages, cancelEvent(d, age)
      PROVE  OneThreadInv'
  <2>1. CASE Trigger
    BY <1>0, <1>22, <2>1 DEF cancelEvent, Trigger, CanTrigger, Goto, callVars, eventVars, fdVars
  <2>2. CASE ~CanTrigger /\ UNCHANGED <<pc, eventVars>>
    BY <1>0, <1>22, <2>2 DEF cancelEvent, Trigger, CanTrigger, Goto, callVars, eventVars, fdVars
  <2> QED
    BY <1>22, <2>1, <2>2 DEF cancelEvent
<1>23. ASSUME dispatch
      PROVE  OneThreadInv'
  BY <1>0, <1>23 DEF dispatch, Trigger, CanTrigger, Goto, callVars, timerVars, fdVars
<1>24. ASSUME becomeReady
      PROVE  OneThreadInv'
  BY <1>0, <1>24 DEF becomeReady, callVars, timerVars, eventVars
<1>25. ASSUME readyLost
      PROVE  OneThreadInv'
  BY <1>0, <1>25 DEF readyLost, callVars, timerVars, eventVars
<1> HIDE HookAssumption DEF Inv, TypeOK, OneCall, TimerHasCall, SleeperHasTimer, ScheduledOnce,
              OnThread, Ages, Calling, Closing, OneOnThread, CloseIsAtomic, ResumedIsDecided,
              ClosedHasNoEvent, ConnectIsDecided, OneThreadInv
<1> QED
  BY <1>1, <1>2, <1>3, <1>4, <1>5, <1>6, <1>7, <1>8, <1>9, <1>10, <1>11, <1>12, <1>13, <1>14,
     <1>15, <1>16, <1>17, <1>18, <1>19, <1>20, <1>21, <1>22, <1>23, <1>24, <1>25 DEF Next, Proceed

-----------------------------------------------------------------------------
LEMMA InitInv == Init => Inv /\ OneThreadInv
<1> SUFFICES ASSUME Init
             PROVE  Inv /\ OneThreadInv
  OBVIOUS
<1>1. TypeOK
  BY HookAssumption DEF Init, TypeOK, NoCall, OnThread, Ages
<1>2. OneCall /\ TimerHasCall /\ SleeperHasTimer /\ ScheduledOnce /\ ParkedIsKnown
  BY DEF Init, OneCall, TimerHasCall, SleeperHasTimer, ScheduledOnce, ParkedIsKnown,
         Calling, NoCall
<1>3. OneOnThread /\ CloseIsAtomic /\ ResumedIsDecided
  BY DEF Init, OneOnThread, CloseIsAtomic, ResumedIsDecided, Closing, OnThread, NoCall
<1>4. ClosedHasNoEvent /\ ConnectIsDecided
  BY DEF Init, ClosedHasNoEvent, ConnectIsDecided
<1> QED
  BY <1>1, <1>2, <1>3, <1>4 DEF Inv, OneThreadInv

LEMMA StutterInv ==
    ASSUME UNCHANGED vars
    PROVE  /\ Inv => Inv'
           /\ OneThreadInv => OneThreadInv'
<1> USE DEF vars, callVars, timerVars, eventVars, fdVars, Calling
<1>1. Inv => Inv'
  BY DEF Inv, TypeOK, OneCall, TimerHasCall, SleeperHasTimer, ScheduledOnce, ParkedIsKnown
<1>2. OneThreadInv => OneThreadInv'
  BY DEF OneThreadInv, OneOnThread, CloseIsAtomic, ResumedIsDecided, Closing,
         ClosedHasNoEvent, ConnectIsDecided
<1> QED
  BY <1>1, <1>2

(* One call at a time per descriptor and direction, timers that mark only  *)
(* their own calls, and events that only parked doroutines have, whatever  *)
(* timeouts, events and close() do, on one thread or two.                  *)
THEOREM Invariance == Spec => []Inv
<1>1. Inv /\ [Next]_vars => Inv'
  BY NextInv, StutterInv
<1> QED
  BY InitInv, <1>1, PTL DEF Spec

(* The variables keep their types.                                         *)
THEOREM TypeCorrect == Spec => []TypeOK
<1>1. Inv => TypeOK
  BY DEF Inv
<1> QED
  BY Invariance, <1>1, PTL

(* No doroutine that has yielded inside a hooked call is forgotten.        *)
THEOREM YieldIsKnown == Spec => []ParkedIsKnown
<1>1. Inv => ParkedIsKnown
  BY DEF Inv
<1> QED
  BY Invariance, <1>1, PTL

(* No doroutine is scheduled a second time for one yield, although its     *)
(* event, its timer, a late callback of an earlier call and close() may all*)
(* come for it.                                                            *)
THEOREM YieldIsScheduledOnce == Spec => []ScheduledOnce
<1>1. Inv => ScheduledOnce
  BY DEF Inv
<1> QED
  BY Invariance, <1>1, PTL

(* The weak pointer to timerInfo does its work: only a call that has asked *)
(* for a timeout is marked as timed out, and only while it lasts.          *)
THEOREM TimeoutIsOwn == Spec => []OnlyOwnTimeout
<1>1. Inv => OnlyOwnTimeout
  BY DEF Inv, TimerHasCall, SleeperHasTimer, OnlyOwnTimeout
<1> QED
  BY Invariance, <1>1, PTL

(* With one thread, cancelAll(), delFd() and close_f() follow each other   *)
(* without anything in between, and nobody comes out of a connect that is  *)
(* undecided unless it was timed out or closed.                            *)
THEOREM OneThreadInvariance ==
    ASSUME NThreads = 1
    PROVE  Spec => []OneThreadInv
<1>1. Inv /\ OneThreadInv /\ [Next]_vars => OneThreadInv'
  BY NextOneThread, StutterInv
<1> QED
  BY Invariance, InitInv, <1>1, PTL DEF Spec

(* With one thread, who is parked waits for an event that the kernel knows,*)
(* of a descriptor that is open.                                           *)
THEOREM OneThreadCanWake ==
    ASSUME NThreads = 1
    PROVE  Spec => []ParkedCanWake
<1>1. Inv /\ OneThreadInv => ParkedCanWake
  BY HookAssumption DEF Inv, OneThreadInv, ParkedIsKnown, CloseIsAtomic, ClosedHasNoEvent,
     ParkedCanWake
<1> QED
  BY Invariance, OneThreadInvariance, <1>1, PTL

(* With one thread, close() leaves no event of the descriptor behind.      *)
THEOREM OneThreadClose ==
    ASSUME NThreads = 1
    PROVE  Spec => []ClosedHasNoEvent
<1>1. OneThreadInv => ClosedHasNoEvent
  BY DEF OneThreadInv
<1> QED
  BY OneThreadInvariance, <1>1, PTL

(* With one thread, connect never reports success while undecided.         *)
THEOREM OneThreadConnect ==
    ASSUME NThreads = 1
    PROVE  Spec => []ConnectIsDecided
<1>1. OneThreadInv => ConnectIsDecided
  BY DEF OneThreadInv
<1> QED
  BY OneThreadInvariance, <1>1, PTL

-----------------------------------------------------------------------------
(* Who waits, or is about to, with a timeout has its timer, or is marked.  *)
TimeoutIsKept ==
    \A d \in Doroutines : pc[d] \in {"add", "parked"} /\ call[d].timed =>
        armed[d] \/ queued[d] \/ cancelled[d]

LEMMA NextTimeoutIsKept ==
    ASSUME Inv, TimeoutIsKept, [Next]_vars
    PROVE  TimeoutIsKept'
<1> USE DEF Inv, TypeOK, SleeperHasTimer, ScheduledOnce, OnThread, TimeoutIsKept, Goto
<1>1. ASSUME NEW d \in Doroutines, NEW r, NEW b \in BOOLEAN, Return(d, r, b)
      PROVE  TimeoutIsKept'
  BY <1>1 DEF Return, NoCall
<1>2. ASSUME NEW d \in Doroutines, Proceed(d)
      PROVE  TimeoutIsKept'
  <2>1. CASE \E r \in {"ok", "error", "ETIMEDOUT", "inProgress"}, b \in BOOLEAN : Return(d, r, b)
    BY <1>1, <2>1
  <2>2. CASE arm(d) \/ sleep(d) \/ addEvent(d) \/ delFd(d) \/ close_f(d)
    BY <2>2 DEF arm, sleep, addEvent, delFd, close_f, callVars, timerVars
  <2>3. CASE \E l \in {"arm", "getsockopt"} : Goto(d, l) /\ UNCHANGED <<callVars, timerVars>>
    BY <2>3 DEF callVars, timerVars
  <2>4. CASE wokenIo(d) /\ ~cancelled[d]
    BY <2>4 DEF wokenIo, callVars
  <2> QED
    BY <1>2, <2>1, <2>2, <2>3, <2>4 DEF Proceed, funIo, funConnect, addEventFails, wokenIo,
       wokenConnect, wokenSleep, getsockopt
<1>3. ASSUME NEW d \in Doroutines, NEW age \in Ages, cancelEvent(d, age)
      PROVE  TimeoutIsKept'
  BY <1>3 DEF cancelEvent, Trigger, CanTrigger, callVars, timerVars
<1>4. ASSUME NEW d \in Doroutines, close(d)
      PROVE  TimeoutIsKept'
  BY <1>4 DEF close, CanTrigger, callVars, timerVars
<1>5. ASSUME NEW d \in Doroutines,
             \/ \E kind \in {"io", "connect"}, timed \in BOOLEAN : begin(d, kind, timed)
             \/ begin(d, "sleep", TRUE)
             \/ resume(d) \/ wake(d) \/ newSocket(d) \/ collect(d)
              \/ callback(d) \/ staleCallback(d)
      PROVE  TimeoutIsKept'
  BY <1>5 DEF begin, resume, wake, newSocket, collect, callback, staleCallback, callVars, timerVars
<1>6. ASSUME dispatch \/ becomeReady \/ readyLost \/ UNCHANGED vars
      PROVE  TimeoutIsKept'
  BY <1>6 DEF dispatch, Trigger, CanTrigger, becomeReady, readyLost, vars, callVars, timerVars
<1> QED
  BY <1>2, <1>3, <1>4, <1>5, <1>6 DEF Next
(* A call that asked for a timeout never waits, nor is about to, without a *)
(* timer that is armed, on its way, or has already marked it: what         *)
(* TimedCallReturns rests on, for one thread and for two.                  *)
THEOREM TimeoutKept == Spec => []TimeoutIsKept
<1>1. Init => TimeoutIsKept
  BY DEF Init, TimeoutIsKept
<1> QED
  BY Invariance, <1>1, NextTimeoutIsKept, PTL DEF Spec

-----------------------------------------------------------------------------
(* The calls as the WITH clause of Abstract sees them.                     *)
PhaseOf   == [d \in Doroutines |-> Phase(d)]
TimeoutOf == [d \in Doroutines |-> Timeout(d)]

Places    == OnThread \cup {"user", "parked", "runnable"}

LEMMA CallInit == Init => Abstract!Init
BY DEF Init, NoCall, Abstract!Init, Phase, Timeout

LEMMA CallStutter ==
    ASSUME UNCHANGED <<PhaseOf, TimeoutOf, call, result, ready>>,
           (socket # "closed")' = (socket # "closed")
    PROVE  UNCHANGED Abstract!callingVars
BY DEF Abstract!callingVars, PhaseOf, TimeoutOf

(* A step of one doroutine changes its phase and its timeout, no other's.  *)
LEMMA PhaseStep ==
    ASSUME TypeOK, NEW d \in Doroutines, NEW l \in Places, Goto(d, l)
    PROVE  /\ PhaseOf' = [PhaseOf EXCEPT ![d] = Phase(d)']
           /\ Phase(d)' = CASE l = "user"                  -> "none"
                            [] l \in {"fun", "arm", "add"}  -> "running"
                            [] l = "parked"                -> "waiting"
                            [] l \in {"runnable", "woken"}  -> "woken"
                            [] l = "getsockopt"            -> "ending"
                            [] OTHER                       -> "closing"
<1>1. pc' = [pc EXCEPT ![d] = l] /\ pc \in [Doroutines -> Places]
  BY DEF Goto, TypeOK, Places
<1>2. pc'[d] = l /\ \A c \in Doroutines \ {d} : pc'[c] = pc[c]
  BY <1>1
<1>3. \A c \in Doroutines \ {d} : Phase(c)' = Phase(c)
  BY <1>2 DEF Phase
<1>4. PhaseOf' = [PhaseOf EXCEPT ![d] = Phase(d)']
  BY <1>3 DEF PhaseOf
<1> QED
  BY <1>2, <1>4 DEF Phase

LEMMA PhaseStays ==
    ASSUME TypeOK, NEW d \in Doroutines, NEW l, Goto(d, l),
           \/ pc[d] \in {"fun", "arm"} /\ l \in {"arm", "add"}
           \/ pc[d] = "delFd" /\ l = "close_f"
    PROVE  PhaseOf' = PhaseOf
<1>1. \A c \in Doroutines : Phase(c)' = Phase(c)
  BY DEF Goto, TypeOK, Phase
<1> QED
  BY <1>1 DEF PhaseOf

LEMMA TimeoutStep ==
    ASSUME NEW d \in Doroutines,
           \A c \in Doroutines \ {d} : Timeout(c)' = Timeout(c)
    PROVE  TimeoutOf' = [TimeoutOf EXCEPT ![d] = Timeout(d)']
BY DEF TimeoutOf
(* What the refinement rests on.                                           *)
CallInv == Inv /\ TimeoutIsKept /\ (NThreads = 1 => OneThreadInv)

(* A call that returns in the detailed model returns in the abstract one.  *)
LEMMA ReturnCalls ==
    ASSUME CallInv, NEW d \in Doroutines, NEW r, NEW b \in BOOLEAN, Return(d, r, b),
           r \in Abstract!Answers(d), ready' \in BOOLEAN,
           (socket # "closed")' = (socket # "closed")
    PROVE  Abstract!Next
<1> USE DEF CallInv, Inv, Return, NoCall
<1>1. PhaseOf' = [PhaseOf EXCEPT ![d] = "none"]
  BY PhaseStep, "user" \in Places DEF Places, Return
<1>2. TimeoutOf' = [TimeoutOf EXCEPT ![d] = "off"]
  <2>1. \A c \in Doroutines \ {d} : Timeout(c)' = Timeout(c)
    BY DEF TypeOK, Timeout, Goto
  <2>2. Timeout(d)' = "off"
    BY DEF TypeOK, Timeout, Goto
  <2> QED
    BY <2>1, <2>2, TimeoutStep
<1>3. Abstract!Return(d)
  BY <1>1, <1>2 DEF Abstract!Return, Abstract!Enter, PhaseOf, TimeoutOf
<1> QED
  BY <1>3 DEF Abstract!Next

(* What a call does on its thread.                                         *)
LEMMA ProceedCalls ==
    ASSUME CallInv, NEW d \in Doroutines, Proceed(d)
    PROVE  Abstract!Next \/ UNCHANGED Abstract!callingVars
<1> USE DEF CallInv
<1>0. /\ Inv /\ TypeOK /\ "arm" \in Places /\ "add" \in Places /\ "fun" \in Places
      /\ "parked" \in Places /\ "getsockopt" \in Places /\ "close_f" \in Places /\ "user" \in Places
  BY DEF Inv, Places, OnThread
<1>1. CASE funIo(d)
  <2>1. CASE \E r \in {"ok", "error"} : Return(d, r, TRUE)
    <3>1. PICK r \in {"ok", "error"} : Return(d, r, TRUE)
      BY <2>1
    <3>2. r \in Abstract!Answers(d)
      BY <1>1 DEF funIo, Abstract!Answers, Abstract!Sleeps, Phase
    <3>3. ready' \in BOOLEAN /\ socket' = socket
      BY <1>0, <1>1, <2>1 DEF funIo, TypeOK, Return, Goto, fdVars
    <3> QED
      BY <3>1, <3>2, <3>3, ReturnCalls
  <2>2. CASE Goto(d, "arm") /\ UNCHANGED <<callVars, timerVars, eventVars, fdVars>>
    <3>1. PhaseOf' = PhaseOf
      BY <1>0, <1>1, <2>2, PhaseStays DEF funIo
    <3>2. TimeoutOf' = TimeoutOf
      BY <1>0, <1>1, <2>2 DEF funIo, TimeoutOf, Timeout, callVars, timerVars, Goto, TypeOK
    <3> QED
      BY <2>2, <3>1, <3>2, CallStutter DEF callVars, fdVars
  <2> QED
    BY <1>1, <2>1, <2>2 DEF funIo
<1>2. CASE funConnect(d)
  <2>1. CASE \E r \in {"ok", "error"} : Return(d, r, TRUE)
    <3>1. PICK r \in {"ok", "error"} : Return(d, r, TRUE)
      BY <2>1
    <3>2. r \in Abstract!Answers(d)
      BY <1>2 DEF funConnect, Abstract!Answers, Abstract!Sleeps, Phase
    <3>3. ready' \in BOOLEAN /\ (socket # "closed")' = (socket # "closed")
      BY <1>0, <1>2, <2>1 DEF funConnect, TypeOK, Return, Goto
    <3> QED
      BY <3>1, <3>2, <3>3, ReturnCalls
  <2>2. CASE /\ socket = "new" /\ socket' = "connecting" /\ ready' = FALSE
             /\ Goto(d, "arm") /\ UNCHANGED <<callVars, timerVars, eventVars, fdCtx>>
    <3>1. PhaseOf' = PhaseOf
      BY <1>0, <1>2, <2>2, PhaseStays DEF funConnect
    <3>2. TimeoutOf' = TimeoutOf
      BY <1>0, <1>2, <2>2 DEF funConnect, TimeoutOf, Timeout, callVars, timerVars, Goto, TypeOK
    <3>3. Abstract!BecomeReady
      BY <2>2, <3>1, <3>2 DEF Abstract!BecomeReady, PhaseOf, TimeoutOf, callVars
    <3> QED
      BY <3>3 DEF Abstract!Next
  <2> QED
    BY <1>2, <2>1, <2>2 DEF funConnect
<1>3. CASE arm(d)
  <2>1. PhaseOf' = PhaseOf
    BY <1>0, <1>3, PhaseStays DEF arm
  <2>2. \A c \in Doroutines \ {d} : Timeout(c)' = Timeout(c)
    BY <1>0, <1>3 DEF arm, TypeOK, Timeout, Goto, callVars
  <2>3. TimeoutOf' = [TimeoutOf EXCEPT ![d] = Timeout(d)']
    BY <2>2, TimeoutStep
  <2>4. CASE Timeout(d)' = Timeout(d)
    <3>1. TimeoutOf' = TimeoutOf
      BY <2>3, <2>4 DEF TimeoutOf
    <3> QED
      BY <1>3, <2>1, <3>1, CallStutter DEF arm, callVars, fdVars
  <2>5. CASE Timeout(d)' # Timeout(d)
    <3>1. Timeout(d) = "off" /\ Timeout(d)' = "set" /\ call[d].timed
      BY <1>0, <1>3, <2>5 DEF arm, Inv, TypeOK, TimerHasCall, Timeout, Goto, callVars
    <3>2. Abstract!Set(d)
      BY <1>3, <2>1, <2>3, <3>1 DEF arm, Abstract!Set, PhaseOf, TimeoutOf, Phase, callVars, fdVars
    <3> QED
      BY <3>2 DEF Abstract!Next
  <2> QED
    BY <2>4, <2>5
<1>4. CASE sleep(d)
  <2>1. PhaseOf' = [PhaseOf EXCEPT ![d] = "waiting"]
    BY <1>0, <1>4, PhaseStep DEF sleep
  <2>2. \A c \in Doroutines \ {d} : Timeout(c)' = Timeout(c)
    BY <1>0, <1>4 DEF sleep, TypeOK, Timeout, Goto, callVars
  <2>3. Timeout(d)' = "set"
    BY <1>0, <1>4 DEF sleep, Inv, TypeOK, SleeperHasTimer, Timeout, Goto, callVars
  <2>4. TimeoutOf' = [TimeoutOf EXCEPT ![d] = "set"]
    BY <2>2, <2>3, TimeoutStep
  <2>5. Abstract!Sleep(d)
    BY <1>4, <2>1, <2>4 DEF sleep, Abstract!Sleep, Abstract!Sleeps, Abstract!Enter,
       PhaseOf, TimeoutOf, Phase, callVars, fdVars
  <2> QED
    BY <2>5 DEF Abstract!Next
<1>5. CASE addEvent(d)
  <2>1. PhaseOf' = [PhaseOf EXCEPT ![d] = "waiting"]
    BY <1>0, <1>5, PhaseStep DEF addEvent
  <2>2. TimeoutOf' = TimeoutOf
    BY <1>0, <1>5 DEF addEvent, Inv, TypeOK, SleeperHasTimer, TimeoutOf, Timeout,
                      Goto, callVars, timerVars
  <2>3. ~Abstract!Sleeps(d)
    BY <1>0, <1>5 DEF addEvent, Inv, SleeperHasTimer, Abstract!Sleeps
  <2>4. call[d].timed => Timeout(d) # "off"
    BY <1>5 DEF addEvent, TimeoutIsKept, Timeout
  <2>5. ASSUME NThreads = 1
        PROVE  Abstract!Closing = {}
    BY <1>5, <2>5 DEF addEvent, OneThreadInv, OneOnThread, OnThread, Abstract!Closing,
                      Phase, Inv, TypeOK
  <2>6. Abstract!Wait(d)
    BY <1>5, <2>1, <2>2, <2>3, <2>4, <2>5 DEF addEvent, CanAdd, Abstract!Wait, Abstract!Enter,
       PhaseOf, TimeoutOf, Phase, callVars, fdVars
  <2> QED
    BY <2>6 DEF Abstract!Next
<1>6. CASE addEventFails(d)
  <2>1. CASE call[d].kind = "connect"
    <3>1. PhaseOf' = [PhaseOf EXCEPT ![d] = "ending"]
      BY <1>0, <1>6, <2>1, PhaseStep DEF addEventFails
    <3>2. TimeoutOf' = TimeoutOf
      BY <1>0, <1>6, <2>1 DEF addEventFails, TypeOK, TimeoutOf, Timeout, Goto, callVars, timerVars
    <3>3. Abstract!Conclude(d)
      BY <1>6, <2>1, <3>1, <3>2 DEF addEventFails, Abstract!Conclude, Abstract!Enter,
         PhaseOf, TimeoutOf, Phase, callVars, fdVars
    <3> QED
      BY <3>3 DEF Abstract!Next
  <2>2. CASE call[d].kind # "connect"
    <3>1. "error" \in Abstract!Answers(d)
      BY <1>0, <1>6 DEF addEventFails, Inv, SleeperHasTimer, Abstract!Answers,
                        Abstract!Sleeps, Phase
    <3>2. ready' \in BOOLEAN /\ socket' = socket /\ Return(d, "error", TRUE)
      BY <1>0, <1>6, <2>2 DEF addEventFails, TypeOK
    <3> QED
      BY <3>1, <3>2, ReturnCalls
  <2> QED
    BY <2>1, <2>2
<1>7. CASE wokenIo(d)
  <2>1. CASE cancelled[d]
    <3>1. "ETIMEDOUT" \in Abstract!Answers(d)
      BY <1>7, <2>1 DEF wokenIo, Abstract!Answers, Abstract!Sleeps, Phase, Timeout
    <3>2. ready' \in BOOLEAN /\ socket' = socket /\ Return(d, "ETIMEDOUT", TRUE)
      BY <1>0, <1>7, <2>1 DEF wokenIo, TypeOK
    <3> QED
      BY <3>1, <3>2, ReturnCalls
  <2>2. CASE ~cancelled[d]
    <3>0. /\ Goto(d, "fun") /\ armed' = [armed EXCEPT ![d] = FALSE]
          /\ UNCHANGED <<callVars, cancelled, queued, fdVars>>
      BY <1>7, <2>2 DEF wokenIo
    <3>1. PhaseOf' = [PhaseOf EXCEPT ![d] = "running"]
      BY <1>0, <3>0, PhaseStep
    <3>2. \A c \in Doroutines \ {d} : Timeout(c)' = Timeout(c)
      BY <1>0, <3>0 DEF TypeOK, Timeout, Goto, callVars
    <3>3. TimeoutOf' = [TimeoutOf EXCEPT ![d] = Timeout(d)']
      BY <3>2, TimeoutStep
    <3>4. Timeout(d) # "passed" /\ Timeout(d)' \in {"off", Timeout(d)}
      BY <1>0, <1>7, <2>2, <3>0 DEF wokenIo, TypeOK, Timeout, Goto, callVars
    <3>5. TimeoutOf' \in {TimeoutOf, [TimeoutOf EXCEPT ![d] = "off"]}
      BY <3>3, <3>4 DEF TimeoutOf
    <3>6. Abstract!Retry(d)
      BY <1>7, <3>0, <3>1, <3>4, <3>5 DEF wokenIo, Abstract!Retry, Abstract!Enter,
         PhaseOf, TimeoutOf, Phase, callVars, fdVars
    <3> QED
      BY <3>6 DEF Abstract!Next
  <2> QED
    BY <2>1, <2>2
<1>8. CASE wokenConnect(d)
  <2>1. CASE cancelled[d]
    <3>1. "ETIMEDOUT" \in Abstract!Answers(d)
      BY <1>8, <2>1 DEF wokenConnect, Abstract!Answers, Abstract!Sleeps, Phase, Timeout
    <3>2. ready' \in BOOLEAN /\ socket' = socket /\ Return(d, "ETIMEDOUT", FALSE)
      BY <1>0, <1>8, <2>1 DEF wokenConnect, TypeOK
    <3> QED
      BY <3>1, <3>2, ReturnCalls
  <2>2. CASE ~cancelled[d]
    <3>0. Goto(d, "getsockopt") /\ UNCHANGED <<callVars, timerVars, fdVars>>
      BY <1>8, <2>2 DEF wokenConnect
    <3>1. PhaseOf' = [PhaseOf EXCEPT ![d] = "ending"]
      BY <1>0, <3>0, PhaseStep
    <3>2. TimeoutOf' = TimeoutOf /\ Timeout(d) # "passed"
      BY <1>0, <1>8, <2>2, <3>0 DEF wokenConnect, TypeOK, TimeoutOf, Timeout, Goto,
                                  callVars, timerVars
    <3>3. Abstract!Conclude(d)
      BY <1>8, <3>0, <3>1, <3>2 DEF wokenConnect, Abstract!Conclude, Abstract!Enter,
         PhaseOf, TimeoutOf, Phase, callVars, fdVars
    <3> QED
      BY <3>3 DEF Abstract!Next
  <2> QED
    BY <2>1, <2>2
<1>9. CASE wokenSleep(d)
  <2>1. "ok" \in Abstract!Answers(d)
    BY <1>9 DEF wokenSleep, Abstract!Answers, Abstract!Sleeps, Phase
  <2>2. ready' \in BOOLEAN /\ socket' = socket /\ Return(d, "ok", FALSE)
    BY <1>0, <1>9 DEF wokenSleep, TypeOK
  <2> QED
    BY <2>1, <2>2, ReturnCalls
<1>10. CASE getsockopt(d)
  <2>1. PICK r \in {"ok", "error", "inProgress"} :
            Return(d, r, FALSE) /\ (r = "inProgress" <=> socket = "connecting")
    <3>1. CASE socket = "connecting"
      BY <1>10, <3>1 DEF getsockopt
    <3>2. CASE socket = "connected"
      BY <1>10, <3>2 DEF getsockopt
    <3>3. CASE socket \notin {"connecting", "connected"}
      BY <1>10, <3>3 DEF getsockopt
    <3> QED
      BY <3>1, <3>2, <3>3
  <2>2. NThreads = 1 => r # "inProgress"
    BY <1>10, <2>1 DEF getsockopt, OneThreadInv, ResumedIsDecided
  <2>3. ~Abstract!Sleeps(d)
    BY <1>0, <1>10 DEF getsockopt, Inv, SleeperHasTimer, Abstract!Sleeps
  <2>4. r \in Abstract!Answers(d)
    BY <1>10, <2>2, <2>3 DEF getsockopt, Abstract!Answers, Phase
  <2>5. ready' \in BOOLEAN /\ socket' = socket
    BY <1>0, <1>10 DEF getsockopt, TypeOK
  <2> QED
    BY <2>1, <2>4, <2>5, ReturnCalls
<1>11. CASE delFd(d)
  <2>1. PhaseOf' = PhaseOf
    BY <1>0, <1>11, PhaseStays DEF delFd
  <2>2. TimeoutOf' = TimeoutOf
    BY <1>0, <1>11 DEF delFd, TypeOK, TimeoutOf, Timeout, Goto, callVars, timerVars
  <2> QED
    BY <1>11, <2>1, <2>2, CallStutter DEF delFd, callVars
<1>12. CASE close_f(d)
  <2>1. PhaseOf' = [PhaseOf EXCEPT ![d] = "none"]
    BY <1>0, <1>12, PhaseStep DEF close_f
  <2>2. TimeoutOf' = TimeoutOf
    BY <1>0, <1>12 DEF close_f, TypeOK, TimeoutOf, Timeout, Goto, callVars, timerVars
  <2>3. Abstract!Closed(d)
    BY <1>12, <2>1, <2>2 DEF close_f, Abstract!Closed, Abstract!Closing, Abstract!Enter,
       PhaseOf, TimeoutOf, Phase, callVars
  <2> QED
    BY <2>3 DEF Abstract!Next
<1> QED
  BY <1>1, <1>2, <1>3, <1>4, <1>5, <1>6, <1>7, <1>8, <1>9, <1>10, <1>11, <1>12 DEF Proceed
(* Who waits for the descriptor is waiter, and is woken alone.             *)
LEMMA TriggerCalls ==
    ASSUME CallInv, Trigger, UNCHANGED <<call, result, cancelled, armed, queued, fdVars>>,
           NThreads = 1 => ready \/ cancelled[waiter]
    PROVE  Abstract!Next
<1> USE DEF CallInv
<1>1. PICK d \in Doroutines : d = waiter /\ pc[d] = "parked" /\ call[d].kind # "sleep"
  BY DEF Trigger, CanTrigger, Inv, TypeOK, ScheduledOnce
<1>2. PhaseOf' = [PhaseOf EXCEPT ![d] = "woken"]
  BY <1>1, PhaseStep, "runnable" \in Places DEF Trigger, Places, Inv
<1>3. TimeoutOf' = TimeoutOf
  <2>1. ASSUME NEW c \in Doroutines
        PROVE  Timeout(c)' = Timeout(c)
    BY <1>1 DEF Trigger, Goto, Inv, TypeOK, Timeout
  <2> QED
    BY <2>1 DEF TimeoutOf
<1>4. d \in Abstract!Waiting
  BY <1>1 DEF Abstract!Waiting, Abstract!Sleeps, Phase
<1>5. cancelled[d] => Timeout(d) = "passed"
  BY DEF Timeout
<1>6. Abstract!Wake(d)
  BY <1>1, <1>2, <1>3, <1>4, <1>5 DEF Abstract!Wake, Abstract!Enter, PhaseOf, TimeoutOf, fdVars
<1> QED
  BY <1>6 DEF Abstract!Next

LEMMA BeginCalls ==
    ASSUME CallInv, NEW d \in Doroutines,
           NEW kind \in {"io", "connect", "sleep"}, NEW timed \in BOOLEAN,
           kind = "sleep" => timed, begin(d, kind, timed)
    PROVE  Abstract!Next
<1> USE DEF CallInv, Inv
<1>1. PhaseOf' = [PhaseOf EXCEPT ![d] = "running"]
  BY PhaseStep, "arm" \in Places, "fun" \in Places DEF begin, Places, OnThread
<1>2. TimeoutOf' = TimeoutOf
  <2>1. ASSUME NEW c \in Doroutines
        PROVE  Timeout(c)' = Timeout(c)
    <3>1. CASE c = d
      BY <3>1 DEF begin, TypeOK, TimerHasCall, Calling, Goto, Timeout, timerVars
    <3>2. CASE c # d
      BY <3>2 DEF begin, TypeOK, Goto, Timeout, timerVars
    <3> QED
      BY <3>1, <3>2
  <2> QED
    BY <2>1 DEF TimeoutOf
<1>3. kind # "sleep" =>
        \A o \in Doroutines : Phase(o) \in {"none", "closing"} \/ Abstract!Sleeps(o)
  BY DEF begin, Calling, TypeOK, OnThread, Phase, Abstract!Sleeps
<1>4. Abstract!Begin(d, kind, timed)
  BY <1>1, <1>2, <1>3 DEF begin, Abstract!Begin, Abstract!Enter, PhaseOf, TimeoutOf, Phase, fdVars
<1> QED
  BY <1>4 DEF Abstract!Next

(* The timer of a call is collected, and calls back.                       *)
LEMMA TimerCalls ==
    ASSUME CallInv, NEW d \in Doroutines,
           collect(d) \/ callback(d) \/ staleCallback(d) \/ wake(d)
    PROVE  Abstract!Next \/ UNCHANGED Abstract!callingVars
<1> USE DEF CallInv, Inv
<1>1. CASE collect(d) \/ staleCallback(d)
  <2>1. PhaseOf' = PhaseOf
    BY <1>1 DEF collect, staleCallback, PhaseOf, Phase
  <2>2. TimeoutOf' = TimeoutOf
    <3>1. ASSUME NEW c \in Doroutines
          PROVE  Timeout(c)' = Timeout(c)
      BY <1>1 DEF collect, staleCallback, TypeOK, Timeout, callVars
    <3> QED
      BY <3>1 DEF TimeoutOf
  <2> QED
    BY <1>1, <2>1, <2>2, CallStutter DEF collect, staleCallback, callVars, fdVars
<1>2. CASE callback(d)
  <2>1. PhaseOf' = PhaseOf
    BY <1>2 DEF callback, PhaseOf, Phase
  <2>2. \A c \in Doroutines \ {d} : Timeout(c)' = Timeout(c)
    BY <1>2 DEF callback, TypeOK, Timeout, callVars
  <2>3. Timeout(d)' = "passed"
    BY <1>2 DEF callback, TypeOK, Timeout, callVars
  <2>4. TimeoutOf' = [TimeoutOf EXCEPT ![d] = "passed"]
    BY <2>2, <2>3, TimeoutStep
  <2>5. CASE cancelled[d]
    <3>1. TimeoutOf' = TimeoutOf
      BY <2>4, <2>5 DEF TimeoutOf, Timeout
    <3> QED
      BY <1>2, <2>1, <3>1, CallStutter DEF callback, callVars, fdVars
  <2>6. CASE ~cancelled[d]
    <3>1. Timeout(d) = "set"
      BY <1>2, <2>6 DEF callback, TypeOK, Timeout
    <3>2. Abstract!Pass(d)
      BY <1>2, <2>1, <2>4, <3>1 DEF callback, Abstract!Pass, Abstract!Sleeps, PhaseOf, TimeoutOf,
         callVars, fdVars
    <3> QED
      BY <3>2 DEF Abstract!Next
  <2> QED
    BY <2>5, <2>6
<1>3. CASE wake(d)
  <2>0. pc[d] = "parked" /\ ~cancelled[d] /\ queued[d] /\ call[d].kind = "sleep"
    BY <1>3 DEF wake, TypeOK, SleeperHasTimer
  <2>1. PhaseOf' = [PhaseOf EXCEPT ![d] = "woken"]
    BY <1>3, PhaseStep, "runnable" \in Places DEF wake, Places
  <2>2. \A c \in Doroutines \ {d} : Timeout(c)' = Timeout(c)
    BY <1>3 DEF wake, Goto, TypeOK, Timeout, callVars
  <2>3. Timeout(d)' = "passed"
    BY <1>3 DEF wake, Goto, TypeOK, Timeout, callVars
  <2>4. TimeoutOf' = [TimeoutOf EXCEPT ![d] = "passed"]
    BY <2>2, <2>3, TimeoutStep
  <2>5. Timeout(d) = "set"
    BY <2>0 DEF Timeout
  <2>6. Abstract!WakeSleeper(d)
    BY <1>3, <2>0, <2>1, <2>4, <2>5 DEF wake, Abstract!WakeSleeper, Abstract!Sleeps,
       Abstract!Enter, PhaseOf, TimeoutOf, Phase, callVars, fdVars
  <2> QED
    BY <2>6 DEF Abstract!Next
<1> QED
  BY <1>1, <1>2, <1>3

(* close() wakes who waits; with one thread that is everyone.              *)
LEMMA CloseCalls ==
    ASSUME CallInv, NEW d \in Doroutines, close(d)
    PROVE  Abstract!Next
<1> USE DEF CallInv, Inv
<1> DEFINE W == IF fdCtx /\ CanTrigger THEN {waiter} ELSE {}
<1>1. W \in SUBSET Abstract!Waiting
  BY DEF CanTrigger, TypeOK, ScheduledOnce, Abstract!Waiting, Abstract!Sleeps, Phase
<1>2. ASSUME NThreads = 1
      PROVE  W = Abstract!Waiting
  <2>1. FreeThread => \A c \in Doroutines : pc[c] \notin OnThread
    BY <1>2, FreeLemma
  <2>2. \A c \in Doroutines : pc[c] \notin OnThread
    BY <2>1 DEF close
  <2>3. ASSUME NEW c \in Abstract!Waiting
        PROVE  c = waiter /\ fdCtx /\ CanTrigger
    <3>1. c \in Doroutines /\ pc[c] = "parked" /\ call[c].kind # "sleep"
      BY <2>3 DEF Abstract!Waiting, Abstract!Sleeps, Phase, TypeOK
    <3>2. c = waiter /\ waiter # None
      BY <3>1, HookAssumption DEF ParkedIsKnown
    <3>3. interest /\ fdCtx
      BY <1>2, <2>2, <3>2 DEF OneThreadInv, CloseIsAtomic, ClosedHasNoEvent, OnThread
    <3> QED
      BY <3>2, <3>3 DEF CanTrigger
  <2> QED
    BY <1>1, <2>3
<1>3. PhaseOf' = [o \in Doroutines |-> IF o = d THEN "closing"
                                      ELSE IF o \in W THEN "woken" ELSE PhaseOf[o]]
  <2>1. ASSUME NEW o \in Doroutines
        PROVE  Phase(o)' = IF o = d THEN "closing" ELSE IF o \in W THEN "woken" ELSE Phase(o)
    <3>1. CASE fdCtx /\ CanTrigger
      BY <3>1 DEF close, CanTrigger, TypeOK, ScheduledOnce, Phase
    <3>2. CASE ~(fdCtx /\ CanTrigger)
      BY <3>2 DEF close, TypeOK, Phase
    <3> QED
      BY <3>1, <3>2
  <2> QED
    BY <2>1 DEF PhaseOf
<1>4. TimeoutOf' = TimeoutOf
  <2>1. ASSUME NEW c \in Doroutines
        PROVE  Timeout(c)' = Timeout(c)
    <3>1. CASE fdCtx /\ CanTrigger
      BY <3>1 DEF close, CanTrigger, TypeOK, ScheduledOnce, SleeperHasTimer, Calling,
                  Timeout, callVars, timerVars
    <3>2. CASE ~(fdCtx /\ CanTrigger)
      BY <3>2 DEF close, TypeOK, SleeperHasTimer, Calling, Timeout, callVars, timerVars
    <3> QED
      BY <3>1, <3>2
  <2> QED
    BY <2>1 DEF TimeoutOf
<1>5. Abstract!Close(d)
  <2>1. Phase(d) = "none"
    BY DEF close, Phase
  <2> HIDE DEF W
  <2> QED
    BY <1>1, <1>2, <1>3, <1>4, <2>1 DEF close, Abstract!Close, PhaseOf, TimeoutOf, callVars, fdVars
<1> QED
  BY <1>5 DEF Abstract!Next

LEMMA CallNext ==
    ASSUME CallInv, [Next]_vars
    PROVE  Abstract!Next \/ UNCHANGED Abstract!callingVars
<1> USE DEF CallInv
<1>1. ASSUME NEW d \in Doroutines, resume(d)
      PROVE  UNCHANGED Abstract!callingVars
  <2>1. \A c \in Doroutines : Phase(c)' = Phase(c) /\ Timeout(c)' = Timeout(c)
    BY <1>1 DEF resume, Inv, TypeOK, Goto, Phase, Timeout, callVars, timerVars
  <2>2. PhaseOf' = PhaseOf /\ TimeoutOf' = TimeoutOf
    BY <2>1 DEF PhaseOf, TimeoutOf
  <2> QED
    BY <1>1, <2>2, CallStutter DEF resume, callVars, fdVars
<1>2. ASSUME NEW d \in Doroutines, newSocket(d)
      PROVE  Abstract!Next
  <2>1. PhaseOf' = PhaseOf /\ TimeoutOf' = TimeoutOf
    BY <1>2 DEF newSocket, PhaseOf, Phase, TimeoutOf, Timeout, callVars, timerVars
  <2>2. Abstract!Open
    BY <1>2, <2>1 DEF newSocket, Abstract!Open, PhaseOf, TimeoutOf, callVars
  <2> QED
    BY <2>2 DEF Abstract!Next
<1>3. ASSUME NEW d \in Doroutines, NEW age \in Ages, cancelEvent(d, age)
      PROVE  Abstract!Next \/ UNCHANGED Abstract!callingVars
  <2>1. CASE Trigger
    <3>1. ASSUME NThreads = 1
          PROVE  cancelled[waiter]
      <4>1. age = "own"
        BY <1>3, <3>1 DEF cancelEvent, OneThreadInv, OneOnThread
      <4>2. cancelled[d] /\ Calling(d)
        BY <1>3, <4>1 DEF cancelEvent, Inv, TimerHasCall
      <4>3. call[d].kind # "sleep"
        BY <4>2 DEF Inv, SleeperHasTimer
      <4>4. waiter \in Doroutines /\ Calling(waiter) /\ call[waiter].kind # "sleep"
        BY <2>1 DEF Trigger, CanTrigger, Inv, TypeOK, ScheduledOnce, Calling
      <4>5. waiter = d
        BY <4>2, <4>3, <4>4 DEF Inv, OneCall
      <4> QED
        BY <4>2, <4>5
    <3> QED
      BY <1>3, <2>1, <3>1, TriggerCalls DEF cancelEvent, callVars
  <2>2. CASE ~CanTrigger /\ UNCHANGED <<pc, eventVars>>
    <3>1. PhaseOf' = PhaseOf /\ TimeoutOf' = TimeoutOf
      BY <1>3, <2>2 DEF cancelEvent, PhaseOf, Phase, TimeoutOf, Timeout, callVars
    <3> QED
      BY <1>3, <3>1, CallStutter DEF cancelEvent, callVars, fdVars
  <2> QED
    BY <1>3, <2>1, <2>2 DEF cancelEvent
<1>4. ASSUME dispatch
      PROVE  Abstract!Next
  BY <1>4, TriggerCalls DEF dispatch, callVars, timerVars
<1>5. ASSUME becomeReady \/ readyLost
      PROVE  Abstract!Next
  <2>1. PhaseOf' = PhaseOf /\ TimeoutOf' = TimeoutOf
    BY <1>5 DEF becomeReady, readyLost, PhaseOf, Phase, TimeoutOf, Timeout, callVars, timerVars
  <2>2. Abstract!BecomeReady
    BY <1>5, <2>1 DEF becomeReady, readyLost, Abstract!BecomeReady, PhaseOf, TimeoutOf, callVars
  <2> QED
    BY <2>2 DEF Abstract!Next
<1>6. ASSUME UNCHANGED vars
      PROVE  UNCHANGED Abstract!callingVars
  <2>1. PhaseOf' = PhaseOf /\ TimeoutOf' = TimeoutOf
    BY <1>6 DEF vars, PhaseOf, Phase, TimeoutOf, Timeout, callVars, timerVars
  <2> QED
    BY <1>6, <2>1, CallStutter DEF vars, callVars, fdVars
<1> HIDE DEF CallInv
<1> QED
  BY <1>1, <1>2, <1>3, <1>4, <1>5, <1>6, BeginCalls, ProceedCalls, TimerCalls, CloseCalls DEF Next

(* Whatever timers, events, callbacks and close() do under it, and for any *)
(* number of doroutines, a hooked call behaves as the blocking call of     *)
(* BlockingCalls: with one thread in the exact sense, with two except that *)
(* a late callback may wake it and connect may return undecided.           *)
THEOREM ImplementsCalls == Spec => CallSpec
<1>1. Spec => [](NThreads = 1 => OneThreadInv)
  <2>1. CASE NThreads = 1
    BY <2>1, OneThreadInvariance, PTL
  <2>2. CASE NThreads # 1
    <3>1. NThreads = 1 => OneThreadInv
      BY <2>2
    <3> QED
      BY <3>1, PTL
  <2> QED
    BY <2>1, <2>2
<1>2. CallInv /\ [Next]_vars => [Abstract!Next]_(Abstract!callingVars)
  BY CallNext
<1> QED
  BY Invariance, TimeoutKept, CallInit, <1>1, <1>2, PTL DEF Spec, CallSpec, Abstract!Spec, CallInv
==============================================================================
