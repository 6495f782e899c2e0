------------------------- MODULE TimerManager_proofs -------------------------
(***************************************************************************)
(* Theorems about TimerManager for any set of timers, any number of worker *)
(* threads and any clock values.                                           *)
(***************************************************************************)
EXTENDS TimerManager, TLAPS

(* The clock values that threads keep are not ahead of the clock.          *)
ClockInv ==
    /\ now \in InitNow .. MaxNow
    /\ m_previouseTime \in InitNow .. now
    /\ nowInMs \in [Workers -> InitNow .. now]

(* Times and periods are naturals, and m_next - m_periodInMs, the start    *)
(* that reset() computes, never wraps.                                     *)
TimesInv ==
    /\ m_next \in [Timers -> Nat]
    /\ m_periodInMs \in [Timers -> Nat]
    /\ \A tm \in Timers : m_periodInMs[tm] <= m_next[tm]

(* What is left to a loop without the lock was due and is not in the set.  *)
ExpiredInv ==
    /\ expired \in [Workers -> SUBSET Timers]
    /\ \A w \in Workers : \A tm \in expired[w] :
          tm \notin m_timers /\ stage[tm] = "added"
    /\ \A w, u \in Workers : w # u => expired[w] \cap expired[u] = {}
    /\ \A tm \in m_timers : stage[tm] = "added"

(* The rest of the types.                                                  *)
OtherTypes ==
    /\ m_timers \subseteq Timers
    /\ m_func \in [Timers -> BOOLEAN]
    /\ m_isTickled \in BOOLEAN
    /\ stage \in [Timers -> {"none", "built", "added"}]
    /\ pc \in [Workers -> {"idle", "check", "lock", "rest"}]
    /\ collected \in [Timers -> Nat]
    /\ cancelled \subseteq Timers
    /\ terminated \in BOOLEAN
    /\ undefined \in BOOLEAN

TInv == ClockInv /\ TimesInv /\ ExpiredInv /\ OtherTypes

LEMMA TInvType == TInv => TypeOK
  BY TimerAssumption DEF TInv, ClockInv, TimesInv, ExpiredInv, OtherTypes, TypeOK

LEMMA InitTInv == Init => TInv
<1> SUFFICES ASSUME Init PROVE TInv
  OBVIOUS
<1> USE DEF Init
<1>1. ClockInv
  BY TimerAssumption DEF ClockInv
<1>2. TimesInv
  BY DEF TimesInv
<1>3. ExpiredInv
  BY DEF ExpiredInv
<1>4. OtherTypes
  BY DEF OtherTypes
<1> QED
  BY <1>1, <1>2, <1>3, <1>4 DEF TInv

(* What the locked insertion does to the types.                            *)
LEMMA AddLemma ==
    ASSUME TInv, NEW tm \in Timers, NEW others \in SUBSET Timers, NEW next,
           addTimer(tm, others, next)
    PROVE  /\ m_timers' = others \cup {tm}
           /\ m_next' = next
           /\ m_isTickled' \in BOOLEAN
<1> DEFINE isFirst == ~m_isTickled /\ \A o \in others \ {tm} : Before(next, tm, o)
<1>1. /\ m_timers' = others \cup {tm}
      /\ m_next' = next
      /\ m_isTickled' = (m_isTickled \/ isFirst)
  BY DEF addTimer
<1>2. isFirst \in BOOLEAN
  OBVIOUS
<1> HIDE DEF isFirst
<1> QED
  BY <1>1, <1>2 DEF TInv, OtherTypes

LEMMA LockedLemma ==
    ASSUME TInv, NEW S
    PROVE  /\ Locked(S) \subseteq S
           /\ \A r \in S : FirstRepeating(S, r) => r \in Locked(S)
           /\ S \cap Repeating = {} => Locked(S) = S
<1>1. ASSUME NEW r \in S, FirstRepeating(S, r), NEW q \in S \cap Repeating, FirstRepeating(S, q)
      PROVE  r = q
  <2> SUFFICES ASSUME r # q PROVE FALSE
    OBVIOUS
  <2>1. Before(m_next, r, q) /\ Before(m_next, q, r)
    BY <1>1 DEF FirstRepeating
  <2>2. /\ r \in Nat /\ q \in Nat
        /\ m_next[r] \in Nat /\ m_next[q] \in Nat
    BY TimerAssumption, <1>1 DEF FirstRepeating, TInv, TimesInv
  <2> QED
    BY <2>1, <2>2 DEF Before
<1> QED
  BY <1>1 DEF Locked, FirstRepeating

LEMMA DueLemma ==
    ASSUME NEW t PROVE Due(t) \subseteq m_timers
  BY DEF Due
-----------------------------------------------------------------------------
(* The steps of the threads that use the timers, and of the clock.         *)
LEMMA UserTInv ==
    ASSUME TInv, NEW tm \in Timers, NEW ms \in Nat, NEW fromNow \in BOOLEAN,
           \/ newTimer(tm, ms) \/ insertTimer(tm) \/ cancel(tm) \/ refresh(tm)
           \/ reset(tm, ms, fromNow)
    PROVE  TInv'
<1> USE DEF TInv
<1>1. ms \in Nat
  OBVIOUS
<1>2. ClockInv'
  BY DEF ClockInv, newTimer, insertTimer, cancel, refresh, reset, workerVars
<1>3. TimesInv'
  <2>1. CASE newTimer(tm, ms)
    BY <1>1, <2>1, TimerAssumption DEF newTimer, TimesInv, ClockInv
  <2>2. CASE insertTimer(tm)
    BY <2>2 DEF insertTimer, addTimer, TimesInv
  <2>3. CASE cancel(tm)
    BY <2>3 DEF cancel, TimesInv
  <2>4. CASE refresh(tm)
    BY <2>4, TimerAssumption DEF refresh, addTimer, TimesInv, ClockInv
  <2>5. CASE reset(tm, ms, fromNow)
    <3>1. resetStart(tm, ms, fromNow) \in Nat
      BY TimerAssumption DEF resetStart, TimesInv, ClockInv
    <3>2. /\ m_periodInMs' = [m_periodInMs EXCEPT ![tm] = ms]
          /\ m_next' = [m_next EXCEPT ![tm] = resetStart(tm, ms, fromNow) + ms]
      BY <2>5 DEF reset, addTimer
    <3> QED
      BY <3>1, <3>2, <1>1 DEF TimesInv
  <2> QED
    BY <2>1, <2>2, <2>3, <2>4, <2>5
<1>4. ExpiredInv'
  <2>1. UNCHANGED expired /\ m_timers' \subseteq m_timers \cup {tm}
    BY DEF newTimer, insertTimer, cancel, refresh, reset, addTimer, setVars, workerVars
  <2>2. /\ \A o \in Timers : stage[o] = "added" => stage'[o] = "added"
        /\ tm \in m_timers' => stage'[tm] = "added"
        /\ tm \in m_timers' => tm \in m_timers \/ stage[tm] = "built"
    BY DEF newTimer, insertTimer, cancel, refresh, reset, addTimer, setVars, OtherTypes,
           ExpiredInv
  <2> QED
    BY <2>1, <2>2 DEF ExpiredInv, OtherTypes
<1>5. OtherTypes'
  <2>1. CASE newTimer(tm, ms)
    BY <2>1 DEF newTimer, OtherTypes, setVars, workerVars, endVars
  <2>2. CASE insertTimer(tm)
    BY <2>2, AddLemma DEF insertTimer, OtherTypes, workerVars, endVars
  <2>3. CASE cancel(tm)
    BY <2>3 DEF cancel, OtherTypes, workerVars
  <2>4. CASE refresh(tm)
    BY <2>4, AddLemma DEF refresh, OtherTypes, workerVars, endVars
  <2>5. CASE reset(tm, ms, fromNow)
    BY <2>5, AddLemma DEF reset, OtherTypes, workerVars, endVars
  <2> QED
    BY <2>1, <2>2, <2>3, <2>4, <2>5
<1> QED
  BY <1>2, <1>3, <1>4, <1>5

LEMMA TickTInv == TInv /\ Tick => TInv'
<1> SUFFICES ASSUME TInv, Tick PROVE TInv'
  OBVIOUS
<1> USE DEF TInv, Tick, setVars, timerVars, workerVars, endVars
<1>1. ClockInv'
  BY TimerAssumption DEF ClockInv
<1>2. TimesInv' /\ ExpiredInv' /\ OtherTypes'
  BY DEF TimesInv, ExpiredInv, OtherTypes
<1> QED
  BY <1>1, <1>2

(* The steps of listExpiredFunc().                                         *)
LEMMA ReadTInv ==
    ASSUME TInv, NEW w \in Workers, readClock(w) \/ checkEmpty(w)
    PROVE  TInv'
<1> USE DEF TInv, readClock, checkEmpty, setVars, timerVars, endVars
<1>1. ClockInv'
  BY TimerAssumption DEF ClockInv
<1>2. TimesInv' /\ ExpiredInv' /\ OtherTypes'
  BY DEF TimesInv, ExpiredInv, OtherTypes
<1> QED
  BY <1>1, <1>2

LEMMA CollectTInv ==
    ASSUME TInv, NEW w \in Workers, collect(w)
    PROVE  TInv'
<1> DEFINE S == Due(nowInMs[w])
           L == Locked(S)
<1>1. /\ m_previouseTime' = IF m_timers = {} THEN m_previouseTime ELSE nowInMs[w]
      /\ collected' = [tm \in Timers |-> IF tm \in L THEN collected[tm] + 1 ELSE collected[tm]]
      /\ m_func' = [tm \in Timers |-> m_func[tm] /\ (tm \in Repeating \/ tm \notin L)]
      /\ expired' = [expired EXCEPT ![w] = S \ L]
      /\ pc' = [pc EXCEPT ![w] = IF S = L THEN "idle" ELSE "rest"]
      /\ UNCHANGED <<now, m_periodInMs, stage, nowInMs, cancelled, terminated, undefined>>
  BY DEF collect, endVars
<1>2. \/ m_timers' = m_timers \ S /\ UNCHANGED <<m_next, m_isTickled>>
      \/ \E r \in S : /\ FirstRepeating(S, r)
                      /\ addTimer(r, m_timers \ S,
                            [m_next EXCEPT ![r] = nowInMs[w] + m_periodInMs[r]])
  BY DEF collect
<1>3. /\ S \subseteq m_timers /\ m_timers \subseteq Timers
      /\ L \subseteq S
      /\ \A r \in S : FirstRepeating(S, r) => r \in L
  BY DueLemma, LockedLemma DEF TInv, OtherTypes
<1> HIDE DEF S, L
<1>4. nowInMs[w] \in Nat
  BY TimerAssumption DEF TInv, ClockInv
<1>5. \/ m_timers' = m_timers \ S /\ UNCHANGED <<m_next, m_isTickled>>
      \/ \E r \in L : /\ m_timers' = (m_timers \ S) \cup {r}
                      /\ m_next' = [m_next EXCEPT ![r] = nowInMs[w] + m_periodInMs[r]]
                      /\ m_isTickled' \in BOOLEAN
  <2>1. ASSUME NEW r \in S, FirstRepeating(S, r),
               addTimer(r, m_timers \ S,
                        [m_next EXCEPT ![r] = nowInMs[w] + m_periodInMs[r]])
        PROVE  /\ m_timers' = (m_timers \ S) \cup {r}
               /\ m_next' = [m_next EXCEPT ![r] = nowInMs[w] + m_periodInMs[r]]
               /\ m_isTickled' \in BOOLEAN
    <3>1. r \in Timers /\ m_timers \ S \in SUBSET Timers
      BY <1>3
    <3> QED
      BY <2>1, <3>1, AddLemma
  <2> QED
    BY <1>2, <1>3, <2>1
<1>6. ClockInv'
  BY <1>1, TimerAssumption DEF TInv, ClockInv
<1>7. TimesInv'
  BY <1>1, <1>4, <1>5 DEF TInv, TimesInv
<1>8. ExpiredInv'
  <2>1. m_timers' \cap (S \ L) = {} /\ m_timers' \subseteq m_timers
    BY <1>3, <1>5
  <2>2. expired'[w] = S \ L /\ \A u \in Workers : u # w => expired'[u] = expired[u]
    BY <1>1 DEF TInv, ExpiredInv
  <2>3. expired' \in [Workers -> SUBSET Timers]
    BY <1>1, <1>3 DEF TInv, ExpiredInv
  <2>4. \A u \in Workers : \A tm \in expired'[u] : tm \notin m_timers' /\ stage'[tm] = "added"
    BY <1>1, <1>3, <2>1, <2>2 DEF TInv, ExpiredInv
  <2>5. \A v, u \in Workers : v # u => expired'[v] \cap expired'[u] = {}
    BY <1>3, <2>2 DEF TInv, ExpiredInv
  <2>6. \A tm \in m_timers' : stage'[tm] = "added"
    BY <1>1, <2>1 DEF TInv, ExpiredInv
  <2> QED
    BY <2>3, <2>4, <2>5, <2>6 DEF ExpiredInv
<1>9. OtherTypes'
  <2>1. m_timers' \subseteq Timers /\ m_isTickled' \in BOOLEAN
    BY <1>3, <1>5 DEF TInv, OtherTypes
  <2>2. m_func' \in [Timers -> BOOLEAN] /\ collected' \in [Timers -> Nat]
    BY <1>1 DEF TInv, OtherTypes
  <2> QED
    BY <1>1, <2>1, <2>2 DEF TInv, OtherTypes
<1> QED
  BY <1>6, <1>7, <1>8, <1>9 DEF TInv

LEMMA RestTInv ==
    ASSUME TInv, NEW w \in Workers, collectRest(w)
    PROVE  TInv'
<1> PICK tm \in expired[w] :
          /\ collected' = [collected EXCEPT ![tm] = @ + 1]
          /\ expired' = [expired EXCEPT ![w] = @ \ {tm}]
          /\ pc' = [pc EXCEPT ![w] = IF expired[w] = {tm} THEN "idle" ELSE "rest"]
          /\ \/ /\ m_timers' = m_timers \cup {tm}
                /\ m_next' = [m_next EXCEPT ![tm] = nowInMs[w] + m_periodInMs[tm]]
                /\ terminated' = TRUE
                /\ UNCHANGED m_func
             \/ /\ m_func' = [m_func EXCEPT ![tm] = FALSE]
                /\ UNCHANGED <<m_timers, m_next, terminated>>
  BY DEF collectRest
<1>1. UNCHANGED <<now, m_periodInMs, m_isTickled, stage, m_previouseTime,
                  nowInMs, cancelled, undefined>>
  BY DEF collectRest
<1>2. tm \in Timers /\ nowInMs[w] \in Nat /\ stage[tm] = "added"
  BY TimerAssumption DEF TInv, ExpiredInv, ClockInv
<1>3. ClockInv'
  BY <1>1 DEF TInv, ClockInv
<1>4. TimesInv'
  BY <1>1, <1>2 DEF TInv, TimesInv
<1>5. ExpiredInv'
  BY <1>1, <1>2 DEF TInv, ExpiredInv
<1>6. OtherTypes'
  <2>1. m_timers' \subseteq Timers /\ terminated' \in BOOLEAN
    BY <1>2 DEF TInv, OtherTypes
  <2>2. m_func' \in [Timers -> BOOLEAN]
    BY <1>2 DEF TInv, OtherTypes
  <2>4. collected' \in [Timers -> Nat]
    BY <1>2 DEF TInv, OtherTypes
  <2>3. pc' \in [Workers -> {"idle", "check", "lock", "rest"}]
    BY DEF TInv, OtherTypes
  <2> QED
    BY <1>1, <2>1, <2>2, <2>3, <2>4 DEF TInv, OtherTypes
<1> QED
  BY <1>3, <1>4, <1>5, <1>6 DEF TInv

LEMMA NextTInv == TInv /\ [Next]_vars => TInv'
<1> SUFFICES ASSUME TInv, [Next]_vars PROVE TInv'
  OBVIOUS
<1>1. CASE Tick
  BY <1>1, TickTInv
<1>2. ASSUME NEW tm \in Timers, insertTimer(tm) \/ cancel(tm) \/ refresh(tm)
      PROVE  TInv'
  <2>1. 0 \in Nat /\ TRUE \in BOOLEAN
    OBVIOUS
  <2> QED
    BY <1>2, <2>1, UserTInv
<1>3. ASSUME NEW tm \in Timers, NEW ms \in Periods, NEW fromNow \in BOOLEAN,
             newTimer(tm, ms) \/ reset(tm, ms, fromNow)
      PROVE  TInv'
  <2>1. ms \in Nat
    BY TimerAssumption
  <2> QED
    BY <1>3, <2>1, UserTInv
<1>4. ASSUME NEW w \in Workers, listExpiredFunc(w)
      PROVE  TInv'
  BY <1>4, ReadTInv, CollectTInv, RestTInv DEF listExpiredFunc
<1>5. CASE UNCHANGED vars
  BY <1>5 DEF vars, setVars, timerVars, workerVars, endVars, TInv, ClockInv, TimesInv,
              ExpiredInv, OtherTypes
<1> QED
  BY <1>1, <1>2, <1>3, <1>4, <1>5 DEF Next

THEOREM TypeCorrect == Spec => []TypeOK
  BY InitTInv, NextTInv, TInvType, PTL DEF Spec
-----------------------------------------------------------------------------
(* One-shot timers only: the loop of listExpiredFunc() never gives up the  *)
(* lock, so that the callback and the place in the set go together.        *)
OneShotInv ==
    /\ ~terminated /\ ~undefined
    /\ \A w \in Workers : pc[w] # "rest"
    /\ \A tm \in Timers :
          /\ tm \in m_timers => stage[tm] = "added" /\ m_func[tm]
          /\ stage[tm] = "added" /\ m_func[tm] => tm \in m_timers
          /\ stage[tm] = "built" => m_func[tm]

LEMMA InitOneShot == Init => OneShotInv
  BY DEF Init, OneShotInv

LEMMA NextOneShot ==
    Repeating = {} /\ TInv /\ OneShotInv /\ [Next]_vars => OneShotInv'
<1> SUFFICES ASSUME Repeating = {}, TInv, OneShotInv, [Next]_vars PROVE OneShotInv'
  OBVIOUS
<1> USE DEF TInv, OtherTypes, OneShotInv
<1>1. CASE Tick \/ UNCHANGED vars
  BY <1>1 DEF Tick, vars, setVars, timerVars, workerVars, endVars
<1>2. ASSUME NEW tm \in Timers, NEW ms \in Periods, newTimer(tm, ms)
      PROVE  OneShotInv'
  BY <1>2 DEF newTimer, setVars, workerVars, endVars
<1>3. ASSUME NEW tm \in Timers, insertTimer(tm)
      PROVE  OneShotInv'
  BY <1>3 DEF insertTimer, addTimer, workerVars, endVars
<1>4. ASSUME NEW tm \in Timers, cancel(tm)
      PROVE  OneShotInv'
  BY <1>4 DEF cancel, workerVars
<1>5. ASSUME NEW tm \in Timers, refresh(tm)
      PROVE  OneShotInv'
  BY <1>5 DEF refresh, addTimer, workerVars, endVars
<1>6. ASSUME NEW tm \in Timers, NEW ms \in Periods, NEW fromNow \in BOOLEAN,
             reset(tm, ms, fromNow)
      PROVE  OneShotInv'
  BY <1>6 DEF reset, addTimer, workerVars, endVars
<1>7. ASSUME NEW w \in Workers, readClock(w) \/ checkEmpty(w)
      PROVE  OneShotInv'
  BY <1>7 DEF readClock, checkEmpty, setVars, timerVars, endVars
<1>8. ASSUME NEW w \in Workers, collect(w)
      PROVE  OneShotInv'
  <2> DEFINE S == Due(nowInMs[w])
  <2>1. Locked(S) = S /\ S \cap Repeating = {} /\ S \subseteq m_timers
    BY LockedLemma, DueLemma
  <2>2. /\ m_timers' = m_timers \ S
        /\ collected' = [tm \in Timers |-> IF tm \in S THEN collected[tm] + 1 ELSE collected[tm]]
        /\ m_func' = [tm \in Timers |-> m_func[tm] /\ (tm \in Repeating \/ tm \notin S)]
        /\ pc' = [pc EXCEPT ![w] = "idle"]
        /\ UNCHANGED <<stage, cancelled, terminated, undefined>>
    <3>1. \A r \in S : ~FirstRepeating(S, r)
      BY <2>1 DEF FirstRepeating
    <3> HIDE DEF TInv, OneShotInv
    <3> QED
      BY <1>8, <2>1, <3>1 DEF collect, endVars
  <2> HIDE DEF S
  <2> QED
    BY <2>1, <2>2
<1>9. ASSUME NEW w \in Workers, collectRest(w)
      PROVE  OneShotInv'
  BY <1>9 DEF collectRest
<1> QED
  BY <1>1, <1>2, <1>3, <1>4, <1>5, <1>6, <1>7, <1>8, <1>9 DEF Next, listExpiredFunc

(* Without repeating timers no step is undefined and listExpiredFunc()     *)
(* always returns; the callback is there exactly while the timer is in the *)
(* set, which is what cancel() relies on when it erases what it has found. *)
THEOREM OneShotSafe ==
    ASSUME Repeating = {}
    PROVE  Spec => [](ArmedIsInSet /\ ListExpiredReturns /\ CancelIsDefined)
<1>1. TInv /\ OneShotInv /\ [Next]_vars => (TInv /\ OneShotInv)'
  BY NextTInv, NextOneShot
<1>2. OneShotInv => ArmedIsInSet /\ ListExpiredReturns /\ CancelIsDefined
  BY DEF OneShotInv, ArmedIsInSet, ListExpiredReturns, CancelIsDefined
<1> QED
  BY InitTInv, InitOneShot, <1>1, <1>2, PTL DEF Spec

-----------------------------------------------------------------------------
(* A loop of listExpiredFunc() that has returned has left no timer behind. *)
LoopsAreDone == \A w \in Workers : pc[w] # "rest" => expired[w] = {}

(* What was cancelled is in no place from where it could be collected: the *)
(* step that cancels a timer out of a loop is the one that is undefined.   *)
CancelledIsOut ==
    ~undefined => \A tm \in cancelled :
                     /\ stage[tm] = "added" /\ ~m_func[tm] /\ tm \notin m_timers
                     /\ \A w \in Workers : tm \notin expired[w]

(* A one-shot timer that waits for the loop, or for its insertion, or that *)
(* has its callback, was not collected.                                    *)
WaitsOnce ==
    \A tm \in Timers \ Repeating :
        \/ stage[tm] # "added" \/ m_func[tm] \/ tm \in m_timers
        \/ \E w \in Workers : tm \in expired[w]
        => collected[tm] = 0

MixedInv ==
    /\ LoopsAreDone /\ KeptOrCollected /\ CancelledIsOut /\ WaitsOnce /\ CancelDecides
(* What collect() does, seen from the timers: those in L are collected, of *)
(* them only a repeating one is put back, and the loop keeps the others.   *)
LEMMA CollectLemma ==
    ASSUME TInv, NEW w \in Workers, collect(w), NEW S, S = Due(nowInMs[w]),
           NEW L, L = Locked(S)
    PROVE  /\ S \subseteq m_timers /\ L \subseteq S
           /\ m_timers' \subseteq (m_timers \ S) \cup (L \cap Repeating)
           /\ (m_timers \ S) \cup (L \cap Repeating) \subseteq m_timers'
           /\ collected' = [tm \in Timers |-> IF tm \in L THEN collected[tm] + 1
                                                          ELSE collected[tm]]
           /\ m_func' = [tm \in Timers |-> m_func[tm] /\ (tm \in Repeating \/ tm \notin L)]
           /\ expired' = [expired EXCEPT ![w] = S \ L]
           /\ pc[w] = "lock"
           /\ pc' = [pc EXCEPT ![w] = IF S = L THEN "idle" ELSE "rest"]
           /\ UNCHANGED <<stage, cancelled, terminated, undefined>>
<1>1. S \subseteq m_timers /\ L \subseteq S /\ m_timers \subseteq Timers
  BY DueLemma, LockedLemma DEF TInv, OtherTypes
<1>2. /\ collected' = [tm \in Timers |-> IF tm \in L THEN collected[tm] + 1 ELSE collected[tm]]
      /\ m_func' = [tm \in Timers |-> m_func[tm] /\ (tm \in Repeating \/ tm \notin L)]
      /\ expired' = [expired EXCEPT ![w] = S \ L]
      /\ pc[w] = "lock"
      /\ pc' = [pc EXCEPT ![w] = IF S = L THEN "idle" ELSE "rest"]
      /\ UNCHANGED <<stage, cancelled, terminated, undefined>>
  BY DEF collect, endVars
<1>3. \/ S \cap Repeating = {} /\ m_timers' = m_timers \ S
      \/ \E r \in S : FirstRepeating(S, r) /\ m_timers' = (m_timers \ S) \cup {r}
  BY DEF collect, addTimer
<1>4. ASSUME NEW r \in S, FirstRepeating(S, r)
      PROVE  L \cap Repeating = {r}
  <2>1. r \in L /\ r \in Repeating
    BY <1>4, LockedLemma DEF FirstRepeating
  <2>2. ASSUME NEW q \in L \cap Repeating, q # r
        PROVE  FALSE
    <3>1. Before(m_next, q, r)
      <4>1. r \in S \cap Repeating
        BY <1>4 DEF FirstRepeating
      <4>2. q \in Locked(S)
        BY <2>2
      <4> QED
        BY <1>4, <2>2, <4>1, <4>2 DEF Locked
    <3>2. Before(m_next, r, q)
      BY <1>1, <1>4, <2>2 DEF FirstRepeating
    <3>3. q \in Nat /\ r \in Nat /\ m_next[q] \in Nat /\ m_next[r] \in Nat
      BY <1>1, <2>2, TimerAssumption DEF TInv, TimesInv
    <3> QED
      BY <3>1, <3>2, <3>3 DEF Before
  <2> QED
    BY <2>1, <2>2
<1>5. /\ m_timers' \subseteq (m_timers \ S) \cup (L \cap Repeating)
      /\ (m_timers \ S) \cup (L \cap Repeating) \subseteq m_timers'
  <2>1. CASE S \cap Repeating = {} /\ m_timers' = m_timers \ S
    BY <1>1, <2>1
  <2>2. ASSUME NEW r \in S, FirstRepeating(S, r), m_timers' = (m_timers \ S) \cup {r}
        PROVE  m_timers' = (m_timers \ S) \cup (L \cap Repeating)
    BY <1>4, <2>2
  <2> QED
    BY <1>3, <2>1, <2>2
<1> QED
  BY <1>1, <1>2, <1>5

LEMMA InitMixed == Init => MixedInv
BY DEF Init, MixedInv, LoopsAreDone, KeptOrCollected, CancelledIsOut, WaitsOnce, CancelDecides

(* Every action, for any number of repeating and one-shot timers.          *)
LEMMA NextMixed ==
    ASSUME TInv, MixedInv, Next
    PROVE  MixedInv' /\ \A tm \in cancelled : collected'[tm] = collected[tm]
<1> DEFINE Goal == MixedInv' /\ \A tm \in cancelled : collected'[tm] = collected[tm]
<1>0. ~undefined
  BY DEF Next
<1> USE <1>0 DEF TInv, ExpiredInv, OtherTypes, MixedInv, LoopsAreDone, KeptOrCollected,
            CancelledIsOut, WaitsOnce, CancelDecides
<1>1. CASE Tick
  BY <1>1 DEF Tick, setVars, timerVars, workerVars, endVars
<1>2. ASSUME NEW tm \in Timers, NEW ms \in Periods, newTimer(tm, ms)
      PROVE  Goal
  BY <1>2 DEF newTimer, setVars, workerVars, endVars
<1>3. ASSUME NEW tm \in Timers, insertTimer(tm)
      PROVE  Goal
  BY <1>3 DEF insertTimer, addTimer, workerVars, endVars
<1>4. ASSUME NEW tm \in Timers, cancel(tm)
      PROVE  Goal
  BY <1>4 DEF cancel, workerVars
<1>5. ASSUME NEW tm \in Timers, refresh(tm)
      PROVE  Goal
  BY <1>5 DEF refresh, addTimer, workerVars, endVars
<1>6. ASSUME NEW tm \in Timers, NEW ms \in Periods, NEW fromNow \in BOOLEAN,
             reset(tm, ms, fromNow)
      PROVE  Goal
  BY <1>6 DEF reset, addTimer, workerVars, endVars
<1>7. ASSUME NEW w \in Workers, readClock(w) \/ checkEmpty(w)
      PROVE  Goal
  BY <1>7 DEF readClock, checkEmpty, setVars, timerVars, endVars
<1>8. ASSUME NEW w \in Workers, collect(w)
      PROVE  Goal
  <2> DEFINE S == Due(nowInMs[w])
             L == Locked(S)
  <2>1. /\ S \subseteq m_timers /\ L \subseteq S
        /\ m_timers' \subseteq (m_timers \ S) \cup (L \cap Repeating)
        /\ (m_timers \ S) \cup (L \cap Repeating) \subseteq m_timers'
        /\ collected' = [tm \in Timers |-> IF tm \in L THEN collected[tm] + 1
                                                       ELSE collected[tm]]
        /\ m_func' = [tm \in Timers |-> m_func[tm] /\ (tm \in Repeating \/ tm \notin L)]
        /\ expired' = [expired EXCEPT ![w] = S \ L]
        /\ pc[w] = "lock"
        /\ pc' = [pc EXCEPT ![w] = IF S = L THEN "idle" ELSE "rest"]
        /\ UNCHANGED <<stage, cancelled, terminated, undefined>>
    BY <1>8, CollectLemma
  <2> HIDE DEF S, L
  <2>2. LoopsAreDone'
    BY <2>1
  <2>3. KeptOrCollected'
    BY <2>1
  <2>4. CancelledIsOut'
    BY <2>1
  <2>5. WaitsOnce' /\ CancelDecides'
    BY <2>1
  <2> QED
    BY <2>1, <2>2, <2>3, <2>4, <2>5
<1>9. ASSUME NEW w \in Workers, collectRest(w)
      PROVE  Goal
  BY <1>9 DEF collectRest
<1> HIDE <1>0 DEF TInv, ExpiredInv, OtherTypes, MixedInv, LoopsAreDone, KeptOrCollected,
            CancelledIsOut, WaitsOnce, CancelDecides
<1> QED
  BY <1>1, <1>2, <1>3, <1>4, <1>5, <1>6, <1>7, <1>8, <1>9 DEF Next, listExpiredFunc

LEMMA MixedInvariance == Spec => [](TInv /\ MixedInv)
<1>1. MixedInv /\ UNCHANGED vars => MixedInv'
  BY DEF MixedInv, LoopsAreDone, KeptOrCollected, CancelledIsOut, WaitsOnce, CancelDecides,
         vars, setVars, timerVars, workerVars, endVars
<1>2. TInv /\ MixedInv /\ [Next]_vars => (TInv /\ MixedInv)'
  BY <1>1, NextTInv, NextMixed
<1> QED
  BY InitTInv, InitMixed, <1>2, PTL DEF Spec

(* No timer gets lost, although the loop of listExpiredFunc() goes on      *)
(* without the lock once it has put a repeating timer back.                *)
THEOREM NothingIsLost == Spec => []KeptOrCollected
<1>1. MixedInv => KeptOrCollected
  BY DEF MixedInv
<1> QED
  BY MixedInvariance, <1>1, PTL

(* cancel() returns true if and only if it prevents the callback of a      *)
(* one-shot timer, whatever repeating timers there are.                    *)
THEOREM CancelOrCallback == Spec => []CancelDecides
<1>1. MixedInv => CancelDecides
  BY DEF MixedInv
<1> QED
  BY MixedInvariance, <1>1, PTL

(* A timer, one-shot or repeating, is never collected once it was cancelled*)
(* (a cancel() that takes a timer out of a loop is undefined; nothing is   *)
(* said after it).                                                         *)
THEOREM CancelIsFinal == Spec => CancelSilences
<1>1. TInv /\ MixedInv /\ [Next]_vars
        => [\A tm \in cancelled : collected'[tm] = collected[tm]]_vars
  BY NextMixed
<1> QED
  BY MixedInvariance, <1>1, PTL DEF Spec, CancelSilences

-----------------------------------------------------------------------------
(* When the machine has been up for an hour, and no thread waits for the   *)
(* lock for an hour, a clock value is never taken for a rollover.          *)
LEMMA NoFalseRollover ==
    ASSUME TInv, InitNow >= Hour, MaxNow - InitNow <= Hour,
           NEW w \in Workers
    PROVE  ~detectClockRollover(nowInMs[w])
<1>1. /\ m_previouseTime \in Nat /\ m_previouseTime >= Hour
      /\ m_previouseTime <= MaxNow
      /\ nowInMs[w] \in Nat /\ nowInMs[w] >= InitNow
  BY TimerAssumption DEF TInv, ClockInv
<1>2. minus64(m_previouseTime, Hour) = m_previouseTime - Hour
  BY <1>1, TimerAssumption DEF minus64
<1> QED
  BY <1>1, <1>2, TimerAssumption DEF detectClockRollover

(* What a loop still has to treat was due at the time it has read.         *)
ExpiredIsDue == \A w \in Workers : \A tm \in expired[w] : m_next[tm] <= nowInMs[w]

LEMMA NextExpiredIsDue ==
    ASSUME InitNow >= Hour, MaxNow - InitNow <= Hour
    PROVE  TInv /\ LoopsAreDone /\ ExpiredIsDue /\ [Next]_vars
             => /\ ExpiredIsDue'
                /\ \A tm \in Timers : collected'[tm] > collected[tm] => m_next[tm] <= now
<1> DEFINE Early == \E tm \in Timers : collected'[tm] > collected[tm] /\ ~(m_next[tm] <= now)
<1> SUFFICES ASSUME TInv, LoopsAreDone, ExpiredIsDue, [Next]_vars PROVE ExpiredIsDue' /\ ~Early
  OBVIOUS
<1>0. /\ \A tm \in Timers : collected[tm] \in Nat /\ m_next[tm] \in Nat
      /\ now \in Nat
      /\ \A w \in Workers : expired[w] \subseteq Timers /\ nowInMs[w] \in Nat /\ nowInMs[w] <= now
  BY TimerAssumption DEF TInv, OtherTypes, TimesInv, ClockInv, ExpiredInv
<1>1. ASSUME UNCHANGED <<now, expired, collected>>,
             \A w \in Workers : expired[w] # {} => nowInMs'[w] = nowInMs[w],
             \A tm \in Timers : m_next'[tm] # m_next[tm] => tm \in m_timers \/ stage[tm] # "added"
      PROVE  ExpiredIsDue' /\ ~Early
  <2>1. \A w \in Workers : \A tm \in expired[w] : m_next'[tm] = m_next[tm]
    BY <1>0, <1>1 DEF TInv, ExpiredInv
  <2> QED
    BY <1>0, <1>1, <2>1 DEF ExpiredIsDue
<1>2. CASE Tick
  BY <1>2, <1>0 DEF Tick, timerVars, workerVars, ExpiredIsDue
<1>3. ASSUME NEW tm \in Timers, insertTimer(tm) \/ cancel(tm) \/ refresh(tm)
      PROVE  ExpiredIsDue' /\ ~Early
  <2>1. UNCHANGED <<now, expired, collected, nowInMs>>
    BY <1>3 DEF insertTimer, cancel, refresh, workerVars
  <2>2. \/ m_next' = m_next
        \/ tm \in m_timers /\ \A o \in Timers : o # tm => m_next'[o] = m_next[o]
    BY <1>3 DEF insertTimer, cancel, refresh, addTimer, TInv, TimesInv
  <2> QED
    BY <1>1, <2>1, <2>2
<1>4. ASSUME NEW tm \in Timers, NEW ms \in Periods, NEW fromNow \in BOOLEAN,
             newTimer(tm, ms) \/ reset(tm, ms, fromNow)
      PROVE  ExpiredIsDue' /\ ~Early
  <2>1. UNCHANGED <<now, expired, collected, nowInMs>>
    BY <1>4 DEF newTimer, reset, workerVars
  <2>2. /\ tm \in m_timers \/ stage[tm] # "added"
        /\ \A o \in Timers : o # tm => m_next'[o] = m_next[o]
    BY <1>4 DEF newTimer, reset, addTimer, TInv, TimesInv
  <2> QED
    BY <1>1, <2>1, <2>2
<1>5. ASSUME NEW w \in Workers, readClock(w) \/ checkEmpty(w)
      PROVE  ExpiredIsDue' /\ ~Early
  BY <1>1, <1>5 DEF readClock, checkEmpty, timerVars, TInv, ClockInv, LoopsAreDone
<1>6. ASSUME NEW w \in Workers, collect(w)
      PROVE  ExpiredIsDue' /\ ~Early
  <2> DEFINE S == Due(nowInMs[w])
  <2>1. S \subseteq m_timers /\ \A tm \in S : m_next[tm] <= nowInMs[w]
    BY NoFalseRollover DEF Due
  <2>2. nowInMs[w] \in Nat /\ nowInMs[w] <= now
    BY TimerAssumption DEF TInv, ClockInv
  <2>3. Locked(S) \subseteq S /\ \A r \in S : FirstRepeating(S, r) => r \in Locked(S)
    BY LockedLemma
  <2>4. /\ collected' = [tm \in Timers |-> IF tm \in Locked(S) THEN collected[tm] + 1
                                                               ELSE collected[tm]]
        /\ expired' = [expired EXCEPT ![w] = S \ Locked(S)]
        /\ now' = now /\ nowInMs' = nowInMs
    BY <1>6 DEF collect
  <2>5. \A tm \in Timers : tm \notin Locked(S) => m_next'[tm] = m_next[tm]
    <3>1. \/ m_next' = m_next
          \/ \E r \in S : /\ FirstRepeating(S, r)
                          /\ m_next' = [m_next EXCEPT ![r] = nowInMs[w] + m_periodInMs[r]]
      BY <1>6 DEF collect, addTimer
    <3> HIDE DEF S
    <3> QED
      BY <3>1, <2>3 DEF TInv, TimesInv
  <2> HIDE DEF S
  <2>6. ~Early
    BY <1>0, <2>1, <2>2, <2>3, <2>4
  <2>7. ExpiredIsDue'
    <3>1. \A tm \in S \ Locked(S) : m_next'[tm] <= nowInMs[w]
      BY <1>0, <2>1, <2>2, <2>5 DEF TInv, OtherTypes
    <3>2. ASSUME NEW u \in Workers, u # w, NEW tm \in expired[u]
          PROVE  m_next'[tm] <= nowInMs[u]
      <4>1. tm \in Timers /\ tm \notin Locked(S)
        BY <1>0, <2>1, <2>3, <3>2 DEF TInv, ExpiredInv
      <4> QED
        BY <4>1, <2>5, <3>2 DEF ExpiredIsDue
    <3>3. expired'[w] = S \ Locked(S) /\ \A u \in Workers : u # w => expired'[u] = expired[u]
      BY <2>4 DEF TInv, ExpiredInv
    <3> QED
      BY <2>4, <3>1, <3>2, <3>3 DEF ExpiredIsDue
  <2> QED
    BY <2>6, <2>7
<1>7. ASSUME NEW w \in Workers, collectRest(w)
      PROVE  ExpiredIsDue' /\ ~Early
  <2> PICK tm \in expired[w] :
            /\ collected' = [collected EXCEPT ![tm] = @ + 1]
            /\ expired' = [expired EXCEPT ![w] = @ \ {tm}]
            /\ \/ m_next' = [m_next EXCEPT ![tm] = nowInMs[w] + m_periodInMs[tm]]
               \/ m_next' = m_next
    BY <1>7 DEF collectRest
  <2>1. now' = now /\ nowInMs' = nowInMs
    BY <1>7 DEF collectRest
  <2>2. ~Early
    BY <1>0 DEF ExpiredIsDue, TInv, OtherTypes
  <2>3. ASSUME NEW u \in Workers, NEW o \in expired'[u]
        PROVE  m_next'[o] <= nowInMs[u]
    <3>1. o \in expired[u] /\ o # tm
      BY <2>3 DEF TInv, ExpiredInv
    <3>2. m_next'[o] = m_next[o]
      BY <1>0, <3>1 DEF TInv, TimesInv
    <3> QED
      BY <3>1, <3>2 DEF ExpiredIsDue
  <2> QED
    BY <2>1, <2>2, <2>3 DEF ExpiredIsDue
<1>8. CASE UNCHANGED vars
  BY <1>1, <1>8 DEF vars, timerVars, workerVars
<1> QED
  BY <1>2, <1>3, <1>4, <1>5, <1>6, <1>7, <1>8 DEF Next, listExpiredFunc

(* With the clock an hour from its origin, no callback is collected before *)
(* its time, by the locked and by the unlocked part of the loop alike.     *)
THEOREM NotEarly ==
    ASSUME InitNow >= Hour, MaxNow - InitNow <= Hour
    PROVE  Spec => NeverEarly
<1>1. Init => ExpiredIsDue
  BY DEF Init, ExpiredIsDue
<1>2. TInv /\ MixedInv /\ ExpiredIsDue /\ [Next]_vars => ExpiredIsDue'
  BY NextExpiredIsDue DEF MixedInv
<1>3. TInv /\ MixedInv /\ ExpiredIsDue /\ [Next]_vars
        => [\A tm \in Timers : collected'[tm] > collected[tm] => m_next[tm] <= now]_vars
  BY NextExpiredIsDue DEF MixedInv
<1> QED
  BY MixedInvariance, <1>1, <1>2, <1>3, PTL DEF Spec, NeverEarly

-----------------------------------------------------------------------------
(* The refinement: the alarms as the WITH clause of Abstract sees them.    *)
DueTime == [tm \in Timers |-> IF stage[tm] = "added" THEN m_next[tm] ELSE 0]
State == [tm \in Timers |-> IF tm \in cancelled THEN "cancelled"
                            ELSE IF stage[tm] # "added" THEN "unset"
                            ELSE IF tm \notin Repeating /\ collected[tm] > 0 THEN "rung"
                            ELSE "set"]

LEMMA AlarmInit == Init => Abstract!Init
BY TimerAssumption DEF Init, Abstract!Init

LEMMA AlarmStutter ==
    ASSUME UNCHANGED <<now, DueTime, State, collected>>
    PROVE  UNCHANGED Abstract!alarmVars
BY DEF Abstract!alarmVars, DueTime, State

(* A timer that can be cancelled, changed or collected is set.             *)
LEMMA IsSet ==
    ASSUME TInv, MixedInv, ~undefined, NEW tm \in Timers, stage[tm] = "added",
           m_func[tm] \/ tm \in m_timers \/ \E w \in Workers : tm \in expired[w]
    PROVE  State[tm] = "set" /\ tm \notin cancelled /\ DueTime[tm] = m_next[tm]
           /\ (tm \notin Repeating => collected[tm] = 0)
BY DEF MixedInv, CancelledIsOut, WaitsOnce, State, DueTime

(* Timers in A are collected and, if they repeat, set again.               *)
LEMMA AlarmRing ==
    ASSUME TInv, TInv', MixedInv, ~undefined, NEW A \in SUBSET Timers,
           \A a \in A : /\ stage[a] = "added" /\ m_next[a] <= now
                        /\ a \in m_timers \/ \E w \in Workers : a \in expired[w],
           collected' = [a \in Timers |-> IF a \in A THEN collected[a] + 1 ELSE collected[a]],
           \A a \in Timers : IF a \in A \cap Repeating THEN m_next'[a] >= m_next[a]
                                                      ELSE m_next'[a] = m_next[a],
           UNCHANGED <<now, stage, cancelled>>
    PROVE  Abstract!Next
<1> USE DEF State, DueTime
<1>1. \A a \in A : /\ State[a] = "set" /\ DueTime[a] <= now /\ a \notin cancelled
                    /\ a \in Timers
  BY IsSet
<1>2. State' = [a \in Timers |-> IF a \in A \ Repeating THEN "rung" ELSE State[a]]
  <2>1. \A a \in Timers : collected[a] \in Nat
    BY DEF TInv, OtherTypes
  <2>2. ASSUME NEW a \in Timers
        PROVE  State'[a] = IF a \in A \ Repeating THEN "rung" ELSE State[a]
    <3>1. CASE a \in A \ Repeating
      <4>1. a \notin cancelled' /\ stage'[a] = "added"
        BY <1>1, <3>1
      <4>2. collected'[a] = collected[a] + 1 /\ collected'[a] > 0
        BY <2>1, <3>1
      <4>3. State'[a] = "rung"
        BY <3>1, <4>1, <4>2
      <4> QED
        BY <3>1, <4>3
    <3>2. CASE a \in A \cap Repeating
      BY <1>1, <3>2
    <3>3. CASE a \notin A
      BY <3>3
    <3> QED
      BY <3>1, <3>2, <3>3
  <2> QED
    BY <2>2
<1>3. DueTime' \in [Timers -> Nat]
  BY DEF TInv, TimesInv
<1>4. \A a \in Timers : IF a \in A \cap Repeating THEN DueTime'[a] >= DueTime[a]
                                                 ELSE DueTime'[a] = DueTime[a]
  OBVIOUS
<1>5. Abstract!Ring(A)
  BY <1>1, <1>2, <1>3, <1>4 DEF Abstract!Ring
<1> QED
  BY <1>5 DEF Abstract!Next

LEMMA AlarmNext ==
    ASSUME InitNow >= Hour, MaxNow - InitNow <= Hour,
           TInv, TInv', MixedInv, ExpiredIsDue, Next
    PROVE  Abstract!Next \/ UNCHANGED Abstract!alarmVars
<1>0. ~undefined
  BY DEF Next
<1> USE DEF TInv, TimesInv, OtherTypes
<1>1. CASE Tick
  <2>1. now' = now + 1 /\ UNCHANGED <<DueTime, State, collected>>
    BY <1>1 DEF Tick, timerVars, DueTime, State
  <2>2. Abstract!Wait
    BY <2>1 DEF Abstract!Wait, DueTime, State
  <2> QED
    BY <2>2 DEF Abstract!Next
<1>2. ASSUME NEW tm \in Timers, NEW ms \in Periods, newTimer(tm, ms)
      PROVE  UNCHANGED Abstract!alarmVars
  <2>1. UNCHANGED <<now, DueTime, State, collected>>
    BY <1>2 DEF newTimer, DueTime, State
  <2> QED
    BY <2>1, AlarmStutter
<1>3. ASSUME NEW tm \in Timers, insertTimer(tm)
      PROVE  Abstract!Next
  <2>1. /\ stage[tm] = "built" /\ stage' = [stage EXCEPT ![tm] = "added"]
        /\ m_next' = m_next /\ UNCHANGED <<now, cancelled, collected>>
    BY <1>3 DEF insertTimer, addTimer
  <2>2. tm \notin cancelled /\ (tm \notin Repeating => collected[tm] = 0)
    BY <1>0, <2>1 DEF MixedInv, CancelledIsOut, WaitsOnce
  <2>3. State[tm] = "unset" /\ State' = [State EXCEPT ![tm] = "set"]
    <3>1. State[tm] = "unset" /\ State'[tm] = "set"
      <4>1. tm \notin Repeating => ~(collected[tm] > 0)
        BY <2>2
      <4>2. stage'[tm] = "added" /\ tm \notin cancelled' /\ collected' = collected
        BY <2>1, <2>2
      <4> QED
        BY <2>1, <2>2, <4>1, <4>2 DEF State
    <3>2. \A o \in Timers \ {tm} : State'[o] = State[o]
      BY <2>1 DEF State
    <3>3. /\ State = [o \in Timers |-> State[o]]
          /\ State' = [o \in Timers |-> State'[o]]
      BY DEF State
    <3> QED
      BY <3>1, <3>2, <3>3
  <2>4. DueTime' \in [Timers -> Nat] /\ \A o \in Timers \ {tm} : DueTime'[o] = DueTime[o]
    BY <2>1 DEF DueTime
  <2>5. Abstract!Add(tm)
    BY <2>1, <2>3, <2>4 DEF Abstract!Add, Abstract!SetFor, DueTime, State
  <2> QED
    BY <2>5 DEF Abstract!Next
<1>4. ASSUME NEW tm \in Timers, cancel(tm)
      PROVE  Abstract!Next
  <2>1. /\ stage[tm] = "added" /\ m_func[tm] /\ cancelled' = cancelled \cup {tm}
        /\ UNCHANGED <<now, m_next, stage, collected>>
    BY <1>4 DEF cancel
  <2>2. State[tm] = "set"
    BY <1>0, <2>1, IsSet
  <2>3. State' = [State EXCEPT ![tm] = "cancelled"] /\ DueTime' = DueTime
    BY <2>1 DEF State, DueTime
  <2>4. Abstract!Cancel(tm)
    BY <2>1, <2>2, <2>3 DEF Abstract!Cancel, DueTime, State
  <2> QED
    BY <2>4 DEF Abstract!Next
<1>5. ASSUME NEW tm \in Timers, NEW ms, NEW fromNow,
             refresh(tm) \/ reset(tm, ms, fromNow)
      PROVE  Abstract!Next
  <2>1. /\ stage[tm] = "added" /\ m_func[tm]
        /\ \A o \in Timers \ {tm} : m_next'[o] = m_next[o]
        /\ UNCHANGED <<now, stage, cancelled, collected>>
    BY <1>5 DEF refresh, reset, addTimer
  <2>2. State[tm] = "set" /\ State' = State
    BY <1>0, <2>1, IsSet DEF State
  <2>3. DueTime' \in [Timers -> Nat] /\ \A o \in Timers \ {tm} : DueTime'[o] = DueTime[o]
    BY <2>1 DEF DueTime
  <2>4. Abstract!Change(tm)
    BY <2>1, <2>2, <2>3 DEF Abstract!Change, Abstract!SetFor, DueTime, State
  <2> QED
    BY <2>4 DEF Abstract!Next
<1>6. ASSUME NEW w \in Workers, readClock(w) \/ checkEmpty(w)
      PROVE  UNCHANGED Abstract!alarmVars
  <2>1. UNCHANGED <<now, DueTime, State, collected>>
    BY <1>6 DEF readClock, checkEmpty, timerVars, DueTime, State
  <2> QED
    BY <2>1, AlarmStutter
<1>7. ASSUME NEW w \in Workers, collect(w)
      PROVE  Abstract!Next
  <2> DEFINE S == Due(nowInMs[w])
             L == Locked(S)
  <2>1. /\ S \subseteq m_timers /\ L \subseteq S
        /\ collected' = [tm \in Timers |-> IF tm \in L THEN collected[tm] + 1
                                                       ELSE collected[tm]]
        /\ UNCHANGED <<stage, cancelled>>
    <3> HIDE DEF TInv, TimesInv, OtherTypes
    <3> QED
      BY <1>7, CollectLemma
  <2>2. \A tm \in S : m_next[tm] <= nowInMs[w]
    BY NoFalseRollover DEF Due
  <2>3. nowInMs[w] \in Nat /\ nowInMs[w] <= now /\ now' = now /\ now \in Nat
    BY <1>7, TimerAssumption DEF collect, ClockInv
  <2>4. \A tm \in Timers : IF tm \in L \cap Repeating THEN m_next'[tm] >= m_next[tm]
                                                      ELSE m_next'[tm] = m_next[tm]
    <3>1. \/ m_next' = m_next
          \/ \E r \in S : /\ FirstRepeating(S, r)
                          /\ m_next' = [m_next EXCEPT ![r] = nowInMs[w] + m_periodInMs[r]]
      BY <1>7 DEF collect, addTimer
    <3>2. CASE m_next' = m_next
      BY <3>2
    <3>3. ASSUME NEW r \in S, FirstRepeating(S, r),
                 m_next' = [m_next EXCEPT ![r] = nowInMs[w] + m_periodInMs[r]]
          PROVE  \A tm \in Timers : IF tm \in L \cap Repeating THEN m_next'[tm] >= m_next[tm]
                                                             ELSE m_next'[tm] = m_next[tm]
      <4>1. r \in L \cap Repeating /\ r \in Timers
        BY <2>1, <3>3, LockedLemma DEF FirstRepeating
      <4>2. nowInMs[w] + m_periodInMs[r] >= m_next[r]
        BY <2>2, <2>3, <4>1
      <4> HIDE DEF S, L
      <4> QED
        BY <3>3, <4>1, <4>2
    <3> QED
      BY <3>1, <3>2, <3>3
  <2> HIDE DEF S, L
  <2>5. \A tm \in L : tm \in m_timers /\ stage[tm] = "added" /\ m_next[tm] <= now
    BY <2>1, <2>2, <2>3 DEF ExpiredInv
  <2>6. L \in SUBSET Timers
    BY <2>1
  <2> HIDE DEF TInv, TimesInv, OtherTypes
  <2> QED
    BY <1>0, <2>1, <2>3, <2>4, <2>5, <2>6, AlarmRing
<1>8. ASSUME NEW w \in Workers, collectRest(w)
      PROVE  Abstract!Next
  <2> PICK tm \in expired[w] :
            /\ collected' = [collected EXCEPT ![tm] = @ + 1]
            /\ \/ /\ tm \in Repeating
                  /\ m_next' = [m_next EXCEPT ![tm] = nowInMs[w] + m_periodInMs[tm]]
               \/ m_next' = m_next
    BY <1>8 DEF collectRest
  <2>1. UNCHANGED <<now, stage, cancelled>>
    BY <1>8 DEF collectRest
  <2>2. /\ tm \in Timers /\ stage[tm] = "added"
        /\ m_next[tm] <= nowInMs[w] /\ nowInMs[w] <= now /\ nowInMs[w] \in Nat /\ now \in Nat
    BY TimerAssumption DEF ExpiredIsDue, ExpiredInv, ClockInv
  <2> DEFINE A == {tm}
  <2>3. \A o \in Timers : IF o \in A \cap Repeating THEN m_next'[o] >= m_next[o]
                                                   ELSE m_next'[o] = m_next[o]
    <3>1. m_next[tm] \in Nat /\ nowInMs[w] + m_periodInMs[tm] >= m_next[tm]
      BY <2>2
    <3> QED
      BY <2>2, <3>1
  <2>4. collected' = [o \in Timers |-> IF o \in A THEN collected[o] + 1 ELSE collected[o]]
    BY <2>2
  <2>5. A \in SUBSET Timers
    BY <2>2
  <2>6. \A a \in A : /\ stage[a] = "added" /\ m_next[a] <= now
                     /\ a \in m_timers \/ \E u \in Workers : a \in expired[u]
    BY <2>2
  <2> HIDE DEF A, TInv, TimesInv, OtherTypes
  <2> QED
    BY <1>0, <2>1, <2>3, <2>4, <2>5, <2>6, AlarmRing
<1> HIDE DEF TInv, TimesInv, OtherTypes
<1>9. ASSUME NEW tm \in Timers, NEW ms \in Periods, NEW fromNow \in BOOLEAN,
             newTimer(tm, ms) \/ reset(tm, ms, fromNow)
      PROVE  Abstract!Next \/ UNCHANGED Abstract!alarmVars
  BY <1>2, <1>5, <1>9
<1>10. ASSUME NEW tm \in Timers, refresh(tm)
       PROVE  Abstract!Next
  BY <1>5, <1>10
<1> QED
  BY <1>1, <1>3, <1>4, <1>6, <1>7, <1>8, <1>9, <1>10 DEF Next, listExpiredFunc

(* The manager implements the alarms, under the same condition on the      *)
(* clock: collection, cancellation and change of one-shot and repeating    *)
(* timers are as if each happened in one step.                             *)
THEOREM ImplementsAlarms ==
    ASSUME InitNow >= Hour, MaxNow - InitNow <= Hour
    PROVE  Spec => AlarmSpec
<1>1. Init => ExpiredIsDue
  BY DEF Init, ExpiredIsDue
<1>2. TInv /\ MixedInv /\ ExpiredIsDue /\ [Next]_vars => ExpiredIsDue'
  BY NextExpiredIsDue DEF MixedInv
<1>3. TInv /\ TInv' /\ MixedInv /\ ExpiredIsDue /\ [Next]_vars
        => [Abstract!Next]_(Abstract!alarmVars)
  <2>1. ASSUME UNCHANGED vars
        PROVE  UNCHANGED Abstract!alarmVars
    <3>1. UNCHANGED <<now, DueTime, State, collected>>
      BY <2>1 DEF vars, timerVars, DueTime, State
    <3> QED
      BY <3>1, AlarmStutter
  <2> QED
    BY <2>1, AlarmNext
<1> QED
  BY MixedInvariance, AlarmInit, <1>1, <1>2, <1>3, PTL DEF Spec, AlarmSpec, Abstract!Spec
=============================================================================
