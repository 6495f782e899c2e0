---------------------------- MODULE TimerManager ----------------------------
(***************************************************************************)
(* KSC::Timer and KSC::TimerManager (src/src/timer.cpp): timers that user  *)
(* threads add, cancel, refresh and reset, and worker threads collect with *)
(* listExpiredFunc(). A critical section of m_rwMtx is one step; what the  *)
(* code does without the lock, which includes the tail of the loop of      *)
(* listExpiredFunc() after addTimer() has unlocked, is steps of its own.   *)
(***************************************************************************)
EXTENDS Naturals

CONSTANTS
    Workers,    (* threads that call listExpiredFunc(): IOManager::idle()    *)
    Timers,     (* the timers; their number is their address                 *)
    Repeating,  (* those with m_repeat                                       *)
    Periods,    (* the periods that callers ask for, in ticks                *)
    InitNow,    (* GetElapsedMS() when the manager is constructed            *)
    MaxNow,     (* bound: the clock stops there                              *)
    Hour,       (* the 60 * 60 * 1000 ms of detectClockRollover(), in ticks  *)
    Word        (* bound: 2^64, the width of the uint64_t clock values       *)

ASSUME TimerAssumption ==
    /\ Timers \subseteq Nat
    /\ Repeating \subseteq Timers
    /\ Periods \subseteq Nat
    /\ InitNow \in Nat /\ MaxNow \in Nat /\ Hour \in Nat /\ Word \in Nat
    /\ InitNow <= MaxNow
    /\ MaxNow < Word /\ Hour < Word

VARIABLES
    now,             (* GetElapsedMS(): monotonic                            *)
    m_timers,        (* the std::set, ordered by Before                      *)
    m_next, m_periodInMs,
    m_func,          (* m_func[tm]: the callback is there (not nullptr)      *)
    m_isTickled, m_previouseTime,
    stage,           (* of a timer: none, built (constructed), added         *)
    pc, nowInMs, expired, (* listExpiredFunc() of each worker; expired holds *)
                     (* what its loop has still to treat after the unlock    *)
    collected,       (* how often a timer's callback was put into funcs      *)
    cancelled,       (* timers whose cancel() returned true                  *)
    terminated,      (* unlock() of a lock not owned threw: std::terminate   *)
    undefined        (* erase(end()) was executed                            *)

setVars    == <<m_timers, m_isTickled>>
timerVars  == <<m_next, m_periodInMs, m_func, stage>>
workerVars == <<pc, nowInMs, expired>>
endVars    == <<terminated, undefined>>
vars == <<now, setVars, timerVars, m_previouseTime, workerVars, collected,
          cancelled, endVars>>

TypeOK ==
    /\ now \in InitNow .. MaxNow
    /\ m_timers \subseteq Timers
    /\ m_next \in [Timers -> Nat]
    /\ m_periodInMs \in [Timers -> Nat]
    /\ m_func \in [Timers -> BOOLEAN]
    /\ m_isTickled \in BOOLEAN
    /\ m_previouseTime \in InitNow .. MaxNow
    /\ stage \in [Timers -> {"none", "built", "added"}]
    /\ pc \in [Workers -> {"idle", "check", "lock", "rest"}]
    /\ nowInMs \in [Workers -> InitNow .. MaxNow]
    /\ expired \in [Workers -> SUBSET Timers]
    /\ collected \in [Timers -> Nat]
    /\ cancelled \subseteq Timers
    /\ terminated \in BOOLEAN
    /\ undefined \in BOOLEAN

Init ==
    /\ now = InitNow
    /\ m_timers = {}
    /\ m_next = [tm \in Timers |-> 0]
    /\ m_periodInMs = [tm \in Timers |-> 0]
    /\ m_func = [tm \in Timers |-> FALSE]
    /\ m_isTickled = FALSE
    /\ m_previouseTime = InitNow
    /\ stage = [tm \in Timers |-> "none"]
    /\ pc = [w \in Workers |-> "idle"]
    /\ nowInMs = [w \in Workers |-> InitNow]
    /\ expired = [w \in Workers |-> {}]
    /\ collected = [tm \in Timers |-> 0]
    /\ cancelled = {}
    /\ terminated = FALSE
    /\ undefined = FALSE

(* Timer::Comparator: by m_next, then by address.                          *)
Before(next, a, b) == next[a] < next[b] \/ (next[a] = next[b] /\ a < b)

-----------------------------------------------------------------------------
(* addTimer(timer, lck): insert tm, whose times are those of next, beside  *)
(* the timers in others, and unlock. onTimerInsertedAtFront(), called      *)
(* behind the unlock if tm came to the front, is modelled in IdleLoop.     *)
addTimer(tm, others, next) ==
    LET isFirst == ~m_isTickled /\ \A o \in others \ {tm} : Before(next, tm, o)
    IN  /\ m_timers' = others \cup {tm}
        /\ m_next' = next
        /\ m_isTickled' = (m_isTickled \/ isFirst)

(* The clock.                                                              *)
Tick ==
    /\ now < MaxNow
    /\ now' = now + 1
    /\ UNCHANGED <<setVars, timerVars, m_previouseTime, workerVars, collected,
                   cancelled, endVars>>

(* addTimer(ms, func, repeat): the constructor reads the clock before the  *)
(* lock is taken.                                                          *)
newTimer(tm, ms) ==
    /\ stage[tm] = "none"
    /\ now + ms <= MaxNow
    /\ m_next' = [m_next EXCEPT ![tm] = now + ms]
    /\ m_periodInMs' = [m_periodInMs EXCEPT ![tm] = ms]
    /\ m_func' = [m_func EXCEPT ![tm] = TRUE]
    /\ stage' = [stage EXCEPT ![tm] = "built"]
    /\ UNCHANGED <<now, setVars, m_previouseTime, workerVars, collected,
                   cancelled, endVars>>

insertTimer(tm) ==
    /\ stage[tm] = "built"
    /\ stage' = [stage EXCEPT ![tm] = "added"]
    /\ addTimer(tm, m_timers, m_next)
    /\ UNCHANGED <<now, m_periodInMs, m_func, m_previouseTime, workerVars, collected,
                   cancelled, endVars>>

(* Mutation: the timer stays in the set.                                   *)
cancel_NoErase(tm) ==
    /\ stage[tm] = "added"
    /\ m_func[tm]
    /\ m_func' = [m_func EXCEPT ![tm] = FALSE]
    /\ cancelled' = cancelled \cup {tm}
    /\ UNCHANGED <<now, setVars, m_next, m_periodInMs, stage, m_previouseTime,
                   workerVars, collected, endVars>>

(* Timer::cancel(), when m_func is there; it returns false otherwise. The  *)
(* result of find() goes into erase() unchecked.                           *)
cancel(tm) ==
    /\ stage[tm] = "added"
    /\ m_func[tm]
    /\ m_func' = [m_func EXCEPT ![tm] = FALSE]
    /\ undefined' = (tm \notin m_timers)
    /\ m_timers' = m_timers \ {tm}
    /\ cancelled' = cancelled \cup {tm}
    /\ UNCHANGED <<now, m_isTickled, m_next, m_periodInMs, stage,
                   m_previouseTime, workerVars, collected, terminated>>

(* Timer::refresh(), when it finds the timer.                              *)
refresh(tm) ==
    /\ stage[tm] = "added"
    /\ m_func[tm] /\ tm \in m_timers
    /\ now + m_periodInMs[tm] <= MaxNow
    /\ addTimer(tm, m_timers, [m_next EXCEPT ![tm] = now + m_periodInMs[tm]])
    /\ UNCHANGED <<now, m_periodInMs, m_func, stage, m_previouseTime, workerVars,
                   collected, cancelled, endVars>>

(* Mutation: the new period is not added.                                  *)
resetStart_OldOnly(tm, ms, fromNow) ==
    IF fromNow THEN now ELSE m_next[tm] - m_periodInMs[tm] - ms

resetStart(tm, ms, fromNow) ==
    IF fromNow THEN now ELSE m_next[tm] - m_periodInMs[tm]

(* Timer::reset(ms, fromNow), when it finds the timer.                     *)
reset(tm, ms, fromNow) ==
    /\ stage[tm] = "added"
    /\ ms # m_periodInMs[tm] \/ fromNow
    /\ m_func[tm] /\ tm \in m_timers
    /\ resetStart(tm, ms, fromNow) + ms <= MaxNow
    /\ m_periodInMs' = [m_periodInMs EXCEPT ![tm] = ms]
    /\ addTimer(tm, m_timers,
                [m_next EXCEPT ![tm] = resetStart(tm, ms, fromNow) + ms])
    /\ UNCHANGED <<now, m_func, stage, m_previouseTime, workerVars, collected,
                   cancelled, endVars>>

-----------------------------------------------------------------------------
(* listExpiredFunc(): the clock is read first, then the set is looked at   *)
(* under the read lock, then the work is done under the write lock.        *)
readClock(w) ==
    /\ pc[w] = "idle"
    /\ nowInMs' = [nowInMs EXCEPT ![w] = now]
    /\ pc' = [pc EXCEPT ![w] = "check"]
    /\ UNCHANGED <<now, setVars, timerVars, m_previouseTime, expired, collected,
                   cancelled, endVars>>

checkEmpty(w) ==
    /\ pc[w] = "check"
    /\ pc' = [pc EXCEPT ![w] = IF m_timers = {} THEN "idle" ELSE "lock"]
    /\ UNCHANGED <<now, setVars, timerVars, m_previouseTime, nowInMs, expired, collected,
                   cancelled, endVars>>

(* Unsigned subtraction: it wraps.                                         *)
minus64(a, b) == IF a >= b THEN a - b ELSE a + Word - b

(* Mutation: any clock value below the previous one counts as a rollover.  *)
detectClockRollover_NoHour(t) == t < m_previouseTime

detectClockRollover(t) ==
    t < m_previouseTime /\ t < minus64(m_previouseTime, Hour)

(* Mutation: a timer that is due right now is left in the set.             *)
Due_Strict(t) ==
    IF detectClockRollover(t) THEN m_timers ELSE {tm \in m_timers : m_next[tm] < t}

(* What lower_bound() and the loop after it find.                          *)
Due(t) ==
    IF detectClockRollover(t) THEN m_timers ELSE {tm \in m_timers : m_next[tm] <= t}

(* Of the timers in S, those the loop treats with the lock held: up to and *)
(* including the first repeating one, whose addTimer() unlocks.            *)
FirstRepeating(S, tm) ==
    /\ tm \in S \cap Repeating
    /\ \A o \in (S \cap Repeating) \ {tm} : Before(m_next, tm, o)

Locked(S) ==
    {tm \in S : \A r \in S \cap Repeating :
                    FirstRepeating(S, r) => tm = r \/ Before(m_next, tm, r)}

(* Mutation: a repeating timer is not put back.                            *)
collect_NoRearm(w) ==
    LET S == Due(nowInMs[w])
    IN  /\ pc[w] = "lock"
        /\ m_timers' = m_timers \ S
        /\ m_previouseTime' = IF m_timers = {} THEN m_previouseTime ELSE nowInMs[w]
        /\ collected' = [tm \in Timers |-> IF tm \in S THEN collected[tm] + 1
                                                       ELSE collected[tm]]
        /\ m_func' = [tm \in Timers |-> m_func[tm] /\ (tm \in Repeating \/ tm \notin S)]
        /\ pc' = [pc EXCEPT ![w] = "idle"]
        /\ UNCHANGED <<now, m_next, m_periodInMs, m_isTickled, stage, nowInMs,
                       expired, cancelled, endVars>>

(* Mutation: the callback of a one-shot timer is not cleared.              *)
collect_KeepFunc(w) ==
    LET S == Due(nowInMs[w])
    IN  /\ pc[w] = "lock"
        /\ m_timers' = m_timers \ S
        /\ m_previouseTime' = IF m_timers = {} THEN m_previouseTime ELSE nowInMs[w]
        /\ collected' = [tm \in Timers |-> IF tm \in S THEN collected[tm] + 1
                                                       ELSE collected[tm]]
        /\ pc' = [pc EXCEPT ![w] = "idle"]
        /\ UNCHANGED <<now, m_next, m_periodInMs, m_func, m_isTickled, stage,
                       nowInMs, expired, cancelled, endVars>>

(* The write-locked part: nothing when the set has become empty.           *)
collect(w) ==
    LET S == Due(nowInMs[w])
        L == Locked(S)
    IN  /\ pc[w] = "lock"
        /\ m_previouseTime' = IF m_timers = {} THEN m_previouseTime ELSE nowInMs[w]
        /\ collected' = [tm \in Timers |-> IF tm \in L THEN collected[tm] + 1
                                                       ELSE collected[tm]]
        /\ m_func' = [tm \in Timers |-> m_func[tm] /\ (tm \in Repeating \/ tm \notin L)]
        /\ expired' = [expired EXCEPT ![w] = S \ L]
        /\ pc' = [pc EXCEPT ![w] = IF S = L THEN "idle" ELSE "rest"]
        /\ \/ /\ S \cap Repeating = {}
              /\ m_timers' = m_timers \ S
              /\ UNCHANGED <<m_next, m_isTickled>>
           \/ \E r \in S : /\ FirstRepeating(S, r)
                           /\ addTimer(r, m_timers \ S,
                                 [m_next EXCEPT ![r] = nowInMs[w] + m_periodInMs[r]])
        /\ UNCHANGED <<now, m_periodInMs, stage, nowInMs, cancelled, endVars>>

(* One more round of the loop, without the lock: a second repeating timer  *)
(* makes addTimer() unlock what is not owned, which throws.                *)
collectRest(w) ==
    /\ pc[w] = "rest"
    /\ \E tm \in expired[w] :
          /\ \A o \in expired[w] \ {tm} : Before(m_next, tm, o)
          /\ collected' = [collected EXCEPT ![tm] = @ + 1]
          /\ expired' = [expired EXCEPT ![w] = @ \ {tm}]
          /\ pc' = [pc EXCEPT ![w] = IF expired[w] = {tm} THEN "idle" ELSE "rest"]
          /\ \/ /\ tm \in Repeating
                /\ m_timers' = m_timers \cup {tm}
                /\ m_next' = [m_next EXCEPT ![tm] = nowInMs[w] + m_periodInMs[tm]]
                /\ terminated' = TRUE
                /\ UNCHANGED m_func
             \/ /\ tm \notin Repeating
                /\ m_func' = [m_func EXCEPT ![tm] = FALSE]
                /\ UNCHANGED <<m_timers, m_next, terminated>>
    /\ UNCHANGED <<now, m_periodInMs, m_isTickled, stage, m_previouseTime,
                   nowInMs, cancelled, undefined>>

listExpiredFunc(w) == readClock(w) \/ checkEmpty(w) \/ collect(w) \/ collectRest(w)

(* The process does not go on after std::terminate(), and nothing is said  *)
(* of it after erase(end()).                                               *)
Next ==
    /\ ~terminated /\ ~undefined
    /\ \/ Tick
       \/ \E tm \in Timers :
             \/ insertTimer(tm)
             \/ cancel(tm)
             \/ refresh(tm)
             \/ \E ms \in Periods : \/ newTimer(tm, ms)
                                    \/ \E fromNow \in BOOLEAN : reset(tm, ms, fromNow)
       \/ \E w \in Workers : listExpiredFunc(w)

Spec == Init /\ [][Next]_vars

(* Time goes on, the idle threads keep calling listExpiredFunc(), and a    *)
(* thread inside addTimer() gets the lock.                                 *)
Fairness ==
    /\ WF_vars(~terminated /\ ~undefined /\ Tick)
    /\ \A w \in Workers : WF_vars(~terminated /\ ~undefined /\ listExpiredFunc(w))
    /\ \A tm \in Timers : WF_vars(~terminated /\ ~undefined /\ insertTimer(tm))

FairSpec == Spec /\ Fairness

-----------------------------------------------------------------------------
(* A timer whose addTimer() has returned and whose callback is still there *)
(* is in the set. This is what lets cancel() erase the result of find()    *)
(* without looking at it.                                                  *)
ArmedIsInSet ==
    \A tm \in Timers : stage[tm] = "added" /\ m_func[tm] => tm \in m_timers

(* cancel() returns true if and only if it comes before the callback: a    *)
(* one-shot timer is collected or cancelled, never both, never twice.      *)
CancelDecides ==
    \A tm \in Timers \ Repeating :
        collected[tm] <= 1 /\ (tm \in cancelled => collected[tm] = 0)

(* No callback is collected after cancel() has returned true, however the  *)
(* cancel() meets a thread that has read the clock or waits for the lock.  *)
CancelSilences ==
    [][\A tm \in cancelled : collected'[tm] = collected[tm]]_vars

(* No timer gets lost between the set and the loop of listExpiredFunc(): a *)
(* timer that was added is in the set, or still to be treated by a loop,   *)
(* or it was cancelled, or it was a one-shot timer and has been collected. *)
KeptOrCollected ==
    \A tm \in Timers : stage[tm] = "added" =>
        \/ tm \in m_timers
        \/ \E w \in Workers : tm \in expired[w]
        \/ tm \in cancelled
        \/ tm \notin Repeating /\ collected[tm] > 0

(* No callback is collected before its time, although listExpiredFunc()    *)
(* works with a clock value read before the lock.                          *)
NeverEarly ==
    [][\A tm \in Timers : collected'[tm] > collected[tm] => m_next[tm] <= now]_vars

(* Every timer in the set is collected or cancelled in the end.            *)
DueIsCollected ==
    \A tm \in Timers : tm \in m_timers ~> tm \notin m_timers

(* timer.h:54: listExpiredFunc() fetches the callbacks that are due; it    *)
(* does not end the process.                                               *)
ListExpiredReturns == ~terminated

(* timer.h:21: cancel() cancels the timer, whenever it is called.          *)
CancelIsDefined == ~undefined

(* The manager implements the alarms: a timer is set from its insertion to *)
(* its cancel() or, without repetition, its collection; it rings when its  *)
(* callback is collected.                                                  *)
Abstract == INSTANCE Alarms WITH
    Alarm     <- Timers,
    Recurring <- Repeating,
    clock     <- now,
    due       <- [tm \in Timers |-> IF stage[tm] = "added" THEN m_next[tm] ELSE 0],
    state     <- [tm \in Timers |-> IF tm \in cancelled THEN "cancelled"
                                    ELSE IF stage[tm] # "added" THEN "unset"
                                    ELSE IF tm \notin Repeating /\ collected[tm] > 0 THEN "rung"
                                    ELSE "set"],
    rings     <- collected

AlarmSpec == Abstract!Spec
=============================================================================
