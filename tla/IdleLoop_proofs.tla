--------------------------- MODULE IdleLoop_proofs ---------------------------
(***************************************************************************)
(* Theorems about IdleLoop for any number of workers, timers, calls and    *)
(* ticks.                                                                  *)
(***************************************************************************)
EXTENDS IdleLoop, NaturalsInduction, WellFoundedInduction, FiniteSetTheorems, TLAPS

(* The threads that were given an event and have not yet counted it down.  *)
Reports == {u \in Runners : report[u] = "event"}

(* Each event that a thread was given is still counted, so that the count  *)
(* is positive when it is decremented.                                     *)
ReportsCounted ==
    /\ m_pendingEventCount >= Cardinality(Reports)
    /\ \A t \in Runners : pc[t] = "dec" => report[t] = "event"

Inv == TypeOK /\ IsFiniteSet(m_timers) /\ ReportsCounted

(* A thread that will not look for tasks again.                            *)
leaving(t) == pc[t] = "ended" \/ (pc[t] = "noTask" /\ idleTerm[t])

(* How far stop() has come, and what that says about the threads.          *)
Phase ==
    /\ m_stopping <=> mpc # "running"
    /\ \A t \in Runners : idleTerm[t] => m_stopping
    /\ \A t \in Runners : pc[t] = "ended" => idleTerm[t]
    /\ Main \in Runners /\ pc[Main] # "out" => m_stopping

(* What Main reads in its idle doroutine, it reads after stop() was called:*)
(* nothing is added any more, and what it has found empty stays empty.     *)
MainReadsLast ==
    Main \in Runners =>
        /\ pc[Main] \in {"pending", "tasks"} \/ idleTerm[Main] => m_timers = {}
        /\ pc[Main] = "tasks" \/ idleTerm[Main] => m_pendingEventCount = 0

(* Who leaves has seen that there is no task for it, and there comes none; *)
(* the last one has seen that there is none for anybody.                   *)
LeavesNoTask ==
    /\ \A t \in Runners : leaving(t) => m_tasks[t] = 0
    /\ (\A t \in Runners : leaving(t)) => m_tasks[AnyThread] = 0

StopInv == Phase /\ MainReadsLast /\ LeavesNoTask

-----------------------------------------------------------------------------
(* The arithmetic of the timeouts.                                         *)
LEMMA LeastNatural ==
    ASSUME NEW S \in SUBSET Nat, S # {}
    PROVE  Min(S) \in S /\ \A y \in S : Min(S) <= y
<1> DEFINE R == OpToRel(<, Nat)
<1>1. \A x, y \in S : <<y, x>> \in R <=> y < x
  BY DEF OpToRel
<1>2. IsWellFoundedOn(R, Nat)
  BY NatLessThanWellFounded
<1> HIDE DEF R
<1>3. \E x \in S : \A y \in S : x <= y
  <2>1. PICK x \in S : \A y \in S : <<y, x>> \notin R
    BY <1>2, WFMin
  <2>2. \A y \in S : x <= y
    <3> TAKE y \in S
    <3>1. x \in Nat /\ y \in Nat /\ ~(y < x)
      BY <1>1, <2>1
    <3> QED
      BY <3>1
  <2> QED
    BY <2>2
<1> QED
  BY <1>3 DEF Min

LEMMA MinMaxOfTwo ==
    ASSUME NEW a \in Int, NEW b \in Int
    PROVE  Min({a, b}) \in {a, b} /\ Max({a, b}) \in {a, b} /\ Max({a, b}) >= a
<1>1. \E x \in {a, b} : \A y \in {a, b} : x <= y
  <2>1. CASE a <= b
    BY <2>1
  <2>2. CASE b <= a
    BY <2>2
  <2> QED
    BY <2>1, <2>2
<1>2. \E x \in {a, b} : \A y \in {a, b} : x >= y
  <2>1. CASE a <= b
    BY <2>1
  <2>2. CASE b <= a
    BY <2>2
  <2> QED
    BY <2>1, <2>2
<1>3. Min({a, b}) \in {a, b}
  BY <1>1 DEF Min
<1>4. Max({a, b}) \in {a, b} /\ \A y \in {a, b} : Max({a, b}) >= y
  BY <1>2 DEF Max
<1> QED
  BY <1>3, <1>4

(* Whatever the distance is, epoll_wait is given an int.                   *)
LEMMA EpollTimeoutType ==
    ASSUME TypeOK
    PROVE  epollTimeout(m_timers) \in Int
<1> DEFINE D == {distance[tm] : tm \in m_timers}
<1>1. CASE m_timers = {}
  BY <1>1, IdleAssumption DEF epollTimeout
<1>2. CASE m_timers # {}
  <2>1. D \in SUBSET Nat /\ D # {}
    BY <1>2 DEF TypeOK
  <2>2. Min(D) \in Nat
    BY <2>1, LeastNatural
  <2>3. toInt(Min(D)) \in Int
    <3> DEFINE n == Min(D)
    <3>1. IntWord \in Nat \ {0}
      BY IdleAssumption
    <3>2. n \in Nat
      BY <2>2
    <3> HIDE DEF n
    <3>3. n % IntWord \in Int
      BY <3>1, <3>2
    <3>4. toInt(n) \in Int
      BY <3>1, <3>3 DEF toInt
    <3> QED
      BY <3>4 DEF n
  <2>4. Min({MaxTimeout, toInt(Min(D))}) \in Int
    <3> DEFINE k == toInt(Min(D))
    <3>1. k \in Int /\ MaxTimeout \in Int
      BY <2>3, IdleAssumption
    <3> HIDE DEF k
    <3>2. Min({MaxTimeout, k}) \in {MaxTimeout, k}
      BY <3>1, MinMaxOfTwo
    <3> QED
      BY <3>1, <3>2 DEF k
  <2> QED
    BY <1>2, <2>4 DEF epollTimeout
<1> QED
  BY <1>1, <1>2

(* The threads are finitely many, and so are those that have an event.     *)
LEMMA ReportsFinite ==
    /\ IsFiniteSet(Runners) /\ Cardinality(Runners) \in Nat
    /\ IsFiniteSet(Reports) /\ Cardinality(Reports) \in Nat
<1>1. IsFiniteSet(Runners)
  <2>1. IsFiniteSet(Workers \cup {Main})
    BY IdleAssumption, FS_AddElement
  <2>2. Runners \subseteq Workers \cup {Main}
    BY DEF Runners
  <2> QED
    BY <2>1, <2>2, FS_Subset
<1>2. Reports \subseteq Runners
  BY DEF Reports
<1> QED
  BY <1>1, <1>2, FS_Subset, FS_CardinalityType

(* The reports shrink, or nothing happens to them.                         *)
LEMMA FewerReports ==
    ASSUME TypeOK, ReportsCounted, Reports' \subseteq Reports,
           m_pendingEventCount' \in Nat, m_pendingEventCount' >= m_pendingEventCount
    PROVE  m_pendingEventCount' >= Cardinality(Reports')
<1>1. Cardinality(Reports') <= Cardinality(Reports) /\ Cardinality(Reports') \in Nat
  BY ReportsFinite, FS_Subset, FS_CardinalityType
<1> QED
  BY <1>1, ReportsFinite DEF TypeOK, ReportsCounted

-----------------------------------------------------------------------------
(* Every action, for any threads and whatever is added while stopping.     *)
LEMMA NextInv ==
    ASSUME Inv, Next
    PROVE  Inv'
<1> USE IdleAssumption DEF Inv, TypeOK, ReportsCounted, IdlePCs
<1>a. (UNCHANGED report /\ m_pendingEventCount' \in Nat
          /\ m_pendingEventCount' >= m_pendingEventCount)
         => m_pendingEventCount' >= Cardinality(Reports')
  <2> SUFFICES ASSUME UNCHANGED report, m_pendingEventCount' \in Nat,
                      m_pendingEventCount' >= m_pendingEventCount
               PROVE  m_pendingEventCount' >= Cardinality(Reports')
    OBVIOUS
  <2>1. Reports' \subseteq Reports
    BY DEF Reports
  <2> QED
    BY <2>1, FewerReports
<1>1. ASSUME NEW t \in Runners \cup {Main}, NEW p \in PinTo \cup {AnyThread}, schedule(t, p)
      PROVE  Inv'
  BY <1>a, <1>1 DEF schedule, calling, push, workVars, pipeVars, idleVars, mainVars
<1>2. ASSUME NEW t \in Runners \cup {Main}, NEW tm \in Timers, NEW ms \in Distances,
             addTimer(t, tm, ms)
      PROVE  Inv'
  <2>1. /\ m_timers' = m_timers \cup {tm} /\ distance' = [distance EXCEPT ![tm] = ms]
        /\ m_isTickled' \in BOOLEAN /\ calls < MaxCalls /\ calls' = calls + 1
        /\ \E b \in BOOLEAN : tickleMe' = [tickleMe EXCEPT ![t] = b]
        /\ UNCHANGED <<m_tasks, m_pendingEventCount, pipeVars, pc, idleVars, mainVars>>
    BY <1>2 DEF addTimer, calling
  <2>2. IsFiniteSet(m_timers')
    BY <2>1, FS_AddElement
  <2>3. TypeOK'
    BY <2>1 DEF pipeVars, idleVars, mainVars
  <2>4. ReportsCounted'
    BY <1>a, <2>1 DEF idleVars
  <2> QED
    BY <2>2, <2>3, <2>4
<1>3. ASSUME NEW t \in Runners \cup {Main}, NEW tm \in Timers, cancel(t, tm)
      PROVE  Inv'
  <2>1. /\ m_timers' = m_timers \ {tm} /\ distance' = [distance EXCEPT ![tm] = 0]
        /\ calls < MaxCalls /\ calls' = calls + 1
        /\ UNCHANGED <<m_tasks, m_isTickled, m_pendingEventCount, pipeVars, pc, idleVars,
                       tickleMe, mainVars>>
    BY <1>3 DEF cancel, calling
  <2>2. IsFiniteSet(m_timers')
    BY <2>1, FS_RemoveElement
  <2>3. TypeOK'
    BY <2>1 DEF pipeVars, idleVars, mainVars
  <2>4. ReportsCounted'
    BY <1>a, <2>1 DEF idleVars
  <2> QED
    BY <2>2, <2>3, <2>4
<1>4. ASSUME NEW t \in Runners \cup {Main}, addEvent(t)
      PROVE  Inv'
  BY <1>a, <1>4 DEF addEvent, calling, pipeVars, idleVars, mainVars
<1>5. ASSUME NEW t \in Runners \cup {Main}, callTickle(t)
      PROVE  Inv'
  BY <1>a, <1>5 DEF callTickle, tickle, hasIdleThreads, workVars, idleVars, mainVars
<1>6. ASSUME NEW t \in Runners, scan(t)
      PROVE  Inv'
  <2>1. UNCHANGED <<workVars, pipeVars, idleVars, mainVars, calls>>
    BY <1>6 DEF scan
  <2>2. CASE \E p \in Queued \cap {t, AnyThread} :
                /\ m_tasks' = [m_tasks EXCEPT ![p] = @ - 1]
                /\ pc' = [pc EXCEPT ![t] = "busy"]
                /\ tickleMe' = [tickleMe EXCEPT ![t] = Queued # {p} \/ m_tasks[p] > 1]
    <3>1. PICK p \in Queued \cap {t, AnyThread} :
                /\ m_tasks' = [m_tasks EXCEPT ![p] = @ - 1]
                /\ pc' = [pc EXCEPT ![t] = "busy"]
                /\ tickleMe' = [tickleMe EXCEPT ![t] = Queued # {p} \/ m_tasks[p] > 1]
      BY <2>2
    <3>2. m_tasks[p] > 0 /\ m_tasks[p] \in Nat /\ p \in Runners \cup {AnyThread}
      BY DEF Queued
    <3>3. TypeOK'
      BY <2>1, <3>1, <3>2 DEF workVars, pipeVars, idleVars, mainVars
    <3>4. ReportsCounted' /\ IsFiniteSet(m_timers')
      BY <1>a, <2>1, <3>1 DEF workVars, idleVars
    <3> QED
      BY <3>3, <3>4
  <2>3. CASE /\ pc' = [pc EXCEPT ![t] = "noTask"]
             /\ tickleMe' = [tickleMe EXCEPT ![t] = Queued # {}]
             /\ UNCHANGED m_tasks
    BY <1>a, <2>1, <2>3 DEF workVars, pipeVars, idleVars, mainVars
  <2> QED
    BY <1>6, <2>2, <2>3 DEF scan
<1>7. ASSUME NEW t \in Runners, taskDone(t)
      PROVE  Inv'
  BY <1>a, <1>7 DEF taskDone, goto, workVars, pipeVars, idleVars, mainVars
<1>8. ASSUME NEW t \in Runners, idleResume(t)
      PROVE  Inv'
  BY <1>a, <1>8 DEF idleResume, goto, workVars, pipeVars, idleVars, mainVars
<1>9. ASSUME NEW t \in Runners, getNextTimer(t)
      PROVE  Inv'
  <2>1. epollTimeout(m_timers) \in Int
    BY EpollTimeoutType
  <2>2. /\ pc' \in {[pc EXCEPT ![t] = "pending"], [pc EXCEPT ![t] = "wait"]}
        /\ timeout' = [timeout EXCEPT ![t] = epollTimeout(m_timers)]
        /\ UNCHANGED <<m_tasks, workVars, pipeVars, idleTerm, report, funcs, tickleMe, mainVars,
                       calls>>
    BY <1>9 DEF getNextTimer, goto
  <2> QED
    BY <1>a, <2>1, <2>2 DEF workVars, pipeVars, mainVars
<1>10. ASSUME NEW t \in Runners, readPending(t)
      PROVE  Inv'
  BY <1>a, <1>10 DEF readPending, goto, workVars, pipeVars, idleVars, mainVars
<1>11. ASSUME NEW t \in Runners, readTasks(t)
      PROVE  Inv'
  <2>1. /\ pc' \in {[pc EXCEPT ![t] = "scan"], [pc EXCEPT ![t] = "wait"]}
        /\ \E b \in BOOLEAN : idleTerm' = [idleTerm EXCEPT ![t] = b]
        /\ UNCHANGED <<m_tasks, workVars, pipeVars, timeout, report, funcs, tickleMe, mainVars,
                       calls>>
    BY <1>11 DEF readTasks, goto, SchedulerStopping
  <2> QED
    BY <1>a, <2>1 DEF workVars, pipeVars, mainVars
<1>12. ASSUME NEW t \in Runners, wakeByTickle(t)
      PROVE  Inv'
  <2>1. /\ pc[t] = "wait" /\ pc' \in {[pc EXCEPT ![t] = "woken"], [pc EXCEPT ![t] = "wait"]}
        /\ report' \in {report, [report EXCEPT ![t] = "pipe"]}
        /\ edge' = FALSE
        /\ UNCHANGED <<m_tasks, workVars, pipe, idleTerm, timeout, funcs, tickleMe, mainVars,
                       calls>>
    BY <1>12 DEF wakeByTickle, goto
  <2>2. TypeOK' /\ IsFiniteSet(m_timers')
    BY <2>1 DEF workVars, mainVars
  <2>3. Reports' \subseteq Reports
    BY <2>1 DEF Reports
  <2>4. ReportsCounted'
    BY <2>1, <2>3, FewerReports DEF workVars
  <2> QED
    BY <2>2, <2>4
<1>13. ASSUME NEW t \in Runners, wakeByEvent(t)
      PROVE  Inv'
  <2>1. /\ pc[t] = "wait" /\ pc' = [pc EXCEPT ![t] = "woken"]
        /\ report' = [report EXCEPT ![t] = "event"]
        /\ m_pendingEventCount > Cardinality(Reports)
        /\ UNCHANGED <<m_tasks, workVars, pipeVars, idleTerm, timeout, funcs, tickleMe, mainVars,
                       calls>>
    BY <1>13 DEF wakeByEvent, goto, unreported, Reports
  <2>2. TypeOK' /\ IsFiniteSet(m_timers')
    BY <2>1 DEF workVars, pipeVars, mainVars
  <2>3. Reports' = Reports \cup {t}
    BY <2>1 DEF Reports
  <2>4. Cardinality(Reports') <= Cardinality(Reports) + 1
    <3>1. Cardinality(Reports \cup {t}) =
              IF t \in Reports THEN Cardinality(Reports) ELSE Cardinality(Reports) + 1
      BY ReportsFinite, FS_AddElement
    <3> QED
      BY <2>3, <3>1, ReportsFinite
  <2>5. Cardinality(Reports') \in Nat
    BY <2>3, ReportsFinite, FS_AddElement, FS_CardinalityType
  <2>6. ReportsCounted'
    BY <2>1, <2>4, <2>5, ReportsFinite DEF workVars
  <2> QED
    BY <2>2, <2>6
<1>14. ASSUME NEW t \in Runners, wakeByTimeout(t)
      PROVE  Inv'
  BY <1>a, <1>14 DEF wakeByTimeout, goto, workVars, pipeVars, idleVars, mainVars
<1>15. ASSUME NEW t \in Runners, listExpiredFunc(t)
      PROVE  Inv'
  <2> DEFINE due == {tm \in m_timers : distance[tm] = 0}
  <2>1. /\ pc' = [pc EXCEPT ![t] = "schedule"]
        /\ m_timers' = m_timers \ due
        /\ funcs' = [funcs EXCEPT ![t] = Cardinality(due)]
        /\ UNCHANGED <<m_tasks, distance, m_isTickled, m_pendingEventCount, pipeVars, idleTerm,
                       timeout, report, tickleMe, mainVars, calls>>
    BY <1>15 DEF listExpiredFunc, goto
  <2>2. due \subseteq m_timers /\ m_timers' \subseteq m_timers
    BY <2>1
  <2> HIDE DEF due
  <2>3. IsFiniteSet(m_timers') /\ Cardinality(due) \in Nat
    BY <2>2, FS_Subset, FS_CardinalityType
  <2>4. TypeOK'
    BY <2>1, <2>2, <2>3 DEF pipeVars, mainVars
  <2> QED
    BY <1>a, <2>1, <2>3, <2>4
<1>16. ASSUME NEW t \in Runners, scheduleFunc(t)
      PROVE  Inv'
  BY <1>a, <1>16 DEF scheduleFunc, push, workVars, pipeVars, mainVars
<1>17. ASSUME NEW t \in Runners, drainPipe(t)
      PROVE  Inv'
  <2>1. /\ pc[t] = "schedule" /\ pc' = [pc EXCEPT ![t] = "scan"]
        /\ report[t] # "event" /\ report' = [report EXCEPT ![t] = "none"]
        /\ pipe' \in BOOLEAN
        /\ UNCHANGED <<m_tasks, workVars, edge, idleTerm, timeout, funcs, tickleMe, mainVars,
                       calls>>
    BY <1>17 DEF drainPipe, goto
  <2>2. TypeOK' /\ IsFiniteSet(m_timers')
    BY <2>1 DEF workVars, mainVars
  <2>3. Reports' \subseteq Reports
    BY <2>1 DEF Reports
  <2>4. ReportsCounted'
    BY <2>1, <2>3, FewerReports DEF workVars
  <2> QED
    BY <2>2, <2>4
<1>18. ASSUME NEW t \in Runners, triggerEvent(t)
      PROVE  Inv'
  BY <1>a, <1>18 DEF triggerEvent, goto, push, workVars, pipeVars, idleVars, mainVars
<1>19. ASSUME NEW t \in Runners, decPendingEventCount(t)
      PROVE  Inv'
  <2>1. /\ pc[t] = "dec" /\ pc' = [pc EXCEPT ![t] = "scan"]
        /\ m_pendingEventCount' = m_pendingEventCount - 1
        /\ report' = [report EXCEPT ![t] = "none"]
        /\ UNCHANGED <<m_tasks, m_timers, distance, m_isTickled, pipeVars, idleTerm, timeout,
                       funcs, tickleMe, mainVars, calls>>
    BY <1>19 DEF decPendingEventCount, goto
  <2>2. t \in Reports /\ Reports' = Reports \ {t}
    BY <2>1 DEF Reports
  <2>3. Cardinality(Reports') = Cardinality(Reports) - 1
    BY <2>2, ReportsFinite, FS_RemoveElement
  <2>4. Cardinality(Reports') \in Nat
    BY <2>2, ReportsFinite, FS_RemoveElement, FS_CardinalityType
  <2>5. m_pendingEventCount' \in Nat /\ m_pendingEventCount' >= Cardinality(Reports')
    BY <2>1, <2>3, <2>4, ReportsFinite
  <2>6. TypeOK' /\ IsFiniteSet(m_timers')
    BY <2>1, <2>5 DEF pipeVars, mainVars
  <2> QED
    BY <2>1, <2>5, <2>6
<1>20. ASSUME stop
      PROVE  Inv'
  <2>1. tickles' \in Nat
    BY <1>20, ReportsFinite DEF stop
  <2> QED
    BY <1>a, <1>20, <2>1 DEF stop, workVars, pipeVars, idleVars
<1>21. ASSUME stopTickle
      PROVE  Inv'
  BY <1>a, <1>21 DEF stopTickle, tickle, hasIdleThreads, workVars, idleVars
<1>22. ASSUME resumeRoot
      PROVE  Inv'
  BY <1>a, <1>22 DEF resumeRoot, workVars, pipeVars, idleVars
<1>23. ASSUME join
      PROVE  Inv'
  BY <1>a, <1>23 DEF join, workVars, pipeVars, idleVars
<1>24. ASSUME Tick
      PROVE  Inv'
  <2>1. distance' \in [Timers -> Nat]
    <3>1. \A tm \in Timers : Max({0, distance[tm] - 1}) \in Nat
      <4> TAKE tm \in Timers
      <4>1. distance[tm] - 1 \in Int
        OBVIOUS
      <4>2. Max({0, distance[tm] - 1}) \in {0, distance[tm] - 1} /\ Max({0,
      distance[tm] - 1}) >= 0
        BY <4>1, MinMaxOfTwo
      <4> QED
        BY <4>1, <4>2
    <3>2. distance' = [tm \in Timers |-> Max({0, distance[tm] - 1})]
      BY <1>24 DEF Tick
    <3> QED
      BY <3>1, <3>2
  <2>2. timeout' \in [Runners -> Int]
    BY <1>24 DEF Tick
  <2>3. UNCHANGED <<m_tasks, m_timers, m_isTickled, m_pendingEventCount, pipeVars, pc, idleTerm,
                    report, funcs, tickleMe, mainVars, calls>>
    BY <1>24 DEF Tick
  <2> QED
    BY <1>a, <2>1, <2>2, <2>3 DEF pipeVars, mainVars
<1> HIDE IdleAssumption DEF Inv, TypeOK, ReportsCounted, IdlePCs
<1> QED
  BY <1>1, <1>2, <1>3, <1>4, <1>5, <1>6, <1>7, <1>8, <1>9, <1>10, <1>11, <1>12, <1>13, <1>14,
     <1>15, <1>16, <1>17, <1>18, <1>19, <1>20, <1>21, <1>22, <1>23, <1>24 DEF Next, run, stopSteps

-----------------------------------------------------------------------------
LEMMA InitInv == Init => Inv
<1> SUFFICES ASSUME Init
             PROVE  Inv
  OBVIOUS
<1>1. TypeOK
  <2>1. /\ m_tasks \in [Runners \cup {AnyThread} -> Nat] /\ distance \in [Timers -> Nat]
        /\ timeout \in [Runners -> Int] /\ funcs \in [Runners -> Nat]
    BY DEF Init
  <2>2. pc \in [Runners -> {"out", "scan", "busy", "noTask", "ended"} \cup IdlePCs]
    BY DEF Init
  <2>3. /\ idleTerm \in [Runners -> BOOLEAN] /\ tickleMe \in [Runners \cup {Main} -> BOOLEAN]
        /\ report \in [Runners -> {"none", "pipe", "event"}]
    BY DEF Init
  <2>4. tickles \in Nat /\ calls \in 0..MaxCalls /\ m_pendingEventCount \in Nat
    BY IdleAssumption DEF Init
  <2> QED
    BY <2>1, <2>2, <2>3, <2>4 DEF Init, TypeOK
<1>2. IsFiniteSet(m_timers)
  BY FS_EmptySet DEF Init
<1>3. Reports = {}
  BY DEF Init, Reports
<1>4. ReportsCounted
  BY <1>3, FS_EmptySet DEF Init, ReportsCounted
<1> QED
  BY <1>1, <1>2, <1>4 DEF Inv

LEMMA StutterInv == Inv /\ UNCHANGED vars => Inv'
BY DEF Inv, TypeOK, ReportsCounted, Reports, vars, workVars, pipeVars, idleVars, mainVars

(* Every action, if nothing but tasks for any thread is added after stop().*)
LEMMA NextStop ==
    ASSUME AddWhileStopping = FALSE, Inv, StopInv, Next
    PROVE  StopInv'
<1> USE IdleAssumption DEF Inv, TypeOK, StopInv, Phase, MainReadsLast, LeavesNoTask, leaving,
                           Queued
<1>1. ASSUME NEW t \in Runners \cup {Main}, NEW p \in PinTo \cup {AnyThread}, schedule(t, p)
      PROVE  StopInv'
  BY <1>1 DEF schedule, calling, push, workVars, pipeVars, idleVars, mainVars
<1>2. ASSUME NEW t \in Runners \cup {Main}, NEW tm \in Timers, NEW ms \in Distances,
             addTimer(t, tm, ms)
      PROVE  StopInv'
  BY <1>2 DEF addTimer, calling, pipeVars, idleVars, mainVars
<1>3. ASSUME NEW t \in Runners \cup {Main}, NEW tm \in Timers, cancel(t, tm)
      PROVE  StopInv'
  BY <1>3 DEF cancel, calling, pipeVars, idleVars, mainVars
<1>4. ASSUME NEW t \in Runners \cup {Main}, addEvent(t)
      PROVE  StopInv'
  BY <1>4 DEF addEvent, calling, pipeVars, idleVars, mainVars
<1>5. ASSUME NEW t \in Runners \cup {Main}, callTickle(t)
      PROVE  StopInv'
  BY <1>5 DEF callTickle, tickle, hasIdleThreads, workVars, idleVars, mainVars
<1>6. ASSUME NEW t \in Runners, scan(t)
      PROVE  StopInv'
  BY <1>6 DEF scan, workVars, pipeVars, idleVars, mainVars
<1>7. ASSUME NEW t \in Runners, taskDone(t)
      PROVE  StopInv'
  BY <1>7 DEF taskDone, goto, workVars, pipeVars, idleVars, mainVars
<1>8. ASSUME NEW t \in Runners, idleResume(t)
      PROVE  StopInv'
  BY <1>8 DEF idleResume, goto, workVars, pipeVars, idleVars, mainVars
<1>9. ASSUME NEW t \in Runners, getNextTimer(t)
      PROVE  StopInv'
  BY <1>9 DEF getNextTimer, goto, workVars, pipeVars, mainVars
<1>10. ASSUME NEW t \in Runners, readPending(t)
      PROVE  StopInv'
  <2>1. pc[t] = "pending" /\ UNCHANGED <<m_tasks, workVars, idleTerm, m_stopping, mpc>>
    BY <1>10 DEF readPending, goto, idleVars, mainVars
  <2>2. \/ pc' = [pc EXCEPT ![t] = "tasks"] /\ m_pendingEventCount = 0
        \/ pc' = [pc EXCEPT ![t] = "wait"]
    BY <1>10 DEF readPending, goto, nonePending
  <2> QED
    BY <2>1, <2>2 DEF workVars
<1>11. ASSUME NEW t \in Runners, readTasks(t)
      PROVE  StopInv'
  <2>1. pc[t] = "tasks" /\ UNCHANGED <<m_tasks, workVars, m_stopping, mpc>>
    BY <1>11 DEF readTasks, goto, mainVars
  <2>2. \/ /\ pc' = [pc EXCEPT ![t] = "scan"] /\ m_stopping
           /\ idleTerm' = [idleTerm EXCEPT ![t] = TRUE]
        \/ /\ pc' = [pc EXCEPT ![t] = "wait"]
           /\ idleTerm' = [idleTerm EXCEPT ![t] = FALSE]
    <3>1. SchedulerStopping \in BOOLEAN
      BY DEF SchedulerStopping
    <3>2. CASE SchedulerStopping
      BY <1>11, <3>2 DEF readTasks, goto, SchedulerStopping
    <3>3. CASE ~SchedulerStopping
      BY <1>11, <3>1, <3>3 DEF readTasks, goto
    <3> QED
      BY <3>2, <3>3
  <2> QED
    BY <2>1, <2>2 DEF workVars
<1>12. ASSUME NEW t \in Runners, wakeByTickle(t)
      PROVE  StopInv'
  BY <1>12 DEF wakeByTickle, goto, workVars, mainVars
<1>13. ASSUME NEW t \in Runners, wakeByEvent(t)
      PROVE  StopInv'
  BY <1>13 DEF wakeByEvent, goto, workVars, pipeVars, mainVars
<1>14. ASSUME NEW t \in Runners, wakeByTimeout(t)
      PROVE  StopInv'
  BY <1>14 DEF wakeByTimeout, goto, workVars, pipeVars, idleVars, mainVars
<1>15. ASSUME NEW t \in Runners, listExpiredFunc(t)
      PROVE  StopInv'
  BY <1>15 DEF listExpiredFunc, goto, pipeVars, mainVars
<1>16. ASSUME NEW t \in Runners, scheduleFunc(t)
      PROVE  StopInv'
  BY <1>16 DEF scheduleFunc, push, workVars, pipeVars, mainVars
<1>17. ASSUME NEW t \in Runners, drainPipe(t)
      PROVE  StopInv'
  BY <1>17 DEF drainPipe, goto, workVars, mainVars
<1>18. ASSUME NEW t \in Runners, triggerEvent(t)
      PROVE  StopInv'
  BY <1>18 DEF triggerEvent, goto, push, workVars, pipeVars, idleVars, mainVars
<1>19. ASSUME NEW t \in Runners, decPendingEventCount(t)
      PROVE  StopInv'
  <2>1. /\ pc[t] = "dec" /\ pc' = [pc EXCEPT ![t] = "scan"]
        /\ UNCHANGED <<m_tasks, m_timers, idleTerm, m_stopping, mpc>>
    BY <1>19 DEF decPendingEventCount, goto, mainVars
  <2>2. m_pendingEventCount # 0
    <3>1. t \in Reports
      BY <2>1 DEF ReportsCounted, Reports
    <3>2. Cardinality(Reports) # 0
      BY <3>1, ReportsFinite, FS_EmptySet
    <3> QED
      BY <3>2, ReportsFinite DEF ReportsCounted
  <2> QED
    BY <2>1, <2>2
<1>20. ASSUME stop
      PROVE  StopInv'
  BY <1>20 DEF stop, workVars, pipeVars, idleVars
<1>21. ASSUME stopTickle
      PROVE  StopInv'
  BY <1>21 DEF stopTickle, tickle, hasIdleThreads, workVars, idleVars
<1>22. ASSUME resumeRoot
      PROVE  StopInv'
  BY <1>22 DEF resumeRoot, workVars, pipeVars, idleVars
<1>23. ASSUME join
      PROVE  StopInv'
  BY <1>23 DEF join, workVars, pipeVars, idleVars
<1>24. ASSUME Tick
      PROVE  StopInv'
  BY <1>24 DEF Tick, pipeVars, mainVars
<1> HIDE IdleAssumption DEF Inv, TypeOK, StopInv, Phase, MainReadsLast, LeavesNoTask, leaving,
              Queued
<1> QED
  BY <1>1, <1>2, <1>3, <1>4, <1>5, <1>6, <1>7, <1>8, <1>9, <1>10, <1>11, <1>12, <1>13, <1>14,
     <1>15, <1>16, <1>17, <1>18, <1>19, <1>20, <1>21, <1>22, <1>23, <1>24 DEF Next, run, stopSteps

LEMMA InitStop == Init => StopInv
BY IdleAssumption DEF Init, StopInv, Phase, MainReadsLast, LeavesNoTask, leaving

LEMMA StutterStop == StopInv /\ UNCHANGED vars => StopInv'
BY DEF StopInv, Phase, MainReadsLast, LeavesNoTask, leaving, vars, workVars, idleVars, mainVars

(* m_pendingEventCount counts the events that threads were given and have  *)
(* not yet counted down: wherever the tickles, the timeouts and the events *)
(* fall, decPendingEventCount() finds a positive count.                    *)
THEOREM Invariance == Spec => []Inv
<1>1. Inv /\ [Next]_vars => Inv'
  BY NextInv, StutterInv
<1> QED
  BY InitInv, <1>1, PTL DEF Spec

(* The variables keep their types: no count wraps below zero.              *)
THEOREM TypeCorrect == Spec => []TypeOK
<1>1. Inv => TypeOK
  BY DEF Inv
<1> QED
  BY Invariance, <1>1, PTL

(* stop() leaves nothing behind if Main is a thread of run() and nothing   *)
(* but tasks for any thread is added once it was called: while there is a  *)
(* timer or an event, Main, which looked last, has its idle doroutine, and *)
(* who could run a task that is queued has not returned.                   *)
THEOREM StopLeavesNothing ==
    ASSUME UseCaller = TRUE, AddWhileStopping = FALSE
    PROVE  Spec => []WorkHasThread
<1>1. Inv /\ StopInv /\ [Next]_vars => StopInv'
  BY NextStop, StutterStop
<1>2. Inv /\ StopInv => WorkHasThread
  <2> SUFFICES ASSUME Inv, StopInv
               PROVE  WorkHasThread
    OBVIOUS
  <2> USE DEF Inv, TypeOK, StopInv, Queued
  <2>1. Main \in Runners
    BY DEF Runners
  <2>2. m_timers # {} \/ m_pendingEventCount > 0 => ~idleTerm[Main]
    BY <2>1 DEF MainReadsLast
  <2>3. ASSUME NEW p \in Queued
        PROVE  \E t \in Runners : p \in {t, AnyThread} /\ pc[t] # "ended"
    <3>1. CASE p = AnyThread
      <4>1. \E t \in Runners : ~leaving(t)
        BY <3>1 DEF LeavesNoTask
      <4> QED
        BY <3>1, <4>1 DEF leaving
    <3>2. CASE p # AnyThread
      <4>1. p \in Runners /\ ~leaving(p)
        BY <3>2 DEF LeavesNoTask
      <4> QED
        BY <4>1 DEF leaving
    <3> QED
      BY <3>1, <3>2
  <2> QED
    BY <2>1, <2>2, <2>3 DEF WorkHasThread
<1> QED
  BY Invariance, InitStop, <1>1, <1>2, PTL DEF Spec

------------------------------------------------------------------------------
(* Whoever waits, or is about to, has a limit, and timers stay as near as  *)
(* an int holds.                                                           *)
WaitIsBounded ==
    \A t \in Runners : pc[t] \in {"pending", "tasks", "wait"} => timeout[t] \in 0..MaxTimeout

TimersAreNear == \A tm \in Timers : 2 * distance[tm] < IntWord

(* The cast of line 279 keeps a distance that an int holds.                *)
LEMMA CastKeeps ==
    ASSUME NEW n \in Nat, 2 * n < IntWord
    PROVE  toInt(n) = n
<1>1. IntWord \in Nat \ {0} /\ n < IntWord
  BY IdleAssumption
<1>2. n % IntWord = n
  BY <1>1, SMTT(30)
<1> QED
  BY <1>2 DEF toInt

LEMMA LeastOfTwo ==
    ASSUME NEW a \in Nat, NEW b \in Nat
    PROVE  Min({a, b}) \in Nat /\ Min({a, b}) <= a /\ Min({a, b}) <= b
<1>1. {a, b} \in SUBSET Nat /\ {a, b} # {}
  OBVIOUS
<1>2. Min({a, b}) \in {a, b} /\ \A y \in {a, b} : Min({a, b}) <= y
  BY <1>1, LeastNatural
<1> QED
  BY <1>2

(* The limit of epoll_wait is MAX_TIMEOUT, and earlier than every timer.   *)
LEMMA EpollTimeoutLimit ==
    ASSUME TypeOK, TimersAreNear
    PROVE  /\ epollTimeout(m_timers) \in 0..MaxTimeout
           /\ \A tm \in m_timers : epollTimeout(m_timers) <= distance[tm]
<1> DEFINE D == {distance[tm] : tm \in m_timers}
           n == Min(D)
           k == toInt(n)
<1>1. CASE m_timers = {}
  BY <1>1, IdleAssumption DEF epollTimeout
<1>2. CASE m_timers # {}
  <2>1. D \in SUBSET Nat /\ D # {}
    BY <1>2 DEF TypeOK
  <2>2. n \in D /\ \A y \in D : n <= y
    BY <2>1, LeastNatural
  <2>3. 2 * n < IntWord /\ n \in Nat
    BY <2>1, <2>2 DEF TypeOK, TimersAreNear
  <2>4. \A tm \in m_timers : n <= distance[tm] /\ distance[tm] \in Nat
    BY <2>2 DEF TypeOK
  <2>5. epollTimeout(m_timers) = Min({MaxTimeout, k})
    BY <1>2 DEF epollTimeout
  <2> HIDE DEF n
  <2>6. k = n
    BY <2>3, CastKeeps
  <2> HIDE DEF k
  <2>7. /\ MaxTimeout \in Nat /\ Min({MaxTimeout, n}) \in Nat
        /\ Min({MaxTimeout, n}) <= n /\ Min({MaxTimeout, n}) <= MaxTimeout
    BY <2>3, IdleAssumption, LeastOfTwo
  <2>8. epollTimeout(m_timers) \in Nat /\ epollTimeout(m_timers) <= n
        /\ epollTimeout(m_timers) <= MaxTimeout
    BY <2>3, <2>5, <2>6, <2>7
  <2> HIDE DEF D
  <2> QED
    BY <2>3, <2>4, <2>7, <2>8
<1> QED
  BY <1>1, <1>2

LEMMA NextWait ==
    ASSUME \A ms \in Distances : 2 * ms < IntWord,
           Inv, TimersAreNear, WaitIsBounded, [Next]_vars
    PROVE  TimersAreNear' /\ WaitIsBounded'
<1> USE IdleAssumption DEF Inv, TypeOK, TimersAreNear, WaitIsBounded
<1>1. ASSUME NEW t \in Runners \cup {Main}, NEW p \in PinTo \cup {AnyThread}, schedule(t, p)
      PROVE  TimersAreNear' /\ WaitIsBounded'
  BY <1>1 DEF schedule, calling, workVars, idleVars
<1>2. ASSUME NEW t \in Runners \cup {Main}, NEW tm \in Timers, NEW ms \in Distances,
             addTimer(t, tm, ms)
      PROVE  TimersAreNear' /\ WaitIsBounded'
  BY <1>2 DEF addTimer, calling, idleVars
<1>3. ASSUME NEW t \in Runners \cup {Main}, NEW tm \in Timers, cancel(t, tm)
      PROVE  TimersAreNear' /\ WaitIsBounded'
  BY <1>3 DEF cancel, calling, idleVars
<1>4. ASSUME NEW t \in Runners \cup {Main}, addEvent(t) \/ callTickle(t)
      PROVE  TimersAreNear' /\ WaitIsBounded'
  BY <1>4 DEF addEvent, callTickle, calling, workVars, idleVars
<1>5. ASSUME NEW t \in Runners,
             scan(t) \/ taskDone(t) \/ idleResume(t) \/ readPending(t) \/ readTasks(t)
      PROVE  TimersAreNear' /\ WaitIsBounded'
  BY <1>5 DEF scan, taskDone, idleResume, readPending, readTasks, goto, workVars, idleVars
<1>6. ASSUME NEW t \in Runners, getNextTimer(t)
      PROVE  TimersAreNear' /\ WaitIsBounded'
  BY <1>6, EpollTimeoutLimit DEF getNextTimer, goto, workVars
<1>7. ASSUME NEW t \in Runners, wakeByTickle(t) \/ wakeByTimeout(t) \/ wakeByEvent(t)
      PROVE  TimersAreNear' /\ WaitIsBounded'
  BY <1>7 DEF wakeByTickle, wakeByTimeout, wakeByEvent, goto, workVars, idleVars
<1>8. ASSUME NEW t \in Runners, listExpiredFunc(t) \/ scheduleFunc(t) \/ drainPipe(t)
      PROVE  TimersAreNear' /\ WaitIsBounded'
  BY <1>8 DEF listExpiredFunc, scheduleFunc, drainPipe, goto, workVars, idleVars
<1>9. ASSUME NEW t \in Runners, triggerEvent(t) \/ decPendingEventCount(t)
      PROVE  TimersAreNear' /\ WaitIsBounded'
  BY <1>9 DEF triggerEvent, decPendingEventCount, goto, workVars, idleVars
<1>10. CASE stop \/ stopTickle \/ join
  BY <1>10 DEF stop, stopTickle, join, workVars, idleVars
<1>11. CASE resumeRoot
  BY <1>11 DEF resumeRoot, workVars, idleVars
<1>12. CASE Tick
  <2>1. ASSUME NEW tm \in Timers
        PROVE  2 * distance'[tm] < IntWord
    <3>1. distance'[tm] = Max({0, distance[tm] - 1}) /\ distance[tm] \in Nat
      BY <1>12 DEF Tick
    <3> DEFINE less == distance[tm] - 1
    <3>2. 0 \in Int /\ less \in Int
      BY <3>1
    <3> HIDE DEF less
    <3>3. Max({0, less}) \in {0, less}
      BY <3>2, MinMaxOfTwo
    <3> QED
      BY <3>1, <3>3 DEF less
  <2>2. ASSUME NEW t \in Runners
        PROVE  timeout'[t] = timeout[t] \/ (timeout[t] > 0 /\ timeout'[t] = timeout[t] - 1)
    BY <1>12 DEF Tick
  <2>3. ASSUME NEW t \in Runners, pc[t] \in {"pending", "tasks", "wait"}
        PROVE  timeout'[t] \in 0..MaxTimeout
    BY <2>2, <2>3
  <2> QED
    BY <1>12, <2>1, <2>3 DEF Tick
<1>13. CASE UNCHANGED vars
  BY <1>13 DEF vars, workVars, idleVars
<1> QED
  BY <1>1, <1>2, <1>3, <1>4, <1>5, <1>6, <1>7, <1>8, <1>9, <1>10, <1>11, <1>12, <1>13
     DEF Next, run, stopSteps

(* If timers are at most half the width of an int away, no thread waits in *)
(* epoll_wait without a limit, as the comment of line 276 has it, nor for  *)
(* longer than MAX_TIMEOUT: what wakes nobody is found when it is over.    *)
THEOREM NobodyWaitsForEver ==
    ASSUME \A ms \in Distances : 2 * ms < IntWord
    PROVE  Spec => []WaitIsBounded
<1>1. Init => TimersAreNear /\ WaitIsBounded
  BY IdleAssumption DEF Init, TimersAreNear, WaitIsBounded
<1>2. Inv /\ TimersAreNear /\ WaitIsBounded /\ [Next]_vars => (TimersAreNear /\ WaitIsBounded)'
  BY NextWait
<1> QED
  BY Invariance, <1>1, <1>2, PTL DEF Spec
==============================================================================
