------------------------------- MODULE IdleLoop -------------------------------
(***************************************************************************)
(* How the threads of a KSC::IOManager sleep, are woken and end: idle(),   *)
(* tickle(), stopping() (src/src/iomanager.cpp) inside run() and stop()    *)
(* (src/src/scheduler.cpp). Of a task, a timer or an event only its        *)
(* presence counts here: Scheduler, TimerManager and FdEvents model the    *)
(* rest. Time is counted in ticks.                                         *)
(***************************************************************************)
EXTENDS Integers, FiniteSets, FiniteSetsExt

CONSTANTS
    Workers,    (* the threads of m_threadPool                               *)
    Main,       (* the thread that owns the IOManager                        *)
    UseCaller,  (* run() also executes on Main, inside stop()                *)
    AnyThread,  (* SchedulerTask::thread = -1                                *)
    PinTo,      (* the threads that schedule() is given                      *)
    Timers,     (* the timers; their number is their address                 *)
    Distances,  (* the ms that addTimer() is given                           *)
    MaxTimeout, (* MAX_TIMEOUT = 5000                                        *)
    IntWord,    (* bound: 2^32, the width of int                             *)
    AddWhileStopping, (* may timers, events and tasks for a given thread be  *)
                (* added once stop() has been called?                        *)
    MaxCalls    (* bound: calls of schedule, addTimer, addEvent, cancel      *)

Runners == Workers \cup (IF UseCaller THEN {Main} ELSE {})

ASSUME IdleAssumption ==
    /\ IsFiniteSet(Workers) /\ Main \notin Workers /\ UseCaller \in BOOLEAN
    /\ Runners # {} /\ PinTo \subseteq Runners /\ AnyThread \notin Runners
    /\ Timers \subseteq Nat /\ Distances \subseteq Nat
    /\ MaxTimeout \in Nat /\ IntWord \in Nat /\ MaxCalls \in Nat
    /\ 2 * MaxTimeout < IntWord

VARIABLES
    m_tasks,             (* number of tasks for each thread, and for any     *)
    m_timers, distance,  (* the set, and the time left of each timer         *)
    m_isTickled,
    m_pendingEventCount,
    m_stopping,
    pipe, edge,          (* m_tickleFds holds a byte; epoll has to report it *)
    pc, idleTerm,        (* of each runner; its idle doroutine is TERM       *)
    tickleMe,            (* the thread calls tickle() next                   *)
    timeout,             (* what is left of its epoll_wait; < 0: no limit    *)
    report,              (* what its epoll_wait returned                     *)
    funcs,               (* callbacks it has collected and not yet scheduled *)
    mpc, tickles,        (* Main: running, tickling, joining, stopped        *)
    calls

workVars == <<m_timers, distance, m_isTickled, m_pendingEventCount>>
pipeVars == <<pipe, edge>>
idleVars == <<idleTerm, timeout, report, funcs>>
mainVars == <<m_stopping, mpc, tickles>>
vars == <<m_tasks, workVars, pipeVars, pc, idleVars, tickleMe, mainVars, calls>>

(* out: not in run(); scan: at its lock; busy: in a task; noTask: none was *)
(* found. The rest is the idle doroutine: the three reads of stopping(),   *)
(* epoll_wait, listExpiredFunc, what follows it, decPendingEventCount.     *)
IdlePCs == {"timers", "pending", "tasks", "wait", "woken", "schedule", "dec"}

TypeOK ==
    /\ m_tasks \in [Runners \cup {AnyThread} -> Nat]
    /\ m_timers \subseteq Timers
    /\ distance \in [Timers -> Nat]
    /\ m_isTickled \in BOOLEAN /\ m_stopping \in BOOLEAN
    /\ m_pendingEventCount \in Nat
    /\ pipe \in BOOLEAN /\ edge \in BOOLEAN
    /\ pc \in [Runners -> {"out", "scan", "busy", "noTask", "ended"} \cup IdlePCs]
    /\ idleTerm \in [Runners -> BOOLEAN]
    /\ tickleMe \in [Runners \cup {Main} -> BOOLEAN]
    /\ timeout \in [Runners -> Int]
    /\ report \in [Runners -> {"none", "pipe", "event"}]
    /\ funcs \in [Runners -> Nat]
    /\ mpc \in {"running", "tickling", "joining", "stopped"}
    /\ tickles \in Nat
    /\ calls \in 0..MaxCalls

(* The constructor has called start().                                     *)
Init ==
    /\ m_tasks = [p \in Runners \cup {AnyThread} |-> 0]
    /\ m_timers = {} /\ distance = [tm \in Timers |-> 0]
    /\ m_isTickled = FALSE /\ m_stopping = FALSE
    /\ m_pendingEventCount = 0
    /\ pipe = FALSE /\ edge = FALSE
    /\ pc = [t \in Runners |-> IF t = Main THEN "out" ELSE "scan"]
    /\ idleTerm = [t \in Runners |-> FALSE]
    /\ tickleMe = [t \in Runners \cup {Main} |-> FALSE]
    /\ timeout = [t \in Runners |-> 0]
    /\ report = [t \in Runners |-> "none"]
    /\ funcs = [t \in Runners |-> 0]
    /\ mpc = "running" /\ tickles = 0 /\ calls = 0

-----------------------------------------------------------------------------
Queued == {p \in Runners \cup {AnyThread} : m_tasks[p] > 0}

(* m_idleThreadCount > 0                                                   *)
hasIdleThreads == \E t \in Runners : pc[t] \in IdlePCs

(* IOManager::tickle(): a write makes epoll report the pipe once more.     *)
tickle ==
    /\ pipe' = (pipe \/ hasIdleThreads)
    /\ edge' = (edge \/ hasIdleThreads)

(* scheduleNoLock() by t; tickle() follows if the list was empty.          *)
push(t, p) ==
    /\ m_tasks' = [m_tasks EXCEPT ![p] = @ + 1]
    /\ tickleMe' = [tickleMe EXCEPT ![t] = Queued = {}]

callTickle(t) ==
    /\ tickleMe[t]
    /\ tickle
    /\ tickleMe' = [tickleMe EXCEPT ![t] = FALSE]
    /\ UNCHANGED <<m_tasks, workVars, pc, idleVars, mainVars, calls>>

(* t is in user code.                                                      *)
calling(t) ==
    /\ \/ t = Main /\ mpc = "running"
       \/ t \in Runners /\ pc[t] = "busy"
    /\ ~tickleMe[t]
    /\ calls < MaxCalls
    /\ calls' = calls + 1
    /\ UNCHANGED <<pipeVars, pc, idleVars, mainVars>>

schedule(t, p) ==
    /\ calling(t)
    /\ m_stopping /\ p # AnyThread => AddWhileStopping
    /\ push(t, p)
    /\ UNCHANGED workVars

(* addTimer() and, behind it, onTimerInsertedAtFront().                    *)
addTimer(t, tm, ms) ==
    /\ calling(t)
    /\ m_stopping => AddWhileStopping
    /\ tm \notin m_timers
    /\ m_timers' = m_timers \cup {tm}
    /\ distance' = [distance EXCEPT ![tm] = ms]
    /\ LET atFront == ~m_isTickled /\ \A o \in m_timers :
                          distance[o] > ms \/ (distance[o] = ms /\ o > tm)
       IN  /\ m_isTickled' = (m_isTickled \/ atFront)
           /\ tickleMe' = [tickleMe EXCEPT ![t] = atFront]
    /\ UNCHANGED <<m_tasks, m_pendingEventCount>>

cancel(t, tm) ==
    /\ calling(t)
    /\ tm \in m_timers
    /\ m_timers' = m_timers \ {tm}
    /\ distance' = [distance EXCEPT ![tm] = 0]
    /\ UNCHANGED <<m_tasks, m_isTickled, m_pendingEventCount, tickleMe>>

addEvent(t) ==
    /\ calling(t)
    /\ m_stopping => AddWhileStopping
    /\ t # Main \/ mpc # "running"
    /\ m_pendingEventCount' = m_pendingEventCount + 1
    /\ UNCHANGED <<m_tasks, m_timers, distance, m_isTickled, tickleMe>>

-----------------------------------------------------------------------------
(* run(): the scan of the list; of what is left somebody is told.          *)
scan(t) ==
    /\ pc[t] = "scan"
    /\ \/ \E p \in Queued \cap {t, AnyThread} :
             /\ m_tasks' = [m_tasks EXCEPT ![p] = @ - 1]
             /\ pc' = [pc EXCEPT ![t] = "busy"]
             /\ tickleMe' = [tickleMe EXCEPT ![t] = Queued # {p} \/ m_tasks[p] > 1]
       \/ /\ Queued \cap {t, AnyThread} = {}
          /\ pc' = [pc EXCEPT ![t] = "noTask"]
          /\ tickleMe' = [tickleMe EXCEPT ![t] = Queued # {}]
          /\ UNCHANGED m_tasks
    /\ UNCHANGED <<workVars, pipeVars, idleVars, mainVars, calls>>

(* A step of t that changes nothing but its place.                         *)
goto(t, from, to) ==
    /\ pc[t] = from
    /\ ~tickleMe[t]
    /\ pc' = [pc EXCEPT ![t] = to]

(* The task yields or ends: --m_activeThreadCount.                         *)
taskDone(t) ==
    /\ goto(t, "busy", "scan")
    /\ UNCHANGED <<m_tasks, workVars, pipeVars, idleVars, tickleMe, mainVars, calls>>

idleResume(t) ==
    /\ goto(t, "noTask", IF idleTerm[t] THEN "ended" ELSE "timers")
    /\ UNCHANGED <<m_tasks, workVars, pipeVars, idleVars, tickleMe, mainVars, calls>>

-----------------------------------------------------------------------------
(* Mutation: the maximum is forgotten when there is no timer.              *)
epollTimeout_NoMax(S) ==
    IF S = {} THEN -1 ELSE Min({MaxTimeout, Min({distance[tm] : tm \in S})})

(* A conversion to int.                                                    *)
toInt(n) == IF 2 * (n % IntWord) < IntWord THEN n % IntWord ELSE (n % IntWord) - IntWord

(* The timeout of epoll_wait when the timers in S are armed: the distance  *)
(* of the nearest, cast to int, or MAX_TIMEOUT, whichever is less.         *)
epollTimeout(S) ==
    IF S = {} THEN MaxTimeout
              ELSE Min({MaxTimeout, toInt(Min({distance[tm] : tm \in S}))})

(* Mutation: the count is not looked at.                                   *)
nonePending_Unread == TRUE

nonePending == m_pendingEventCount = 0

(* Mutation: a thread that is idle, as the caller is, counts as active.    *)
SchedulerStopping_IdleToo ==
    m_stopping /\ Queued = {} /\ \A t \in Runners : pc[t] # "busy" /\ pc[t] \notin IdlePCs

(* Scheduler::stopping(); m_activeThreadCount is the number of busy ones.  *)
SchedulerStopping == m_stopping /\ Queued = {} /\ \A t \in Runners : pc[t] # "busy"

(* stopping(timeout): three reads, each under a lock of its own or none.   *)
getNextTimer(t) ==
    /\ goto(t, "timers", IF m_timers = {} THEN "pending" ELSE "wait")
    /\ timeout' = [timeout EXCEPT ![t] = epollTimeout(m_timers)]
    /\ UNCHANGED <<m_tasks, workVars, pipeVars, idleTerm, report, funcs, tickleMe, mainVars, calls>>

readPending(t) ==
    /\ goto(t, "pending", IF nonePending THEN "tasks" ELSE "wait")
    /\ UNCHANGED <<m_tasks, workVars, pipeVars, idleVars, tickleMe, mainVars, calls>>

readTasks(t) ==
    /\ goto(t, "tasks", IF SchedulerStopping THEN "scan" ELSE "wait")
    /\ idleTerm' = [idleTerm EXCEPT ![t] = SchedulerStopping]
    /\ UNCHANGED <<m_tasks, workVars, pipeVars, timeout, report, funcs, tickleMe, mainVars, calls>>

(* Mutation: without EPOLLET every thread is given the event.              *)
unreported_LevelTriggered == m_pendingEventCount > 0

(* There is an event that no thread was given yet.                         *)
unreported == m_pendingEventCount > Cardinality({u \in Runners : report[u] = "event"})

(* epoll_wait: the pipe, which may have been emptied in the meantime, an   *)
(* event that nobody else was given, or the timeout.                       *)
wakeByTickle(t) ==
    /\ edge /\ edge' = FALSE
    /\ goto(t, "wait", IF pipe THEN "woken" ELSE "wait")
    /\ report' = [report EXCEPT ![t] = IF pipe THEN "pipe" ELSE @]
    /\ UNCHANGED <<m_tasks, workVars, pipe, idleTerm, timeout, funcs, tickleMe, mainVars, calls>>

wakeByEvent(t) ==
    /\ unreported
    /\ goto(t, "wait", "woken")
    /\ report' = [report EXCEPT ![t] = "event"]
    /\ UNCHANGED <<m_tasks, workVars, pipeVars, idleTerm, timeout, funcs, tickleMe, mainVars, calls>>

wakeByTimeout(t) ==
    /\ timeout[t] = 0
    /\ goto(t, "wait", "woken")
    /\ UNCHANGED <<m_tasks, workVars, pipeVars, idleVars, tickleMe, mainVars, calls>>

listExpiredFunc(t) ==
    /\ goto(t, "woken", "schedule")
    /\ LET due == {tm \in m_timers : distance[tm] = 0}
       IN  /\ m_timers' = m_timers \ due
           /\ funcs' = [funcs EXCEPT ![t] = Cardinality(due)]
    /\ UNCHANGED <<m_tasks, distance, m_isTickled, m_pendingEventCount, pipeVars, idleTerm,
                   timeout, report, tickleMe, mainVars, calls>>

scheduleFunc(t) ==
    /\ pc[t] = "schedule" /\ funcs[t] > 0 /\ ~tickleMe[t]
    /\ push(t, AnyThread)
    /\ funcs' = [funcs EXCEPT ![t] = @ - 1]
    /\ UNCHANGED <<workVars, pipeVars, pc, idleTerm, timeout, report, mainVars, calls>>

(* What epoll_wait returned; then yield() and --m_idleThreadCount.         *)
drainPipe(t) ==
    /\ report[t] # "event" /\ funcs[t] = 0
    /\ goto(t, "schedule", "scan")
    /\ pipe' = (pipe /\ report[t] # "pipe")
    /\ report' = [report EXCEPT ![t] = "none"]
    /\ UNCHANGED <<m_tasks, workVars, edge, idleTerm, timeout, funcs, tickleMe, mainVars, calls>>

(* triggerEvent(): schedule() first, the count afterwards.                 *)
triggerEvent(t) ==
    /\ report[t] = "event" /\ funcs[t] = 0
    /\ goto(t, "schedule", "dec")
    /\ push(t, AnyThread)
    /\ UNCHANGED <<workVars, pipeVars, idleVars, mainVars, calls>>

decPendingEventCount(t) ==
    /\ goto(t, "dec", "scan")
    /\ m_pendingEventCount' = m_pendingEventCount - 1
    /\ report' = [report EXCEPT ![t] = "none"]
    /\ UNCHANGED <<m_tasks, m_timers, distance, m_isTickled, pipeVars, idleTerm, timeout, funcs,
                   tickleMe, mainVars, calls>>

-----------------------------------------------------------------------------
stop ==
    /\ mpc = "running" /\ ~tickleMe[Main]
    /\ m_stopping' = TRUE
    /\ mpc' = "tickling"
    /\ tickles' = Cardinality(Runners)
    /\ UNCHANGED <<m_tasks, workVars, pipeVars, pc, idleVars, tickleMe, calls>>

stopTickle ==
    /\ mpc = "tickling" /\ tickles > 0
    /\ tickle
    /\ tickles' = tickles - 1
    /\ UNCHANGED <<m_tasks, workVars, pc, idleVars, tickleMe, m_stopping, mpc, calls>>

(* m_rootDoroutine->resume()                                               *)
resumeRoot ==
    /\ mpc = "tickling" /\ tickles = 0
    /\ mpc' = "joining"
    /\ pc' = [t \in Runners |-> IF t = Main THEN "scan" ELSE pc[t]]
    /\ UNCHANGED <<m_tasks, workVars, pipeVars, idleVars, tickleMe, m_stopping, tickles, calls>>

join ==
    /\ mpc = "joining"
    /\ \A t \in Runners : pc[t] = "ended"
    /\ mpc' = "stopped"
    /\ UNCHANGED <<m_tasks, workVars, pipeVars, pc, idleVars, tickleMe, m_stopping, tickles, calls>>

Tick ==
    /\ \/ \E tm \in m_timers : distance[tm] > 0
       \/ \E t \in Runners : pc[t] = "wait" /\ timeout[t] > 0
    /\ distance' = [tm \in Timers |-> Max({0, distance[tm] - 1})]
    /\ timeout' = [t \in Runners |-> IF pc[t] = "wait" /\ timeout[t] > 0 THEN timeout[t] - 1
                                     ELSE timeout[t]]
    /\ UNCHANGED <<m_tasks, m_timers, m_isTickled, m_pendingEventCount, pipeVars, pc, idleTerm,
                   report, funcs, tickleMe, mainVars, calls>>

run(t) ==
    \/ scan(t) \/ taskDone(t) \/ idleResume(t)
    \/ getNextTimer(t) \/ readPending(t) \/ readTasks(t)
    \/ wakeByTickle(t) \/ wakeByTimeout(t) \/ listExpiredFunc(t) \/ scheduleFunc(t)
    \/ drainPipe(t) \/ triggerEvent(t) \/ decPendingEventCount(t)

stopSteps == stopTickle \/ resumeRoot \/ join

Next ==
    \/ \E t \in Runners : run(t) \/ wakeByEvent(t)
    \/ \E t \in Runners \cup {Main} :
          \/ \E p \in PinTo \cup {AnyThread} : schedule(t, p)
          \/ \E tm \in Timers : cancel(t, tm) \/ \E ms \in Distances : addTimer(t, tm, ms)
          \/ addEvent(t) \/ callTickle(t)
    \/ stop \/ stopSteps \/ Tick

Spec == Init /\ [][Next]_vars

FairSpec ==
    /\ Spec
    /\ \A t \in Runners : WF_vars(run(t))
    /\ \A t \in Runners \cup {Main} : WF_vars(callTickle(t))
    /\ WF_vars(stopSteps)
    /\ WF_vars(Tick)

-----------------------------------------------------------------------------
(* stop() does not leave anything behind, although the threads end one     *)
(* after the other, each on reads of the timers, the events and the tasks  *)
(* that it made at different times: as long as there is a timer or event   *)
(* some thread has its idle doroutine, and who could run a task has not    *)
(* returned.                                                               *)
WorkHasThread ==
    /\ m_timers # {} \/ m_pendingEventCount > 0 => \E t \in Runners : ~idleTerm[t]
    /\ \A p \in Queued : \E t \in Runners : p \in {t, AnyThread} /\ pc[t] # "ended"

(* scheduler.cpp:167: if the idle doroutine of a thread has ended, then    *)
(* the scheduler has stopped.                                              *)
IdleEndIsStop ==
    (\E t \in Runners : idleTerm[t]) =>
        m_timers = {} /\ m_pendingEventCount = 0 /\ Queued = {}

(* What wakes nobody is found nevertheless: a task that a worker may run   *)
(* is taken, although schedule() may find no thread counted as idle and    *)
(* several tickles may wake one thread only, and a timer is collected or   *)
(* cancelled, although onTimerInsertedAtFront() is called only once.       *)
WorkIsFound ==
    Workers # {} =>
        /\ \A p \in Workers \cup {AnyThread} : m_tasks[p] > 0 ~> m_tasks[p] = 0
        /\ \A tm \in Timers : tm \in m_timers ~> tm \notin m_timers

(* stop() returns if the descriptors that are waited for become ready.     *)
StopReturns == <>[](m_pendingEventCount = 0) => (m_stopping ~> mpc = "stopped")
=============================================================================
