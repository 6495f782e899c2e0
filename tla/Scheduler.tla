------------------------------ MODULE Scheduler ------------------------------
(***************************************************************************)
(* KSC::Scheduler (src/src/scheduler.cpp, src/include/scheduler.h) and the *)
(* part of KSC::Doroutine it drives: run() on every thread, the task list  *)
(* under m_mtx, the idle doroutine, start() and stop() with and without    *)
(* useCaller, and the two stores that resume() and yield() make around the *)
(* context switch.                                                         *)
(*                                                                         *)
(* A std::function task is the doroutine run() makes for it. tickle() of   *)
(* the base class only logs, so it leaves no trace here.                   *)
(***************************************************************************)
EXTENDS Naturals, Sequences, FiniteSets

CONSTANTS
    Workers,          (* the threads start() creates                         *)
    Main,             (* the thread that owns the Scheduler                  *)
    UseCaller,        (* run() also executes on Main, inside stop()          *)
    Doroutines,       (* the doroutines of the program                       *)
    NoDoroutine,      (* an empty SchedulerTask                              *)
    AnyThread,        (* SchedulerTask::thread = -1                          *)
    WakeWhileRunning, (* may a doroutine be scheduled before it has left its *)
                      (* thread, as schedule(GetThis()); yield() does?       *)
    MaxSchedules      (* bound: calls of schedule() in one behaviour         *)

(* The threads that execute run().                                         *)
Runners == Workers \cup (IF UseCaller THEN {Main} ELSE {})

ASSUME SchedulerAssumption ==
    /\ IsFiniteSet(Workers)
    /\ Main \notin Workers
    /\ UseCaller \in BOOLEAN
    /\ Runners # {}
    /\ AnyThread \notin Runners
    /\ NoDoroutine \notin Doroutines
    /\ WakeWhileRunning \in BOOLEAN
    /\ MaxSchedules \in Nat

VARIABLES
    m_tasks,             (* the list of [doroutine, thread] records           *)
    m_activeThreadCount,
    m_idleThreadCount,
    m_stopping,
    m_state,             (* Doroutine::m_state of every doroutine             *)
    pc,                  (* where each runner is in run(), resume(), yield()  *)
    task,                (* the doroutine run() holds in its local task       *)
    idleTerm,            (* the runner's idle doroutine is TERM               *)
    mpc,                 (* the owner: created, started, stopping, stopped    *)
    schedules            (* calls of schedule() so far                        *)

queueVars == <<m_tasks, schedules>>
countVars == <<m_activeThreadCount, m_idleThreadCount>>
mainVars  == <<m_stopping, mpc>>
vars == <<queueVars, countVars, mainVars, m_state, pc, task, idleTerm>>

(* off: not started; scan: at the lock of run(); resume: a task is taken;  *)
(* body: inside the doroutine; swap: yield() has stored the state and not  *)
(* yet saved the context; dec: back in run(); noTask: no task was found;   *)
(* idle: in the idle doroutine; idleDec: back from it.                     *)
PCs == {"off", "scan", "resume", "body", "swap", "dec",
        "noTask", "idle", "idleDec", "done"}

TypeOK ==
    /\ m_tasks \in Seq([doroutine : Doroutines, thread : Runners \cup {AnyThread}])
    /\ m_activeThreadCount \in Nat
    /\ m_idleThreadCount \in Nat
    /\ m_stopping \in BOOLEAN
    /\ m_state \in [Doroutines -> {"READY", "RUNNING", "TERM"}]
    /\ pc \in [Runners -> PCs]
    /\ task \in [Runners -> Doroutines \cup {NoDoroutine}]
    /\ idleTerm \in [Runners -> BOOLEAN]
    /\ mpc \in {"created", "started", "stopping", "stopped"}
    /\ schedules \in 0..MaxSchedules

Queued(d) == \E i \in DOMAIN m_tasks : m_tasks[i].doroutine = d

(* t executes on d's stack: the context of d is not saved yet.             *)
Executing(t, d) == task[t] = d /\ pc[t] \in {"body", "swap"}

(* From the erase in run() to the matching --m_activeThreadCount.          *)
Active == {t \in Runners : pc[t] \in {"resume", "body", "swap", "dec"}}

Init ==
    /\ m_tasks = <<>>
    /\ m_activeThreadCount = 0
    /\ m_idleThreadCount = 0
    /\ m_stopping = FALSE
    /\ m_state = [d \in Doroutines |-> "READY"]
    /\ pc = [t \in Runners |-> "off"]
    /\ task = [t \in Runners |-> NoDoroutine]
    /\ idleTerm = [t \in Runners |-> FALSE]
    /\ mpc = "created"
    /\ schedules = 0

-----------------------------------------------------------------------------
(* schedule() accepts anything; what the programs of this repository hand   *)
(* it is a doroutine that has not terminated and is not already on its way  *)
(* to a thread, and, unless WakeWhileRunning, one that is suspended.        *)
CanSchedule(d) ==
    /\ schedules < MaxSchedules
    /\ m_state[d] # "TERM"
    /\ ~Queued(d)
    /\ \A t \in Runners : ~(task[t] = d /\ pc[t] = "resume")
    /\ WakeWhileRunning \/ \A t \in Runners : ~Executing(t, d)

schedule(d, thread) ==
    /\ CanSchedule(d)
    /\ m_tasks' = Append(m_tasks, [doroutine |-> d, thread |-> thread])
    /\ schedules' = schedules + 1
    /\ UNCHANGED <<countVars, mainVars, m_state, pc, task, idleTerm>>

(* The owner's program calls schedule() before start() and before stop().  *)
MainSchedule(d, thread) ==
    /\ mpc \in {"created", "started"}
    /\ schedule(d, thread)

(* A running doroutine schedules one, itself included.                     *)
BodySchedule(t, d, thread) ==
    /\ pc[t] = "body"
    /\ schedule(d, thread)

start ==
    /\ mpc = "created"
    /\ mpc' = "started"
    /\ pc' = [t \in Runners |-> IF t \in Workers THEN "scan" ELSE pc[t]]
    /\ UNCHANGED <<queueVars, countVars, m_stopping, m_state, task, idleTerm>>

(* Mutation: a condition of stopping() is forgotten.                       *)
stopping_NoActive == m_stopping /\ m_tasks = <<>>

stopping == m_stopping /\ m_tasks = <<>> /\ m_activeThreadCount = 0

(* stop() up to the join: with useCaller the root doroutine is resumed and *)
(* executes run() on the owner's thread.                                   *)
stop ==
    /\ mpc = "started"
    /\ ~stopping
    /\ m_stopping' = TRUE
    /\ mpc' = "stopping"
    /\ pc' = [t \in Runners |-> IF t = Main THEN "scan" ELSE pc[t]]
    /\ UNCHANGED <<queueVars, countVars, m_state, task, idleTerm>>

join ==
    /\ mpc = "stopping"
    /\ \A t \in Runners : pc[t] = "done"
    /\ mpc' = "stopped"
    /\ UNCHANGED <<queueVars, countVars, m_stopping, m_state, pc, task, idleTerm>>

-----------------------------------------------------------------------------
(* run(): the scan of the list under m_mtx.                                *)
MayTake(t, i) ==
    /\ m_tasks[i].thread \in {AnyThread, t}
    /\ m_state[m_tasks[i].doroutine] # "RUNNING"

(* Mutation: the scan gives up at the head of the list.                    *)
FirstTask_HeadOnly(t, i) == i \in DOMAIN m_tasks /\ i = 1 /\ MayTake(t, i)

FirstTask(t, i) ==
    /\ i \in DOMAIN m_tasks
    /\ MayTake(t, i)
    /\ \A j \in 1 .. i - 1 : ~MayTake(t, j)

(* Mutation: the head is erased, whatever was taken.                       *)
erase_Head(i) == Tail(m_tasks)

(* Mutation: the task is copied and left in the list.                      *)
erase_Nothing(i) == m_tasks

erase(i) == SubSeq(m_tasks, 1, i - 1) \o SubSeq(m_tasks, i + 1, Len(m_tasks))

(* Mutation: the thread is not counted as active.                          *)
TakeTask_Uncounted(t) ==
    /\ pc[t] = "scan"
    /\ \E i \in DOMAIN m_tasks :
          /\ FirstTask(t, i)
          /\ task' = [task EXCEPT ![t] = m_tasks[i].doroutine]
          /\ m_tasks' = erase(i)
    /\ pc' = [pc EXCEPT ![t] = "resume"]
    /\ UNCHANGED <<schedules, countVars, mainVars, m_state, idleTerm>>

TakeTask(t) ==
    /\ pc[t] = "scan"
    /\ \E i \in DOMAIN m_tasks :
          /\ FirstTask(t, i)
          /\ task' = [task EXCEPT ![t] = m_tasks[i].doroutine]
          /\ m_tasks' = erase(i)
    /\ m_activeThreadCount' = m_activeThreadCount + 1
    /\ pc' = [pc EXCEPT ![t] = "resume"]
    /\ UNCHANGED <<schedules, m_idleThreadCount, mainVars, m_state, idleTerm>>

FindNoTask(t) ==
    /\ pc[t] = "scan"
    /\ \A i \in DOMAIN m_tasks : ~FirstTask(t, i)
    /\ pc' = [pc EXCEPT ![t] = "noTask"]
    /\ UNCHANGED <<queueVars, countVars, mainVars, m_state, task, idleTerm>>

(* Doroutine::resume() stores RUNNING and switches to d's context.         *)
resume(t) ==
    /\ pc[t] = "resume"
    /\ m_state' = [m_state EXCEPT ![task[t]] = "RUNNING"]
    /\ pc' = [pc EXCEPT ![t] = "body"]
    /\ UNCHANGED <<queueVars, countVars, mainVars, task, idleTerm>>

(* Doroutine::yield() stores READY first and saves the context after.      *)
yield(t) ==
    /\ pc[t] = "body"
    /\ m_state' = [m_state EXCEPT ![task[t]] = "READY"]
    /\ pc' = [pc EXCEPT ![t] = "swap"]
    /\ UNCHANGED <<queueVars, countVars, mainVars, task, idleTerm>>

(* Doroutine::WorkFunc() after m_func returned. A body that has scheduled  *)
(* itself yields once more before it returns.                              *)
WorkFuncEnds(t) ==
    /\ pc[t] = "body"
    /\ ~Queued(task[t])
    /\ m_state' = [m_state EXCEPT ![task[t]] = "TERM"]
    /\ pc' = [pc EXCEPT ![t] = "swap"]
    /\ UNCHANGED <<queueVars, countVars, mainVars, task, idleTerm>>

swapcontext(t) ==
    /\ pc[t] = "swap"
    /\ pc' = [pc EXCEPT ![t] = "dec"]
    /\ UNCHANGED <<queueVars, countVars, mainVars, m_state, task, idleTerm>>

(* Mutation: the thread stays counted as active.                           *)
TaskDone_StillActive(t) ==
    /\ pc[t] = "dec"
    /\ task' = [task EXCEPT ![t] = NoDoroutine]
    /\ pc' = [pc EXCEPT ![t] = "scan"]
    /\ UNCHANGED <<queueVars, countVars, mainVars, m_state, idleTerm>>

TaskDone(t) ==
    /\ pc[t] = "dec"
    /\ m_activeThreadCount' = m_activeThreadCount - 1
    /\ task' = [task EXCEPT ![t] = NoDoroutine]
    /\ pc' = [pc EXCEPT ![t] = "scan"]
    /\ UNCHANGED <<queueVars, m_idleThreadCount, mainVars, m_state, idleTerm>>

IdleResume(t) ==
    /\ pc[t] = "noTask"
    /\ ~idleTerm[t]
    /\ m_idleThreadCount' = m_idleThreadCount + 1
    /\ pc' = [pc EXCEPT ![t] = "idle"]
    /\ UNCHANGED <<queueVars, m_activeThreadCount, mainVars, m_state, task, idleTerm>>

(* Scheduler::idle(): yield while not stopping(), return (TERM) otherwise. *)
idle(t) ==
    /\ pc[t] = "idle"
    /\ idleTerm' = [idleTerm EXCEPT ![t] = stopping]
    /\ pc' = [pc EXCEPT ![t] = "idleDec"]
    /\ UNCHANGED <<queueVars, countVars, mainVars, m_state, task>>

(* Mutation: the other counter is decremented.                             *)
IdleDone_WrongCounter(t) ==
    /\ pc[t] = "idleDec"
    /\ m_activeThreadCount' = m_activeThreadCount - 1
    /\ pc' = [pc EXCEPT ![t] = "scan"]
    /\ UNCHANGED <<queueVars, m_idleThreadCount, mainVars, m_state, task, idleTerm>>

IdleDone(t) ==
    /\ pc[t] = "idleDec"
    /\ m_idleThreadCount' = m_idleThreadCount - 1
    /\ pc' = [pc EXCEPT ![t] = "scan"]
    /\ UNCHANGED <<queueVars, m_activeThreadCount, mainVars, m_state, task, idleTerm>>

RunReturns(t) ==
    /\ pc[t] = "noTask"
    /\ idleTerm[t]
    /\ pc' = [pc EXCEPT ![t] = "done"]
    /\ UNCHANGED <<queueVars, countVars, mainVars, m_state, task, idleTerm>>

(* What a runner does that does not depend on the program's functions.     *)
run(t) ==
    \/ TakeTask(t)
    \/ FindNoTask(t)
    \/ resume(t)
    \/ swapcontext(t)
    \/ TaskDone(t)
    \/ IdleResume(t)
    \/ idle(t)
    \/ IdleDone(t)
    \/ RunReturns(t)

Next ==
    \/ start
    \/ stop
    \/ join
    \/ \E d \in Doroutines, thread \in Runners \cup {AnyThread} :
          \/ MainSchedule(d, thread)
          \/ \E t \in Runners : BodySchedule(t, d, thread)
    \/ \E t \in Runners : run(t) \/ yield(t) \/ WorkFuncEnds(t)

Spec == Init /\ [][Next]_vars

(* Every thread is scheduled by the operating system, and a task yields or *)
(* returns in the end; nobody is obliged to call schedule() or stop().     *)
Fairness ==
    /\ WF_vars(join)
    /\ \A t \in Runners : /\ WF_vars(run(t))
                          /\ WF_vars(yield(t) \/ WorkFuncEnds(t))

FairSpec == Spec /\ Fairness

-----------------------------------------------------------------------------
(* m_activeThreadCount and m_idleThreadCount, which stopping() and         *)
(* hasIdleThreads() read, count exactly the threads between the increment  *)
(* and the decrement of run(), on every path of its loop.                  *)
CountsExact ==
    /\ m_activeThreadCount = Cardinality(Active)
    /\ m_idleThreadCount = Cardinality({t \in Runners : pc[t] \in {"idle", "idleDec"}})

(* The comment at scheduler.cpp:167: an idle doroutine ends only when the  *)
(* scheduler has stopped. From then on no task is queued, taken or running *)
(* on any thread, so no thread can leave work behind by returning.         *)
StopIsFinal ==
    (\E t \in Runners : idleTerm[t])
        => m_stopping /\ m_tasks = <<>> /\ Active = {}

(* The stack of a doroutine is in use by one thread at most: the RUNNING   *)
(* test of run()'s scan is what keeps a second thread from resuming it.    *)
OneThreadPerDoroutine ==
    \A t, u \in Runners : \A d \in Doroutines :
        Executing(t, d) /\ Executing(u, d) => t = u

(* What a thread takes off the list can be resumed when it gets to it: no  *)
(* other thread ended it or started it between the scan and the resume().  *)
TakenIsReady ==
    \A t \in Runners : pc[t] = "resume" => m_state[task[t]] = "READY"

(* stop() returns: with all the threads gone and all tasks run, however    *)
(* the threads and the late schedule() calls of the tasks interleave.      *)
StopReturns == mpc = "stopping" ~> mpc = "stopped"

(* A task some worker may take leaves the list, even behind tasks that are *)
(* pinned to a thread that will not come for them before stop().           *)
TaskIsTaken ==
    \A d \in Doroutines :
        (/\ mpc = "started"
         /\ \E i \in DOMAIN m_tasks : /\ m_tasks[i].doroutine = d
                                      /\ m_tasks[i].thread # Main
                                      /\ Workers # {})
            ~> ~Queued(d)

(* The scheduler implements the task pool: a doroutine is pending while it *)
(* is listed, a thread is busy with it from the erase to the end of its    *)
(* swapcontext, and the pool is closed when some idle doroutine has ended. *)
Pool == INSTANCE TaskPool WITH
    Threads  <- Runners,
    Tasks    <- Doroutines,
    NoTask   <- NoDoroutine,
    pending  <- {d \in Doroutines : Queued(d)},
    busy     <- [t \in Runners |-> IF pc[t] \in {"resume", "body", "swap"}
                                   THEN task[t] ELSE NoDoroutine],
    closed   <- \E t \in Runners : idleTerm[t],
    returned <- mpc = "stopped"

PoolSpec == Pool!Spec
=============================================================================
