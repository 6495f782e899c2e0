--------------------------- MODULE Scheduler_proofs ---------------------------
(***************************************************************************)
(* Theorems about Scheduler for any number of threads and doroutines, and  *)
(* any bound on schedule() calls.                                          *)
(***************************************************************************)
EXTENDS Scheduler, FiniteSetTheorems, TLAPS

Task == [doroutine : Doroutines, thread : Runners \cup {AnyThread}]

IdleSet == {t \in Runners : pc[t] \in {"idle", "idleDec"}}

(* A thread holds a doroutine exactly while it is counted as active.       *)
TaskHeld ==
    \A t \in Runners :
        task[t] # NoDoroutine <=> pc[t] \in {"resume", "body", "swap", "dec"}

(* How far the owner has come, and what that says about the threads.       *)
Phase ==
    /\ m_stopping <=> mpc \in {"stopping", "stopped"}
    /\ mpc = "created" => \A t \in Runners : pc[t] = "off"
    /\ mpc = "started" /\ UseCaller => pc[Main] = "off"
    /\ \A t \in Runners : pc[t] = "done" => idleTerm[t]
    /\ mpc = "stopped" => \E t \in Runners : idleTerm[t]

Inv == TypeOK /\ TaskHeld /\ Phase /\ CountsExact /\ StopIsFinal

-----------------------------------------------------------------------------
(* What is left of a list after the erase in run(): one task less, the     *)
(* others in their order.                                                  *)
LEMMA EraseLemma ==
    ASSUME NEW S, NEW s \in Seq(S), NEW i \in DOMAIN s
    PROVE  LET e == SubSeq(s, 1, i - 1) \o SubSeq(s, i + 1, Len(s))
           IN  /\ e \in Seq(S)
               /\ Len(e) = Len(s) - 1
               /\ \A j \in 1 .. Len(e) : e[j] = IF j < i THEN s[j] ELSE s[j + 1]
<1> DEFINE a == SubSeq(s, 1, i - 1)
           b == SubSeq(s, i + 1, Len(s))
<1>1. i \in 1 .. Len(s) /\ Len(s) \in Nat
  OBVIOUS
<1>2. a \in Seq(S) /\ Len(a) = i - 1 /\ \A j \in 1 .. i - 1 : a[j] = s[j]
  BY <1>1
<1>3. b \in Seq(S) /\ Len(b) = Len(s) - i /\ \A j \in 1 .. Len(s) - i : b[j] = s[j + i]
  BY <1>1
<1> HIDE DEF a, b
<1>4. a \o b \in Seq(S) /\ Len(a \o b) = Len(s) - 1
  BY <1>1, <1>2, <1>3
<1>5. \A j \in 1 .. Len(s) - 1 : (a \o b)[j] = IF j < i THEN s[j] ELSE s[j + 1]
  <2> TAKE j \in 1 .. Len(s) - 1
  <2>0. j < i \/ j >= i
    BY <1>1
  <2>1. CASE j < i
    BY <2>1, <1>1, <1>2, <1>3
  <2>2. CASE j >= i
    <3>1. (a \o b)[j] = b[j - (i - 1)]
      BY <2>2, <1>1, <1>2, <1>3
    <3>2. j - (i - 1) \in 1 .. Len(s) - i /\ (j - (i - 1)) + i = j + 1
      BY <2>2, <1>1
    <3> QED
      BY <3>1, <3>2, <1>3, <2>2
  <2> QED
    BY <2>0, <2>1, <2>2
<1> QED
  BY <1>4, <1>5 DEF a, b

(* Counting one thread more or less.                                       *)
LEMMA CountLemma ==
    ASSUME NEW S \in SUBSET Runners, NEW t \in Runners
    PROVE  /\ Cardinality(S) \in Nat
           /\ t \notin S => Cardinality(S \cup {t}) = Cardinality(S) + 1
           /\ t \in S => Cardinality(S) - 1 \in Nat /\ Cardinality(S \ {t}) = Cardinality(S) - 1
<1>1. IsFiniteSet(Runners)
  <2>1. IsFiniteSet(Workers \cup {Main})
    BY SchedulerAssumption, FS_AddElement
  <2>2. Runners \in SUBSET (Workers \cup {Main})
    BY DEF Runners
  <2> QED
    BY <2>1, <2>2, FS_Subset
<1>2. IsFiniteSet(S)
  BY <1>1, FS_Subset
<1>3. Cardinality(S) \in Nat /\ Cardinality(S \ {t}) \in Nat
  <2>1. IsFiniteSet(S \ {t})
    BY <1>2, FS_RemoveElement
  <2> QED
    BY <2>1, <1>2, FS_CardinalityType
<1>4. t \notin S => Cardinality(S \cup {t}) = Cardinality(S) + 1
  BY <1>2, FS_AddElement
<1>5. t \in S => Cardinality(S \ {t}) = Cardinality(S) - 1
  BY <1>2, FS_RemoveElement
<1> QED
  BY <1>3, <1>4, <1>5

LEMMA InitInv == Init => Inv
<1> SUFFICES ASSUME Init PROVE Inv
  OBVIOUS
<1> USE DEF Init
<1>1. Active = {} /\ IdleSet = {}
  BY DEF Active, IdleSet
<1>2. CountsExact
  BY <1>1, FS_EmptySet DEF CountsExact, IdleSet
<1>3. TypeOK
  <2>1. m_tasks \in Seq(Task)
    OBVIOUS
  <2>2. schedules \in 0 .. MaxSchedules
    BY SchedulerAssumption
  <2> QED
    BY <2>1, <2>2 DEF TypeOK, PCs, Task
<1>4. TaskHeld /\ StopIsFinal
  BY <1>1 DEF TaskHeld, StopIsFinal
<1>5. Phase
  BY SchedulerAssumption DEF Phase, Runners
<1> QED
  BY <1>2, <1>3, <1>4, <1>5 DEF Inv

(* schedule() keeps the invariant when the pool is not closed, which its   *)
(* two callers know: stop() has not been called, or they run themselves.   *)
LEMMA ScheduleInv ==
    ASSUME Inv, NEW d \in Doroutines, NEW thread \in Runners \cup {AnyThread},
           schedule(d, thread), mpc \in {"created", "started"} \/ Active # {}
    PROVE  Inv'
<1> USE DEF schedule, countVars, mainVars
<1>1. TypeOK'
  <2>1. [doroutine |-> d, thread |-> thread] \in Task
    BY DEF Task
  <2>2. m_tasks' \in Seq(Task)
    BY <2>1 DEF Inv, TypeOK, Task
  <2>3. schedules' \in 0 .. MaxSchedules
    BY SchedulerAssumption DEF Inv, TypeOK, CanSchedule
  <2> QED
    BY <2>2, <2>3 DEF Inv, TypeOK, Task
<1>2. TaskHeld' /\ Phase' /\ CountsExact'
  BY DEF Inv, TaskHeld, Phase, CountsExact, Active
<1>3. StopIsFinal'
  BY DEF Inv, StopIsFinal, Phase, Active
<1> QED
  BY <1>1, <1>2, <1>3 DEF Inv

(* The owner's steps.                                                      *)
LEMMA OwnerInv ==
    ASSUME Inv, start \/ stop \/ join
    PROVE  Inv'
<1> USE DEF Inv, queueVars, countVars
<1>1. CASE start
  <2> USE <1>1 DEF start
  <2>1. TypeOK'
    BY DEF TypeOK, PCs
  <2>2. Active' = Active /\ IdleSet' = IdleSet
    BY DEF Active, IdleSet, Phase, TypeOK
  <2>3. CountsExact'
    BY <2>2 DEF CountsExact, IdleSet
  <2>4. TaskHeld' /\ StopIsFinal'
    BY <2>2 DEF TaskHeld, StopIsFinal, Phase, TypeOK
  <2>5. Phase'
    BY SchedulerAssumption DEF Phase, TypeOK, Runners
  <2> QED
    BY <2>1, <2>3, <2>4, <2>5
<1>2. CASE stop
  <2> USE <1>2 DEF stop
  <2>1. TypeOK'
    BY DEF TypeOK, PCs
  <2>2. Main \in Runners => pc[Main] = "off"
    BY SchedulerAssumption DEF Phase, Runners
  <2>3. Active' = Active /\ IdleSet' = IdleSet
    BY <2>2 DEF Active, IdleSet, TypeOK
  <2>4. CountsExact'
    BY <2>3 DEF CountsExact, IdleSet
  <2>5. TaskHeld' /\ StopIsFinal'
    BY <2>2, <2>3 DEF TaskHeld, StopIsFinal, Phase, TypeOK
  <2>6. Phase'
    BY <2>2 DEF Phase, TypeOK
  <2> QED
    BY <2>1, <2>4, <2>5, <2>6
<1>3. CASE join
  <2> USE <1>3 DEF join
  <2>1. \E t \in Runners : idleTerm[t]
    BY SchedulerAssumption DEF Phase
  <2>2. TypeOK' /\ TaskHeld' /\ CountsExact' /\ StopIsFinal'
    BY DEF TypeOK, TaskHeld, CountsExact, StopIsFinal, Active
  <2>3. Phase'
    BY <2>1 DEF Phase
  <2> QED
    BY <2>2, <2>3
<1> QED
  BY <1>1, <1>2, <1>3
(* A thread that moves from one place to another enters, leaves or stays   *)
(* in the two counted sets.                                                *)
LEMMA MoveLemma ==
    ASSUME TypeOK, NEW t \in Runners, NEW v \in PCs, pc' = [pc EXCEPT ![t] = v]
    PROVE  LET A == {"resume", "body", "swap", "dec"}
               B == {"idle", "idleDec"}
           IN  /\ pc' \in [Runners -> PCs]
               /\ t \in Active <=> pc[t] \in A
               /\ t \in IdleSet <=> pc[t] \in B
               /\ v \in A => Active' = Active \cup {t}
               /\ v \notin A => Active' = Active \ {t}
               /\ (v \in A <=> pc[t] \in A) => Active' = Active
               /\ v \in B => IdleSet' = IdleSet \cup {t}
               /\ v \notin B => IdleSet' = IdleSet \ {t}
               /\ (v \in B <=> pc[t] \in B) => IdleSet' = IdleSet
  BY DEF TypeOK, Active, IdleSet

(* A running thread's move to v keeps what is known of the owner's phase.  *)
LEMMA PhaseLemma ==
    ASSUME Inv, NEW t \in Runners, NEW v \in PCs \ {"off"}, pc[t] \notin {"off", "done"},
           pc' = [pc EXCEPT ![t] = v], UNCHANGED mainVars,
           v = "done" => idleTerm'[t], \A u \in Runners : idleTerm[u] => idleTerm'[u]
    PROVE  Phase'
<1> USE DEF Inv, TypeOK, Phase, mainVars
<1>1. mpc' = "created" => FALSE
  OBVIOUS
<1>2. mpc' = "started" /\ UseCaller => pc'[Main] = "off"
  BY SchedulerAssumption DEF Runners
<1>3. \A u \in Runners : pc'[u] = "done" => idleTerm'[u]
  OBVIOUS
<1> QED
  BY <1>1, <1>2, <1>3

LEMMA TakeInv ==
    ASSUME Inv, NEW t \in Runners, TakeTask(t)
    PROVE  Inv'
<1> USE DEF Inv, TakeTask, mainVars, queueVars
<1> PICK i \in DOMAIN m_tasks : /\ FirstTask(t, i)
                                /\ task' = [task EXCEPT ![t] = m_tasks[i].doroutine]
                                /\ m_tasks' = erase(i)
  OBVIOUS
<1>1. m_tasks \in Seq(Task) /\ m_tasks[i] \in Task
  <2>1. m_tasks \in Seq(Task)
    BY DEF TypeOK, Task
  <2> HIDE DEF Inv, TakeTask
  <2> QED
    BY <2>1
<1>2. m_tasks' \in Seq(Task)
  BY <1>1, EraseLemma DEF erase
<1>3. /\ Active' = Active \cup {t} /\ t \notin Active
      /\ IdleSet' = IdleSet
      /\ pc' \in [Runners -> PCs]
  <2>1. pc' = [pc EXCEPT ![t] = "resume"] /\ "resume" \in PCs /\ pc[t] = "scan" /\ TypeOK
    BY DEF PCs
  <2> HIDE DEF Inv, TakeTask
  <2> QED
    BY <2>1, MoveLemma
<1>4. CountsExact'
  <2>1. Active \in SUBSET Runners
    BY DEF Active
  <2> QED
    BY <1>3, <2>1, CountLemma DEF CountsExact, IdleSet
<1>5. TypeOK'
  <2>1. m_activeThreadCount' \in Nat /\ task' \in [Runners -> Doroutines \cup {NoDoroutine}]
    BY <1>1 DEF TypeOK, Task
  <2> QED
    BY <1>2, <1>3, <2>1 DEF TypeOK, Task
<1>6. TaskHeld'
  BY <1>1, SchedulerAssumption DEF TaskHeld, TypeOK, Task
<1>7. Phase'
  BY PhaseLemma DEF PCs
<1>8. StopIsFinal'
  BY <1>1 DEF StopIsFinal
<1> QED
  BY <1>4, <1>5, <1>6, <1>7, <1>8

(* A thread that holds a doroutine keeps it, or gives it up in TaskDone.   *)
LEMMA HoldInv ==
    ASSUME Inv, NEW t \in Runners,
           resume(t) \/ yield(t) \/ WorkFuncEnds(t) \/ swapcontext(t)
    PROVE  Inv'
<1> USE DEF Inv, mainVars, queueVars, countVars
<1>1. PICK v \in {"body", "swap", "dec"} : pc' = [pc EXCEPT ![t] = v]
  BY DEF resume, yield, WorkFuncEnds, swapcontext
<1>2. /\ pc[t] \in {"resume", "body", "swap"}
      /\ UNCHANGED <<queueVars, countVars, mainVars, task, idleTerm>>
  BY DEF resume, yield, WorkFuncEnds, swapcontext
<1>3. task[t] \in Doroutines
  BY <1>2 DEF TaskHeld, TypeOK
<1>4. m_state' \in [Doroutines -> {"READY", "RUNNING", "TERM"}]
  BY <1>3 DEF TypeOK, resume, yield, WorkFuncEnds, swapcontext
<1>5. Active' = Active /\ IdleSet' = IdleSet /\ t \in Active
  <2>1. v \in PCs /\ TypeOK
    BY DEF PCs
  <2> HIDE DEF Inv
  <2> QED
    BY <1>1, <1>2, <2>1, MoveLemma
<1>6. TypeOK'
  BY <1>1, <1>2, <1>4, MoveLemma DEF TypeOK, PCs
<1>7. CountsExact' /\ StopIsFinal'
  BY <1>2, <1>5 DEF CountsExact, IdleSet, StopIsFinal
<1>8. TaskHeld'
  BY <1>1, <1>2 DEF TaskHeld, TypeOK
<1>9. Phase'
  BY <1>1, <1>2, PhaseLemma DEF PCs
<1> QED
  BY <1>6, <1>7, <1>8, <1>9

LEMMA TaskDoneInv ==
    ASSUME Inv, NEW t \in Runners, TaskDone(t)
    PROVE  Inv'
<1> USE DEF Inv, TaskDone, mainVars, queueVars
<1>1. /\ Active' = Active \ {t} /\ t \in Active
      /\ IdleSet' = IdleSet
      /\ pc' \in [Runners -> PCs]
  <2>1. pc' = [pc EXCEPT ![t] = "scan"] /\ "scan" \in PCs /\ pc[t] = "dec" /\ TypeOK
    BY DEF PCs
  <2> HIDE DEF Inv, TaskDone
  <2> QED
    BY <2>1, MoveLemma
<1>2. CountsExact' /\ m_activeThreadCount' \in Nat
  <2>1. Active \in SUBSET Runners
    BY DEF Active
  <2> QED
    BY <1>1, <2>1, CountLemma DEF CountsExact, IdleSet
<1>3. TypeOK'
  BY <1>1, <1>2 DEF TypeOK
<1>4. TaskHeld' /\ StopIsFinal'
  BY <1>1 DEF TaskHeld, TypeOK, StopIsFinal
<1>5. Phase'
  BY PhaseLemma DEF PCs
<1> QED
  BY <1>2, <1>3, <1>4, <1>5

(* The steps of a thread that found no task.                               *)
LEMMA IdleInv ==
    ASSUME Inv, NEW t \in Runners,
           FindNoTask(t) \/ IdleResume(t) \/ idle(t) \/ IdleDone(t) \/ RunReturns(t)
    PROVE  Inv'
<1> USE DEF Inv, mainVars, queueVars, countVars
<1>1. PICK v \in {"noTask", "idle", "idleDec", "scan", "done"} : pc' = [pc EXCEPT ![t] = v]
  BY DEF FindNoTask, IdleResume, idle, IdleDone, RunReturns
<1>2. /\ pc[t] \in {"scan", "noTask", "idle", "idleDec"}
      /\ UNCHANGED <<queueVars, m_activeThreadCount, mainVars, m_state, task>>
  BY DEF FindNoTask, IdleResume, idle, IdleDone, RunReturns
<1>3. /\ Active' = Active
      /\ v \in {"idle", "idleDec"} => IdleSet' = IdleSet \cup {t}
      /\ v \notin {"idle", "idleDec"} => IdleSet' = IdleSet \ {t}
      /\ (v \in {"idle", "idleDec"} <=> pc[t] \in {"idle", "idleDec"}) => IdleSet' = IdleSet
      /\ t \in IdleSet <=> pc[t] \in {"idle", "idleDec"}
  <2>1. v \in PCs /\ TypeOK
    BY DEF PCs
  <2> HIDE DEF Inv
  <2> QED
    BY <1>1, <1>2, <2>1, MoveLemma
<1>4. IdleSet \in SUBSET Runners
  BY DEF IdleSet
<1>5. CountsExact' /\ m_idleThreadCount' \in Nat
  <2>1. /\ m_idleThreadCount' = Cardinality(IdleSet')
        /\ m_idleThreadCount' \in Nat
    <3>1. CASE FindNoTask(t)
      BY <3>1, <1>1, <1>3, <1>4, CountLemma DEF FindNoTask, CountsExact, IdleSet, TypeOK
    <3>2. CASE IdleResume(t)
      <4>1. v = "idle" /\ pc[t] = "noTask"
        BY <3>2, <1>1 DEF IdleResume, TypeOK
      <4>2. IdleSet' = IdleSet \cup {t} /\ t \notin IdleSet
        BY <4>1, <1>3
      <4>3. m_idleThreadCount = Cardinality(IdleSet)
        BY DEF CountsExact, IdleSet
      <4>4. m_idleThreadCount' = m_idleThreadCount + 1
        BY <3>2 DEF IdleResume
      <4> HIDE DEF Inv
      <4> QED
        BY <4>2, <4>3, <4>4, <1>4, CountLemma
    <3>3. CASE idle(t)
      BY <3>3, <1>1, <1>3, <1>4, CountLemma DEF idle, CountsExact, IdleSet, TypeOK
    <3>4. CASE IdleDone(t)
      <4>1. v = "scan" /\ pc[t] = "idleDec"
        BY <3>4, <1>1 DEF IdleDone, TypeOK
      <4>2. IdleSet' = IdleSet \ {t} /\ t \in IdleSet
        BY <4>1, <1>3
      <4>3. m_idleThreadCount = Cardinality(IdleSet)
        BY DEF CountsExact, IdleSet
      <4>4. m_idleThreadCount' = m_idleThreadCount - 1
        BY <3>4 DEF IdleDone
      <4> HIDE DEF Inv
      <4> QED
        BY <4>2, <4>3, <4>4, <1>4, CountLemma
    <3>5. CASE RunReturns(t)
      BY <3>5, <1>1, <1>3, <1>4, CountLemma DEF RunReturns, CountsExact, IdleSet, TypeOK
    <3> QED
      BY <3>1, <3>2, <3>3, <3>4, <3>5
  <2> QED
    BY <2>1, <1>2, <1>3 DEF CountsExact, IdleSet
<1>6. /\ idleTerm' \in [Runners -> BOOLEAN]
      /\ \A u \in Runners : idleTerm[u] => idleTerm'[u]
      /\ (\E u \in Runners : idleTerm'[u]) => stopping \/ \E u \in Runners : idleTerm[u]
      /\ v = "done" => idleTerm'[t]
  <2>1. CASE idle(t)
    <3>1. stopping \in BOOLEAN
      BY DEF stopping, TypeOK
    <3>2. idleTerm[t] => stopping
      <4>1. Active = {} => Cardinality(Active) = 0
        BY FS_EmptySet
      <4> QED
        BY <4>1 DEF StopIsFinal, stopping, CountsExact
    <3> QED
      BY <2>1, <3>1, <3>2, <1>1 DEF idle, TypeOK
  <2>2. CASE ~idle(t)
    BY <2>2, <1>1 DEF FindNoTask, IdleResume, IdleDone, RunReturns, TypeOK
  <2> QED
    BY <2>1, <2>2
<1>7. TypeOK'
  BY <1>1, <1>2, <1>5, <1>6, MoveLemma DEF TypeOK, PCs
<1>8. TaskHeld'
  BY <1>1, <1>2 DEF TaskHeld, TypeOK
<1>9. StopIsFinal'
  <2>1. stopping => Active = {}
    <3>1. IsFiniteSet(Active)
      <4>1. IsFiniteSet(Workers \cup {Main})
        BY SchedulerAssumption, FS_AddElement
      <4>2. Active \in SUBSET (Workers \cup {Main})
        BY DEF Active, Runners
      <4> QED
        BY <4>1, <4>2, FS_Subset
    <3> QED
      BY <3>1, FS_EmptySet DEF stopping, CountsExact
  <2> QED
    BY <2>1, <1>2, <1>3, <1>6 DEF StopIsFinal, stopping
<1>10. Phase'
  BY <1>1, <1>2, <1>6, PhaseLemma DEF PCs
<1> QED
  BY <1>5, <1>7, <1>8, <1>9, <1>10

LEMMA NextInv == Inv /\ [Next]_vars => Inv'
<1> SUFFICES ASSUME Inv, [Next]_vars PROVE Inv'
  OBVIOUS
<1>1. CASE start \/ stop \/ join
  BY <1>1, OwnerInv
<1>2. ASSUME NEW d \in Doroutines, NEW thread \in Runners \cup {AnyThread},
             MainSchedule(d, thread)
      PROVE  Inv'
  BY <1>2, ScheduleInv DEF MainSchedule
<1>3. ASSUME NEW d \in Doroutines, NEW thread \in Runners \cup {AnyThread},
             NEW t \in Runners, BodySchedule(t, d, thread)
      PROVE  Inv'
  BY <1>3, ScheduleInv DEF BodySchedule, Active
<1>4. ASSUME NEW t \in Runners, run(t) \/ yield(t) \/ WorkFuncEnds(t)
      PROVE  Inv'
  BY <1>4, TakeInv, HoldInv, TaskDoneInv, IdleInv DEF run
<1>5. CASE UNCHANGED vars
  BY <1>5 DEF vars, queueVars, countVars, mainVars, Inv, TypeOK, TaskHeld, Phase,
              CountsExact, StopIsFinal, Active
<1> QED
  BY <1>1, <1>2, <1>3, <1>4, <1>5 DEF Next

THEOREM Invariance == Spec => []Inv
  BY InitInv, NextInv, PTL DEF Spec

-----------------------------------------------------------------------------
(* The type invariant: in particular the two unsigned counters never go    *)
(* below zero.                                                             *)
THEOREM TypeCorrect == Spec => []TypeOK
  BY Invariance, PTL DEF Inv

(* The counters that stopping() and hasIdleThreads() read are exact.       *)
THEOREM CountsCorrect == Spec => []CountsExact
  BY Invariance, PTL DEF Inv

(* Once an idle doroutine has ended, nothing is queued or held, for ever.  *)
THEOREM StopFinal == Spec => []StopIsFinal
  BY Invariance, PTL DEF Inv
-----------------------------------------------------------------------------
(* The handover of a doroutine between threads, when nobody schedules one  *)
(* that has not left its thread: a listed doroutine is listed once, READY, *)
(* and in no thread's hands; a held one is in one thread's hands.          *)
InHand(t, d) == task[t] = d /\ pc[t] \in {"resume", "body", "swap"}

ListedOnce ==
    \A i, j \in DOMAIN m_tasks :
        m_tasks[i].doroutine = m_tasks[j].doroutine => i = j

ListedIsFree ==
    \A i \in DOMAIN m_tasks :
        /\ m_state[m_tasks[i].doroutine] = "READY"
        /\ \A t \in Runners : ~InHand(t, m_tasks[i].doroutine)

HeldOnce ==
    \A t, u \in Runners : \A d \in Doroutines : InHand(t, d) /\ InHand(u, d) => t = u

RunningIsHeld ==
    \A d \in Doroutines :
        m_state[d] = "RUNNING" => \E t \in Runners : task[t] = d /\ pc[t] = "body"

Handover == ListedOnce /\ ListedIsFree /\ HeldOnce /\ RunningIsHeld /\ TakenIsReady

LEMMA InitHandover == Init => Handover
  BY DEF Init, Handover, ListedOnce, ListedIsFree, HeldOnce, RunningIsHeld, TakenIsReady, InHand

LEMMA ScheduleHandover ==
    ASSUME TypeOK, Handover, WakeWhileRunning = FALSE, NEW d \in Doroutines,
           NEW thread \in Runners \cup {AnyThread}, schedule(d, thread)
    PROVE  Handover'
<1> DEFINE x == [doroutine |-> d, thread |-> thread]
<1>1. /\ m_tasks' = Append(m_tasks, x) /\ x \in Task /\ m_tasks \in Seq(Task)
      /\ UNCHANGED <<m_state, pc, task>>
  BY DEF schedule, TypeOK, Task
<1>2. /\ DOMAIN m_tasks' = 1 .. Len(m_tasks) + 1
      /\ DOMAIN m_tasks = 1 .. Len(m_tasks) /\ Len(m_tasks) \in Nat
      /\ \A i \in DOMAIN m_tasks : m_tasks'[i] = m_tasks[i]
      /\ m_tasks'[Len(m_tasks) + 1] = x
  <2> HIDE DEF x
  <2> QED
    BY <1>1
<1>3. /\ \A i \in DOMAIN m_tasks : m_tasks[i].doroutine # d
      /\ \A t \in Runners : ~InHand(t, d)
      /\ m_state[d] # "TERM"
  BY DEF schedule, CanSchedule, Queued, Executing, InHand
<1>4. m_state[d] = "READY"
  BY <1>3 DEF Handover, RunningIsHeld, InHand, TypeOK
<1>5. x.doroutine = d
  OBVIOUS
<1> HIDE DEF x
<1>6. ListedOnce'
  BY <1>2, <1>3, <1>5 DEF Handover, ListedOnce
<1>7. ListedIsFree'
  BY <1>1, <1>2, <1>3, <1>4, <1>5 DEF Handover, ListedIsFree, InHand
<1>8. HeldOnce' /\ RunningIsHeld' /\ TakenIsReady'
  BY <1>1 DEF Handover, HeldOnce, RunningIsHeld, TakenIsReady, InHand
<1> QED
  BY <1>6, <1>7, <1>8 DEF Handover

LEMMA TakeHandover ==
    ASSUME TypeOK, TaskHeld, Handover, NEW t \in Runners, TakeTask(t)
    PROVE  Handover'
<1> PICK i \in DOMAIN m_tasks : /\ task' = [task EXCEPT ![t] = m_tasks[i].doroutine]
                                /\ m_tasks' = erase(i)
  BY DEF TakeTask
<1> DEFINE d == m_tasks[i].doroutine
<1>1. /\ m_tasks \in Seq(Task)
      /\ pc[t] = "scan" /\ pc' = [pc EXCEPT ![t] = "resume"]
      /\ m_state' = m_state
  BY DEF TypeOK, Task, TakeTask
<1>2. /\ DOMAIN m_tasks = 1 .. Len(m_tasks) /\ Len(m_tasks) \in Nat
      /\ DOMAIN m_tasks' = 1 .. Len(m_tasks) - 1
      /\ \A j \in DOMAIN m_tasks' : m_tasks'[j] = IF j < i THEN m_tasks[j] ELSE m_tasks[j + 1]
  <2>1. Len(m_tasks') = Len(m_tasks) - 1 /\ m_tasks' \in Seq(Task)
    BY <1>1, EraseLemma DEF erase
  <2>2. \A j \in 1 .. Len(m_tasks') : m_tasks'[j] = IF j < i THEN m_tasks[j] ELSE m_tasks[j + 1]
    BY <1>1, EraseLemma DEF erase
  <2> QED
    BY <1>1, <2>1, <2>2
<1>3. \A j \in DOMAIN m_tasks' : \E k \in DOMAIN m_tasks :
          k # i /\ m_tasks'[j] = m_tasks[k] /\ k = IF j < i THEN j ELSE j + 1
  BY <1>2
<1>4. ListedOnce'
  <2> SUFFICES ASSUME NEW j1 \in DOMAIN m_tasks', NEW j2 \in DOMAIN m_tasks',
                      m_tasks'[j1].doroutine = m_tasks'[j2].doroutine
               PROVE  j1 = j2
    BY DEF ListedOnce
  <2>1. (IF j1 < i THEN j1 ELSE j1 + 1) = (IF j2 < i THEN j2 ELSE j2 + 1)
    BY <1>3 DEF Handover, ListedOnce
  <2> QED
    BY <2>1, <1>2
<1>5. /\ d \in Doroutines
      /\ m_state[d] = "READY"
      /\ \A u \in Runners : ~InHand(u, d)
  <2>1. m_tasks[i] \in Task
    BY <1>1
  <2> QED
    BY <2>1 DEF Handover, ListedIsFree, Task
<1>6. \A u \in Runners : u # t => task'[u] = task[u] /\ pc'[u] = pc[u]
  BY <1>1 DEF TypeOK
<1>7. task'[t] = d /\ pc'[t] = "resume"
  BY <1>1 DEF TypeOK
<1>8. ListedIsFree'
  <2> SUFFICES ASSUME NEW j \in DOMAIN m_tasks' 
               PROVE  /\ m_state[m_tasks'[j].doroutine] = "READY"
                      /\ \A u \in Runners :
                            ~(/\ task'[u] = m_tasks'[j].doroutine
                              /\ pc'[u] \in {"resume", "body", "swap"})
    BY <1>1 DEF ListedIsFree, InHand
  <2> PICK k \in DOMAIN m_tasks : k # i /\ m_tasks'[j] = m_tasks[k]
    BY <1>3
  <2>1. m_tasks[k].doroutine # d
    BY DEF Handover, ListedOnce
  <2> QED
    BY <2>1, <1>6, <1>7 DEF Handover, ListedIsFree, InHand
<1>9. HeldOnce'
  BY <1>5, <1>6, <1>7 DEF Handover, HeldOnce, InHand
<1>10. RunningIsHeld' /\ TakenIsReady'
  BY <1>1, <1>5, <1>6, <1>7 DEF Handover, RunningIsHeld, TakenIsReady, InHand
<1> QED
  BY <1>4, <1>8, <1>9, <1>10 DEF Handover

LEMMA HoldHandover ==
    ASSUME TypeOK, TaskHeld, Handover, NEW t \in Runners,
           resume(t) \/ yield(t) \/ WorkFuncEnds(t) \/ swapcontext(t)
    PROVE  Handover'
<1> DEFINE d == task[t]
<1>1. /\ pc[t] \in {"resume", "body", "swap"} /\ UNCHANGED <<m_tasks, task>>
      /\ \A u \in Runners : u # t => pc'[u] = pc[u]
      /\ pc'[t] \in {"body", "swap", "dec"}
      /\ pc'[t] = "body" <=> resume(t)
  BY DEF resume, yield, WorkFuncEnds, swapcontext, queueVars, TypeOK
<1>2. d \in Doroutines /\ InHand(t, d)
  BY <1>1 DEF TaskHeld, TypeOK, InHand
<1>3. /\ \A e \in Doroutines : e # d => m_state'[e] = m_state[e]
      /\ m_state'[d] = "RUNNING" => resume(t) \/ (swapcontext(t) /\ m_state[d] = "RUNNING")
  BY <1>2 DEF resume, yield, WorkFuncEnds, swapcontext, TypeOK
<1>4. \A u \in Runners : u # t => ~InHand(u, d)
  BY <1>2 DEF Handover, HeldOnce
<1>5. ListedOnce' /\ HeldOnce'
  BY <1>1 DEF Handover, ListedOnce, HeldOnce, InHand
<1>6. ListedIsFree'
  <2> SUFFICES ASSUME NEW i \in DOMAIN m_tasks
               PROVE  /\ m_state'[m_tasks[i].doroutine] = "READY"
                      /\ \A u \in Runners : ~InHand(u, m_tasks[i].doroutine)'
    BY <1>1 DEF ListedIsFree
  <2>1. m_tasks[i].doroutine # d /\ m_tasks[i].doroutine \in Doroutines
    <3>1. m_tasks \in Seq(Task)
      BY DEF TypeOK, Task
    <3>2. m_tasks[i] \in Task
      BY <3>1
    <3> QED
      BY <3>2, <1>2 DEF Handover, ListedIsFree, Task
  <2> QED
    BY <2>1, <1>1, <1>3 DEF Handover, ListedIsFree, InHand
<1>7. RunningIsHeld'
  <2> SUFFICES ASSUME NEW e \in Doroutines, m_state'[e] = "RUNNING"
               PROVE  \E u \in Runners : task'[u] = e /\ pc'[u] = "body"
    BY DEF RunningIsHeld
  <2>1. CASE e # d
    BY <2>1, <1>1, <1>3 DEF Handover, RunningIsHeld
  <2>2. CASE e = d /\ resume(t)
    BY <2>2, <1>1
  <2>3. CASE e = d /\ swapcontext(t) /\ m_state[d] = "RUNNING"
    BY <2>3, <1>1, <1>2, <1>4 DEF Handover, RunningIsHeld, InHand, swapcontext
  <2> QED
    BY <2>1, <2>2, <2>3, <1>3
<1>8. TakenIsReady'
  <2> SUFFICES ASSUME NEW u \in Runners, pc'[u] = "resume"
               PROVE  m_state'[task[u]] = "READY"
    BY <1>1 DEF TakenIsReady
  <2>1. u # t /\ pc[u] = "resume"
    BY <1>1
  <2>2. task[u] \in Doroutines /\ task[u] # d
    BY <2>1, <1>4 DEF TaskHeld, TypeOK, InHand
  <2> QED
    BY <2>1, <2>2, <1>3 DEF Handover, TakenIsReady
<1> QED
  BY <1>5, <1>6, <1>7, <1>8 DEF Handover

LEMMA NextHandover ==
    WakeWhileRunning = FALSE /\ Inv /\ Handover /\ [Next]_vars => Handover'
<1> SUFFICES ASSUME WakeWhileRunning = FALSE, Inv, Handover, [Next]_vars PROVE Handover'
  OBVIOUS
<1> USE DEF Inv
<1>1. ASSUME NEW d \in Doroutines, NEW thread \in Runners \cup {AnyThread},
             MainSchedule(d, thread) \/ \E t \in Runners : BodySchedule(t, d, thread)
      PROVE  Handover'
  BY <1>1, ScheduleHandover DEF MainSchedule, BodySchedule
<1>2. ASSUME NEW t \in Runners, TakeTask(t)
      PROVE  Handover'
  BY <1>2, TakeHandover
<1>3. ASSUME NEW t \in Runners, resume(t) \/ yield(t) \/ WorkFuncEnds(t) \/ swapcontext(t)
      PROVE  Handover'
  BY <1>3, HoldHandover
<1>4. ASSUME UNCHANGED <<m_tasks, m_state>>,
             \A u \in Runners : pc'[u] \in {"resume", "body", "swap"} =>
                                    pc'[u] = pc[u] /\ task'[u] = task[u],
             \A u \in Runners : pc[u] = "body" => pc'[u] = "body" /\ task'[u] = task[u]
      PROVE  Handover'
  BY <1>4 DEF Handover, ListedOnce, ListedIsFree, HeldOnce, RunningIsHeld, TakenIsReady, InHand
<1>5. ASSUME NEW t \in Runners,
             \/ FindNoTask(t) \/ IdleResume(t) \/ idle(t) \/ IdleDone(t)
             \/ RunReturns(t) \/ TaskDone(t)
      PROVE  Handover'
  BY <1>4, <1>5 DEF FindNoTask, IdleResume, idle, IdleDone, RunReturns, TaskDone,
                    queueVars, TypeOK
<1>6. ASSUME start \/ stop \/ join
      PROVE  Handover'
  BY <1>4, <1>6, SchedulerAssumption DEF start, stop, join, queueVars, TypeOK, Phase, Runners
<1>7. CASE UNCHANGED vars
  BY <1>4, <1>7 DEF vars, queueVars, countVars, mainVars
<1> QED
  BY <1>1, <1>2, <1>3, <1>5, <1>6, <1>7 DEF Next, run

(* Under that discipline two threads are never on one stack, and what a    *)
(* thread took is still READY when it resumes it.                          *)
THEOREM OneThread ==
    ASSUME WakeWhileRunning = FALSE
    PROVE  Spec => [](OneThreadPerDoroutine /\ TakenIsReady)
<1>1. Inv /\ Handover /\ [Next]_vars => (Inv /\ Handover)'
  BY NextInv, NextHandover
<1>2. Handover => OneThreadPerDoroutine /\ TakenIsReady
  BY DEF Handover, HeldOnce, InHand, OneThreadPerDoroutine, Executing
<1> QED
  BY InitInv, InitHandover, <1>1, <1>2, PTL DEF Spec
-----------------------------------------------------------------------------
(* The refinement: the state of the task pool as Pool's WITH clause sees it.*)
Pending  == {d \in Doroutines : Queued(d)}
Busy     == [t \in Runners |-> IF pc[t] \in {"resume", "body", "swap"}
                               THEN task[t] ELSE NoDoroutine]
Closed   == \E t \in Runners : idleTerm[t]
Returned == mpc = "stopped"

LEMMA PoolInit == Init => Pool!Init
  BY SchedulerAssumption DEF Init, Pool!Init, Queued

(* Steps that move nothing the pool sees.                                  *)
LEMMA PoolStutter ==
    ASSUME UNCHANGED <<Pending, Busy, Closed, Returned>>
    PROVE  UNCHANGED Pool!poolVars
  BY DEF Pool!poolVars, Pending, Busy, Closed, Returned

LEMMA PoolSubmit ==
    ASSUME Inv, NEW d \in Doroutines, NEW thread \in Runners \cup {AnyThread},
           schedule(d, thread), mpc \in {"created", "started"} \/ Active # {}
    PROVE  Pool!Submit(d)
<1>1. ~Closed
  BY DEF Inv, StopIsFinal, Phase, Closed
<1>2. d \notin Pending
  BY DEF schedule, CanSchedule, Pending
<1>3. Pending' = Pending \cup {d}
  <2> DEFINE x == [doroutine |-> d, thread |-> thread]
  <2>1. m_tasks \in Seq(Task) /\ x \in Task /\ m_tasks' = Append(m_tasks, x) /\ x.doroutine = d
    BY DEF Inv, TypeOK, Task, schedule
  <2> HIDE DEF x
  <2>2. /\ DOMAIN m_tasks' = 1 .. Len(m_tasks) + 1
        /\ DOMAIN m_tasks = 1 .. Len(m_tasks) /\ Len(m_tasks) \in Nat
        /\ \A i \in DOMAIN m_tasks : m_tasks'[i] = m_tasks[i]
        /\ m_tasks'[Len(m_tasks) + 1] = x
    BY <2>1
  <2>3. \A e \in Doroutines : Queued(e)' <=> Queued(e) \/ e = d
    BY <2>1, <2>2 DEF Queued
  <2> QED
    BY <2>3 DEF Pending
<1>4. UNCHANGED <<Busy, Closed, Returned>>
  BY DEF schedule, mainVars, Busy, Closed, Returned
<1> QED
  BY <1>1, <1>2, <1>3, <1>4 DEF Pool!Submit, Pending, Busy, Closed, Returned

LEMMA PoolBegin ==
    ASSUME Inv, Handover, NEW t \in Runners, TakeTask(t)
    PROVE  \E d \in Doroutines : Pool!Begin(t, d)
<1> PICK i \in DOMAIN m_tasks : /\ task' = [task EXCEPT ![t] = m_tasks[i].doroutine]
                                /\ m_tasks' = erase(i)
  BY DEF TakeTask
<1>1. /\ m_tasks \in Seq(Task)
      /\ pc[t] = "scan" /\ pc' = [pc EXCEPT ![t] = "resume"]
      /\ UNCHANGED <<idleTerm, mpc>>
  BY DEF Inv, TypeOK, Task, TakeTask, mainVars
<1>2. m_tasks[i] \in Task
  BY <1>1
<1> PICK d \in Doroutines : d = m_tasks[i].doroutine
  BY <1>2 DEF Task
<1>3. d \in Pending
  BY DEF Pending, Queued
<1>4. /\ DOMAIN m_tasks = 1 .. Len(m_tasks) /\ Len(m_tasks) \in Nat
      /\ DOMAIN m_tasks' = 1 .. Len(m_tasks) - 1
      /\ \A j \in DOMAIN m_tasks' : m_tasks'[j] = IF j < i THEN m_tasks[j] ELSE m_tasks[j + 1]
  <2>1. Len(m_tasks') = Len(m_tasks) - 1 /\ m_tasks' \in Seq(Task)
    BY <1>1, EraseLemma DEF erase
  <2>2. \A j \in 1 .. Len(m_tasks') : m_tasks'[j] = IF j < i THEN m_tasks[j] ELSE m_tasks[j + 1]
    BY <1>1, EraseLemma DEF erase
  <2> QED
    BY <1>1, <2>1, <2>2
<1>5. Pending' = Pending \ {d}
  <2>1. \A j \in DOMAIN m_tasks' : \E k \in DOMAIN m_tasks : k # i /\ m_tasks'[j] = m_tasks[k]
    BY <1>4
  <2>2. \A k \in DOMAIN m_tasks : k # i => \E j \in DOMAIN m_tasks' : m_tasks'[j] = m_tasks[k]
    <3> TAKE k \in DOMAIN m_tasks
    <3>1. CASE k < i
      BY <3>1, <1>4
    <3>2. CASE k > i
      <4>1. k - 1 \in DOMAIN m_tasks' /\ m_tasks'[k - 1] = m_tasks[k]
        BY <3>2, <1>4
      <4> QED
        BY <4>1
    <3>3. k < i \/ k > i \/ k = i
      BY <1>4
    <3> QED
      BY <3>1, <3>2, <3>3
  <2>3. \A k \in DOMAIN m_tasks : k # i => m_tasks[k].doroutine # d
    BY DEF Handover, ListedOnce
  <2>4. \A e \in Doroutines : Queued(e)' <=> Queued(e) /\ e # d
    BY <2>1, <2>2, <2>3 DEF Queued
  <2> QED
    BY <2>4 DEF Pending
<1>6. \A u \in Runners : Busy[u] # d
  BY <1>3, SchedulerAssumption DEF Busy, Handover, ListedIsFree, InHand
<1>7. Busy[t] = NoDoroutine /\ Busy' = [Busy EXCEPT ![t] = d]
  BY <1>1 DEF Busy, Inv, TypeOK
<1>8. UNCHANGED <<Closed, Returned>>
  BY <1>1 DEF Closed, Returned
<1>9. Pool!Begin(t, d)
  BY <1>3, <1>5, <1>6, <1>7, <1>8 DEF Pool!Begin, Pending, Busy, Closed, Returned
<1> QED
  BY <1>9

LEMMA PoolEnd ==
    ASSUME Inv, NEW t \in Runners, swapcontext(t)
    PROVE  Pool!End(t)
<1>1. Busy[t] # NoDoroutine /\ Busy' = [Busy EXCEPT ![t] = NoDoroutine]
  BY DEF swapcontext, Busy, Inv, TaskHeld, TypeOK
<1>2. UNCHANGED <<Pending, Closed, Returned>>
  BY DEF swapcontext, queueVars, mainVars, Pending, Queued, Closed, Returned
<1> QED
  BY <1>1, <1>2 DEF Pool!End, Pending, Busy, Closed, Returned

LEMMA PoolIdle ==
    ASSUME Inv, Inv', NEW t \in Runners, idle(t)
    PROVE  Pool!Close \/ UNCHANGED Pool!poolVars
<1>1. UNCHANGED <<Pending, Busy, Returned>>
  BY DEF idle, queueVars, mainVars, Inv, TypeOK, Pending, Queued, Busy, Returned
<1>2. CASE Closed'
  <2>1. m_tasks = <<>> /\ Active' = {}
    BY <1>2 DEF Inv, StopIsFinal, Closed, idle, queueVars
  <2>2. Pending = {}
    BY <2>1 DEF Pending, Queued
  <2>3. \A u \in Runners : Busy'[u] = NoDoroutine
    BY <2>1 DEF Active, Busy
  <2> QED
    BY <1>1, <1>2, <2>2, <2>3 DEF Pool!Close, Pending, Busy, Closed, Returned
<1>3. CASE ~Closed'
  <2>1. ~Closed
    <3> SUFFICES ASSUME Closed PROVE FALSE
      OBVIOUS
    <3>1. stopping
      BY FS_EmptySet DEF Closed, Inv, StopIsFinal, CountsExact, stopping
    <3>2. idleTerm'[t]
      BY <3>1 DEF idle, Inv, TypeOK
    <3> QED
      BY <3>2, <1>3 DEF Closed
  <2>2. Closed' = Closed
    BY <1>3, <2>1 DEF Closed
  <2> QED
    BY <1>1, <2>2, PoolStutter
<1> QED
  BY <1>2, <1>3

LEMMA PoolNext ==
    Inv /\ Inv' /\ Handover /\ [Next]_vars => [Pool!Next]_(Pool!poolVars)
<1> SUFFICES ASSUME Inv, Inv', Handover, [Next]_vars
             PROVE  Pool!Next \/ UNCHANGED Pool!poolVars
  OBVIOUS
<1>1. ASSUME NEW d \in Doroutines, NEW thread \in Runners \cup {AnyThread},
             MainSchedule(d, thread) \/ \E t \in Runners : BodySchedule(t, d, thread)
      PROVE  Pool!Next
  BY <1>1, PoolSubmit DEF MainSchedule, BodySchedule, Active, Pool!Next
<1>2. ASSUME NEW t \in Runners, TakeTask(t)
      PROVE  Pool!Next
  BY <1>2, PoolBegin DEF Pool!Next
<1>3. ASSUME NEW t \in Runners, swapcontext(t)
      PROVE  Pool!Next
  BY <1>3, PoolEnd DEF Pool!Next
<1>4. ASSUME NEW t \in Runners, idle(t)
      PROVE  Pool!Next \/ UNCHANGED Pool!poolVars
  BY <1>4, PoolIdle DEF Pool!Next
<1>5. CASE join
  <2>1. Closed /\ Returned' /\ UNCHANGED <<Pending, Busy, Closed>>
    BY <1>5, SchedulerAssumption
       DEF join, Inv, Phase, queueVars, Closed, Returned, Pending, Queued, Busy
  <2>2. Pool!Return
    BY <2>1 DEF Pool!Return, Pending, Busy, Closed, Returned
  <2> QED
    BY <2>2 DEF Pool!Next
<1>6. ASSUME NEW t \in Runners, resume(t) \/ yield(t) \/ WorkFuncEnds(t)
      PROVE  UNCHANGED Pool!poolVars
  <2>1. UNCHANGED <<Pending, Busy, Closed, Returned>>
    BY <1>6 DEF resume, yield, WorkFuncEnds, queueVars, mainVars, Inv, TypeOK,
                Pending, Queued, Busy, Closed, Returned
  <2> QED
    BY <2>1, PoolStutter
<1>7. ASSUME NEW t \in Runners,
             FindNoTask(t) \/ IdleResume(t) \/ IdleDone(t) \/ RunReturns(t) \/ TaskDone(t)
      PROVE  UNCHANGED Pool!poolVars
  <2>1. UNCHANGED <<Pending, Closed, Returned>>
    BY <1>7 DEF FindNoTask, IdleResume, IdleDone, RunReturns, TaskDone, queueVars, mainVars,
                Pending, Queued, Closed, Returned
  <2>2. Busy' = Busy
    BY <1>7 DEF FindNoTask, IdleResume, IdleDone, RunReturns, TaskDone, Inv, TypeOK, Busy
  <2> QED
    BY <2>1, <2>2, PoolStutter
<1>8. CASE start \/ stop
  <2>1. UNCHANGED <<Pending, Closed, Returned>>
    BY <1>8 DEF start, stop, queueVars, Inv, Phase, Pending, Queued, Closed, Returned
  <2>2. Busy' = Busy
    BY <1>8, SchedulerAssumption DEF start, stop, Inv, TypeOK, Phase, Busy, Runners
  <2> QED
    BY <2>1, <2>2, PoolStutter
<1>9. CASE UNCHANGED vars
  <2>1. UNCHANGED <<Pending, Busy, Closed, Returned>>
    BY <1>9 DEF vars, queueVars, mainVars, Pending, Queued, Busy, Closed, Returned
  <2> QED
    BY <2>1, PoolStutter
<1> QED
  BY <1>1, <1>2, <1>3, <1>4, <1>5, <1>6, <1>7, <1>8, <1>9 DEF Next, run

(* The scheduler implements the task pool: no task is lost or run by two   *)
(* threads, and stop() returns only when nothing can run any more.         *)
THEOREM ImplementsPool ==
    ASSUME WakeWhileRunning = FALSE
    PROVE  Spec => PoolSpec
<1>1. Inv /\ Handover /\ [Next]_vars => (Inv /\ Handover)'
  BY NextInv, NextHandover
<1>2. Inv /\ Inv' /\ Handover /\ [Next]_vars => [Pool!Next]_(Pool!poolVars)
  BY PoolNext
<1> QED
  BY InitInv, InitHandover, PoolInit, <1>1, <1>2, PTL DEF Spec, PoolSpec, Pool!Spec
=============================================================================
