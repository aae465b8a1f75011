-------------------------- MODULE ThreadPoolProofs --------------------------
(***************************************************************************)
(* The safety of thread_pool for every number of workers and of tasks.     *)
(***************************************************************************)
EXTENDS ThreadPool, SequenceTheorems, TLAPS

(* is_closed is set exactly while, and after, the destructor runs. *)
Phase == is_closed <=> caller \in {"notify_all", "gone"}

(* The local variable task is set exactly while a task runs. *)
TaskSet == \A w \in Worker : task[w] # 0 <=> pc[w] = "running"

(* The inductive invariant: what the runs check, the phase of the owner,   *)
(* without which add_task could follow the destructor, and TaskSet, which  *)
(* the refinement below needs.                                             *)
IInv ==
  /\ TypeOK
  /\ Phase
  /\ TaskSet
  /\ QueueIsLatest
  /\ RunsOnce
  /\ NoLostWakeup
  /\ DrainedBeforeExit

(* What tasks.front() and tasks.pop() do to a queue that holds the latest  *)
(* calls: the front is the oldest of them and the rest still are the       *)
(* latest ones.                                                            *)
LEMMA TailOfLatest ==
  ASSUME TypeOK, QueueIsLatest, tasks # <<>>
  PROVE  /\ Len(tasks) \in Nat \ {0}
         /\ Head(tasks) = submitted - Len(tasks) + 1
         /\ Head(tasks) \in 1 .. MaxTasks
         /\ Tail(tasks) \in Seq(1 .. MaxTasks)
         /\ Len(Tail(tasks)) = Len(tasks) - 1
         /\ \A i \in 1 .. Len(Tail(tasks)) : Tail(tasks)[i] = tasks[i + 1]
<1>1. tasks \in Seq(1 .. MaxTasks) /\ submitted \in Nat
  BY PoolAssumption DEF TypeOK, PoolAssumption
<1>2. Len(tasks) \in Nat /\ Len(tasks) > 0
  BY <1>1
<1>3. tasks[1] = submitted - Len(tasks) + 1
  BY <1>1, <1>2 DEF QueueIsLatest
<1>4. Head(tasks) = tasks[1]
  BY <1>1, <1>2
<1>5. /\ Head(tasks) \in 1 .. MaxTasks
      /\ Tail(tasks) \in Seq(1 .. MaxTasks)
      /\ Len(Tail(tasks)) = Len(tasks) - 1
      /\ \A i \in 1 .. Len(Tail(tasks)) : Tail(tasks)[i] = tasks[i + 1]
  BY <1>1, HeadTailProperties
<1>6. QED
  BY <1>2, <1>3, <1>4, <1>5

LEMMA InitInv == Init => IInv
<1> SUFFICES ASSUME Init PROVE IInv
  OBVIOUS
<1>1. TypeOK
  <2>1. tasks \in Seq(1 .. MaxTasks)
    BY DEF Init
  <2>2. 0 \in 0 .. MaxTasks
    BY PoolAssumption DEF PoolAssumption
  <2>3. QED
    BY <2>1, <2>2 DEF Init, TypeOK
<1>2. Phase /\ QueueIsLatest /\ TaskSet
  BY DEF Init, Phase, QueueIsLatest, TaskSet
<1>3. RunsOnce
  BY DEF Init, RunsOnce, Running
<1>4. NoLostWakeup /\ DrainedBeforeExit
  BY DEF Init, NoLostWakeup, Waiting, DrainedBeforeExit
<1>5. QED
  BY <1>1, <1>2, <1>3, <1>4 DEF IInv

LEMMA PopInv == ASSUME IInv, NEW w \in Worker, Pop(w) PROVE IInv'
<1> USE DEF IInv
<1>1. tasks # <<>> /\ TypeOK /\ QueueIsLatest
  BY DEF Pop
<1>2. /\ Len(tasks) \in Nat \ {0}
      /\ Head(tasks) = submitted - Len(tasks) + 1
      /\ Head(tasks) \in 1 .. MaxTasks
      /\ tasks' \in Seq(1 .. MaxTasks)
      /\ Len(tasks') = Len(tasks) - 1
      /\ \A i \in 1 .. Len(tasks') : tasks'[i] = tasks[i + 1]
  BY <1>1, TailOfLatest DEF Pop
<1>3. submitted' = submitted /\ submitted \in Nat /\ Len(tasks) <= submitted
  BY <1>1, PoolAssumption DEF Pop, TypeOK, QueueIsLatest, PoolAssumption
<1>4. TypeOK'
  BY <1>2, PoolAssumption DEF Pop, TypeOK
<1>5. QueueIsLatest'
  <2>1. Len(tasks') <= submitted'
    BY <1>2, <1>3
  <2>2. ASSUME NEW i \in 1 .. Len(tasks')
        PROVE  tasks'[i] = submitted' - Len(tasks') + i
    <3>1. i + 1 \in 1 .. Len(tasks)
      BY <1>2
    <3>2. tasks[i + 1] = submitted - Len(tasks) + (i + 1)
      BY <1>1, <3>1 DEF QueueIsLatest
    <3>3. QED
      BY <1>2, <1>3, <3>1, <3>2
  <2>3. QED
    BY <2>1, <2>2 DEF QueueIsLatest
<1>6. RunsOnce'
  <2>1. Running' = Running \cup {w} /\ task'[w] = Head(tasks)
    BY <1>1 DEF Pop, Running, TypeOK
  <2>2. \A v \in Worker : v # w => task'[v] = task[v]
    BY <1>1 DEF Pop, TypeOK
  <2>3. \A v \in Running : task[v] \in 1 .. submitted - Len(tasks) /\ v # w
    BY <1>1 DEF RunsOnce, Pop, Running
  <2>4. \A v \in Running' : task'[v] \in 1 .. submitted' - Len(tasks')
    BY <1>2, <1>3, <2>1, <2>2, <2>3 DEF Running
  <2>5. ASSUME NEW u \in Running', NEW v \in Running', task'[u] = task'[v]
        PROVE  u = v
    BY <1>2, <1>3, <2>1, <2>2, <2>3, <2>5 DEF RunsOnce, Running
  <2>6. QED
    BY <2>4, <2>5 DEF RunsOnce
<1>7. NoLostWakeup'
  BY <1>1 DEF Pop, NoLostWakeup, Waiting, TypeOK
<1>8. DrainedBeforeExit' /\ Phase'
  BY <1>1 DEF Pop, DrainedBeforeExit, Phase, TypeOK
<1>9. TaskSet'
  BY <1>1, <1>2, <1>3 DEF Pop, TaskSet, TypeOK, QueueIsLatest
<1>10. QED
  BY <1>4, <1>5, <1>6, <1>7, <1>8, <1>9

LEMMA FinishInv == ASSUME IInv, NEW w \in Worker, Finish(w) PROVE IInv'
<1> USE DEF IInv, Finish
<1>1. TypeOK'
  BY PoolAssumption DEF TypeOK, PoolAssumption
<1>2. Running' = Running \ {w}
  BY DEF Running, TypeOK
<1>3. \A v \in Running' : task'[v] = task[v]
  BY <1>2 DEF TypeOK, Running
<1>4. RunsOnce'
  BY <1>2, <1>3 DEF RunsOnce
<1>5. QueueIsLatest' /\ Phase' /\ TaskSet'
  BY DEF QueueIsLatest, Phase, TaskSet, TypeOK
<1>6. NoLostWakeup' /\ DrainedBeforeExit'
  BY DEF NoLostWakeup, DrainedBeforeExit, Waiting, TypeOK
<1>7. QED
  BY <1>1, <1>4, <1>5, <1>6

(* Steps of a worker that is not running a task and takes none. *)
LEMMA IdleStepInv ==
  ASSUME IInv, NEW w \in Worker, Exit(w) \/ Wait(w) \/ SpuriousWake(w)
  PROVE  IInv'
<1> USE DEF IInv, Exit, Wait, SpuriousWake
<1>1. TypeOK'
  BY DEF TypeOK
<1>2. Running' = Running /\ task' = task
  BY DEF Running, TypeOK
<1>3. RunsOnce'
  BY <1>2 DEF RunsOnce
<1>4. QueueIsLatest' /\ Phase'
  BY DEF QueueIsLatest, Phase
<1>7. TaskSet'
  BY <1>2 DEF TaskSet, TypeOK, Waiting
<1>5. NoLostWakeup'
  BY DEF NoLostWakeup, Waiting, TypeOK, Phase
<1>6. DrainedBeforeExit'
  BY DEF DrainedBeforeExit, TypeOK
<1>8. QED
  BY <1>1, <1>3, <1>4, <1>5, <1>6, <1>7

LEMMA AddTaskInv == ASSUME IInv, AddTask PROVE IInv'
<1> USE DEF IInv
<1>1. /\ tasks \in Seq(1 .. MaxTasks) /\ submitted \in Nat
      /\ submitted + 1 \in 1 .. MaxTasks
      /\ tasks' = Append(tasks, submitted + 1) /\ submitted' = submitted + 1
  BY PoolAssumption DEF AddTask, TypeOK
<1>2. /\ Len(tasks) \in Nat /\ Len(tasks') = Len(tasks) + 1
      /\ tasks' \in Seq(1 .. MaxTasks)
  BY <1>1
<1>3. TypeOK'
  BY <1>1, <1>2, PoolAssumption DEF AddTask, TypeOK
<1>4. QueueIsLatest'
  <2>1. Len(tasks') <= submitted'
    BY <1>1, <1>2 DEF QueueIsLatest
  <2>2. ASSUME NEW i \in 1 .. Len(tasks')
        PROVE  tasks'[i] = submitted' - Len(tasks') + i
    <3>1. CASE i = Len(tasks) + 1
      BY <1>1, <1>2, <3>1
    <3>2. CASE i # Len(tasks) + 1
      <4>1. i \in 1 .. Len(tasks)
        BY <1>2, <3>2
      <4>2. tasks'[i] = tasks[i]
        BY <1>1, <4>1
      <4>3. QED
        BY <1>1, <1>2, <4>1, <4>2 DEF QueueIsLatest
    <3>3. QED
      BY <3>1, <3>2
  <2>3. QED
    BY <2>1, <2>2 DEF QueueIsLatest
<1>5. RunsOnce'
  <2>1. Running' = Running /\ task' = task
    BY DEF AddTask, Running
  <2>2. submitted' - Len(tasks') = submitted - Len(tasks)
    BY <1>1, <1>2
  <2>3. QED
    BY <2>1, <2>2 DEF RunsOnce
<1>6. NoLostWakeup' /\ Phase' /\ TaskSet'
  BY DEF AddTask, NoLostWakeup, Phase, Waiting, TaskSet
<1>7. DrainedBeforeExit'
  BY DEF AddTask, DrainedBeforeExit, Phase
<1>8. QED
  BY <1>3, <1>4, <1>5, <1>6, <1>7

(* The calls of the owner that leave the queue alone. *)
LEMMA NotifyInv == ASSUME IInv, NotifyOne \/ Destroy \/ NotifyAll PROVE IInv'
<1> USE DEF IInv, NotifyOne, Destroy, NotifyAll
<1>1. TypeOK'
  BY DEF TypeOK, Waiting
<1>2. Running' = Running /\ task' = task
  BY DEF Running, TypeOK, Waiting
<1>3. RunsOnce'
  BY <1>2 DEF RunsOnce
<1>4. QueueIsLatest' /\ Phase'
  BY DEF QueueIsLatest, Phase
<1>7. TaskSet'
  BY <1>2 DEF TaskSet, TypeOK, Waiting
<1>5. NoLostWakeup'
  <2>1. CASE NotifyOne
    BY <2>1, PoolAssumption DEF NoLostWakeup, Waiting, TypeOK
  <2>2. CASE Destroy
    BY <2>2 DEF NoLostWakeup, Waiting, TypeOK
  <2>3. CASE NotifyAll
    BY <2>3 DEF NoLostWakeup, Waiting, TypeOK
  <2>4. QED
    BY <2>1, <2>2, <2>3
<1>6. DrainedBeforeExit'
  BY DEF DrainedBeforeExit, TypeOK, Waiting
<1>8. QED
  BY <1>1, <1>3, <1>4, <1>5, <1>6, <1>7

LEMMA NextInv == IInv /\ [Next]_vars => IInv'
<1> SUFFICES ASSUME IInv, [Next]_vars PROVE IInv'
  OBVIOUS
<1>1. ASSUME NEW w \in Worker,
             Pop(w) \/ Finish(w) \/ Exit(w) \/ Wait(w) \/ SpuriousWake(w)
      PROVE  IInv'
  BY <1>1, PopInv, FinishInv, IdleStepInv
<1>2. CASE AddTask
  BY <1>2, AddTaskInv
<1>3. CASE NotifyOne \/ Destroy \/ NotifyAll
  BY <1>3, NotifyInv
<1>4. CASE UNCHANGED vars
  BY <1>4 DEF vars, IInv, TypeOK, Phase, QueueIsLatest, RunsOnce, Running,
              NoLostWakeup, Waiting, DrainedBeforeExit, TaskSet
<1>5. QED
  BY <1>1, <1>2, <1>3, <1>4 DEF Next

(* All of the above in every reachable state. *)
THEOREM Invariant == Spec => []IInv
BY InitInv, NextInv, PTL DEF Spec

(* Type correctness of the queue, of the workers and of the destructor.    *)
THEOREM TypeCorrect == Spec => []TypeOK
<1>1. IInv => TypeOK
  BY DEF IInv
<1>2. QED
  BY <1>1, Invariant, PTL

(* add_task and the worker loop keep the queue a gap-free, ordered run of  *)
(* the latest calls.                                                       *)
THEOREM QueueOrder == Spec => []QueueIsLatest
<1>1. IInv => QueueIsLatest
  BY DEF IInv
<1>2. QED
  BY <1>1, Invariant, PTL

(* No task is run by two workers, none while it is still queued. *)
THEOREM AtMostOnce == Spec => []RunsOnce
<1>1. IInv => RunsOnce
  BY DEF IInv
<1>2. QED
  BY <1>1, Invariant, PTL

(* A queued task never leaves all workers asleep. *)
THEOREM WakeupNotLost == Spec => []NoLostWakeup
<1>1. IInv => NoLostWakeup
  BY DEF IInv
<1>2. QED
  BY <1>1, Invariant, PTL

(* A worker leaves its loop only after the pool is closed and drained. *)
THEOREM ExitAfterDrain == Spec => []DrainedBeforeExit
<1>1. IInv => DrainedBeforeExit
  BY DEF IInv
<1>2. QED
  BY <1>1, Invariant, PTL
-----------------------------------------------------------------------------
(* Refinement: the initial state and every step of the pool map to the     *)
(* initial state and a step, or a stutter, of TaskPool.                    *)

LEMMA InitRefines == Init => Pool!Init
BY PoolAssumption DEF PoolAssumption, Init, Pool!Init

LEMMA PopRefines ==
  ASSUME IInv, NEW w \in Worker, Pop(w) PROVE Pool!Start
<1>1. task[w] = 0
  BY DEF IInv, TaskSet, Pop
<1>2. UNCHANGED \A v \in Worker : pc[v] = "exited"
  BY DEF IInv, TypeOK, Pop
<1>3. QED
  BY <1>1, <1>2 DEF Pop, Pool!Start

LEMMA FinishRefines ==
  ASSUME IInv, NEW w \in Worker, Finish(w) PROVE Pool!Finish
<1>1. task[w] # 0
  BY DEF IInv, TaskSet, Finish
<1>2. UNCHANGED \A v \in Worker : pc[v] = "exited"
  BY DEF IInv, TypeOK, Finish
<1>3. QED
  BY <1>1, <1>2 DEF Finish, Pool!Finish

LEMMA ExitRefines ==
  ASSUME IInv, NEW w \in Worker, Exit(w) PROVE Pool!Halt \/ UNCHANGED Pool!vars
<1>1. ~ \A v \in Worker : pc[v] = "exited"
  BY DEF Exit
<1>2. CASE \A v \in Worker : pc'[v] = "exited"
  <2>1. \A v \in Worker : pc[v] # "running"
    BY <1>2 DEF IInv, TypeOK, Exit
  <2>2. task = [v \in Worker |-> 0]
    BY <2>1 DEF IInv, TypeOK, TaskSet
  <2>3. QED
    BY <1>2, <2>2 DEF Exit, Pool!Halt
<1>3. CASE ~ \A v \in Worker : pc'[v] = "exited"
  BY <1>1, <1>3 DEF Exit, Pool!vars
<1>4. QED
  BY <1>2, <1>3

(* Sleeping, waking and notifying do not show at the level of TaskPool. *)
LEMMA SleepRefines ==
  ASSUME IInv,
         \/ \E w \in Worker : Wait(w) \/ SpuriousWake(w)
         \/ NotifyOne \/ NotifyAll
  PROVE  UNCHANGED Pool!vars
<1>1. \A v \in Worker : pc'[v] = "exited" <=> pc[v] = "exited"
  BY DEF IInv, TypeOK, Wait, SpuriousWake, NotifyOne, NotifyAll, Waiting
<1>2. UNCHANGED <<task, tasks, is_closed, submitted>>
  BY DEF Wait, SpuriousWake, NotifyOne, NotifyAll
<1>3. QED
  BY <1>1, <1>2 DEF Pool!vars

LEMMA OwnerRefines ==
  ASSUME IInv, AddTask \/ Destroy PROVE Pool!Submit \/ Pool!Close
<1>1. ~ is_closed
  BY DEF IInv, Phase, AddTask, Destroy
<1>2. QED
  BY <1>1 DEF AddTask, Destroy, Pool!Submit, Pool!Close

LEMMA StepRefines == IInv /\ [Next]_vars => [Pool!Next]_Pool!vars
<1> SUFFICES ASSUME IInv, [Next]_vars PROVE [Pool!Next]_Pool!vars
  OBVIOUS
<1>1. ASSUME NEW w \in Worker, Pop(w) \/ Finish(w) \/ Exit(w)
      PROVE  [Pool!Next]_Pool!vars
  BY <1>1, PopRefines, FinishRefines, ExitRefines DEF Pool!Next
<1>2. CASE \/ \E w \in Worker : Wait(w) \/ SpuriousWake(w)
           \/ NotifyOne \/ NotifyAll
  BY <1>2, SleepRefines
<1>3. CASE AddTask \/ Destroy
  BY <1>3, OwnerRefines DEF Pool!Next
<1>4. CASE UNCHANGED vars
  BY <1>4 DEF vars, Pool!vars
<1>5. QED
  BY <1>1, <1>2, <1>3, <1>4 DEF Next

(* The safety part of ImplementsTaskPool, for any number of workers: tasks *)
(* start in the order of the add_task calls, at most one per worker, and   *)
(* the pool halts only when it was closed and has nothing left.            *)
THEOREM RefinesTaskPool == Spec => Pool!Init /\ [][Pool!Next]_Pool!vars
BY InitRefines, StepRefines, Invariant, PTL DEF Spec
=============================================================================
