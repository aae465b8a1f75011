----------------------------- MODULE ThreadPool -----------------------------
(***************************************************************************)
(* thread_pool of code/pool/thread_pool.h: detached worker threads, a      *)
(* queue of std::function tasks, one mutex, one condition variable.        *)
(*                                                                         *)
(* Everything the code does between taking pool->mtx and giving it back is *)
(* one action: no other thread can observe the middle of it.  A worker     *)
(* that holds the lock at the top of its while(true) loop and one that     *)
(* still waits for the lock are both "ready".  notify_one and notify_all   *)
(* are called after the lock was dropped and are actions of their own.     *)
(***************************************************************************)
EXTENDS Naturals, Sequences, FiniteSets

CONSTANTS
  Worker,       \* the core_cnt threads the constructor starts
  MaxTasks      \* bound on the number of add_task calls

(* The constructor asserts core_cnt > 0. *)
ASSUME PoolAssumption ==
  /\ IsFiniteSet(Worker) /\ Worker # {}
  /\ MaxTasks \in Nat

VARIABLES
  tasks,        \* Pool::tasks; a task is the number of its add_task call
  is_closed,    \* Pool::is_closed
  submitted,    \* number of add_task calls that have pushed their task
  caller,       \* where the thread that owns the pool is
  pc,           \* where each worker is
  task          \* the local variable task of each worker, 0 when unset

vars == <<tasks, is_closed, submitted, caller, pc, task>>

Waiting == {w \in Worker : pc[w] = "waiting"}

Init ==
  /\ tasks = <<>>
  /\ is_closed = FALSE
  /\ submitted = 0
  /\ caller = "outside"
  /\ pc = [w \in Worker |-> "ready"]
  /\ task = [w \in Worker |-> 0]
-----------------------------------------------------------------------------
(* The worker loop, lines 16 to 31. *)

(* Faulty variants of Pop: the newest task first; the task stays queued. *)
PopBack(w) ==
  /\ pc[w] = "ready"
  /\ tasks # <<>>
  /\ task' = [task EXCEPT ![w] = tasks[Len(tasks)]]
  /\ tasks' = SubSeq(tasks, 1, Len(tasks) - 1)
  /\ pc' = [pc EXCEPT ![w] = "running"]
  /\ UNCHANGED <<is_closed, submitted, caller>>

PopKeeps(w) ==
  /\ pc[w] = "ready"
  /\ tasks # <<>>
  /\ task' = [task EXCEPT ![w] = Head(tasks)]
  /\ pc' = [pc EXCEPT ![w] = "running"]
  /\ UNCHANGED <<tasks, is_closed, submitted, caller>>

(* Faulty variant: the queue is not tested again after a wake-up, which    *)
(* another worker may have been quicker to answer; front() of the empty    *)
(* queue is no task.                                                       *)
PopUntested(w) ==
  /\ pc[w] = "ready"
  /\ task' = [task EXCEPT ![w] = IF tasks = <<>> THEN MaxTasks + 1 ELSE Head(tasks)]
  /\ tasks' = SubSeq(tasks, 2, Len(tasks))
  /\ pc' = [pc EXCEPT ![w] = "running"]
  /\ UNCHANGED <<is_closed, submitted, caller>>

(* tasks not empty: take the front task, unlock, run it. *)
Pop(w) ==
  /\ pc[w] = "ready"
  /\ tasks # <<>>
  /\ task' = [task EXCEPT ![w] = Head(tasks)]
  /\ tasks' = Tail(tasks)
  /\ pc' = [pc EXCEPT ![w] = "running"]
  /\ UNCHANGED <<is_closed, submitted, caller>>

(* task() returns; the worker goes back to locker.lock(). *)
Finish(w) ==
  /\ pc[w] = "running"
  /\ pc' = [pc EXCEPT ![w] = "ready"]
  /\ task' = [task EXCEPT ![w] = 0]
  /\ UNCHANGED <<tasks, is_closed, submitted, caller>>

(* Faulty variant: is_closed is tested before the queue. *)
ExitUndrained(w) ==
  /\ pc[w] = "ready"
  /\ is_closed
  /\ pc' = [pc EXCEPT ![w] = "exited"]
  /\ UNCHANGED <<tasks, is_closed, submitted, caller, task>>

(* Nothing to do and the pool is closed: break, and the thread ends. *)
Exit(w) ==
  /\ pc[w] = "ready"
  /\ tasks = <<>>
  /\ is_closed
  /\ pc' = [pc EXCEPT ![w] = "exited"]
  /\ UNCHANGED <<tasks, is_closed, submitted, caller, task>>

(* Faulty variant: no test of is_closed before the wait. *)
WaitClosed(w) ==
  /\ pc[w] = "ready"
  /\ tasks = <<>>
  /\ pc' = [pc EXCEPT ![w] = "waiting"]
  /\ UNCHANGED <<tasks, is_closed, submitted, caller, task>>

(* cond.wait gives the lock up and sleeps in one step. *)
Wait(w) ==
  /\ pc[w] = "ready"
  /\ tasks = <<>>
  /\ ~is_closed
  /\ pc' = [pc EXCEPT ![w] = "waiting"]
  /\ UNCHANGED <<tasks, is_closed, submitted, caller, task>>

(* cond.wait may return without a notification. *)
SpuriousWake(w) ==
  /\ pc[w] = "waiting"
  /\ pc' = [pc EXCEPT ![w] = "ready"]
  /\ UNCHANGED <<tasks, is_closed, submitted, caller, task>>
-----------------------------------------------------------------------------
(* add_task and the destructor, both called by the thread that owns the    *)
(* pool.  The destructor is the last thing it calls.                       *)

AddTask ==
  /\ caller = "outside"
  /\ submitted < MaxTasks
  /\ submitted' = submitted + 1
  /\ tasks' = Append(tasks, submitted + 1)
  /\ caller' = "notify_one"
  /\ UNCHANGED <<is_closed, pc, task>>

(* Faulty variant: add_task does not notify. *)
NotifyNone ==
  /\ caller = "notify_one"
  /\ caller' = "outside"
  /\ UNCHANGED <<tasks, is_closed, submitted, pc, task>>

NotifyOne ==
  /\ caller = "notify_one"
  /\ IF Waiting = {}
       THEN UNCHANGED pc
       ELSE \E w \in Waiting : pc' = [pc EXCEPT ![w] = "ready"]
  /\ caller' = "outside"
  /\ UNCHANGED <<tasks, is_closed, submitted, task>>

Destroy ==
  /\ caller = "outside"
  /\ is_closed' = TRUE
  /\ caller' = "notify_all"
  /\ UNCHANGED <<tasks, submitted, pc, task>>

(* Faulty variant: the destructor wakes one worker only. *)
NotifyAllOne ==
  /\ caller = "notify_all"
  /\ IF Waiting = {}
       THEN UNCHANGED pc
       ELSE \E w \in Waiting : pc' = [pc EXCEPT ![w] = "ready"]
  /\ caller' = "gone"
  /\ UNCHANGED <<tasks, is_closed, submitted, task>>

NotifyAll ==
  /\ caller = "notify_all"
  /\ pc' = [w \in Worker |-> IF w \in Waiting THEN "ready" ELSE pc[w]]
  /\ caller' = "gone"
  /\ UNCHANGED <<tasks, is_closed, submitted, task>>
-----------------------------------------------------------------------------
Next ==
  \/ \E w \in Worker :
       Pop(w) \/ Finish(w) \/ Exit(w) \/ Wait(w) \/ SpuriousWake(w)
  \/ AddTask \/ NotifyOne \/ Destroy \/ NotifyAll

(* The scheduler runs every thread that can run and tasks terminate.  The  *)
(* mutex is not fair to any one thread, so taking a task or leaving is     *)
(* only guaranteed to some worker.  Nothing forces a call of add_task, of  *)
(* the destructor, or a spurious wake-up.                                  *)
Fairness ==
  /\ WF_vars(\E w \in Worker : Pop(w))
  /\ WF_vars(\E w \in Worker : Exit(w))
  /\ \A w \in Worker : WF_vars(Finish(w))
  /\ WF_vars(NotifyOne)
  /\ WF_vars(NotifyAll)

Spec == Init /\ [][Next]_vars /\ Fairness
-----------------------------------------------------------------------------
TypeOK ==
  /\ tasks \in Seq(1 .. MaxTasks)
  /\ is_closed \in BOOLEAN
  /\ submitted \in 0 .. MaxTasks
  /\ caller \in {"outside", "notify_one", "notify_all", "gone"}
  /\ pc \in [Worker -> {"ready", "running", "waiting", "exited"}]
  /\ task \in [Worker -> 0 .. MaxTasks]

Running == {w \in Worker : pc[w] = "running"}

(* The queue holds exactly the most recent add_task calls, oldest first:   *)
(* no interleaving of workers and caller loses, repeats or reorders one.   *)
QueueIsLatest ==
  /\ Len(tasks) <= submitted
  /\ \A i \in 1 .. Len(tasks) : tasks[i] = submitted - Len(tasks) + i

(* A task is run by one worker, and only after it left the queue. *)
RunsOnce ==
  /\ \A w \in Running : task[w] \in 1 .. submitted - Len(tasks)
  /\ \A v, w \in Running : task[v] = task[w] => v = w

(* No lost wake-up: a queued task never finds every worker asleep, except  *)
(* in the moment before the pending notify call; and after a close nobody  *)
(* goes back to sleep, so the broadcast reaches every sleeper there is.    *)
NoLostWakeup ==
  /\ tasks # <<>> /\ caller = "outside" => Waiting # Worker
  /\ caller = "gone" => Waiting = {}

(* A worker that has left proves that there is nothing left to do. *)
DrainedBeforeExit ==
  (\E w \in Worker : pc[w] = "exited") => is_closed /\ tasks = <<>>

(* Every task handed over is eventually run to its end, whether or not the *)
(* pool is destroyed meanwhile.                                            *)
Done(n) ==
  /\ submitted >= n
  /\ submitted - Len(tasks) >= n
  /\ \A w \in Running : task[w] # n
EveryTaskRuns == \A n \in 1 .. MaxTasks : submitted >= n ~> Done(n)

(* After the destructor every detached thread ends. *)
WorkersExit == is_closed ~> \A w \in Worker : pc[w] = "exited"

(* The pool implements its promise. *)
Pool == INSTANCE TaskPool WITH
  Slot      <- Worker,
  queue     <- tasks,
  running   <- task,
  halted    <- \A w \in Worker : pc[w] = "exited"

ImplementsTaskPool == Pool!Spec
=============================================================================
