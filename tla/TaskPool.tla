------------------------------ MODULE TaskPool ------------------------------
(***************************************************************************)
(* What thread_pool (code/pool/thread_pool.h) promises its one client, the *)
(* event loop of server: the tasks handed over are started in the order of *)
(* the add_task calls, each exactly once; and once the pool is closed it   *)
(* still runs every task it was given before its threads stop.  Locks,     *)
(* condition variables and sleeping threads do not appear at this level.   *)
(***************************************************************************)
EXTENDS Naturals, Sequences

CONSTANT
  Slot,         \* what a task runs in, one task at a time
  MaxTasks      \* bound on the number of add_task calls

VARIABLES
  submitted,    \* number of add_task calls so far; task n is the n-th
  queue,        \* tasks accepted and not started, oldest first
  running,      \* the task each slot executes, 0 when it is free
  is_closed,    \* the destructor has run
  halted        \* no thread of the pool is left

vars == <<submitted, queue, running, is_closed, halted>>

Init ==
  /\ submitted = 0
  /\ queue = <<>>
  /\ running = [s \in Slot |-> 0]
  /\ is_closed = FALSE
  /\ halted = FALSE

Submit ==
  /\ ~is_closed
  /\ submitted < MaxTasks
  /\ submitted' = submitted + 1
  /\ queue' = Append(queue, submitted + 1)
  /\ UNCHANGED <<running, is_closed, halted>>

Start ==
  /\ queue # <<>>
  /\ \E s \in Slot :
       running[s] = 0 /\ running' = [running EXCEPT ![s] = Head(queue)]
  /\ queue' = Tail(queue)
  /\ UNCHANGED <<submitted, is_closed, halted>>

Finish ==
  /\ \E s \in Slot :
       running[s] # 0 /\ running' = [running EXCEPT ![s] = 0]
  /\ UNCHANGED <<submitted, queue, is_closed, halted>>

Close ==
  /\ ~is_closed
  /\ is_closed' = TRUE
  /\ UNCHANGED <<submitted, queue, running, halted>>

(* The pool stops only when nothing is left to run. *)
Halt ==
  /\ is_closed
  /\ queue = <<>>
  /\ running = [s \in Slot |-> 0]
  /\ halted' = TRUE
  /\ UNCHANGED <<submitted, queue, running, is_closed>>

Next == Submit \/ Start \/ Finish \/ Close \/ Halt

Fairness == WF_vars(Start) /\ WF_vars(Finish) /\ WF_vars(Halt)

Spec == Init /\ [][Next]_vars /\ Fairness
=============================================================================
