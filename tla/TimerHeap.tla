----------------------------- MODULE TimerHeap -----------------------------
(***************************************************************************)
(* timer_heap of code/timer/timer_heap.cpp, and the use the event loop     *)
(* makes of get_next_tick.  One thread works on the heap, so that only the *)
(* clock moves between two steps; a step is one turn of a loop, because    *)
(* the swaps of a sift are what keeps heap_ and ref_ together.             *)
(* Indices are those of the code, from 0: At(k) is heap_[k].               *)
(***************************************************************************)
EXTENDS Integers, Sequences

CONSTANTS
  Id,           \* the ids of timers
  Timeout,      \* timeout_ms_, the only timeout the server asks for
  MaxClock,     \* bound on the time, though not on the deadlines
  NoCall        \* no deletion is under way

ASSUME TimerAssumption ==
  /\ Timeout \in Nat \ {0} /\ MaxClock \in Nat
  /\ NoCall \notin [by : {"tick", "rm_timer"}, id : Id]

VARIABLES
  clock,        \* hs_clock::now(), in milliseconds
  steady,       \* that clock was never set back
  heap,         \* heap_, a sequence of [id, expires]
  ref,          \* ref_, a function from ids to indices
  pc,           \* the function and loop the thread is in
  op,           \* the operation a sift is part of
  index,        \* the parameter of sift_down_, 0 outside of the loops
  i,            \* the node being sifted, 0 outside of the loops
  n,            \* the size sift_down_ respects, 0 outside of the loops
  called,       \* the callback of the deletion under way, and its caller
  res           \* what get_next_tick returned, during the wait

sift == <<op, index, i, n>>
vars == <<clock, steady, heap, ref, pc, op, index, i, n, called, res>>

Size == Len(heap)
At(k) == heap[k + 1]
Earlier(j, k) == At(j).expires < At(k).expires

Init ==
  /\ clock = 0 /\ steady = TRUE
  /\ heap = <<>> /\ ref = <<>>
  /\ pc = "idle" /\ op = "none"
  /\ index = 0 /\ i = 0 /\ n = 0
  /\ called = NoCall
  /\ res = 0

(* Time passes.  The clock is that of the system, which can be set back:   *)
(* once, which is a bound of the model.                                    *)
Pass ==
  /\ \/ clock < MaxClock /\ clock' = clock + 1 /\ UNCHANGED steady
     \/ steady /\ clock > 0 /\ clock' = clock - 1 /\ steady' = FALSE
  /\ UNCHANGED <<heap, ref, pc, sift, called, res>>
-----------------------------------------------------------------------------
(* The loops of sift_up_ and sift_down_. *)

(* swap_node_: the second assignment to ref_ wins when j = k. *)
Swapped(j, k) ==
  [heap EXCEPT ![j + 1] = heap[k + 1], ![k + 1] = heap[j + 1]]
SwappedRefOnce(j, k) == [ref EXCEPT ![At(k).id] = j]  \* faulty: one entry only
SwappedRef(j, k) == [ref EXCEPT ![At(k).id] = j, ![At(j).id] = k]

SwapWith(j) ==
  /\ heap' = Swapped(i, j)
  /\ ref' = SwappedRef(i, j)
  /\ i' = j

(* The end of an operation: a deletion still has to drop the last node. *)
Sifted ==
  /\ pc' = IF op \in {"pop", "rm_timer"} THEN "erase" ELSE "idle"
  /\ index' = 0 /\ i' = 0 /\ n' = 0
  /\ UNCHANGED <<heap, ref>>

(* For the root, (i - 1) / 2 is beyond the heap and the loop ends. *)
Parent == (i - 1) \div 2

SiftUp ==
  /\ pc = "up"
  /\ IF i = 0 \/ Earlier(Parent, i)
       THEN Sifted
       ELSE SwapWith(Parent) /\ UNCHANGED <<pc, index, n>>
  /\ UNCHANGED <<clock, steady, op, called, res>>

(* Faulty variant: the right child is never looked at. *)
ChildLeft == 2 * i + 1

(* The child sift_down_ compares with: the earlier one. *)
Child == LET j == 2 * i + 1
         IN IF j + 1 < n /\ Earlier(j + 1, j) THEN j + 1 ELSE j

(* adjust ignores the result of sift_down_, the others call sift_up_ when  *)
(* the node has not moved.                                                 *)
SiftDown ==
  /\ pc = "down"
  /\ IF 2 * i + 1 < n /\ ~Earlier(i, Child)
       THEN SwapWith(Child) /\ UNCHANGED <<pc, index, n>>
       ELSE IF op = "adjust" \/ i > index
              THEN Sifted
              ELSE pc' = "up" /\ UNCHANGED <<heap, ref, index, i, n>>
  /\ UNCHANGED <<clock, steady, op, called, res>>

StartDown(k, size) == pc' = "down" /\ index' = k /\ i' = k /\ n' = size
-----------------------------------------------------------------------------
(* The operations. *)

Expires == clock + Timeout

(* Faulty variant: ref_ is filled in after the push_back. *)
AddNewLate(id) ==
  /\ pc = "idle"
  /\ id \notin DOMAIN ref
  /\ ref' = [t \in DOMAIN ref \cup {id} |-> IF t = id THEN Size + 1 ELSE ref[t]]
  /\ heap' = Append(heap, [id |-> id, expires |-> Expires])
  /\ pc' = "up" /\ op' = "add" /\ i' = Size
  /\ UNCHANGED <<clock, steady, index, n, called, res>>

AddNew(id) ==
  /\ pc = "idle"
  /\ id \notin DOMAIN ref
  /\ ref' = [t \in DOMAIN ref \cup {id} |-> IF t = id THEN Size ELSE ref[t]]
  /\ heap' = Append(heap, [id |-> id, expires |-> Expires])
  /\ pc' = "up" /\ op' = "add" /\ i' = Size
  /\ UNCHANGED <<clock, steady, index, n, called, res>>

(* add_timer of an id that has a timer, and adjust, whose assertion is     *)
(* that it has one.                                                        *)
Renew(id, what) ==
  /\ pc = "idle"
  /\ id \in DOMAIN ref
  /\ heap' = [heap EXCEPT ![ref[id] + 1].expires = Expires]
  /\ StartDown(ref[id], Size)
  /\ op' = what
  /\ UNCHANGED <<clock, steady, ref, called, res>>

AddTimer(id) == AddNew(id) \/ Renew(id, "add")
Adjust(id) == Renew(id, "adjust")

(* Faulty variant: the node to be dropped takes part in the sift. *)
DelWhole(k) ==
  IF k < Size - 1
    THEN /\ heap' = Swapped(k, Size - 1)
         /\ ref' = SwappedRef(k, Size - 1)
         /\ StartDown(k, Size)
    ELSE pc' = "erase" /\ UNCHANGED <<heap, ref, index, i, n>>

(* del_(k): the last node takes the place of node k and is sifted. *)
Del(k) ==
  IF k < Size - 1
    THEN /\ heap' = Swapped(k, Size - 1)
         /\ ref' = SwappedRef(k, Size - 1)
         /\ StartDown(k, Size - 1)
    ELSE pc' = "erase" /\ UNCHANGED <<heap, ref, index, i, n>>

(* ref_.erase(heap_.back().id); heap_.pop_back(). *)
Erase ==
  /\ pc = "erase"
  /\ ref' = [t \in DOMAIN ref \ {At(Size - 1).id} |-> ref[t]]
  /\ heap' = SubSeq(heap, 1, Size - 1)
  /\ pc' = IF op = "pop" THEN "tick" ELSE "idle"
  /\ op' = "none" /\ called' = NoCall
  /\ UNCHANGED <<clock, steady, index, i, n, res>>

RmTimer(id) ==
  /\ pc = "idle"
  /\ id \in DOMAIN ref
  /\ called' = [by |-> "rm_timer", id |-> id]
  /\ op' = "rm_timer"
  /\ Del(ref[id])
  /\ UNCHANGED <<clock, steady, res>>

Clear ==
  /\ pc = "idle"
  /\ heap' = <<>> /\ ref' = <<>>
  /\ UNCHANGED <<clock, steady, pc, sift, called, res>>
-----------------------------------------------------------------------------
(* get_next_tick, which starts with tick, and the wait that uses it. *)

NextTick ==
  /\ pc = "idle"
  /\ pc' = "tick"
  /\ UNCHANGED <<clock, steady, heap, ref, sift, called, res>>

Due == heap # <<>> /\ At(0).expires <= clock

(* Faulty variant: the timer stays after its callback. *)
TickKeeps ==
  /\ pc = "tick" /\ Due
  /\ called' = [by |-> "tick", id |-> At(0).id]
  /\ UNCHANGED <<clock, steady, heap, ref, pc, sift, res>>

(* node.cb(); pop(). *)
TickFire ==
  /\ pc = "tick" /\ Due
  /\ called' = [by |-> "tick", id |-> At(0).id]
  /\ op' = "pop"
  /\ Del(0)
  /\ UNCHANGED <<clock, steady, res>>

TickEnd ==
  /\ pc = "tick" /\ ~Due
  /\ pc' = "res"
  /\ UNCHANGED <<clock, steady, heap, ref, sift, called, res>>

(* The time that is left of the first timer.  The clock is read again, and *)
(* res is unsigned, so that the correction of a negative value is void.    *)
NextRes ==
  /\ pc = "res"
  /\ res' = IF heap = <<>> THEN -1 ELSE At(0).expires - clock
  /\ pc' = "wait"
  /\ UNCHANGED <<clock, steady, heap, ref, sift, called>>

(* epoll_wait returns for an event, or because its time is over. *)
WaitEnds ==
  /\ pc = "wait"
  /\ pc' = "idle"
  /\ res' = 0
  /\ UNCHANGED <<clock, steady, heap, ref, sift, called>>
-----------------------------------------------------------------------------
Step == SiftUp \/ SiftDown \/ Erase \/ TickFire \/ TickEnd \/ NextRes

Next ==
  \/ Pass \/ Step \/ Clear \/ NextTick \/ WaitEnds
  \/ \E id \in Id : AddTimer(id) \/ Adjust(id) \/ RmTimer(id)

(* The event loop runs and comes back to get_next_tick, and time goes on.  *)
Fairness ==
  /\ WF_vars(Step) /\ SF_vars(NextTick)
  /\ WF_vars(clock < MaxClock /\ clock' = clock + 1 /\ Pass)

Spec == Init /\ [][Next]_vars /\ Fairness
-----------------------------------------------------------------------------
Node == [id : Id, expires : 0 .. MaxClock + Timeout]

TypeOK ==
  /\ clock \in 0 .. MaxClock /\ steady \in BOOLEAN
  /\ heap \in Seq(Node)
  /\ DOMAIN ref \subseteq Id /\ \A id \in DOMAIN ref : ref[id] \in 0 .. Size - 1
  /\ pc \in {"idle", "up", "down", "erase", "tick", "res", "wait"}
  /\ op \in {"none", "add", "adjust", "pop", "rm_timer"}
  /\ {index, i, n} \subseteq Nat
  /\ called \in [by : {"tick", "rm_timer"}, id : Id] \cup {NoCall}
  /\ res \in Int

(* ref_ finds the node of every id, and knows no other id: also in the     *)
(* middle of a sift, so that no operation acts on somebody else's timer.   *)
RefOK ==
  /\ \A id \in DOMAIN ref : At(ref[id]).id = id
  /\ \A k \in 0 .. Size - 1 : At(k).id \in DOMAIN ref /\ ref[At(k).id] = k

(* No node is before its parent whenever no sift is under way.  adjust     *)
(* only sifts down: this rests on a clock that was not set back.           *)
HeapOrder ==
  steady /\ pc \in {"idle", "tick", "res", "wait"} =>
    \A k \in 1 .. Size - 1 : At((k - 1) \div 2).expires <= At(k).expires

(* A sift stays inside the heap, as the assertions of swap_node_,          *)
(* sift_up_, sift_down_ and del_ say.                                      *)
SiftInside ==
  /\ pc \in {"up", "down"} => i < Size
  /\ pc = "down" => i < n /\ n <= Size
  /\ pc = "erase" => heap # <<>> /\ At(Size - 1).id = called.id

(* While a timer is pending, get_next_tick does not return a negative      *)
(* value, which epoll_wait takes for "no limit".                           *)
LimitedWait == pc = "wait" /\ heap # <<>> => res >= 0

(* As long as the loop turns, a timer that is neither renewed nor removed  *)
(* runs out, however often the others are renewed.  Deadlines are reached  *)
(* up to MaxClock.  When the clock was set back, a timer may be behind     *)
(* a later one and has to wait for it: then that one has to be reached.    *)
Pending(id, d) == id \in DOMAIN ref /\ At(ref[id]).expires = d

TimersFire ==
  []<>(pc # "wait") /\ ([]steady \/ []<>(heap = <<>> \/ At(0).expires <= MaxClock)) =>
    \A id \in Id, d \in 0 .. MaxClock : Pending(id, d) ~> ~Pending(id, d)

(* The heap implements the map of deadlines: the timer being deleted is    *)
(* gone from the map when its callback runs.                               *)
Doomed == IF op \in {"pop", "rm_timer"} THEN {called.id} ELSE {}
Map == INSTANCE TimerMap WITH
  deadline <- [id \in DOMAIN ref \ Doomed |-> At(ref[id]).expires]
ImplementsTimerMap == Map!Spec
=============================================================================
