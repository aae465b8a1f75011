------------------------------ MODULE TimerMap ------------------------------
(***************************************************************************)
(* What timer_heap (code/timer/timer_heap.h) promises the event loop: a    *)
(* map from ids to deadlines.  A callback runs when its deadline is over,  *)
(* the earliest deadline first, and its timer is gone afterwards.  When    *)
(* the clock was set back, only the order is no longer promised.           *)
(***************************************************************************)
EXTENDS Naturals

CONSTANTS
  Id,           \* the ids, descriptors of connections
  Timeout,      \* server::timeout_ms_
  NoCall        \* no callback is under way

VARIABLES
  clock,        \* the time, in milliseconds
  steady,       \* the clock was never set back
  deadline,     \* when each timer expires, a function on a subset of Id
  called        \* the callback under way, and the function that called it

vars == <<clock, steady, deadline, called>>

Init == clock = 0 /\ steady = TRUE /\ deadline = <<>> /\ called = NoCall

Pass ==
  /\ clock' # clock /\ steady' = (steady /\ clock' > clock)
  /\ UNCHANGED <<deadline, called>>

(* add_timer and adjust: id expires Timeout from now. *)
Set(id) ==
  /\ deadline' = [t \in DOMAIN deadline \cup {id} |->
                    IF t = id THEN clock + Timeout ELSE deadline[t]]
  /\ UNCHANGED <<clock, steady, called>>

Without(id) == [t \in DOMAIN deadline \ {id} |-> deadline[t]]

(* tick: the earliest timer of a steady clock, once it is due. *)
Fire(id) ==
  /\ id \in DOMAIN deadline
  /\ deadline[id] <= clock
  /\ steady => \A t \in DOMAIN deadline : deadline[id] <= deadline[t]
  /\ deadline' = Without(id)
  /\ called' = [by |-> "tick", id |-> id]
  /\ UNCHANGED <<clock, steady>>

(* rm_timer: the callback runs at once. *)
Remove(id) ==
  /\ id \in DOMAIN deadline
  /\ deadline' = Without(id)
  /\ called' = [by |-> "rm_timer", id |-> id]
  /\ UNCHANGED <<clock, steady>>

Done == called' = NoCall /\ UNCHANGED <<clock, steady, deadline>>

Clear == deadline' = <<>> /\ UNCHANGED <<clock, steady, called>>

Next == Pass \/ Done \/ Clear \/ \E id \in Id : Set(id) \/ Fire(id) \/ Remove(id)

Spec == Init /\ [][Next]_vars
=============================================================================
