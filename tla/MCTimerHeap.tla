---------------------------- MODULE MCTimerHeap ----------------------------
(* TimerHeap on small instances.  There is no symmetry set, as the runs     *)
(* check liveness and the refinement too.                                   *)
EXTENDS TimerHeap
=============================================================================
