---------------------------- MODULE MCThreadPool ----------------------------
(* ThreadPool on a small instance.  There is no symmetry set, as the run    *)
(* checks liveness too.                                                     *)
EXTENDS ThreadPool
=============================================================================
