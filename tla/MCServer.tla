------------------------------ MODULE MCServer ------------------------------
(* Server on small instances.  Descriptors and workers are interchangeable, *)
(* which the run that checks invariants only makes use of.                  *)
EXTENDS Server, TLC

Symmetry == Permutations(Fd) \cup Permutations(Worker)
=============================================================================
