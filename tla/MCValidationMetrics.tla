------------------------ MODULE MCValidationMetrics ------------------------
(***************************************************************************)
(* ValidationMetrics on small instances: the threads are interchangeable.  *)
(***************************************************************************)
EXTENDS ValidationMetrics, TLC

Symmetry == Permutations(Thread)
=============================================================================
