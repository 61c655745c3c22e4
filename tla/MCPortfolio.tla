---------------------------- MODULE MCPortfolio ----------------------------
(***************************************************************************)
(* Portfolio with two symbols, which are interchangeable.                  *)
(***************************************************************************)
EXTENDS Portfolio, TLC

Symmetry == Permutations(Symbol)
=============================================================================
