--------------------------- MODULE MCAuditJournal ---------------------------
(***************************************************************************)
(* AuditJournal on small instances: the writers are model values and       *)
(* interchangeable.                                                        *)
(***************************************************************************)
EXTENDS AuditJournal, TLC

Symmetry == Permutations(Writer)
=============================================================================
