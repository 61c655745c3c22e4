--------------------------- MODULE MCPaperHistory ---------------------------
(***************************************************************************)
(* PaperHistory on small instances: the writers are model values and       *)
(* interchangeable, and so are the readers.                                *)
(***************************************************************************)
EXTENDS PaperHistory, TLC

Symmetry == Permutations(Writer) \cup Permutations(Reader)
=============================================================================
