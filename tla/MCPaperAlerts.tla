--------------------------- MODULE MCPaperAlerts ---------------------------
(***************************************************************************)
(* PaperAlerts on small instances.                                         *)
(***************************************************************************)
EXTENDS PaperAlerts
=============================================================================
