------------------------------ MODULE MCStores ------------------------------
(***************************************************************************)
(* Stores on a small instance.                                             *)
(***************************************************************************)
EXTENDS Stores
=============================================================================
