--------------------------- MODULE MCVarLifetimes ---------------------------
(***************************************************************************)
(* Three variables: enough for a handle in a value in a value, and for a   *)
(* variable with handles in two others.  Nothing else is bounded: the user *)
(* sets, drops and stabilises as often as they like.                       *)
(***************************************************************************)
EXTENDS VarLifetimes
=============================================================================
