------------------------------ MODULE MCRedirect ------------------------------
(***************************************************************************)
(* Redirect for TLC.                                                       *)
(***************************************************************************)
EXTENDS Redirect
=============================================================================
