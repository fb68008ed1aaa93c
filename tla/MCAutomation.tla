----------------------------- MODULE MCAutomation -----------------------------
(***************************************************************************)
(* Automation for TLC: the bound on generations is the only infinite part. *)
(***************************************************************************)
EXTENDS Automation
=============================================================================
