------------------------------ MODULE MCSession ------------------------------
(***************************************************************************)
(* Session for TLC.  leaked is the only variable without a bound of its    *)
(* own; LeakBounded shows that MaxSession bounds it too.                   *)
(***************************************************************************)
EXTENDS Session
=============================================================================
