------------------------------- MODULE MCLogout -------------------------------
(***************************************************************************)
(* Logout for TLC: two /logouts may overlap.                               *)
(***************************************************************************)
EXTENDS Logout
=============================================================================
