------------------------------ MODULE MCVending ------------------------------
(***************************************************************************)
(* Vending for TLC: two machines may be open at once.                      *)
(***************************************************************************)
EXTENDS Vending
=============================================================================
