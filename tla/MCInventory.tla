----------------------------- MODULE MCInventory -----------------------------
(***************************************************************************)
(* Inventory for TLC: the player begins with one lock that /dd may have to *)
(* break.                                                                  *)
(***************************************************************************)
EXTENDS Inventory

OneDl == [wl |-> 0, dl |-> 1, bgl |-> 0]
OneBgl == [wl |-> 0, dl |-> 0, bgl |-> 1]
=============================================================================
