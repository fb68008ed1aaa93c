------------------------------- MODULE MCDrops -------------------------------
(***************************************************************************)
(* Drops for TLC.  Nothing tells one world, or one spot, from another.     *)
(***************************************************************************)
EXTENDS Drops, TLC

Symmetry == Permutations(Worlds) \cup Permutations(Spots)
=============================================================================
