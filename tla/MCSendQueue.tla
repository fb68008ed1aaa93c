---------------------------- MODULE MCSendQueue ----------------------------
(***************************************************************************)
(* SendQueue for TLC.                                                      *)
(***************************************************************************)
EXTENDS SendQueue
CONSTANTS main, worker
=============================================================================
