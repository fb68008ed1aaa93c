------------------------------ MODULE MCProcess ------------------------------
(***************************************************************************)
(* Two handler threads, as of Ctrl+C and a closed window, one line of the  *)
(* user and the two entries of the proxy.                                  *)
(***************************************************************************)
EXTENDS Process
=============================================================================
