-------------------------------- MODULE Hosts --------------------------------
(***************************************************************************)
(* What the proxy promises about the machine's hosts file, without saying  *)
(* how: while it runs it puts all its entries in or takes all of them out, *)
(* and the lines of the user are not its business.  Only its own end in    *)
(* the middle of that may cost lines.                                      *)
(***************************************************************************)
CONSTANTS UserLines, Entries

VARIABLES
  lines,  \* the file, as of the last change that was completed or cut short
  alive   \* the proxy runs

hvars == <<lines, alive>>

Init ==
  /\ \E kept \in SUBSET Entries : lines = UserLines \cup kept
  /\ alive = FALSE

Begin == ~alive /\ alive' = TRUE /\ UNCHANGED lines

Add == alive /\ lines' = lines \cup Entries /\ UNCHANGED alive

Remove == alive /\ lines' = lines \ Entries /\ UNCHANGED alive

\* The process ends between two changes, or within one.
End ==
  /\ alive /\ alive' = FALSE
  /\ \/ UNCHANGED lines
     \/ lines' \in SUBSET (lines \cup Entries)

Next == Begin \/ Add \/ Remove \/ End

Spec == Init /\ [][Next]_hvars
=============================================================================
