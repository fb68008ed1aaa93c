------------------------------- MODULE Pairing -------------------------------
(***************************************************************************)
(* What the proxy promises about a game session, without saying how: the   *)
(* game client's half and the upstream half, and which of them may begin   *)
(* and end when.                                                           *)
(*                                                                         *)
(* Once both halves are established they end together: neither the game    *)
(* client nor the real server is ever left talking to a proxy that has     *)
(* lost the other one.  An upstream that is still being dialled has no     *)
(* such bond; it may fail with the session left in place, fail and take    *)
(* the session along, or be established after the session it was dialled   *)
(* for is gone and serve the next one.                                     *)
(***************************************************************************)
VARIABLES
  down,   \* the game client has a session
  up      \* the upstream connection

pvars == <<down, up>>

Init == down = FALSE /\ up = "off"

\* A session begins.  It finds the upstream half as an earlier session left
\* it, or dials.
Arrive ==
  /\ ~down
  /\ down' = TRUE
  /\ \/ up' = up
     \/ up = "off" /\ up' = "dialling"

Establish ==
  /\ up = "dialling"
  /\ up' = "on"
  /\ UNCHANGED down

DialFails ==
  /\ up = "dialling"
  /\ up' = "off"
  /\ down' \in {down, FALSE}

\* The two halves of an established session end in one step.
UpEnds ==
  /\ up = "on"
  /\ up' = "off"
  /\ down' = FALSE

DownEnds ==
  /\ down
  /\ down' = FALSE
  /\ up # "on"
  /\ up' \in {up, "off"}

Next == Arrive \/ Establish \/ DialFails \/ UpEnds \/ DownEnds

Spec == Init /\ [][Next]_pvars
=============================================================================
