------------------------------ MODULE EnetPeer ------------------------------
(***************************************************************************)
(* The connection state of one ENetPeer (lib/enet), as far as the proxy    *)
(* can tell its values apart.  Every call of the proxy that touches a peer *)
(* is one of the operators below; they take the state the peer is in and   *)
(* return the state it is left in.                                         *)
(*                                                                         *)
(*   "disconnected"  the slot is free                                      *)
(*   "accepting"     ACKNOWLEDGING_CONNECT, CONNECTION_PENDING: a remote   *)
(*                   peer is connecting to this host, no event so far      *)
(*   "connecting"    CONNECTING, CONNECTION_SUCCEEDED: enet_host_connect   *)
(*                   was called, no CONNECT event so far                   *)
(*   "connected"     CONNECTED                                             *)
(*   "closing"       DISCONNECT_LATER, DISCONNECTING,                      *)
(*                   ACKNOWLEDGING_DISCONNECT, ZOMBIE: a DISCONNECT event  *)
(*                   is due                                                *)
(***************************************************************************)

PeerState == {"disconnected", "accepting", "connecting", "connected", "closing"}

\* enet_peer_send accepts a packet only on a CONNECTED peer.
CanSend(peer) == peer = "connected"

\* enet_host_connect takes the free slot of a one-peer host; with no free slot
\* it returns NULL and leaves the peer alone.
HostConnect(peer) == IF peer = "disconnected" THEN "connecting" ELSE peer

\* enet_peer_disconnect_now: the slot is freed at once, without an event.
DisconnectNow(peer) == "disconnected"

\* enet_peer_disconnect: an established connection closes with an event, one
\* that is being set up is reset without one.
Disconnect(peer) ==
  IF peer \in {"connected", "closing"} THEN "closing" ELSE "disconnected"

\* enet_peer_disconnect_later waits for queued packets first; either way it
\* leaves the peer in one of the states "closing" stands for.
DisconnectLater(peer) == Disconnect(peer)

\* What the remote side closing, or ENet's own timeouts, make of the peer: a
\* connection that was only being accepted vanishes without an event.
RemoteGone(peer) ==
  IF peer = "accepting" THEN "disconnected" ELSE "closing"

\* The DISCONNECT event is due, or can come from a timeout, in these states.
DisconnectEventStates == {"connecting", "connected", "closing"}

=============================================================================
