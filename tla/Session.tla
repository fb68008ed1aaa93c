------------------------------- MODULE Session -------------------------------
(***************************************************************************)
(* The two halves of the proxy and the session they share.                 *)
(*                                                                         *)
(* server::Server owns an ENet host with one peer slot that the game       *)
(* client connects to; client::Client owns a host with one slot that the   *)
(* proxy connects upstream, to the real game server.  Each half keeps a    *)
(* Player object for its peer.  One thread (Core::run) services both hosts *)
(* and runs every handler; while a handler of the server half waits for    *)
(* the upstream connection it services the client half itself.             *)
(*                                                                         *)
(* A session is one Player object of the server half; sessions are         *)
(* numbered from 1.  A connection upstream and the Player object made for  *)
(* it carry the number of the session that dialled.                        *)
(***************************************************************************)
EXTENDS Naturals, EnetPeer

CONSTANTS
  MaxSession,   \* bound: how often the game client connects
  WaitLimit     \* rounds of the wait in on_receive (200 in the code)

ASSUME ConstantsAssumption ==
  /\ MaxSession \in Nat
  /\ WaitLimit \in Nat \ {0}

VARIABLES
  webLoaded,    \* the web server extension is loaded (extension.ignore)
  buttons,      \* the user may press Connect and Disconnect in the GUI
  gtPeer,       \* the server host's slot: the game client's connection
  upPeer,       \* the client host's slot: the connection upstream
  srv,          \* Server::player_: the session it belongs to, 0 for nullptr
  cli,          \* Client::player_: the session that dialled it, 0 for nullptr
  upFor,        \* the session that dialled the connection in the client's slot
  sessions,     \* sessions started so far
  leaked,       \* Player objects of the client half nobody points to any more
  pending,      \* g_connect_pending
  webTarget,    \* WebServerExtension::address_ and port_ are set
  subTarget,    \* SubServerSwitchExtension::address_ and port_ are set
  waiting,      \* rounds left of the wait in Server::on_receive, 0: not waiting
  fate          \* what became of the game client's last packet

settings == <<webLoaded, buttons>>
peers   == <<gtPeer, upPeer>>
players == <<srv, cli, upFor, sessions, leaked>>
targets == <<webTarget, subTarget>>
moving  == <<peers, players, pending, targets, waiting, fate>>
vars    == <<settings, moving>>

\* A packet the game client sent is passed on, and then sent or lost; withheld
\* by a decision of the proxy; or dropped with an alert after a wait in vain.
Fate == {"none", "sent", "lost", "withheld", "alerted"}

TypeOK ==
  /\ webLoaded \in BOOLEAN
  /\ buttons \in BOOLEAN
  /\ gtPeer \in PeerState \ {"connecting"}
  /\ upPeer \in PeerState \ {"accepting"}
  /\ srv \in 0..MaxSession
  /\ cli \in 0..MaxSession
  /\ upFor \in 0..MaxSession
  /\ sessions \in 0..MaxSession
  /\ leaked \in Nat
  /\ pending \in BOOLEAN
  /\ webTarget \in BOOLEAN
  /\ subTarget \in BOOLEAN
  /\ waiting \in 0..WaitLimit
  /\ fate \in Fate

\* The configuration is read once; whether anybody uses the GUI is open.
Init ==
  /\ webLoaded \in BOOLEAN
  /\ buttons \in BOOLEAN
  /\ gtPeer = "disconnected"
  /\ upPeer = "disconnected"
  /\ srv = 0
  /\ cli = 0
  /\ upFor = 0
  /\ sessions = 0
  /\ leaked = 0
  /\ pending = FALSE
  /\ webTarget = FALSE
  /\ subTarget = FALSE
  /\ waiting = 0
  /\ fate = "none"

-----------------------------------------------------------------------------
(* The redirect targets, and who dials on a new session.                   *)

\* Mutant: the wait services the server host as well.
InLoopReentrant == TRUE

\* The main thread is in its loop, not inside on_receive's wait.
InLoop == waiting = 0

\* The HTTP handler of server_data.php stores the address the game client was
\* told to connect to, and tells the game client to come to the proxy.
HttpLogin ==
  /\ webLoaded
  /\ webTarget' = TRUE
  /\ UNCHANGED <<peers, players, pending, subTarget, waiting, fate>>

\* The Connection listeners of a new session: the web server's and
\* sub_server_switch's dial when they have a target, the client half's own when
\* the web server is not loaded.  Canceling the event does not keep it from the
\* remaining listeners (eventpp's heterogeneous lists drop canContinueInvoking),
\* so every listener with a target dials and forgets it; the first one gets the
\* client host's slot, for the others enet_host_connect has none left.
SomeoneDials == webTarget \/ subTarget \/ ~webLoaded

\* Client::connect, called by a listener for the session being created.
Connect(session) ==
  /\ pending' = TRUE
  /\ upPeer' = HostConnect(upPeer)
  /\ upFor' = IF upPeer = "disconnected" THEN session ELSE upFor

-----------------------------------------------------------------------------
(* server::Server                                                          *)

\* A CONNECT request of the game client takes the server host's only slot.
GtConnects ==
  /\ sessions < MaxSession
  /\ gtPeer = "disconnected"
  /\ gtPeer' = "accepting"
  /\ UNCHANGED <<upPeer, players, pending, targets, waiting, fate>>

\* The game client goes away, or the connection times out.
GtGone ==
  /\ gtPeer \in {"accepting", "connected"}
  /\ gtPeer' = RemoteGone(gtPeer)
  /\ UNCHANGED <<upPeer, players, pending, targets, waiting, fate>>

\* Server::on_connect.  A Player that is still there is deleted first.
ServerOnConnect ==
  /\ InLoop
  /\ gtPeer = "accepting"
  /\ gtPeer' = "connected"
  /\ sessions' = sessions + 1
  /\ srv' = sessions + 1
  /\ fate' = "none"
  /\ webTarget' = FALSE
  /\ subTarget' = FALSE
  /\ IF SomeoneDials
     THEN Connect(sessions + 1)
     ELSE UNCHANGED <<pending, upPeer, upFor>>
  /\ UNCHANGED <<cli, leaked, waiting>>

\* Mutant: the upstream connection outlives the session.
DropSessionOnly ==
  /\ srv' = 0
  /\ UNCHANGED upPeer

\* Server::on_disconnect: the upstream peer is dropped without an event, and
\* Client::player_ is left as it is.
DropSession ==
  /\ srv' = 0
  /\ upPeer' = IF srv # 0 /\ cli # 0 THEN DisconnectNow(upPeer) ELSE upPeer

ServerOnDisconnect ==
  /\ InLoop
  /\ gtPeer \in DisconnectEventStates
  /\ gtPeer' = "disconnected"
  /\ DropSession
  /\ UNCHANGED <<cli, upFor, sessions, leaked, pending, targets, waiting, fate>>

\* Server::on_receive from the point where to_player is known.  A packet is
\* passed on with send_packet, whose result nobody looks at.
Forward ==
  /\ fate' = IF CanSend(upPeer) THEN "sent" ELSE "lost"
  /\ UNCHANGED <<peers, srv>>

\* Or it is kept from the server whatever the upstream: its size is out of
\* bounds, it cannot be read, the filter blocks it, it is the login that
\* /logout refuses, or a listener cancels it (commands, dialogs, throwing).
Withhold ==
  /\ fate' = "withheld"
  /\ UNCHANGED <<peers, srv>>

\* Or it is the game client's own disconnect.
Quit ==
  /\ gtPeer' = DisconnectNow(gtPeer)
  /\ DropSession
  /\ UNCHANGED fate

ProcessPacket ==
  /\ waiting' = 0
  /\ Forward \/ Withhold \/ Quit
  /\ UNCHANGED <<cli, upFor, sessions, leaked, pending, targets>>

\* Server::on_receive of a packet.  Without a session the peer is disconnected;
\* without a Client::player_ the wait for one begins.
ServerOnReceive ==
  /\ InLoop
  /\ gtPeer = "connected"
  /\ IF srv = 0
     THEN /\ gtPeer' = Disconnect(gtPeer)
          /\ UNCHANGED <<upPeer, players, pending, targets, waiting, fate>>
     ELSE IF cli # 0
     THEN ProcessPacket
     ELSE /\ waiting' = WaitLimit
          /\ UNCHANGED <<peers, players, pending, targets, fate>>

\* Mutant: the wait ends as soon as the connect attempt is under way.
WaitForDialOnly ==
  /\ waiting > 0
  /\ upPeer # "disconnected"
  /\ ProcessPacket

\* The end of a round of the wait: Client::process has just returned.
WaitSucceeds ==
  /\ waiting > 0
  /\ cli # 0
  /\ ProcessPacket

\* Mutant: the wait goes on past its last round.
WaitWithoutEnd ==
  /\ cli = 0
  /\ waiting' = waiting - 1
  /\ UNCHANGED <<peers, players, pending, targets, fate>>

WaitContinues ==
  /\ waiting > 1
  /\ cli = 0
  /\ waiting' = waiting - 1
  /\ UNCHANGED <<peers, players, pending, targets, fate>>

\* The wait is over: the game client is alerted if it is still there, and the
\* packet dropped.
WaitExpires ==
  /\ waiting = 1
  /\ cli = 0
  /\ waiting' = 0
  /\ fate' = IF srv # 0 /\ CanSend(gtPeer) THEN "alerted" ELSE "lost"
  /\ UNCHANGED <<peers, players, pending, targets>>

-----------------------------------------------------------------------------
(* client::Client, serviced by the loop and by the wait alike.             *)

\* Mutant: a Player that is still there is kept for the new connection.
ClientOnConnectKeeping ==
  /\ upPeer = "connecting"
  /\ upPeer' = "connected"
  /\ pending' = FALSE
  /\ cli' = IF cli = 0 THEN upFor ELSE cli
  /\ UNCHANGED <<gtPeer, srv, upFor, sessions, leaked, targets, waiting, fate>>

\* Mutant: the event gets a Player of its own, which nobody deletes.
ClientOnConnectTwice ==
  /\ upPeer = "connecting"
  /\ upPeer' = "connected"
  /\ pending' = FALSE
  /\ cli' = upFor
  /\ leaked' = leaked + 1
  /\ UNCHANGED <<gtPeer, srv, upFor, sessions, targets, waiting, fate>>

\* Client::on_connect: a Player that is still there is forgotten, not deleted.
ClientOnConnect ==
  /\ upPeer = "connecting"
  /\ upPeer' = "connected"
  /\ pending' = FALSE
  /\ cli' = upFor
  /\ leaked' = IF cli # 0 THEN leaked + 1 ELSE leaked
  /\ UNCHANGED <<gtPeer, srv, upFor, sessions, targets, waiting, fate>>

\* The real server closes the connection, or it times out.
UpstreamGone ==
  /\ upPeer = "connected"
  /\ upPeer' = RemoteGone(upPeer)
  /\ UNCHANGED <<gtPeer, players, pending, targets, waiting, fate>>

\* Mutant: a packet that finds no session is dropped and the peer kept.
ClientOnReceiveIgnoring ==
  /\ upPeer = "connected"
  /\ srv # 0
  /\ upPeer' = Disconnect(upPeer)
  /\ UNCHANGED <<gtPeer, players, pending, targets, waiting, fate>>

\* Client::on_receive: without a session, or for a packet too short to carry a
\* type, the upstream peer is closed.
ClientOnReceiveClosing ==
  /\ upPeer = "connected"
  /\ upPeer' = Disconnect(upPeer)
  /\ UNCHANGED <<gtPeer, players, pending, targets, waiting, fate>>

\* Client::on_receive of OnSendToServer: sub_server_switch stores the target
\* and sends the game client back to the proxy.
ClientOnSendToServer ==
  /\ upPeer = "connected"
  /\ cli # 0
  /\ srv # 0
  /\ subTarget' = TRUE
  /\ UNCHANGED <<peers, players, pending, webTarget, waiting, fate>>

\* Mutant: player_ is deleted but not reset.
ClientOnDisconnectDangling ==
  /\ upPeer \in DisconnectEventStates
  /\ upPeer' = "disconnected"
  /\ UNCHANGED <<gtPeer, players, pending, targets, waiting, fate>>

\* Mutant: the game client is told, the session is not ended.
ClientOnDisconnectAlone ==
  /\ upPeer \in DisconnectEventStates
  /\ upPeer' = "disconnected"
  /\ cli' = 0
  /\ IF cli # 0 /\ srv # 0 THEN pending' = FALSE ELSE UNCHANGED pending
  /\ UNCHANGED <<gtPeer, srv, upFor, sessions, leaked, targets, waiting, fate>>

\* Client::on_disconnect.  Without a Player nothing else is told; otherwise
\* the session ends with the connection.
ClientOnDisconnect ==
  /\ upPeer \in DisconnectEventStates
  /\ upPeer' = "disconnected"
  /\ cli' = 0
  /\ IF cli # 0 /\ srv # 0
     THEN /\ pending' = FALSE
          /\ gtPeer' = DisconnectLater(gtPeer)
          /\ srv' = 0
     ELSE UNCHANGED <<pending, gtPeer, srv>>
  /\ UNCHANGED <<upFor, sessions, leaked, targets, waiting, fate>>

\* Mutant: the flag is only reset when there is somebody to tell.
ClientConnectTimeoutGuarded ==
  /\ pending
  /\ srv # 0
  /\ pending' = FALSE
  /\ UNCHANGED <<peers, players, targets, waiting, fate>>

\* Client::process notices that the connect attempt is CONNECT_TIMEOUT_SEC old.
ClientConnectTimeout ==
  /\ pending
  /\ pending' = FALSE
  /\ UNCHANGED <<peers, players, targets, waiting, fate>>

-----------------------------------------------------------------------------
(* Other threads.                                                          *)

\* The GUI's Connect button.
GuiConnect ==
  /\ buttons
  /\ cli = 0
  /\ srv # 0
  /\ gtPeer' = DisconnectNow(gtPeer)
  /\ UNCHANGED <<upPeer, players, pending, targets, waiting, fate>>

\* The GUI's Disconnect button.
GuiDisconnect ==
  /\ buttons
  /\ cli # 0
  /\ upPeer' = DisconnectNow(upPeer)
  /\ UNCHANGED <<gtPeer, players, pending, targets, waiting, fate>>

\* The thread that /logout starts once the game client has been refused.
LogoutDisconnect ==
  /\ srv # 0
  /\ gtPeer' = DisconnectLater(gtPeer)
  /\ UNCHANGED <<upPeer, players, pending, targets, waiting, fate>>

-----------------------------------------------------------------------------
ServerHandlers ==
  \/ ServerOnConnect
  \/ ServerOnDisconnect
  \/ ServerOnReceive
  \/ WaitSucceeds
  \/ WaitContinues
  \/ WaitExpires

ClientHandlers ==
  \/ ClientOnConnect
  \/ ClientOnReceiveClosing
  \/ ClientOnSendToServer
  \/ ClientOnDisconnect
  \/ ClientConnectTimeout

Environment ==
  \/ HttpLogin
  \/ GtConnects
  \/ GtGone
  \/ UpstreamGone
  \/ GuiConnect
  \/ GuiDisconnect
  \/ LogoutDisconnect

Next ==
  /\ ServerHandlers \/ ClientHandlers \/ Environment
  /\ UNCHANGED settings

Spec == Init /\ [][Next]_vars

\* The loop services both hosts for ever, the wait counts its rounds, ENet's
\* own timeouts end every connect attempt, and the real server speaks first
\* (SERVER_HELLO) on a connection it accepts.  Nothing obliges the game client,
\* the user or the HTTP side to act, nor a connected upstream to close.
Fairness ==
  /\ WF_moving(ServerOnDisconnect /\ gtPeer = "closing")
  /\ WF_moving(WaitSucceeds \/ WaitContinues \/ WaitExpires)
  /\ WF_moving(ClientOnConnect \/ (ClientOnDisconnect /\ upPeer = "connecting"))
  /\ WF_moving(ClientOnDisconnect /\ upPeer = "closing")
  /\ WF_moving(ClientOnReceiveClosing /\ srv = 0)
  /\ WF_moving(ClientConnectTimeout)

FairSpec == Spec /\ Fairness

-----------------------------------------------------------------------------
(* Safety                                                                  *)

\* An open connection has its own Player object on either half: the handlers'
\* branches for a packet on a peer without a Player are never taken, and the
\* Player a handler uses upstream is the one of the connection it uses, even
\* though disconnect_now leaves Player objects of dead connections behind.
PlayersMatchPeers ==
  /\ gtPeer = "connected" => srv # 0 /\ srv = sessions
  /\ upPeer \in {"connected", "closing"} => cli # 0 /\ cli = upFor

\* The wait of Server::on_receive runs Client::process, whose handlers may
\* delete the server half's Player.  When the wait ends with an upstream
\* Player, the session it waited for is still there to be dereferenced.
WaitHasSession == waiting > 0 /\ cli # 0 => srv # 0

\* Server::on_disconnect drops the upstream peer and keeps Client::player_.
\* Without the GUI's buttons no session ever meets such a stale Player of its
\* own: it always belongs to a session before it.
Stale == cli # 0 /\ upPeer \in {"disconnected", "connecting"}

StaleIsOlder == ~buttons /\ Stale /\ srv # 0 => cli < srv

\* Client::on_connect forgets a stale Player without deleting it.  However
\* sessions and connections interleave, at most one Player per session is
\* ever allocated upstream, so the leak is bounded by the sessions.
LeakBounded == leaked + (IF cli = 0 THEN 0 ELSE 1) <= sessions

\* send_packet's result is ignored, so a packet of a connected game client that
\* the proxy means to pass on may still vanish without an alert: but only while
\* the upstream connection is closing, or behind the stale Player of an earlier
\* session.  A packet that has been waited for is never lost to the latter.
\* (Packets the proxy withholds on purpose are another matter: Withhold.)
SilentLossIsStale ==
  [][~buttons /\ fate # fate' /\ fate' = "lost" /\ gtPeer = "connected" /\ srv # 0
     => upPeer = "closing" \/ (InLoop /\ cli < srv)]_vars

\* The session implements Pairing: with an upstream established, both halves
\* end in one step of the main thread, whichever ends first.  (The GUI's
\* buttons reset a peer behind the main thread's back and break the bond; where
\* they are used nothing is promised.)
Abstract == INSTANCE Pairing WITH
  down <- ~buttons /\ srv # 0,
  up <- CASE buttons \/ upPeer = "disconnected" -> "off"
          [] ~buttons /\ upPeer = "connecting"   -> "dialling"
          [] OTHER                               -> "on"

Paired == Abstract!Spec

-----------------------------------------------------------------------------
(* Liveness                                                                *)

\* A connect attempt is always resolved: it succeeds, the session ends, or the
\* eight seconds of Client::process pass.
PendingResolves == pending ~> ~pending

\* A connection dialled for a session that ended meanwhile does not stay open
\* unattended: it closes, or the next session takes it over.
OrphanEnds ==
  (srv = 0 /\ upPeer # "disconnected") ~> (srv # 0 \/ upPeer = "disconnected")

\* An upstream connection that closes takes the game client's connection along
\* and frees its slot for the next one.  (With the GUI's Disconnect no event
\* follows, and none of this holds.)
CloseReachesClient ==
  (~buttons /\ upPeer = "closing" /\ srv # 0) ~> (srv = 0 \/ upPeer = "connecting")

\* What fairness is about can happen whenever the guards say so.  The proofs of
\* the above take this as a hypothesis, because the provers know nothing of
\* ENABLED; TLC does.
CanHappen ==
  /\ pending => ENABLED <<ClientConnectTimeout>>_moving
  /\ upPeer = "closing" =>
       ENABLED <<ClientOnDisconnect /\ upPeer = "closing">>_moving
  /\ upPeer = "connecting" =>
       ENABLED <<ClientOnConnect \/ (ClientOnDisconnect /\ upPeer = "connecting")>>_moving
  /\ upPeer = "connected" /\ srv = 0 =>
       ENABLED <<ClientOnReceiveClosing /\ srv = 0>>_moving

=============================================================================
