---------------------------- MODULE SessionProofs ----------------------------
(***************************************************************************)
(* Theorems about Session, for every bound.                                *)
(***************************************************************************)
EXTENDS Session, TLAPS

USE ConstantsAssumption DEF ConstantsAssumption

-----------------------------------------------------------------------------
(* The inductive invariant.                                                *)

\* Numbers only grow, and a connection request is accepted within the bound.
Numbering ==
  /\ srv <= sessions
  /\ cli <= upFor
  /\ upFor <= sessions
  /\ gtPeer = "accepting" => sessions < MaxSession

\* A session that ended during the wait took the upstream half with it, and
\* nothing dials before the wait is over.
WaitAlone ==
  waiting > 0 /\ srv = 0 => cli = 0 /\ upPeer = "disconnected"

\* Without the GUI a session lasts as long as its connection holds the slot.
SlotFree ==
  ~buttons /\ gtPeer \in {"disconnected", "accepting"} => srv = 0

\* The Player a wait ends with is the one of the connection it waited for.
WaitFresh ==
  ~buttons /\ waiting > 0 /\ cli # 0 => upPeer \in {"connected", "closing"}

\* Every Player allocated upstream, and the one an open attempt will allocate,
\* was dialled by a session of its own.
LeakCount ==
  leaked + (IF cli = 0 THEN 0 ELSE 1) + (IF upPeer = "connecting" THEN 1 ELSE 0)
    <= upFor

IInv ==
  /\ TypeOK
  /\ PlayersMatchPeers
  /\ Numbering
  /\ SlotFree
  /\ WaitAlone
  /\ WaitFresh
  /\ LeakCount
  /\ StaleIsOlder

LEMMA InitInv == Init => IInv
  <1>1. Init => /\ webLoaded \in BOOLEAN /\ buttons \in BOOLEAN
                /\ pending \in BOOLEAN /\ webTarget \in BOOLEAN /\ subTarget \in BOOLEAN
    BY Zenon DEF Init
  <1> QED
    BY <1>1 DEF Init, IInv, TypeOK, PlayersMatchPeers, Numbering, SlotFree, WaitAlone,
                WaitFresh, LeakCount, StaleIsOlder, Stale, PeerState, Fate

LEMMA StepInv == IInv /\ [Next]_vars => IInv'
  <1> SUFFICES ASSUME IInv, [Next]_vars
               PROVE  IInv'
    OBVIOUS
  <1> USE DEF IInv, TypeOK, PlayersMatchPeers, Numbering, SlotFree, WaitAlone,
              WaitFresh, LeakCount, StaleIsOlder, Stale, PeerState, Fate, peers, players, targets,
              InLoop, DisconnectEventStates, DisconnectNow, Disconnect,
              DisconnectLater, RemoteGone, HostConnect
  <1>0. webLoaded' = webLoaded /\ buttons' = buttons
    BY DEF Next, vars, settings
  <1>1. CASE HttpLogin
    BY <1>0, <1>1 DEF HttpLogin
  <1>2. CASE GtConnects
    BY <1>0, <1>2 DEF GtConnects
  <1>3. CASE GtGone
    BY <1>0, <1>3 DEF GtGone
  <1>4. CASE ServerOnConnect
    <2>1. webTarget' \in BOOLEAN /\ subTarget' \in BOOLEAN
      BY <1>0, <1>4, Zenon DEF ServerOnConnect
    <2>2. CASE SomeoneDials
      <3>1. pending' \in BOOLEAN
        BY <1>0, <1>4, <2>2, Zenon DEF ServerOnConnect, Connect
      <3> QED
        BY <1>0, <1>4, <2>1, <2>2, <3>1 DEF ServerOnConnect, Connect
    <2>3. CASE ~SomeoneDials
      BY <1>0, <1>4, <2>1, <2>3 DEF ServerOnConnect
    <2> QED
      BY <2>2, <2>3
  <1>5. CASE ServerOnDisconnect
    BY <1>0, <1>5 DEF ServerOnDisconnect, DropSession
  <1>6. ASSUME waiting = 0 \/ (waiting > 0 /\ cli # 0), srv # 0 \/ waiting > 0,
               ProcessPacket
        PROVE  IInv'
    <2>1. CASE Forward
      BY <1>0, <1>6, <2>1 DEF ProcessPacket, Forward
    <2>2. CASE Withhold
      BY <1>0, <1>6, <2>2 DEF ProcessPacket, Withhold
    <2>3. CASE Quit
      BY <1>0, <1>6, <2>3 DEF ProcessPacket, Quit, DropSession
    <2> QED
      BY <1>0, <1>6, <2>1, <2>2, <2>3 DEF ProcessPacket
  <1>7. CASE ServerOnReceive
    BY <1>0, <1>6, <1>7 DEF ServerOnReceive
  <1>8. CASE WaitSucceeds
    BY <1>0, <1>6, <1>8 DEF WaitSucceeds
  <1>9. CASE WaitContinues
    BY <1>0, <1>9 DEF WaitContinues
  <1>10. CASE WaitExpires
    BY <1>0, <1>10 DEF WaitExpires
  <1>11. CASE ClientOnConnect
    <2>1. pending' \in BOOLEAN
      BY <1>0, <1>11, Zenon DEF ClientOnConnect
    <2> QED
      BY <1>0, <1>11, <2>1 DEF ClientOnConnect
  <1>12. CASE UpstreamGone
    BY <1>0, <1>12 DEF UpstreamGone
  <1>13. CASE ClientOnReceiveClosing
    BY <1>0, <1>13 DEF ClientOnReceiveClosing
  <1>14. CASE ClientOnSendToServer
    BY <1>0, <1>14 DEF ClientOnSendToServer
  <1>15. CASE ClientOnDisconnect
    <2>1. pending' \in BOOLEAN
      BY <1>0, <1>15, Zenon DEF ClientOnDisconnect
    <2> QED
      BY <1>0, <1>15, <2>1 DEF ClientOnDisconnect
  <1>16. CASE ClientConnectTimeout
    <2>1. pending' \in BOOLEAN
      BY <1>16, Zenon DEF ClientConnectTimeout
    <2> QED
      BY <1>0, <1>16, <2>1 DEF ClientConnectTimeout
  <1>17. CASE GuiConnect
    BY <1>0, <1>17 DEF GuiConnect
  <1>18. CASE GuiDisconnect
    BY <1>0, <1>18 DEF GuiDisconnect
  <1>19. CASE LogoutDisconnect
    BY <1>0, <1>19 DEF LogoutDisconnect
  <1>20. CASE UNCHANGED vars
    BY <1>0, <1>20 DEF vars, moving
  <1> QED
    BY <1>1, <1>2, <1>3, <1>4, <1>5, <1>7, <1>8, <1>9, <1>10, <1>11, <1>12, <1>13,
       <1>14, <1>15, <1>16, <1>17, <1>18, <1>19, <1>20
       DEF Next, ServerHandlers, ClientHandlers, Environment

LEMMA Invariance == Spec => []IInv
  BY InitInv, StepInv, PTL DEF Spec

-----------------------------------------------------------------------------
(* The theorems.                                                           *)

\* Every variable keeps its type, with no bound on how many packets, connect
\* attempts and rounds of waiting there are within a session.
THEOREM TypeCorrect == Spec => []TypeOK
  BY Invariance, PTL DEF IInv

\* The handlers never find an open connection without its Player object: the
\* "no player object" branches of both on_receive handlers are unreachable.
THEOREM PlayersCorrect == Spec => []PlayersMatchPeers
  BY Invariance, PTL DEF IInv

\* Server::on_receive never dereferences the Player its own wait has deleted.
THEOREM WaitSafe == Spec => []WaitHasSession
  <1>1. IInv => WaitHasSession
    BY DEF IInv, WaitAlone, WaitHasSession
  <1> QED
    BY <1>1, Invariance, PTL

\* Without the GUI's buttons a stale Client::player_ was left by an earlier
\* session than the one that meets it.
THEOREM StaleFromEarlier == Spec => []StaleIsOlder
  BY Invariance, PTL DEF IInv

\* The Player objects Client::on_connect leaks are bounded by the sessions.
THEOREM LeakBound == Spec => []LeakBounded
  <1>1. IInv => LeakBounded
    BY DEF IInv, TypeOK, Numbering, LeakCount, LeakBounded
  <1> QED
    BY <1>1, Invariance, PTL

\* A packet passed on after a wait is lost only if the upstream closes, any
\* other that is passed on only then or behind the stale Player of an earlier
\* session.  Packets withheld on purpose (Withhold) are told apart.
THEOREM SilentLossExplained == Spec => SilentLossIsStale
  <1>1. IInv /\ [Next]_vars
          => [~buttons /\ fate # fate' /\ fate' = "lost" /\ gtPeer = "connected"
              /\ srv # 0 => upPeer = "closing" \/ (InLoop /\ cli < srv)]_vars
    <2> SUFFICES ASSUME IInv, [Next]_vars, ~buttons, fate # fate', fate' = "lost",
                        gtPeer = "connected", srv # 0
                 PROVE  upPeer = "closing" \/ (InLoop /\ cli < srv)
      OBVIOUS
    <2>1. ServerOnReceive \/ WaitSucceeds \/ WaitExpires \/ ServerOnConnect
      BY DEF Next, vars, moving, peers, players, targets, ServerHandlers, ClientHandlers,
             Environment, ServerOnDisconnect, WaitContinues, ClientOnConnect,
             ClientOnReceiveClosing, ClientOnSendToServer, ClientOnDisconnect,
             ClientConnectTimeout, HttpLogin, GtConnects, GtGone, UpstreamGone,
             GuiConnect, GuiDisconnect, LogoutDisconnect
    <2>2. CASE ServerOnReceive
      BY <2>2 DEF ServerOnReceive, ProcessPacket, Forward, Withhold, Quit, CanSend, IInv,
                  TypeOK, PeerState, PlayersMatchPeers, StaleIsOlder, Stale
    <2>3. CASE WaitSucceeds
      BY <2>3 DEF WaitSucceeds, ProcessPacket, Forward, Withhold, Quit, CanSend, IInv,
                  TypeOK, PeerState, WaitFresh
    <2>4. CASE WaitExpires
      BY <2>4 DEF WaitExpires, CanSend
    <2>5. CASE ServerOnConnect
      BY <2>5 DEF ServerOnConnect
    <2> QED
      BY <2>1, <2>2, <2>3, <2>4, <2>5
  <1> QED
    BY <1>1, Invariance, PTL DEF Spec, SilentLossIsStale

\* Where nobody uses the GUI's buttons the session implements Pairing: the halves
\* of an established session end in the same step, whatever the number of
\* sessions and the length of the wait.
THEOREM SessionImplementsPairing == Spec => Paired
  <1>1. Init => Abstract!Init
    BY DEF Init, Abstract!Init
  <1>2. IInv /\ [Next]_vars => [Abstract!Next]_(Abstract!pvars)
    <2> SUFFICES ASSUME IInv, [Next]_vars
                 PROVE  Abstract!Next \/ UNCHANGED Abstract!pvars
      OBVIOUS
    <2>a. buttons' = buttons
      BY DEF Next, vars, settings
    <2>b. CASE buttons
      BY <2>a, <2>b DEF Abstract!pvars
    <2> SUFFICES ASSUME ~buttons, ~buttons'
                 PROVE  Abstract!Next \/ UNCHANGED Abstract!pvars
      BY <2>a, <2>b
    <2> USE DEF IInv, TypeOK, PlayersMatchPeers, Numbering, SlotFree, PeerState,
                Abstract!pvars,
                Abstract!Next, Abstract!Arrive, Abstract!Establish,
                Abstract!DialFails, Abstract!UpEnds, Abstract!DownEnds,
                peers, players, targets, DisconnectNow, Disconnect,
                DisconnectLater, RemoteGone, HostConnect
    <2>1. CASE HttpLogin
      BY <2>1 DEF HttpLogin
    <2>2. CASE GtConnects
      BY <2>2 DEF GtConnects
    <2>3. CASE GtGone
      BY <2>3 DEF GtGone
    <2>4. CASE ServerOnConnect
      <3>1. srv = 0 /\ srv' # 0
        BY <2>4 DEF ServerOnConnect
      <3>2. \/ upPeer' = upPeer
            \/ upPeer = "disconnected" /\ upPeer' = "connecting"
        <4>1. CASE SomeoneDials
          BY <2>4, <4>1 DEF ServerOnConnect, Connect
        <4>2. CASE ~SomeoneDials
          BY <2>4, <4>2 DEF ServerOnConnect
        <4> QED
          BY <4>1, <4>2
      <3> QED
        BY <3>1, <3>2
    <2>5. CASE ServerOnDisconnect
      BY <2>5 DEF ServerOnDisconnect, DropSession
    <2>6. ASSUME ProcessPacket
          PROVE  Abstract!Next \/ UNCHANGED Abstract!pvars
      BY <2>6 DEF ProcessPacket, Forward, Withhold, Quit, DropSession
    <2>7. CASE ServerOnReceive
      BY <2>6, <2>7 DEF ServerOnReceive
    <2>8. CASE WaitSucceeds
      BY <2>6, <2>8 DEF WaitSucceeds
    <2>9. CASE WaitContinues \/ WaitExpires
      BY <2>9 DEF WaitContinues, WaitExpires
    <2>10. CASE ClientOnConnect
      BY <2>10 DEF ClientOnConnect
    <2>11. CASE UpstreamGone \/ ClientOnReceiveClosing \/ ClientOnSendToServer
      BY <2>11 DEF UpstreamGone, ClientOnReceiveClosing, ClientOnSendToServer
    <2>12. CASE ClientOnDisconnect
      BY <2>12 DEF ClientOnDisconnect, DisconnectEventStates
    <2>13. CASE ClientConnectTimeout
      BY <2>13 DEF ClientConnectTimeout
    <2>14. CASE GuiConnect \/ GuiDisconnect
      BY <2>14 DEF GuiConnect, GuiDisconnect
    <2>15. CASE LogoutDisconnect
      BY <2>15 DEF LogoutDisconnect
    <2>16. CASE UNCHANGED vars
      BY <2>16 DEF vars, moving
    <2> QED
      BY <2>1, <2>2, <2>3, <2>4, <2>5, <2>7, <2>8, <2>9, <2>10, <2>11, <2>12,
         <2>13, <2>14, <2>15, <2>16
         DEF Next, ServerHandlers, ClientHandlers, Environment
  <1> QED
    BY <1>1, <1>2, Invariance, PTL DEF Spec, Paired, Abstract!Spec

-----------------------------------------------------------------------------
(* Liveness.  CanHappen is a hypothesis: it says of each fair handler what  *)
(* its guard is, and TLC finds it invariant.                               *)

\* Whatever else happens, an attempt to connect does not stay pending for ever:
\* eight seconds later at the latest Client::process resets the flag.
THEOREM AttemptsResolve == FairSpec /\ []CanHappen => PendingResolves
  <1>1. pending /\ <<ClientConnectTimeout>>_moving => ~pending'
    BY DEF ClientConnectTimeout
  <1> QED
    BY <1>1, PTL DEF FairSpec, Fairness, CanHappen, PendingResolves

\* An upstream that closes under a session takes it along, for any number of
\* sessions and even while the server half waits: the wait services the client
\* half, and the Player that tells whom to disconnect is there.
THEOREM CloseArrives == FairSpec /\ []CanHappen => CloseReachesClient
  <1> DEFINE Closing == ~buttons /\ upPeer = "closing" /\ srv # 0
             Closed == srv = 0 \/ upPeer = "connecting"
  <1>1. IInv /\ Closing /\ [Next]_vars => (Closing \/ Closed)'
    <2> SUFFICES ASSUME IInv, Closing, [Next]_vars
                 PROVE  (Closing \/ Closed)'
      OBVIOUS
    <2> USE DEF IInv, TypeOK, PlayersMatchPeers, Numbering, settings, peers, players,
                targets, PeerState
    <2>1. CASE ServerHandlers /\ UNCHANGED settings
      BY <2>1 DEF ServerHandlers, ServerOnConnect, ServerOnDisconnect, ServerOnReceive,
           WaitSucceeds, WaitContinues, WaitExpires, ProcessPacket, Forward, Withhold, Quit,
           DropSession, Connect, HostConnect, DisconnectNow
    <2>2. CASE ClientHandlers /\ UNCHANGED settings
      BY <2>2 DEF ClientHandlers, ClientOnConnect, ClientOnReceiveClosing,
           ClientOnSendToServer, ClientOnDisconnect, ClientConnectTimeout
    <2>3. CASE Environment /\ UNCHANGED settings
      BY <2>3 DEF Environment, HttpLogin, GtConnects, GtGone, UpstreamGone, GuiConnect,
           GuiDisconnect, LogoutDisconnect
    <2>4. CASE UNCHANGED vars
      BY <2>4 DEF vars, moving
    <2> QED
      BY <2>1, <2>2, <2>3, <2>4 DEF Next
  <1>2. IInv /\ Closing /\ <<ClientOnDisconnect /\ upPeer = "closing">>_moving => Closed'
    BY DEF IInv, PlayersMatchPeers, ClientOnDisconnect
  <1> QED
    BY <1>1, <1>2, Invariance, PTL
       DEF FairSpec, Spec, Fairness, CanHappen, CloseReachesClient

\* A connection dialled for a session that is gone is not left standing: it fails
\* or is accepted, the first packet upstream closes it, and the slot is free,
\* unless the game client has come back for it.
THEOREM OrphansEnd == FairSpec /\ []CanHappen => OrphanEnds
  <1> DEFINE Dialling == srv = 0 /\ upPeer = "connecting"
             Open     == srv = 0 /\ upPeer = "connected"
             Closing  == srv = 0 /\ upPeer = "closing"
             Over     == srv # 0 \/ upPeer = "disconnected"
  <1> USE DEF PeerState
  <1>1. TypeOK /\ ~Over => Dialling \/ Open \/ Closing
    BY DEF TypeOK
  <1>2. TypeOK /\ ~Over /\ [Next]_vars =>
          \/ Over'
          \/ upPeer' = upPeer
          \/ upPeer = "connecting" /\ upPeer' = "connected"
          \/ upPeer = "connected" /\ upPeer' = "closing"
    <2> SUFFICES ASSUME TypeOK, ~Over, [Next]_vars
                 PROVE  \/ Over'
                        \/ upPeer' = upPeer
                        \/ upPeer = "connecting" /\ upPeer' = "connected"
                        \/ upPeer = "connected" /\ upPeer' = "closing"
      OBVIOUS
    <2> USE DEF TypeOK, settings, peers, players, targets
    <2>1. CASE ServerHandlers /\ UNCHANGED settings
      BY <2>1 DEF ServerHandlers, ServerOnConnect, ServerOnDisconnect, ServerOnReceive,
           WaitSucceeds, WaitContinues, WaitExpires, ProcessPacket, Forward, Withhold, Quit,
           DropSession, Connect, HostConnect, DisconnectNow
    <2>2. CASE ClientHandlers /\ UNCHANGED settings
      BY <2>2 DEF ClientHandlers, ClientOnConnect, ClientOnReceiveClosing,
           ClientOnSendToServer, ClientOnDisconnect, ClientConnectTimeout, Disconnect
    <2>3. CASE Environment /\ UNCHANGED settings
      BY <2>3 DEF Environment, HttpLogin, GtConnects, GtGone, UpstreamGone, GuiConnect,
           GuiDisconnect, LogoutDisconnect, DisconnectNow, RemoteGone
    <2>4. CASE UNCHANGED vars
      BY <2>4 DEF vars, moving
    <2> QED
      BY <2>1, <2>2, <2>3, <2>4 DEF Next
  <1>3. /\ TypeOK /\ Dialling /\ [Next]_vars => (Dialling \/ Open \/ Over)'
        /\ TypeOK /\ Open /\ [Next]_vars => (Open \/ Closing \/ Over)'
        /\ TypeOK /\ Closing /\ [Next]_vars => (Closing \/ Over)'
    BY <1>2
  <1>4. Dialling /\ <<ClientOnConnect \/ (ClientOnDisconnect /\ upPeer = "connecting")>>_moving
          => (Open \/ Over)'
    BY DEF ClientOnConnect, ClientOnDisconnect
  <1>5. Open /\ <<ClientOnReceiveClosing /\ srv = 0>>_moving => (Closing \/ Over)'
    BY DEF ClientOnReceiveClosing, Disconnect
  <1>6. Closing /\ <<ClientOnDisconnect /\ upPeer = "closing">>_moving => Over'
    BY DEF ClientOnDisconnect
  <1>7. Spec => []TypeOK
    BY TypeCorrect
  <1> QED
    BY <1>1, <1>3, <1>4, <1>5, <1>6, <1>7, PTL
       DEF FairSpec, Spec, Fairness, CanHappen, OrphanEnds
=============================================================================
