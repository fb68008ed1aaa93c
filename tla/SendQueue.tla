------------------------------ MODULE SendQueue ------------------------------
(***************************************************************************)
(* Reliable packets on channel 0 of one ENet connection of the proxy.      *)
(* Player::send_packet calls enet_peer_send on the thread it is called on: *)
(* the main loop, which forwards and also transmits, and the workers of    *)
(* the automations and commands.  Nothing locks the peer.  A packet gets   *)
(* the channel's next sequence number and is linked to the end of a list;  *)
(* enet_host_service takes the list from its front; the other side accepts *)
(* each number once and hands the packets on in the order of the numbers.  *)
(*                                                                         *)
(* Each access to the shared counter and to the shared links is a step.    *)
(* Sequence numbers stay far below the 16 bits at which they wrap.  That a *)
(* packet whose acknowledgement is late is linked into the list once more  *)
(* to be sent again is left out: it stays in flight and may arrive again,  *)
(* so that what is said of the list is said of packets not sent before.    *)
(***************************************************************************)
EXTENDS Naturals, Sequences, Functions

CONSTANTS
  Threads,    \* the threads that send
  Main,       \* the thread of Core::run
  MaxPackets  \* bound: packets sent

ASSUME SendQueueAssumption == Main \in Threads /\ MaxPackets \in Nat

VARIABLES
  written,   \* packets handed to enet_peer_send; they are numbered from 1
  pc,        \* where each thread is
  packet,    \* the packet each thread works on
  raised,    \* the counter's value as each thread raised it
  sequence,  \* outgoingReliableSequenceNumber
  number,    \* reliableSequenceNumber of each packet
  next,      \* the links of outgoingSendReliableCommands; 0 is its sentinel
  previous,
  flying,    \* packets sent and not acknowledged
  held,      \* packets the other side holds back for an earlier one
  received   \* packets handed on by the other side

counter == <<sequence, number>>
links == <<next, previous>>
receiver == <<held, received>>
vars == <<written, pc, packet, raised, counter, links, flying, receiver>>

Packet == 1..MaxPackets
Node == 0..MaxPackets
Step == {"idle", "raise", "number", "insert", "link", "tail", "unlink"}

TypeOK ==
  /\ written \in Node
  /\ pc \in [Threads -> Step]
  /\ \A t \in Threads : pc[t] = "unlink" => t = Main
  /\ packet \in [Threads -> Node]
  /\ raised \in [Threads -> Nat]
  /\ sequence \in 0..written
  /\ number \in [Packet -> Node]
  /\ next \in [Node -> Node] /\ previous \in [Node -> Node]
  /\ flying \subseteq 1..written
  /\ held \subseteq 1..written
  /\ received \in Seq(1..written)

Init ==
  /\ written = 0
  /\ pc = [t \in Threads |-> "idle"]
  /\ packet = [t \in Threads |-> 0]
  /\ raised = [t \in Threads |-> 0]
  /\ sequence = 0
  /\ number = [p \in Packet |-> 0]
  /\ next = [n \in Node |-> 0] /\ previous = [n \in Node |-> 0]
  /\ flying = {} /\ held = {} /\ received = <<>>

Goes(t, from, to) == pc[t] = from /\ pc' = [pc EXCEPT ![t] = to]

-----------------------------------------------------------------------------
(* enet_peer_send                                                          *)

\* The load of ++ outgoingReliableSequenceNumber.
Send(t) ==
  /\ Goes(t, "idle", "raise")
  /\ written < MaxPackets
  /\ written' = written + 1
  /\ packet' = [packet EXCEPT ![t] = written + 1]
  /\ raised' = [raised EXCEPT ![t] = sequence + 1]
  /\ UNCHANGED <<counter, links, flying, receiver>>

\* Mutant: the counter is raised for the queue as well.
RaiseTwice(t) == sequence' = raised[t] + 1

\* Its store.
RaiseOnce(t) == sequence' = raised[t]

Raise(t) ==
  /\ Goes(t, "raise", "number")
  /\ RaiseOnce(t)
  /\ UNCHANGED <<written, packet, raised, number, links, flying, receiver>>

\* Mutant: the packet takes the number the counter had.
NumberBefore(t) == {raised[t] - 1}

\* The counter is read again, or is still in a register.
NumberRead(t) == {sequence, raised[t]}

Number(t) ==
  /\ Goes(t, "number", "insert")
  /\ \E n \in NumberRead(t) : number' = [number EXCEPT ![packet[t]] = n]
  /\ UNCHANGED <<written, packet, raised, sequence, links, flying, receiver>>

\* enet_list_insert, before the list's end: the packet's own links first.
Insert(t) ==
  /\ Goes(t, "insert", "link")
  /\ previous' = [previous EXCEPT ![packet[t]] = previous[0]]
  /\ next' = [next EXCEPT ![packet[t]] = 0]
  /\ UNCHANGED <<written, packet, raised, counter, flying, receiver>>

Link(t) ==
  /\ Goes(t, "link", "tail")
  /\ next' = [next EXCEPT ![previous[packet[t]]] = packet[t]]
  /\ UNCHANGED <<written, packet, raised, counter, previous, flying, receiver>>

\* Mutant: the list's end is left where it was.
LeavesTail(t) == UNCHANGED previous

MovesTail(t) == previous' = [previous EXCEPT ![0] = packet[t]]

MoveTail(t) ==
  /\ Goes(t, "tail", "idle")
  /\ MovesTail(t)
  /\ UNCHANGED <<written, packet, raised, counter, next, flying, receiver>>

-----------------------------------------------------------------------------
(* enet_protocol_check_outgoing_commands, in the main loop.  The links of  *)
(* the list of sent packets are left out: once a packet is sent, a write   *)
(* through its old place is without effect here.                           *)

Transmit ==
  /\ next[0] # 0
  /\ Goes(Main, "idle", "unlink")
  /\ packet' = [packet EXCEPT ![Main] = next[0]]
  /\ next' = [next EXCEPT ![previous[next[0]]] = next[next[0]]]
  /\ UNCHANGED <<written, raised, counter, previous, flying, receiver>>

Unlink ==
  /\ Goes(Main, "unlink", "idle")
  /\ previous' = [previous EXCEPT ![next[packet[Main]]] = previous[packet[Main]]]
  /\ flying' = flying \cup {packet[Main]}
  /\ UNCHANGED <<written, packet, raised, counter, next, receiver>>

-----------------------------------------------------------------------------
(* The other side                                                          *)

Incoming == IF received = <<>> THEN 0 ELSE number[received[Len(received)]]

\* A number that was handed on or is held already is a duplicate.
Duplicate(p) == number[p] <= Incoming \/ \E q \in held : number[q] = number[p]

\* Packets arrive in any order, and again until the acknowledgement gets through.
Arrive(p) ==
  /\ p \in flying
  /\ held' = IF Duplicate(p) THEN held ELSE held \cup {p}
  /\ flying' \in {flying, flying \ {p}}
  /\ UNCHANGED <<written, pc, packet, raised, counter, links, received>>

Dispatch ==
  /\ \E p \in held :
       /\ number[p] = Incoming + 1
       /\ received' = Append(received, p)
       /\ held' = held \ {p}
  /\ UNCHANGED <<written, pc, packet, raised, counter, links, flying>>

-----------------------------------------------------------------------------
Sends(t) == Send(t) \/ Raise(t) \/ Number(t) \/ Insert(t) \/ Link(t) \/ MoveTail(t)
Next ==
  \/ \E t \in Threads : Sends(t)
  \/ Transmit \/ Unlink
  \/ \E p \in Packet : Arrive(p)
  \/ Dispatch
Spec == Init /\ [][Next]_vars

\* A thread finishes what it calls; the main loop comes back to the connection,
\* whatever it sends between two visits; ENet retransmits until an acknowledgement
\* gets through.
Finishes(t) == Raise(t) \/ Number(t) \/ Insert(t) \/ Link(t) \/ MoveTail(t)
Acknowledged(p) == Arrive(p) /\ p \notin flying'
Ends(t) == WF_vars(Finishes(t))
Services == SF_vars(Transmit) /\ WF_vars(Unlink)
Retransmits(p) == WF_vars(Acknowledged(p))
HandsOn == WF_vars(Dispatch)
Fairness ==
  /\ \A t \in Threads : Ends(t)
  /\ Services
  /\ \A p \in Packet : Retransmits(p)
  /\ HandsOn
FairSpec == Spec /\ Fairness

-----------------------------------------------------------------------------
(* Properties                                                              *)

\* Whenever no thread is at the list, its two chains are each other's inverse
\* and its packets stand in the order of their numbers.
Queued == {p \in 1..written : number[p] # 0 /\ p \notin flying \cup held \cup Range(received)}
ListSound ==
  (\A t \in Threads : pc[t] \in {"idle", "raise", "number", "insert"}) =>
    \A n \in {0} \cup {p \in Queued : \A t \in Threads : pc[t] = "insert" => packet[t] # p} :
      /\ previous[next[n]] = n
      /\ n # 0 /\ next[n] # 0 => number[n] < number[next[n]]

\* The other side gets the packets of one sender in the order they were sent.
InOrder == \A i \in 1..Len(received) : received[i] = i

\* As long as one thread sends, its calls of enet_peer_send, the list, the numbers and
\* what the network does to the packets are a channel: each packet comes out once, in
\* its turn, after it was put in, and what has come out stays as it is.
AsChannel == INSTANCE Channel WITH sent <- written, got <- received
OneSenderIsChannel == AsChannel!Spec

\* What is dropped as a duplicate has come before.
DropsOnlyRepeats ==
  [][\A p \in flying \ (held \cup Range(received)) : p \in flying' \cup held']_vars

\* Every packet that enet_peer_send took arrives.
EverythingArrives == \A p \in Packet : written >= p ~> p \in Range(received)

\* A thread in a call can go on, the main loop can service a list that is not empty,
\* and what is on its way can arrive and be handed on.  The proof that every
\* packet arrives takes this as a hypothesis, because the provers know nothing of
\* ENABLED; TLC does.
MayArrive(p) == ENABLED <<Acknowledged(p)>>_vars
CanHappen ==
  /\ pc[Main] \in {"raise", "number", "insert", "link", "tail"} => ENABLED <<Finishes(Main)>>_vars
  /\ pc[Main] = "idle" /\ next[0] # 0 => ENABLED <<Transmit>>_vars
  /\ pc[Main] = "unlink" => ENABLED <<Unlink>>_vars
  /\ \A p \in Packet : p \in flying => MayArrive(p)
  /\ (\E p \in held : number[p] = Incoming + 1) => ENABLED <<Dispatch>>_vars
=============================================================================
