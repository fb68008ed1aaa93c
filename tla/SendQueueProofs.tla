--------------------------- MODULE SendQueueProofs ---------------------------
(***************************************************************************)
(* Theorems about SendQueue, for every number of packets.  Types hold for  *)
(* any number of threads; the order in which packets arrive and the        *)
(* soundness of the list hold as long as one thread does all the sending.  *)
(*                                                                         *)
(* The links do not matter for the order: whatever way a packet went, its  *)
(* number is its place among the packets sent, and the other side hands    *)
(* packets on by number.                                                   *)
(***************************************************************************)
EXTENDS SendQueue, SequenceTheorems, WellFoundedInduction, TLAPS

\* The counter is behind by the packet whose number is not stored yet.
Counting ==
  sequence = IF pc[Main] = "raise" THEN written - 1 ELSE written

\* Between the load and the number the thread holds the newest packet.
Newest ==
  pc[Main] \in {"raise", "number"} => packet[Main] = written /\ raised[Main] = written

Numbered == \A p \in Packet : number[p] \in {0, p}

Types ==
  /\ written \in Node
  /\ pc \in [Threads -> Step]
  /\ packet \in [Threads -> Node]
  /\ raised \in [Threads -> Nat]
  /\ number \in [Packet -> Node]
  /\ next \in [Node -> Node]
  /\ flying \subseteq Node
  /\ held \subseteq Packet
  /\ received \in Seq(Packet)

IInv ==
  /\ Types /\ Counting /\ Newest /\ Numbered
  /\ \A p \in held : number[p] = p
  /\ InOrder
  /\ \A i \in 1..Len(received) : number[received[i]] = received[i]

USE SendQueueAssumption DEF SendQueueAssumption, Packet, Node, Step

LEMMA InitIInv == Threads = {Main} /\ Init => IInv
BY DEF Init, IInv, Types, Counting, Newest, Numbered, InOrder

\* Only Number gives a packet a number, and it gives it its place among those sent.
LEMMA SendsIInv ==
  ASSUME Threads = {Main}, IInv, Sends(Main)
  PROVE  IInv'
<1> USE DEF IInv, Types, Goes, counter, links, receiver
<1>1. CASE Send(Main)
  <2>1. /\ pc[Main] = "idle" /\ pc'[Main] = "raise"
        /\ sequence = written /\ written' = written + 1 /\ sequence' = sequence
        /\ written < MaxPackets
    BY <1>1 DEF Send, Counting
  <2>2. packet'[Main] = written + 1 /\ raised'[Main] = written + 1
    BY <1>1, <2>1 DEF Send
  <2>3. Counting' /\ Newest'
    BY <2>1, <2>2 DEF Counting, Newest
  <2>4. written' \in Node /\ written + 1 \in Node /\ sequence + 1 \in Nat
    BY <2>1
  <2>5. /\ pc' \in [Threads -> Step] /\ packet' \in [Threads -> Node]
        /\ raised' \in [Threads -> Nat]
    BY <1>1, <2>4 DEF Send
  <2>6. UNCHANGED <<number, next, flying, held, received>>
    BY <1>1 DEF Send
  <2>7. Types'
    BY <2>4, <2>5, <2>6
  <2>8. QED
    BY <2>3, <2>6, <2>7 DEF Numbered, InOrder
<1>2. CASE Raise(Main)
  BY <1>2 DEF Raise, RaiseOnce, Counting, Newest, Numbered, InOrder
<1>3. CASE Number(Main)
  <2>0. pc[Main] = "number" /\ packet[Main] = written /\ sequence = written
        /\ raised[Main] = written
    BY <1>3 DEF Number, Counting, Newest
  <2>1. number' = [number EXCEPT ![written] = written]
    BY <1>3, <2>0 DEF Number, NumberRead
  <2>2. \A p \in Packet : number'[p] = number[p] \/ number'[p] = p
    BY <2>1
  <2>3. pc[Main] = "number" /\ pc'[Main] = "insert"
    BY <1>3 DEF Number
  <2>4. UNCHANGED <<written, packet, raised, sequence, next, flying, held, received>>
    BY <1>3 DEF Number
  <2>5. pc' \in [Threads -> Step] /\ number' \in [Packet -> Node]
    BY <1>3, <2>1 DEF Number
  <2>6. Types'
    BY <2>4, <2>5
  <2>7. Counting' /\ Newest'
    BY <2>3, <2>4 DEF Counting, Newest
  <2>8. Numbered' /\ \A p \in held' : number'[p] = p
    BY <2>2, <2>4 DEF Numbered
  <2>9. InOrder' /\ \A i \in 1..Len(received') : number'[received'[i]] = received'[i]
    <3>1. \A i \in 1..Len(received) : received[i] \in Packet
      BY ElementOfSeq
    <3>2. QED
      BY <2>2, <2>4, <3>1 DEF InOrder
  <2>10. QED
    BY <2>6, <2>7, <2>8, <2>9
<1>4. CASE Insert(Main)
  BY <1>4 DEF Insert, Counting, Newest, Numbered, InOrder
<1>5. CASE Link(Main)
  BY <1>5 DEF Link, Counting, Newest, Numbered, InOrder
<1>6. CASE MoveTail(Main)
  BY <1>6 DEF MoveTail, Counting, Newest, Numbered, InOrder
<1>7. QED
  BY <1>1, <1>2, <1>3, <1>4, <1>5, <1>6 DEF Sends

LEMMA ServiceIInv ==
  ASSUME Threads = {Main}, IInv, Transmit \/ Unlink
  PROVE  IInv'
<1> USE DEF IInv, Types, Goes, counter, links, receiver
<1>1. CASE Transmit
  <2>1. pc[Main] = "idle" /\ pc'[Main] = "unlink"
    BY <1>1 DEF Transmit
  <2>2. UNCHANGED <<written, raised, sequence, number, flying, held, received>>
    BY <1>1 DEF Transmit
  <2>3. pc' \in [Threads -> Step] /\ packet' \in [Threads -> Node]
    BY <1>1 DEF Transmit
  <2>4. next' \in [Node -> Node]
    <3>1. next' = [next EXCEPT ![previous[next[0]]] = next[next[0]]]
      BY <1>1 DEF Transmit
    <3>2. next[0] \in Node /\ next[next[0]] \in Node
      OBVIOUS
    <3>3. QED
      BY <3>1, <3>2
  <2>5. Types'
    BY <2>2, <2>3, <2>4
  <2>6. Counting' /\ Newest'
    BY <2>1, <2>2 DEF Counting, Newest
  <2>7. QED
    BY <2>2, <2>5, <2>6 DEF Numbered, InOrder
<1>2. CASE Unlink
  BY <1>2 DEF Unlink, Counting, Newest, Numbered, InOrder
<1>3. QED
  BY <1>1, <1>2

\* The other side expects the number after the ones it handed on.
LEMMA IncomingIsLength == IInv => Incoming = Len(received)
<1> SUFFICES ASSUME IInv PROVE Incoming = Len(received)
  OBVIOUS
<1> USE DEF IInv, Types, InOrder
<1>1. CASE received = <<>>
  <2>1. Len(received) = 0
    BY <1>1
  <2>2. QED
    BY <1>1, <2>1 DEF Incoming
<1>2. CASE received # <<>>
  <2>1. Len(received) \in 1..Len(received)
    BY <1>2
  <2>2. number[received[Len(received)]] = Len(received)
    BY <2>1
  <2>3. QED
    BY <1>2, <2>2 DEF Incoming
<1>3. QED
  BY <1>1, <1>2

LEMMA ArriveIInv ==
  ASSUME Threads = {Main}, IInv, NEW p \in Packet, Arrive(p)
  PROVE  IInv'
<1> USE DEF IInv, Types, Counting, Newest, Numbered, InOrder, counter, links
<1>1. UNCHANGED <<written, pc, packet, raised, sequence, number, next, received>>
  BY DEF Arrive
<1>2. Incoming \in Nat
  <2>1. Len(received) \in Nat
    BY LenProperties
  <2>2. QED
    BY <2>1, IncomingIsLength
<1>3. p \in held' \ held => number[p] = p
  BY <1>2 DEF Arrive, Duplicate
<1>4. held' \subseteq held \cup {p} /\ flying' \subseteq flying
  BY DEF Arrive
<1>5. QED
  BY <1>1, <1>3, <1>4

LEMMA DispatchIInv ==
  ASSUME Threads = {Main}, IInv, Dispatch
  PROVE  IInv'
<1> USE DEF IInv, Types, counter, links
<1>1. PICK p \in held : /\ number[p] = Incoming + 1
                        /\ received' = Append(received, p)
                        /\ held' = held \ {p}
  BY DEF Dispatch
<1>2. UNCHANGED <<written, pc, packet, raised, sequence, number, next, flying>>
  BY DEF Dispatch
<1>3. p = Len(received) + 1 /\ number[p] = p /\ p \in Packet
  BY <1>1, IncomingIsLength
<1>4. /\ Len(received') = Len(received) + 1
      /\ \A i \in 1..Len(received) : received'[i] = received[i]
      /\ received'[Len(received) + 1] = p
      /\ received' \in Seq(Packet)
  BY <1>1, <1>3
<1>5. InOrder' /\ \A i \in 1..Len(received') : number'[received'[i]] = received'[i]
  <2> SUFFICES ASSUME NEW i \in 1..Len(received')
               PROVE  received'[i] = i /\ number'[received'[i]] = received'[i]
    BY DEF InOrder
  <2>1. CASE i \in 1..Len(received)
    BY <1>2, <1>4, <2>1 DEF InOrder
  <2>2. CASE i = Len(received) + 1
    BY <1>2, <1>3, <1>4, <2>2
  <2>3. QED
    BY <1>4, <2>1, <2>2
<1>6. Types'
  BY <1>1, <1>2, <1>4
<1>7. Counting' /\ Newest' /\ Numbered'
  BY <1>2 DEF Counting, Newest, Numbered
<1>8. QED
  BY <1>1, <1>2, <1>5, <1>6, <1>7

-----------------------------------------------------------------------------
(* Types, for any number of threads.  Their writes to the links cross, but *)
(* whatever they leave there is a packet that has been written.            *)

Bounded ==
  /\ \A t \in Threads : packet[t] <= written /\ raised[t] <= written
  /\ \A n \in Node : next[n] <= written /\ previous[n] <= written
  /\ pc[Main] = "unlink" => packet[Main] # 0

TInv == TypeOK /\ Bounded

LEMMA InitTInv == Init => TInv
<1> SUFFICES ASSUME Init PROVE TInv
  OBVIOUS
<1>1. Bounded
  BY DEF Init, Bounded
<1>2. TypeOK
  BY DEF Init, TypeOK
<1>3. QED
  BY <1>1, <1>2 DEF TInv

\* A sequence of written packets is one still when more are written.
LEMMA SeqGrows ==
  ASSUME NEW a \in Nat, NEW s \in Seq(1..a), NEW b \in Nat, a <= b
  PROVE  s \in Seq(1..b)
<1>1. \A i \in 1..Len(s) : s[i] \in 1..b
  BY ElementOfSeq
<1>2. QED
  BY <1>1

LEMMA InRange ==
  ASSUME TInv
  PROVE  /\ written \in Nat /\ written <= MaxPackets /\ sequence \in 0..written
         /\ \A t \in Threads : packet[t] \in 0..written /\ raised[t] \in 0..written
         /\ \A n \in Node : next[n] \in 0..written /\ previous[n] \in 0..written
<1>1. written \in Nat /\ written <= MaxPackets /\ sequence \in 0..written
  BY DEF TInv, TypeOK
<1>2. packet \in [Threads -> Node] /\ raised \in [Threads -> Nat]
  BY DEF TInv, TypeOK
<1>3. next \in [Node -> Node] /\ previous \in [Node -> Node]
  BY DEF TInv, TypeOK
<1>4. /\ \A t \in Threads : packet[t] <= written /\ raised[t] <= written
      /\ \A n \in Node : next[n] <= written /\ previous[n] <= written
  BY DEF TInv, Bounded
<1>5. \A t \in Threads : packet[t] \in 0..written /\ raised[t] \in 0..written
  BY <1>1, <1>2, <1>4
<1>6. \A n \in Node : next[n] \in 0..written /\ previous[n] \in 0..written
  <2> SUFFICES ASSUME NEW n \in Node
               PROVE  next[n] \in 0..written /\ previous[n] \in 0..written
    OBVIOUS
  <2>1. next[n] \in Node /\ previous[n] \in Node
    BY <1>3
  <2>2. next[n] <= written /\ previous[n] <= written
    BY <1>4
  <2> QED
    BY <1>1, <2>1, <2>2
<1>7. QED
  BY <1>1, <1>5, <1>6

LEMMA SendsTInv ==
  ASSUME TInv, NEW t \in Threads, Sends(t)
  PROVE  TInv'
<1> USE DEF Goes, counter, links, receiver
<1>t. /\ written \in Node /\ number \in [Packet -> Node] /\ sequence \in 0..written
      /\ pc \in [Threads -> Step] /\ \A u \in Threads : pc[u] = "unlink" => u = Main
      /\ packet \in [Threads -> Node] /\ raised \in [Threads -> Nat]
      /\ next \in [Node -> Node] /\ previous \in [Node -> Node]
  BY DEF TInv, TypeOK
<1>r. /\ flying \subseteq 1..written /\ held \subseteq 1..written
      /\ received \in Seq(1..written)
  BY DEF TInv, TypeOK
<1>b. /\ \A u \in Threads : packet[u] <= written /\ raised[u] <= written
      /\ \A n \in Node : next[n] <= written /\ previous[n] <= written
      /\ pc[Main] = "unlink" => packet[Main] # 0
  BY DEF TInv, Bounded
<1>pc. /\ pc' \in [Threads -> Step] /\ \A u \in Threads : pc'[u] = "unlink" => u = Main
       /\ pc'[Main] = "unlink" => pc[Main] = "unlink" /\ t # Main
  <2>1. \E to \in Step \ {"unlink"} : pc' = [pc EXCEPT ![t] = to]
    BY DEF Sends, Send, Raise, Number, Insert, Link, MoveTail
  <2>2. QED
    BY <1>t, <2>1
<1>1. CASE Send(t)
  <2>1. written' = written + 1 /\ written' \in Node /\ written \in Nat
    BY <1>1, <1>t DEF Send
  <2>2. received' \in Seq(1..written')
    <3>1. received \in Seq(1..(written + 1)) /\ received' = received
      BY <1>1, <1>r, <2>1, SeqGrows DEF Send
    <3>2. QED
      BY <2>1, <3>1
  <2>3. written + 1 \in Node /\ sequence + 1 \in Nat /\ sequence + 1 <= written + 1
    BY <1>t, <2>1
  <2>4. /\ packet' = [packet EXCEPT ![t] = written + 1]
        /\ raised' = [raised EXCEPT ![t] = sequence + 1]
    BY <1>1 DEF Send
  <2>5. UNCHANGED <<sequence, number, next, previous, flying, held>>
    BY <1>1 DEF Send
  <2>6. packet' \in [Threads -> Node] /\ raised' \in [Threads -> Nat]
    BY <1>t, <2>3, <2>4
  <2>7. \A u \in Threads : packet'[u] <= written + 1 /\ raised'[u] <= written + 1
    <3>1. \A u \in Threads : packet[u] <= written + 1 /\ raised[u] <= written + 1
      BY InRange
    <3>2. \A u \in Threads : /\ packet'[u] \in {packet[u], written + 1}
                             /\ raised'[u] \in {raised[u], sequence + 1}
      BY <1>t, <2>4
    <3>3. written + 1 <= written + 1
      BY <2>1
    <3>4. QED
      BY <2>3, <3>1, <3>2, <3>3
  <2>8. \A n \in Node : next'[n] <= written + 1 /\ previous'[n] <= written + 1
    BY <2>5, InRange
  <2>9. Bounded'
    BY <1>pc, <1>b, <2>1, <2>4, <2>7, <2>8 DEF Bounded
  <2>10. sequence' \in 0..written' /\ flying' \subseteq 1..written' /\ held' \subseteq 1..written'
    <3>1. sequence \in 0..(written + 1) /\ 1..written \subseteq 1..(written + 1)
      BY <1>t, <2>1
    <3>2. QED
      BY <1>r, <2>1, <2>5, <3>1
  <2>11. TypeOK'
    BY <1>t, <1>pc, <2>1, <2>2, <2>5, <2>6, <2>10 DEF TypeOK
  <2>12. QED
    BY <2>9, <2>11 DEF TInv
<1>2. CASE Raise(t)
  <2>1. sequence' = raised[t] /\ UNCHANGED <<written, packet, raised, number, links, flying, receiver>>
    BY <1>2 DEF Raise, RaiseOnce
  <2>2. sequence' \in 0..written
    BY <2>1, InRange
  <2>3. TypeOK'
    BY <1>t, <1>r, <1>pc, <2>1, <2>2 DEF TypeOK
  <2>4. QED
    BY <1>b, <1>pc, <2>1, <2>3 DEF TInv, Bounded
<1>3. CASE Number(t)
  <2>1. PICK n \in NumberRead(t) : number' = [number EXCEPT ![packet[t]] = n]
    BY <1>3 DEF Number
  <2>2. n \in Node
    <3>1. sequence \in Node /\ raised[t] \in Node
      BY InRange
    <3>2. QED
      BY <3>1 DEF NumberRead
  <2>3. number' \in [Packet -> Node]
    BY <1>t, <2>1, <2>2
  <2>4. UNCHANGED <<written, packet, raised, sequence, next, previous, flying, held, received>>
    BY <1>3 DEF Number
  <2>5. TypeOK'
    BY <1>t, <1>r, <1>pc, <2>3, <2>4 DEF TypeOK
  <2>6. QED
    BY <1>b, <1>pc, <2>4, <2>5 DEF TInv, Bounded
<1>4. CASE Insert(t) \/ Link(t) \/ MoveTail(t)
  <2>1. UNCHANGED <<written, packet, raised, sequence, number, flying, held, received>>
    BY <1>4 DEF Insert, Link, MoveTail, MovesTail
  <2>2. packet[t] \in 0..written /\ packet[t] \in Node /\ previous[0] \in 0..written
    <3>1. 0 \in Node
      OBVIOUS
    <3>2. QED
      BY <1>t, <3>1, InRange
  <2>3. \A n \in Node : next'[n] \in {next[n], 0, packet[t]}
    BY <1>4, <1>t DEF Insert, Link, MoveTail, MovesTail
  <2>4. \A n \in Node : previous'[n] \in {previous[n], previous[0], packet[t]}
    BY <1>4, <1>t DEF Insert, Link, MoveTail, MovesTail
  <2>5. /\ next' = [n \in Node |-> next'[n]] /\ previous' = [n \in Node |-> previous'[n]]
    BY <1>4, <1>t DEF Insert, Link, MoveTail, MovesTail
  <2>6. \A n \in Node : next'[n] \in 0..written /\ previous'[n] \in 0..written
    BY <2>2, <2>3, <2>4, InRange
  <2>7. \A n \in Node : next'[n] \in Node /\ previous'[n] \in Node
    BY <2>6, InRange
  <2>8. next' \in [Node -> Node] /\ previous' \in [Node -> Node]
    BY <2>5, <2>7
  <2>9. TypeOK'
    BY <1>t, <1>r, <1>pc, <2>1, <2>8 DEF TypeOK
  <2>10. \A n \in Node : next'[n] <= written /\ previous'[n] <= written
    <3>1. written \in Nat
      BY <1>t
    <3>2. QED
      BY <2>6, <3>1
  <2>11. QED
    BY <1>b, <1>pc, <2>1, <2>9, <2>10 DEF TInv, Bounded
<1>5. QED
  BY <1>1, <1>2, <1>3, <1>4 DEF Sends

LEMMA ReceiverTInv ==
  ASSUME TInv, Dispatch \/ \E p \in Packet : Arrive(p)
  PROVE  TInv'
<1> USE DEF TInv, TypeOK, Bounded, counter, links, receiver
<1>1. CASE Dispatch
  <2>1. PICK p \in held : received' = Append(received, p) /\ held' = held \ {p}
    BY <1>1 DEF Dispatch
  <2>2. received' \in Seq(1..written)
    BY <2>1
  <2>3. QED
    BY <1>1, <2>1, <2>2 DEF Dispatch
<1>2. ASSUME NEW p \in Packet, Arrive(p)
      PROVE  TInv'
  <2>1. held' \subseteq held \cup {p} /\ flying' \subseteq flying /\ p \in flying
    BY <1>2 DEF Arrive
  <2>2. QED
    BY <1>2, <2>1 DEF Arrive
<1>3. QED
  BY <1>1, <1>2

LEMMA NextTInv == TInv /\ [Next]_vars => TInv'
<1> SUFFICES ASSUME TInv, [Next]_vars PROVE TInv'
  OBVIOUS
<1> USE DEF TInv, TypeOK, Bounded, Goes, counter, links, receiver
<1>1. CASE Transmit
  <2>1. next[0] \in Node /\ previous[next[0]] \in Node /\ next[next[0]] \in Node
    OBVIOUS
  <2>2. /\ packet' = [packet EXCEPT ![Main] = next[0]] /\ next[0] # 0
        /\ next' = [next EXCEPT ![previous[next[0]]] = next[next[0]]]
        /\ pc' = [pc EXCEPT ![Main] = "unlink"]
    BY <1>1 DEF Transmit
  <2>3. UNCHANGED <<written, raised, sequence, number, previous, flying, held, received>>
    BY <1>1 DEF Transmit
  <2>4. packet' \in [Threads -> Node] /\ next' \in [Node -> Node]
    BY <2>1, <2>2
  <2>5. \A t \in Threads : packet'[t] <= written
    BY <2>1, <2>2
  <2>6. \A n \in Node : next'[n] <= written
    BY <2>1, <2>2
  <2>7. /\ pc' \in [Threads -> Step] /\ \A u \in Threads : pc'[u] = "unlink" => u = Main
        /\ packet'[Main] # 0
    BY <2>2
  <2>8. QED
    BY <2>3, <2>4, <2>5, <2>6, <2>7
<1>2. CASE Unlink
  <2>u. pc[Main] = "unlink" /\ packet[Main] # 0
    BY <1>2 DEF Unlink
  <2>p. packet[Main] \in 0..written /\ packet[Main] \in Node /\ written \in Nat
    BY InRange
  <2>q. next[packet[Main]] \in Node /\ previous[packet[Main]] \in Node
        /\ previous[packet[Main]] <= written
    BY <2>p
  <2>1. packet[Main] \in 1..written /\ next[packet[Main]] \in Node
        /\ previous[packet[Main]] \in Node /\ previous[packet[Main]] <= written
    BY <2>u, <2>p, <2>q
  <2>2. /\ previous' = [previous EXCEPT ![next[packet[Main]]] = previous[packet[Main]]]
        /\ flying' = flying \cup {packet[Main]}
        /\ pc' = [pc EXCEPT ![Main] = "idle"]
    BY <1>2 DEF Unlink
  <2>3. UNCHANGED <<written, packet, raised, sequence, number, next, held, received>>
    BY <1>2 DEF Unlink
  <2>4. previous' \in [Node -> Node] /\ flying' \subseteq 1..written
    BY <2>1, <2>2
  <2>5. \A n \in Node : previous'[n] <= written
    BY <2>1, <2>2
  <2>6. /\ pc' \in [Threads -> Step] /\ pc'[Main] # "unlink"
        /\ \A u \in Threads : pc'[u] = "unlink" => u = Main
    BY <2>2
  <2>7. QED
    BY <2>3, <2>4, <2>5, <2>6
<1>3. CASE UNCHANGED vars
  BY <1>3 DEF vars
<1>4. QED
  BY <1>1, <1>2, <1>3, SendsTInv, ReceiverTInv DEF Next

\* Every variable keeps its type: with any number of threads in enet_peer_send at
\* once the counter never exceeds the packets sent, and a link leads to one of
\* those or to the sentinel.
THEOREM TypeCorrect == Spec => []TypeOK
<1>1. TInv => TypeOK
  BY DEF TInv
<1>2. QED
  BY <1>1, InitTInv, NextTInv, PTL DEF Spec

-----------------------------------------------------------------------------
(* What is left of the promise with any number of senders.  A packet that  *)
(* has no number yet is known to nobody but its thread, so a number, once  *)
(* the other side has seen it, is not changed any more.                    *)

Unnumbered(t) == pc[t] \in {"raise", "number"}

Private ==
  \A t \in Threads : Unnumbered(t) =>
    /\ packet[t] # 0 /\ packet[t] \notin flying \cup held
    /\ \A u \in Threads \ {t} : packet[u] # packet[t]
    /\ \A n \in Node : next[n] # packet[t] /\ previous[n] # packet[t]
    /\ \A i \in 1..Len(received) : received[i] # packet[t]

InTurn == \A i \in 1..Len(received) : number[received[i]] = i

PInv == TInv /\ Private /\ InTurn

LEMMA SendsPInv ==
  ASSUME PInv, NEW t \in Threads, Sends(t)
  PROVE  Private' /\ InTurn'
<1> USE DEF Goes, counter, links, receiver
<1>t. /\ number \in [Packet -> Node] /\ pc \in [Threads -> Step]
      /\ packet \in [Threads -> Node]
      /\ next \in [Node -> Node] /\ previous \in [Node -> Node]
      /\ flying \subseteq 1..written /\ held \subseteq 1..written
      /\ \A i \in 1..Len(received) : received[i] \in 1..written
  BY ElementOfSeq DEF PInv, TInv, TypeOK
<1>p. Private /\ InTurn
  BY DEF PInv
<1>1. CASE Send(t)
  <2>1. /\ written \in Nat /\ \A u \in Threads : packet[u] \in 0..written
        /\ \A n \in Node : next[n] \in 0..written /\ previous[n] \in 0..written
    BY InRange DEF PInv
  <2>2. packet' = [packet EXCEPT ![t] = written + 1] /\ pc' = [pc EXCEPT ![t] = "raise"]
    BY <1>1 DEF Send
  <2>3. UNCHANGED <<number, next, previous, flying, held, received>>
    BY <1>1 DEF Send
  <2>4. ASSUME NEW u \in Threads, Unnumbered(u)', u # t
        PROVE  Unnumbered(u) /\ packet'[u] = packet[u]
    BY <1>t, <2>2, <2>4 DEF Unnumbered
  <2>5. packet'[t] = written + 1 /\ \A u \in Threads \ {t} : packet'[u] = packet[u]
    BY <1>t, <2>2
  <2>6. /\ written + 1 # 0 /\ written + 1 \notin flying \cup held
        /\ \A u \in Threads : packet[u] # written + 1
        /\ \A n \in Node : next[n] # written + 1 /\ previous[n] # written + 1
        /\ \A i \in 1..Len(received) : received[i] # written + 1
    <3>1. written \in Nat /\ written + 1 \notin 1..written /\ written + 1 \notin 0..written
      BY <2>1
    <3>2. written + 1 \notin flying \cup held
      BY <1>t, <3>1
    <3>3. \A i \in 1..Len(received) : received[i] # written + 1
      BY <1>t, <3>1
    <3>4. /\ \A u \in Threads : packet[u] # written + 1
          /\ \A n \in Node : next[n] # written + 1 /\ previous[n] # written + 1
      BY <2>1, <3>1
    <3>5. QED
      BY <3>1, <3>2, <3>3, <3>4
  <2>7. QED
    BY <1>p, <2>3, <2>4, <2>5, <2>6 DEF Private, InTurn
<1>2. CASE Raise(t)
  BY <1>2, <1>t, <1>p DEF Raise, Private, Unnumbered, InTurn
<1>3. CASE Number(t)
  <2>1. Unnumbered(t) /\ packet[t] \in Packet
    BY <1>3, <1>t, <1>p DEF Number, Unnumbered, Private
  <2>2. \A q \in Packet : q # packet[t] => number'[q] = number[q]
    BY <1>3, <1>t DEF Number
  <2>3. InTurn'
    <3>1. written <= MaxPackets /\ written \in Nat
      BY InRange DEF PInv
    <3>2. \A i \in 1..Len(received) : received[i] \in Packet /\ received[i] # packet[t]
      <4>1. \A i \in 1..Len(received) : received[i] # packet[t]
        BY <1>p, <2>1 DEF Private
      <4>2. \A n \in 1..written : n \in Packet
        BY <3>1
      <4>3. QED
        BY <1>t, <4>1, <4>2
    <3>3. QED
      BY <1>3, <1>p, <2>2, <3>2 DEF Number, InTurn
  <2>4. Private'
    BY <1>3, <1>t, <1>p DEF Number, Private, Unnumbered
  <2>5. QED
    BY <2>3, <2>4
<1>4. CASE Insert(t)
  <2>1. /\ previous' = [previous EXCEPT ![packet[t]] = previous[0]]
        /\ next' = [next EXCEPT ![packet[t]] = 0]
        /\ pc' = [pc EXCEPT ![t] = "link"]
        /\ UNCHANGED <<packet, number, flying, held, received>>
    BY <1>4 DEF Insert
  <2>2. 0 \in Node
    OBVIOUS
  <2>3. \A n \in Node : next'[n] \in {next[n], 0} /\ previous'[n] \in {previous[n], previous[0]}
    BY <1>t, <2>1
  <2>4. QED
    BY <1>t, <1>p, <2>1, <2>2, <2>3 DEF Private, Unnumbered, InTurn
<1>5. CASE Link(t)
  <2>1. /\ next' = [next EXCEPT ![previous[packet[t]]] = packet[t]]
        /\ pc[t] = "link" /\ pc' = [pc EXCEPT ![t] = "tail"]
        /\ UNCHANGED <<packet, number, previous, flying, held, received>>
    BY <1>5 DEF Link
  <2>2. \A n \in Node : next'[n] \in {next[n], packet[t]}
    BY <1>t, <2>1
  <2>3. QED
    BY <1>t, <1>p, <2>1, <2>2 DEF Private, Unnumbered, InTurn
<1>6. CASE MoveTail(t)
  <2>1. /\ previous' = [previous EXCEPT ![0] = packet[t]]
        /\ pc[t] = "tail" /\ pc' = [pc EXCEPT ![t] = "idle"]
        /\ UNCHANGED <<packet, number, next, flying, held, received>>
    BY <1>6 DEF MoveTail, MovesTail
  <2>2. \A n \in Node : previous'[n] \in {previous[n], packet[t]}
    BY <1>t, <2>1
  <2>3. QED
    BY <1>t, <1>p, <2>1, <2>2 DEF Private, Unnumbered, InTurn
<1>7. QED
  BY <1>1, <1>2, <1>3, <1>4, <1>5, <1>6 DEF Sends

LEMMA ServicePInv ==
  ASSUME PInv, Transmit \/ Unlink
  PROVE  Private' /\ InTurn'
<1> USE DEF Goes, counter, links, receiver
<1>t. /\ pc \in [Threads -> Step] /\ packet \in [Threads -> Node]
      /\ next \in [Node -> Node] /\ previous \in [Node -> Node]
  BY DEF PInv, TInv, TypeOK
<1>p. Private /\ InTurn
  BY DEF PInv
<1>1. CASE Transmit
  <2>1. /\ packet' = [packet EXCEPT ![Main] = next[0]]
        /\ next' = [next EXCEPT ![previous[next[0]]] = next[next[0]]]
        /\ pc' = [pc EXCEPT ![Main] = "unlink"]
        /\ UNCHANGED <<number, previous, flying, held, received>>
    BY <1>1 DEF Transmit
  <2>2. \A n \in Node : next'[n] \in {next[n], next[next[0]]}
    BY <1>t, <2>1
  <2>3. 0 \in Node /\ next[0] \in Node
    BY <1>t
  <2>4. QED
    BY <1>t, <1>p, <2>1, <2>2, <2>3 DEF Private, Unnumbered, InTurn
<1>2. CASE Unlink
  <2>1. /\ previous' = [previous EXCEPT ![next[packet[Main]]] = previous[packet[Main]]]
        /\ flying' = flying \cup {packet[Main]}
        /\ pc[Main] = "unlink" /\ pc' = [pc EXCEPT ![Main] = "idle"]
        /\ UNCHANGED <<packet, number, next, held, received>>
    BY <1>2 DEF Unlink
  <2>2. \A n \in Node : previous'[n] \in {previous[n], previous[packet[Main]]}
    BY <1>t, <2>1
  <2>3. packet[Main] \in Node
    BY <1>t
  <2>4. QED
    BY <1>t, <1>p, <2>1, <2>2, <2>3 DEF Private, Unnumbered, InTurn
<1>3. QED
  BY <1>1, <1>2

\* The number expected next is the one after those handed on.
LEMMA IncomingInTurn == ASSUME PInv PROVE Incoming = Len(received)
<1>1. received \in Seq(1..written)
  BY DEF PInv, TInv, TypeOK
<1>2. CASE received = <<>>
  BY <1>2 DEF Incoming
<1>3. CASE received # <<>>
  <2>1. Len(received) \in 1..Len(received)
    BY <1>1, <1>3
  <2>2. QED
    BY <1>3, <2>1 DEF Incoming, PInv, InTurn
<1>4. QED
  BY <1>2, <1>3

LEMMA ReceiverPInv ==
  ASSUME PInv, (\E p \in Packet : Arrive(p)) \/ Dispatch
  PROVE  Private' /\ InTurn'
<1>p. Private /\ InTurn
  BY DEF PInv
<1>1. ASSUME NEW p \in Packet, Arrive(p)
      PROVE  Private' /\ InTurn'
  <2>1. held' \subseteq held \cup flying /\ flying' \subseteq flying
    BY <1>1 DEF Arrive
  <2>2. UNCHANGED <<pc, packet, number, next, previous, received>>
    BY <1>1 DEF Arrive, counter, links
  <2>3. QED
    BY <1>p, <2>1, <2>2 DEF Private, Unnumbered, InTurn
<1>2. CASE Dispatch
  <2>1. PICK p \in held : /\ number[p] = Incoming + 1
                          /\ received' = Append(received, p)
                          /\ held' = held \ {p}
    BY <1>2 DEF Dispatch
  <2>2. UNCHANGED <<pc, packet, number, next, previous, flying>>
    BY <1>2 DEF Dispatch, counter, links
  <2>3. p \in 1..written /\ received \in Seq(1..written)
    BY DEF PInv, TInv, TypeOK
  <2>4. /\ Len(received') = Len(received) + 1 /\ received'[Len(received) + 1] = p
        /\ \A i \in 1..Len(received) : received'[i] = received[i]
    BY <2>1, <2>3
  <2>5. number[p] = Len(received) + 1 /\ Len(received) \in Nat
    BY <2>1, <2>3, IncomingInTurn
  <2>6. \A i \in 1..Len(received') : i \in 1..Len(received) \/ i = Len(received) + 1
    BY <2>4, <2>5
  <2>7. InTurn'
    BY <1>p, <2>2, <2>4, <2>5, <2>6 DEF InTurn
  <2>8. Private'
    BY <1>p, <2>1, <2>2, <2>4, <2>6 DEF Private, Unnumbered
  <2>9. QED
    BY <2>7, <2>8
<1>3. QED
  BY <1>1, <1>2

\* Nothing is handed on twice.
OnceEach == \A i, j \in 1..Len(received) : received[i] = received[j] => i = j

\* However many threads send at once and whatever their writes to the counter and to
\* the links do to each other, the other side hands no packet on twice: a race may
\* lose a packet (the run send_queue_worker) but never repeats one.
THEOREM NeverTwice == Spec => []OnceEach
<1>1. Init => PInv
  <2>1. Init => TInv
    BY InitTInv
  <2>2. Init => Private /\ InTurn
    BY DEF Init, Private, Unnumbered, InTurn
  <2>3. QED
    BY <2>1, <2>2 DEF PInv
<1>2. PInv /\ [Next]_vars => PInv'
  <2> SUFFICES ASSUME PInv, [Next]_vars PROVE PInv'
    OBVIOUS
  <2>1. TInv'
    BY NextTInv DEF PInv
  <2>2. CASE UNCHANGED vars
    BY <2>2 DEF vars, counter, links, receiver, PInv, Private, Unnumbered, InTurn, TInv, TypeOK,
       Bounded
  <2>3. CASE Next
    BY <2>1, <2>3, SendsPInv, ServicePInv, ReceiverPInv DEF Next, PInv
  <2>4. QED
    BY <2>2, <2>3
<1>3. PInv => OnceEach
  BY DEF PInv, InTurn, OnceEach
<1>4. QED
  BY <1>1, <1>2, <1>3, PTL DEF Spec

LEMMA NextIInv == Threads = {Main} /\ IInv /\ [Next]_vars => IInv'
<1> SUFFICES ASSUME Threads = {Main}, IInv, [Next]_vars PROVE IInv'
  OBVIOUS
<1>1. CASE \E t \in Threads : Sends(t)
  BY <1>1, SendsIInv
<1>2. CASE Transmit \/ Unlink
  BY <1>2, ServiceIInv
<1>3. CASE \E p \in Packet : Arrive(p)
  BY <1>3, ArriveIInv
<1>4. CASE Dispatch
  BY <1>4, DispatchIInv
<1>5. CASE UNCHANGED vars
  BY <1>5 DEF vars, counter, links, receiver, IInv, Types, Counting, Newest, Numbered, InOrder
<1>6. QED
  BY <1>1, <1>2, <1>3, <1>4, <1>5 DEF Next

-----------------------------------------------------------------------------
\* Packets that one thread sends are handed on in the order they were sent.
THEOREM OneSenderInOrder == ASSUME Threads = {Main} PROVE Spec => []InOrder
<1>1. Init => IInv
  BY InitIInv
<1>2. IInv /\ [Next]_vars => IInv'
  BY NextIInv
<1>3. IInv => InOrder
  BY DEF IInv
<1>4. QED
  BY <1>1, <1>2, <1>3, PTL DEF Spec

-----------------------------------------------------------------------------
(* The list, for one sender.  Its packets are those from the first one not *)
(* taken to the newest one linked, f..Linked; what came before them is on  *)
(* its way, held or handed on.                                             *)

Busy == pc[Main] \in {"raise", "number", "insert", "link"}
Linked == IF Busy THEN written - 1 ELSE written
Stored == IF pc[Main] \in {"raise", "number"} THEN written - 1 ELSE written

NumbersStored ==
  \A p \in Packet : (p <= Stored => number[p] = p) /\ (p > Stored => number[p] = 0)

Forward(f, l) ==
  /\ \A n \in f..(l - 1) : next[n] = n + 1
  /\ f <= l => next[0] = f /\ next[l] = 0
  /\ f > l => next[0] = 0

\* before is what the first packet finds behind it.
Backward(f, l, before) ==
  /\ \A n \in (f + 1)..l : previous[n] = n - 1
  /\ f <= l => previous[f] = before

Queue(f) ==
  /\ f \in 1..(Linked + 1)
  /\ Forward(f, Linked)
  /\ Backward(f, IF pc[Main] = "link" THEN written ELSE Linked,
                 IF pc[Main] = "unlink" THEN f - 1 ELSE 0)
  /\ pc[Main] \in {"raise", "number", "insert", "link", "tail"} => packet[Main] = written
  /\ pc[Main] \notin {"tail", "unlink"} =>
       (f <= Linked => previous[0] = Linked) /\ (f > Linked => previous[0] = 0)
  /\ pc[Main] = "link" => next[written] = 0
  /\ pc[Main] = "tail" => f <= written
  /\ pc[Main] = "unlink" => /\ f > 1 /\ packet[Main] = f - 1
                            /\ next[f - 1] = next[0] /\ previous[f - 1] = 0
                            /\ previous[0] = written

Taken(f) ==
  flying \cup held \cup 1..Len(received) = 1..(IF pc[Main] = "unlink" THEN f - 2 ELSE f - 1)

QInv == IInv /\ TInv /\ NumbersStored /\ \E f \in Nat : Queue(f) /\ Taken(f)

LEMMA InitQInv == Threads = {Main} /\ Init => QInv
<1> SUFFICES ASSUME Threads = {Main}, Init PROVE QInv
  OBVIOUS
<1>1. IInv /\ TInv
  BY InitIInv, InitTInv
<1>2. NumbersStored /\ Queue(1) /\ Taken(1)
  BY DEF Init, NumbersStored, Stored, Queue, Taken, Linked, Busy, Forward, Backward
<1>3. QED
  BY <1>1, <1>2 DEF QInv

\* What a step of the only thread may rely on.
LEMMA OneThread ==
  ASSUME Threads = {Main}, QInv
  PROVE  /\ written \in 0..MaxPackets /\ pc \in [{Main} -> Step]
         /\ packet \in [{Main} -> Node] /\ raised \in [{Main} -> Nat]
         /\ number \in [Packet -> Node]
         /\ next \in [Node -> Node] /\ previous \in [Node -> Node]
         /\ Counting /\ Newest /\ NumbersStored
<1>1. TypeOK /\ IInv /\ NumbersStored
  BY DEF QInv, TInv
<1>2. Counting /\ Newest
  BY <1>1 DEF IInv
<1>3. QED
  BY <1>1, <1>2 DEF TypeOK

LEMMA SendsQueue ==
  ASSUME Threads = {Main}, QInv, Sends(Main), NEW f \in Nat, Queue(f), Taken(f)
  PROVE  NumbersStored' /\ Queue(f)' /\ Taken(f)'
<1>0. UNCHANGED <<flying, held, received>>
  BY DEF Sends, Send, Raise, Number, Insert, Link, MoveTail, receiver
<1>1. written \in Nat /\ written <= MaxPackets /\ f \in 1..(Linked + 1)
  BY OneThread DEF Queue
<1>2. Busy => written > 0
  BY <1>1 DEF Linked
<1>3. NumbersStored
  BY OneThread
<1>4. CASE Send(Main)
  <2>1. /\ pc[Main] = "idle" /\ pc'[Main] = "raise" /\ packet'[Main] = written + 1
        /\ written' = written + 1 /\ UNCHANGED <<number, next, previous>>
    BY <1>4, OneThread DEF Send, Goes, counter, links
  <2>2. Linked' = Linked /\ Stored' = Stored /\ Linked = written
    BY <1>1, <2>1 DEF Linked, Stored, Busy
  <2>3. NumbersStored'
    BY <1>3, <2>1, <2>2 DEF NumbersStored
  <2>4. Queue(f)' /\ Taken(f)'
    BY <1>0, <1>1, <2>1, <2>2 DEF Queue, Taken, Forward, Backward
  <2>5. QED
    BY <2>3, <2>4
<1>5. CASE Raise(Main)
  <2>1. /\ pc[Main] = "raise" /\ pc'[Main] = "number"
        /\ UNCHANGED <<written, packet, number, next, previous>>
    BY <1>5, OneThread DEF Raise, Goes, links
  <2>2. Linked' = Linked /\ Stored' = Stored
    BY <2>1 DEF Linked, Stored, Busy
  <2>3. QED
    BY <1>0, <1>3, <2>1, <2>2 DEF NumbersStored, Queue, Taken, Forward, Backward
<1>6. CASE Number(Main)
  <2>1. /\ pc[Main] = "number" /\ pc'[Main] = "insert"
        /\ UNCHANGED <<written, packet, next, previous>>
    BY <1>6, OneThread DEF Number, Goes, links
  <2>2. packet[Main] = written /\ sequence = written /\ raised[Main] = written /\ written > 0
    BY <1>2, <2>1, OneThread DEF Counting, Newest, Busy
  <2>3. /\ number'[written] = written
        /\ \A p \in Packet : p # written => number'[p] = number[p]
    BY <1>1, <1>6, <2>2, OneThread DEF Number, NumberRead
  <2>4. Linked' = Linked /\ Stored = written - 1 /\ Stored' = written
    BY <2>1 DEF Linked, Stored, Busy
  <2>5. NumbersStored'
    BY <1>1, <1>3, <2>2, <2>3, <2>4 DEF NumbersStored
  <2>6. QED
    BY <1>0, <2>1, <2>4, <2>5 DEF Queue, Taken, Forward, Backward
<1>7. CASE Insert(Main)
  <2>1. /\ pc[Main] = "insert" /\ pc'[Main] = "link" /\ UNCHANGED <<written, packet, number>>
        /\ packet[Main] = written /\ written > 0
    BY <1>2, <1>7, OneThread DEF Insert, Goes, counter, Queue, Busy
  <2>2. /\ previous'[written] = previous[0] /\ next'[written] = 0
        /\ \A n \in Node : n # written => previous'[n] = previous[n] /\ next'[n] = next[n]
    BY <1>1, <1>7, <2>1, OneThread DEF Insert
  <2>3. Linked = written - 1 /\ Linked' = written - 1 /\ Stored' = Stored
    BY <2>1 DEF Linked, Stored, Busy
  <2>4. /\ Forward(f, written - 1) /\ Backward(f, written - 1, 0)
        /\ f <= written - 1 => previous[0] = written - 1
        /\ f > written - 1 => previous[0] = 0
    BY <2>1, <2>3 DEF Queue
  <2>5. Forward(f, written - 1)'
    BY <1>1, <2>1, <2>2, <2>3, <2>4 DEF Forward
  <2>6. Backward(f, written, 0)'
    BY <1>1, <2>1, <2>2, <2>3, <2>4 DEF Backward
  <2>7. previous'[0] = previous[0]
    BY <1>1, <2>1, <2>2
  <2>8. QED
    BY <1>0, <1>1, <1>3, <2>1, <2>2, <2>3, <2>4, <2>5, <2>6, <2>7 DEF NumbersStored, Queue, Taken
<1>8. CASE Link(Main)
  <2>1. /\ pc[Main] = "link" /\ pc'[Main] = "tail"
        /\ UNCHANGED <<written, packet, number, previous>>
        /\ packet[Main] = written /\ written > 0
    BY <1>2, <1>8, OneThread DEF Link, Goes, counter, Queue, Busy
  <2>2. Linked = written - 1 /\ Linked' = written /\ Stored' = Stored
    BY <2>1 DEF Linked, Stored, Busy
  <2>3. Forward(f, written - 1) /\ Backward(f, written, 0) /\ next[written] = 0
    BY <2>1, <2>2 DEF Queue
  <2>4. /\ written = f => previous[written] = 0
        /\ written # f => previous[written] = written - 1 /\ previous[written] # 0
    BY <1>1, <2>2, <2>3 DEF Backward
  <2>5. previous[written] \in Node /\ previous[written] < written
    BY <1>1, <2>1, <2>4
  <2>6. /\ next'[previous[written]] = written
        /\ \A n \in Node : n # previous[written] => next'[n] = next[n]
    BY <1>8, <2>1, <2>5, OneThread DEF Link
  <2>7. Forward(f, written)'
    <3>1. CASE written = f
      BY <1>1, <2>1, <2>3, <2>4, <2>6, <3>1 DEF Forward
    <3>2. CASE written # f
      <4>1. f <= written - 1
        BY <1>1, <2>2, <3>2
      <4>2. /\ \A n \in f..(written - 2) : next'[n] = n + 1
            /\ next'[written - 1] = written
        BY <1>1, <2>3, <2>4, <2>6, <3>2, <4>1 DEF Forward
      <4>3. next'[0] = f /\ next'[written] = 0
        BY <1>1, <2>1, <2>3, <2>4, <2>6, <3>2, <4>1 DEF Forward
      <4>4. QED
        BY <1>1, <2>1, <4>1, <4>2, <4>3 DEF Forward
    <3>3. QED
      BY <3>1, <3>2
  <2>8. Backward(f, written, 0)'
    BY <2>1, <2>3 DEF Backward
  <2>9. QED
    BY <1>0, <1>1, <1>3, <2>1, <2>2, <2>7, <2>8 DEF NumbersStored, Queue, Taken
<1>9. CASE MoveTail(Main)
  <2>1. /\ pc[Main] = "tail" /\ pc'[Main] = "idle"
        /\ UNCHANGED <<written, packet, number, next>> /\ packet[Main] = written
    BY <1>9, OneThread DEF MoveTail, Goes, counter, Queue
  <2>2. /\ previous'[0] = written
        /\ \A n \in Node : n # 0 => previous'[n] = previous[n]
    BY <1>9, <2>1, OneThread DEF MoveTail, MovesTail
  <2>3. Linked = written /\ Linked' = written /\ Stored' = Stored
    BY <2>1 DEF Linked, Stored, Busy
  <2>4. f <= written /\ Backward(f, written, 0) /\ Forward(f, written)
    BY <2>1, <2>3 DEF Queue
  <2>5. Backward(f, written, 0)' /\ Forward(f, written)'
    BY <1>1, <2>1, <2>2, <2>4 DEF Backward, Forward
  <2>6. QED
    BY <1>0, <1>1, <1>3, <2>1, <2>2, <2>3, <2>4, <2>5 DEF NumbersStored, Queue, Taken
<1>10. QED
  BY <1>4, <1>5, <1>6, <1>7, <1>8, <1>9 DEF Sends

LEMMA ServiceQueue ==
  ASSUME Threads = {Main}, QInv, Transmit \/ Unlink, NEW f \in Nat, Queue(f), Taken(f)
  PROVE  NumbersStored' /\ \E g \in Nat : Queue(g)' /\ Taken(g)'
<1>0. UNCHANGED <<written, number, held, received>>
  BY DEF Transmit, Unlink, counter, receiver
<1>1. written \in Nat /\ written <= MaxPackets /\ f \in 1..(Linked + 1)
  BY OneThread DEF Queue
<1>2. CASE Transmit
  <2>1. /\ pc[Main] = "idle" /\ pc'[Main] = "unlink" /\ packet'[Main] = next[0]
        /\ next[0] # 0 /\ UNCHANGED <<previous, flying>>
    BY <1>2, OneThread DEF Transmit, Goes
  <2>2. Linked = written /\ Linked' = written /\ Stored' = Stored
    BY <1>0, <2>1 DEF Linked, Stored, Busy
  <2>3. Forward(f, written) /\ Backward(f, written, 0)
    BY <2>1, <2>2 DEF Queue
  <2>4. f <= written /\ next[0] = f /\ previous[f] = 0 /\ previous[0] = written
    BY <1>1, <2>1, <2>2, <2>3 DEF Forward, Backward, Queue
  <2>5. next' = [next EXCEPT ![0] = next[f]]
    BY <1>2, <2>4 DEF Transmit
  <2>6. next'[0] = next[f] /\ \A n \in Node : n # 0 => next'[n] = next[n]
    BY <2>5, OneThread
  <2>7. Forward(f + 1, written)' /\ next'[f] = next'[0]
    BY <1>0, <1>1, <2>2, <2>3, <2>4, <2>6 DEF Forward
  <2>8. Backward(f + 1, written, f)'
    BY <1>0, <1>1, <2>1, <2>2, <2>3, <2>4 DEF Backward
  <2>9. Queue(f + 1)'
    BY <1>0, <1>1, <2>1, <2>2, <2>4, <2>7, <2>8 DEF Queue
  <2>10. Taken(f + 1)'
    BY <1>0, <1>1, <2>1 DEF Taken
  <2>11. NumbersStored'
    BY <1>0, <2>2, OneThread DEF NumbersStored
  <2>12. f + 1 \in Nat
    BY <1>1
  <2>13. QED
    BY <2>9, <2>10, <2>11, <2>12
<1>3. CASE Unlink
  <2>1. /\ pc[Main] = "unlink" /\ pc'[Main] = "idle" /\ flying' = flying \cup {packet[Main]}
        /\ UNCHANGED <<packet, next>>
    BY <1>3, OneThread DEF Unlink, Goes
  <2>2. Linked = written /\ Linked' = written /\ Stored' = Stored
    BY <1>0, <2>1 DEF Linked, Stored, Busy
  <2>3. /\ Forward(f, written) /\ Backward(f, written, f - 1)
        /\ f > 1 /\ packet[Main] = f - 1 /\ next[f - 1] = next[0] /\ previous[f - 1] = 0
        /\ previous[0] = written
    BY <2>1, <2>2 DEF Queue
  <2>4. next[0] \in Node /\ (f <= written => next[0] = f) /\ (f > written => next[0] = 0)
    BY <1>1, <2>2, <2>3 DEF Forward
  <2>5. previous' = [previous EXCEPT ![next[0]] = 0]
    BY <1>3, <2>3 DEF Unlink
  <2>6. /\ previous'[next[0]] = 0
        /\ \A n \in Node : n # next[0] => previous'[n] = previous[n]
    BY <2>4, <2>5, OneThread
  <2>7. Forward(f, written)'
    BY <1>0, <2>1, <2>3 DEF Forward
  <2>8. Backward(f, written, 0)'
    BY <1>0, <1>1, <2>2, <2>3, <2>4, <2>6 DEF Backward
  <2>9. (f <= written => previous'[0] = written) /\ (f > written => previous'[0] = 0)
    BY <1>1, <2>3, <2>4, <2>6
  <2>10. Queue(f)'
    BY <1>0, <1>1, <2>1, <2>2, <2>7, <2>8, <2>9 DEF Queue
  <2>11. Taken(f)'
    BY <1>0, <1>1, <2>1, <2>3 DEF Taken
  <2>12. NumbersStored'
    BY <1>0, <2>2, OneThread DEF NumbersStored
  <2>13. QED
    BY <2>10, <2>11, <2>12
<1>4. QED
  BY <1>2, <1>3

LEMMA ReceiverQueue ==
  ASSUME Threads = {Main}, QInv, Dispatch \/ \E p \in Packet : Arrive(p),
         NEW f \in Nat, Queue(f), Taken(f)
  PROVE  NumbersStored' /\ Queue(f)' /\ Taken(f)'
<1>0. UNCHANGED <<written, pc, packet, number, next, previous>>
  BY DEF Dispatch, Arrive, counter, links
<1>1. NumbersStored' /\ Queue(f)'
  BY <1>0, OneThread DEF NumbersStored, Stored, Queue, Linked, Busy, Forward, Backward
<1>2. IInv /\ Incoming = Len(received) /\ Len(received) \in Nat
  BY IncomingIsLength, LenProperties DEF QInv, IInv, Types
<1>3. Taken(f)'
  <2>1. CASE Dispatch
    <3>1. PICK p \in held : /\ number[p] = Incoming + 1
                            /\ received' = Append(received, p)
                            /\ held' = held \ {p}
      BY <2>1 DEF Dispatch
    <3>2. p = Len(received) + 1 /\ p \in Packet
      BY <1>2, <3>1 DEF IInv, Types
    <3>3. Len(received') = Len(received) + 1 /\ flying' = flying
      BY <1>2, <2>1, <3>1 DEF Dispatch, IInv, Types
    <3>4. flying' \cup held' \cup 1..Len(received') = flying \cup held \cup 1..Len(received)
      BY <1>2, <3>1, <3>2, <3>3
    <3>5. QED
      BY <1>0, <3>4 DEF Taken
  <2>2. ASSUME NEW p \in Packet, Arrive(p)
        PROVE  Taken(f)'
    <3>1. p \in 1..Len(received) \/ p \in held' \/ p \in flying'
      <4>1. CASE Duplicate(p)
        <5>1. number[p] = p
          <6>1. NumbersStored /\ written \in Nat /\ f \in 1..(Linked + 1)
            BY OneThread DEF Queue
          <6>2. p \in 1..(f - 1)
            <7>1. p \in flying
              BY <2>2 DEF Arrive
            <7>2. QED
              BY <6>1, <7>1 DEF Taken
          <6>3. Linked \in Int /\ Stored \in Int /\ Linked <= Stored
            BY <6>1 DEF Linked, Stored, Busy
          <6>4. QED
            BY <6>1, <6>2, <6>3 DEF NumbersStored
        <5>2. QED
          BY <1>2, <2>2, <4>1, <5>1 DEF Duplicate, Arrive, IInv, Types
      <4>2. CASE ~Duplicate(p)
        BY <2>2, <4>2 DEF Arrive
      <4>3. QED
        BY <4>1, <4>2
    <3>2. received' = received /\ held \subseteq held' /\ held' \subseteq held \cup {p}
          /\ flying' \subseteq flying /\ flying \subseteq flying' \cup {p} /\ p \in flying
      BY <2>2 DEF Arrive
    <3>3. flying' \cup held' \cup 1..Len(received') = flying \cup held \cup 1..Len(received)
      BY <3>1, <3>2
    <3>4. QED
      BY <1>0, <3>3 DEF Taken
  <2>3. QED
    BY <2>1, <2>2
<1>4. QED
  BY <1>1, <1>3

LEMMA NextQInv == Threads = {Main} /\ QInv /\ [Next]_vars => QInv'
<1> SUFFICES ASSUME Threads = {Main}, QInv, [Next]_vars PROVE QInv'
  OBVIOUS
<1>1. IInv' /\ TInv'
  BY NextIInv, NextTInv DEF QInv
<1>2. PICK f \in Nat : Queue(f) /\ Taken(f)
  BY DEF QInv
<1>3. NumbersStored' /\ \E g \in Nat : Queue(g)' /\ Taken(g)'
  <2>1. CASE \E t \in Threads : Sends(t)
    BY <1>2, <2>1, SendsQueue
  <2>2. CASE Transmit \/ Unlink
    BY <1>2, <2>2, ServiceQueue
  <2>3. CASE Dispatch \/ \E p \in Packet : Arrive(p)
    BY <1>2, <2>3, ReceiverQueue
  <2>4. CASE UNCHANGED vars
    BY <1>2, <2>4 DEF QInv, vars, counter, links, receiver, NumbersStored, Stored, Queue,
       Taken, Linked, Busy, Forward, Backward
  <2>5. QED
    BY <2>1, <2>2, <2>3, <2>4 DEF Next
<1>4. QED
  BY <1>1, <1>3 DEF QInv

\* A packet on its way that has not come before is not taken for a duplicate.
LEMMA FlyingIsNew ==
  ASSUME Threads = {Main}, QInv, NEW p \in flying \ (held \cup Range(received))
  PROVE  ~Duplicate(p)
<1>1. PICK f \in Nat : Queue(f) /\ Taken(f)
  BY DEF QInv
<1>2. /\ IInv /\ Incoming = Len(received) /\ Len(received) \in Nat
      /\ \A q \in held : number[q] = q
  BY IncomingIsLength, LenProperties DEF QInv, IInv, Types
<1>3. number[p] = p /\ p \in Nat \ {0}
  <2>1. NumbersStored /\ written \in Nat /\ written <= MaxPackets /\ f \in 1..(Linked + 1)
    BY <1>1, OneThread DEF Queue
  <2>2. p \in 1..(f - 1)
    BY <1>1, <2>1 DEF Taken
  <2>3. Linked \in Int /\ Stored \in Int /\ Linked <= Stored /\ Linked <= written
    BY <2>1 DEF Linked, Stored, Busy
  <2>4. QED
    BY <2>1, <2>2, <2>3 DEF NumbersStored
<1>4. p > Len(received)
  <2> SUFFICES ASSUME p \in 1..Len(received) PROVE FALSE
    BY <1>2, <1>3
  <2>1. received[p] = p /\ p \in DOMAIN received
    BY <1>2 DEF IInv, InOrder, Types
  <2>2. QED
    BY <2>1 DEF Range
<1>5. QED
  BY <1>2, <1>3, <1>4 DEF Duplicate

\* With one sender the outgoing list is sound whenever nobody is at it: followed
\* from either end it is the same list, and it stands in the order of the numbers.
THEOREM OneSenderListSound == ASSUME Threads = {Main} PROVE Spec => []ListSound
<1>1. Init => QInv
  BY InitQInv
<1>2. QInv /\ [Next]_vars => QInv'
  BY NextQInv
<1>3. QInv => ListSound
  <2> SUFFICES ASSUME QInv, pc[Main] \in {"idle", "raise", "number", "insert"},
                      NEW n \in {0} \cup {p \in Queued : pc[Main] = "insert" => packet[Main] # p}
               PROVE  /\ previous[next[n]] = n
                      /\ n # 0 /\ next[n] # 0 => number[n] < number[next[n]]
    BY DEF ListSound
  <2>1. PICK f \in Nat : Queue(f) /\ Taken(f)
    BY DEF QInv
  <2>2. written \in Nat /\ written <= MaxPackets /\ f \in 1..(Linked + 1)
    BY <2>1, OneThread DEF Queue
  <2>0. NumbersStored
    BY OneThread
  <2>3. /\ Forward(f, Linked) /\ Backward(f, Linked, 0)
        /\ f <= Linked => previous[0] = Linked
        /\ f > Linked => previous[0] = 0
    BY <2>1 DEF Queue
  <2>4. n # 0 => n \in f..Linked
    <3> SUFFICES ASSUME n # 0 PROVE n \in f..Linked
      OBVIOUS
    <3>1. /\ n \in 1..written /\ number[n] # 0 /\ n \notin flying \cup held
          /\ pc[Main] = "insert" => packet[Main] # n
      BY DEF Queued
    <3>2. n \notin 1..Len(received)
      BY DEF Queued, Range, QInv, IInv, InOrder
    <3>3. n >= f
      BY <2>1, <2>2, <3>1, <3>2 DEF Taken
    <3>4. n <= Stored
      BY <2>0, <2>2, <3>1 DEF NumbersStored, Stored
    <3>5. pc[Main] = "insert" => packet[Main] = written
      BY <2>1 DEF Queue
    <3>6. QED
      BY <2>2, <3>1, <3>3, <3>4, <3>5 DEF Stored, Linked, Busy
  <2>5. /\ previous[next[n]] = n
        /\ n # 0 /\ next[n] # 0 => next[n] = n + 1 /\ n + 1 \in f..Linked
    <3>0. Linked \in Int
      BY <2>2 DEF Linked
    <3>1. CASE f > Linked
      BY <2>2, <2>3, <2>4, <3>0, <3>1 DEF Forward
    <3>2. CASE f <= Linked /\ n = 0
      BY <2>2, <2>3, <3>0, <3>2 DEF Forward, Backward
    <3>3. CASE n # 0 /\ n < Linked
      BY <2>2, <2>3, <2>4, <3>0, <3>3 DEF Forward, Backward
    <3>4. CASE n # 0 /\ n = Linked
      BY <2>2, <2>3, <2>4, <3>0, <3>4 DEF Forward, Backward
    <3>5. QED
      BY <2>2, <2>4, <3>0, <3>1, <3>2, <3>3, <3>4
  <2>6. \A p \in f..Linked : number[p] = p
    <3>1. Linked \in Int /\ Stored \in Int /\ Linked <= Stored /\ Linked <= written
      BY <2>2 DEF Linked, Stored, Busy
    <3>2. QED
      BY <2>0, <2>2, <3>1 DEF NumbersStored
  <2>7. QED
    BY <2>2, <2>4, <2>5, <2>6
<1>4. QED
  BY <1>1, <1>2, <1>3, PTL DEF Spec

\* With one sender every number is a packet's own: what the other side takes for a
\* duplicate, it has.  The loss that a second sender brings about needs the second
\* sender.
THEOREM OneSenderLosesNothing == ASSUME Threads = {Main} PROVE Spec => DropsOnlyRepeats
<1>1. QInv /\ [Next]_vars =>
        [\A p \in flying \ (held \cup Range(received)) : p \in flying' \cup held']_vars
  <2> SUFFICES ASSUME QInv, Next, NEW p \in flying \ (held \cup Range(received))
               PROVE  p \in flying' \cup held'
    OBVIOUS
  <2>1. CASE \E t \in Threads : Sends(t)
    BY <2>1 DEF Sends, Send, Raise, Number, Insert, Link, MoveTail
  <2>2. CASE Transmit \/ Unlink \/ Dispatch
    BY <2>2 DEF Transmit, Unlink, Dispatch
  <2>3. ASSUME NEW q \in Packet, Arrive(q)
        PROVE  p \in flying' \cup held'
    <3>1. CASE q # p
      BY <2>3, <3>1 DEF Arrive
    <3>2. CASE q = p
      <4>1. ~Duplicate(p)
        BY FlyingIsNew
      <4>2. QED
        BY <2>3, <3>2, <4>1 DEF Arrive
    <3>3. QED
      BY <3>1, <3>2
  <2>4. QED
    BY <2>1, <2>2, <2>3 DEF Next
<1>2. QED
  BY <1>1, InitQInv, NextQInv, PTL DEF Spec, DropsOnlyRepeats

-----------------------------------------------------------------------------
(* The next packet arrives.  With n packets handed on and more written,    *)
(* packet n + 1 is with the thread that sends it, in the list, being taken *)
(* out, on its way or held, and each stage leads to a later one.           *)

Awaited(n) == Len(received) = n /\ n < written
Writing(n, step) == Awaited(n) /\ written = n + 1 /\ pc[Main] = step
Listed(n, step) ==
  Awaited(n) /\ n + 1 <= Linked /\ n + 1 \notin flying \cup held /\ pc[Main] = step
Taking(n) == Awaited(n) /\ pc[Main] = "unlink" /\ packet[Main] = n + 1
OnItsWay(n) == Awaited(n) /\ n + 1 \in flying
Waiting(n) == Awaited(n) /\ n + 1 \in held
Handed(n) == Len(received) > n

InHand(n) == \E step \in {"raise", "number", "insert", "link"} : Writing(n, step)
InList(n) == \E step \in Step \ {"unlink"} : Listed(n, step)
Later(n) == Taking(n) \/ OnItsWay(n) \/ Waiting(n) \/ Handed(n)

\* The next packet is at one of the stages.
LEMMA StageOfNext ==
  ASSUME Threads = {Main}, QInv, NEW n \in Nat, Awaited(n)
  PROVE  InHand(n) \/ InList(n) \/ Later(n)
<1>1. PICK f \in Nat : Queue(f) /\ Taken(f)
  BY DEF QInv
<1>2. /\ written \in Nat /\ f \in 1..(Linked + 1) /\ pc[Main] \in Step
      /\ Len(received) = n /\ n < written
  BY <1>1, OneThread DEF Queue, Awaited
<1>3. CASE n + 1 > Linked
  BY <1>2, <1>3 DEF Linked, Busy, InHand, Writing, Awaited
<1>4. CASE n + 1 <= Linked /\ n + 1 \notin flying \cup held
  <2>1. CASE pc[Main] = "unlink"
    <3>1. n + 1 > f - 2 /\ packet[Main] = f - 1
      BY <1>1, <1>2, <1>4, <2>1 DEF Taken, Queue
    <3>2. n <= f - 2
      BY <1>1, <1>2, <2>1 DEF Taken, Queue
    <3>3. QED
      BY <1>2, <2>1, <3>1, <3>2 DEF Later, Taking, Awaited
  <2>2. CASE pc[Main] # "unlink"
    BY <1>2, <1>4, <2>2 DEF InList, Listed, Awaited
  <2>3. QED
    BY <2>1, <2>2
<1>5. CASE n + 1 \in flying \cup held
  BY <1>2, <1>5 DEF Later, OnItsWay, Waiting, Awaited
<1>6. QED
  BY <1>2, <1>3, <1>4, <1>5 DEF Linked

LEMMA StageAfterwards ==
  ASSUME Threads = {Main}, NEW n \in Nat
  PROVE  (QInv /\ Awaited(n) => InHand(n) \/ InList(n) \/ Later(n))'
<1>1. QInv /\ Awaited(n) => InHand(n) \/ InList(n) \/ Later(n)
  BY StageOfNext
<1>2. QED
  BY <1>1, PTL

\* With the next packet in the list, the list is not empty.
LEMMA ListedIsFirst ==
  ASSUME Threads = {Main}, QInv, NEW n \in Nat, NEW step \in Step \ {"unlink"}, Listed(n, step)
  PROVE  next[0] # 0
<1>1. PICK f \in Nat : Queue(f) /\ Taken(f)
  BY DEF QInv
<1>2. f >= 1 /\ n + 1 <= Linked /\ Linked \in Int
  BY <1>1, OneThread DEF Queue, Listed, Linked
<1>3. f <= n + 1
  <2>1. n + 1 \notin flying \cup held \cup 1..Len(received)
    BY DEF Listed, Awaited
  <2>2. n + 1 \notin 1..(f - 1)
    BY <1>1, <2>1 DEF Taken, Listed
  <2>3. QED
    BY <2>2
<1>4. QED
  BY <1>1, <1>2, <1>3 DEF Queue, Forward

\* The other side hands packets on one at a time.
LEMMA DispatchHands ==
  ASSUME QInv, Dispatch
  PROVE  Len(received') = Len(received) + 1
<1>1. PICK p \in held : received' = Append(received, p)
  BY DEF Dispatch
<1>2. received \in Seq(Packet) /\ p \in Packet
  BY <1>1 DEF QInv, IInv, Types
<1>3. QED
  BY <1>1, <1>2

\* How a step moves the main loop and what is on its way.
LEMMA NothingGoesBack ==
  ASSUME Threads = {Main}, QInv, [Next]_vars, NEW n \in Nat, Awaited(n), ~Handed(n)'
  PROVE  /\ Awaited(n)' /\ Linked' >= Linked
         /\ \/ pc'[Main] = pc[Main] /\ packet'[Main] = packet[Main]
            \/ pc[Main] = "idle" /\ pc'[Main] \in {"raise", "unlink"}
            \/ pc[Main] = "raise" /\ pc'[Main] = "number"
            \/ pc[Main] = "number" /\ pc'[Main] = "insert"
            \/ pc[Main] = "insert" /\ pc'[Main] = "link"
            \/ pc[Main] = "link" /\ pc'[Main] = "tail"
            \/ pc[Main] = "tail" /\ pc'[Main] = "idle"
            \/ pc[Main] = "unlink" /\ pc'[Main] = "idle" /\ packet[Main] \in flying'
         /\ pc[Main] # "idle" => written' = written
         /\ n + 1 \in held => n + 1 \in held'
         /\ n + 1 \in flying => n + 1 \in flying' \cup held'
<1>1. /\ written \in Nat /\ pc \in [{Main} -> Step] /\ packet \in [{Main} -> Node]
      /\ IInv /\ Incoming = Len(received) /\ Len(received) = n
  BY OneThread, IncomingIsLength DEF QInv, Awaited
<1>2. CASE Sends(Main)
  <2>1. UNCHANGED <<flying, held, received>>
    BY <1>2 DEF Sends, Send, Raise, Number, Insert, Link, MoveTail, receiver
  <2>2. CASE Send(Main)
    BY <1>1, <2>1, <2>2 DEF Send, Goes, Linked, Busy, Awaited
  <2>3. CASE Raise(Main) \/ Number(Main) \/ Insert(Main) \/ Link(Main) \/ MoveTail(Main)
    BY <1>1, <2>1, <2>3 DEF Raise, Number, Insert, Link, MoveTail, Goes, Linked, Busy, Awaited
  <2>4. QED
    BY <1>2, <2>2, <2>3 DEF Sends
<1>3. CASE Transmit
  BY <1>1, <1>3 DEF Transmit, Goes, Linked, Busy, Awaited, receiver
<1>4. CASE Unlink
  BY <1>1, <1>4 DEF Unlink, Goes, Linked, Busy, Awaited, receiver
<1>5. ASSUME NEW p \in Packet, Arrive(p)
      PROVE  /\ UNCHANGED <<written, pc, packet, received>>
             /\ n + 1 \in held => n + 1 \in held'
             /\ n + 1 \in flying => n + 1 \in flying' \cup held'
  <2>1. CASE p = n + 1 /\ n + 1 \notin held
    <3>1. n + 1 \notin Range(received)
      BY <1>1 DEF Range, IInv, InOrder, Types
    <3>2. ~Duplicate(p)
      BY <1>5, <2>1, <3>1, FlyingIsNew DEF Arrive
    <3>3. QED
      BY <1>5, <2>1, <3>2 DEF Arrive
  <2>2. CASE p # n + 1 \/ n + 1 \in held
    BY <1>5, <2>2 DEF Arrive
  <2>3. QED
    BY <2>1, <2>2
<1>6. CASE Dispatch
  BY <1>1, <1>6, DispatchHands DEF Handed
<1>7. CASE UNCHANGED vars
  BY <1>1, <1>7 DEF vars, receiver, Linked, Busy, Awaited
<1>8. CASE \E p \in Packet : Arrive(p)
  BY <1>1, <1>5, <1>8 DEF Linked, Busy, Awaited
<1>9. QED
  BY <1>2, <1>3, <1>4, <1>6, <1>7, <1>8 DEF Next

\* Each stage lasts or leads to a later one.
LEMMA StagesFollow ==
  ASSUME Threads = {Main}, QInv, [Next]_vars, NEW n \in Nat, Awaited(n)
  PROVE  /\ Writing(n, "raise") =>
              Writing(n, "raise")' \/ Writing(n, "number")' \/ InList(n)' \/ Later(n)'
         /\ Writing(n, "number") =>
              Writing(n, "number")' \/ Writing(n, "insert")' \/ InList(n)' \/ Later(n)'
         /\ Writing(n, "insert") =>
              Writing(n, "insert")' \/ Writing(n, "link")' \/ InList(n)' \/ Later(n)'
         /\ Writing(n, "link") => Writing(n, "link")' \/ InList(n)' \/ Later(n)'
         /\ Listed(n, "idle") => Listed(n, "idle")' \/ Listed(n, "raise")' \/ Later(n)'
         /\ Listed(n, "raise") => Listed(n, "raise")' \/ Listed(n, "number")' \/ Later(n)'
         /\ Listed(n, "number") => Listed(n, "number")' \/ Listed(n, "insert")' \/ Later(n)'
         /\ Listed(n, "insert") => Listed(n, "insert")' \/ Listed(n, "link")' \/ Later(n)'
         /\ Listed(n, "link") => Listed(n, "link")' \/ Listed(n, "tail")' \/ Later(n)'
         /\ Listed(n, "tail") => Listed(n, "tail")' \/ Listed(n, "idle")' \/ Later(n)'
         /\ Taking(n) => Taking(n)' \/ OnItsWay(n)' \/ Waiting(n)' \/ Handed(n)'
         /\ OnItsWay(n) => OnItsWay(n)' \/ Waiting(n)' \/ Handed(n)'
         /\ Waiting(n) => Waiting(n)' \/ Handed(n)'
<1>1. CASE Handed(n)'
  BY <1>1 DEF Later
<1>2. CASE ~Handed(n)'
  <2>1. QInv' /\ written \in Nat /\ written' \in Nat
    <3>1. QInv'
      BY NextQInv
    <3>2. TypeOK'
      BY <3>1 DEF QInv, TInv
    <3>3. written' \in Node
      BY <3>2 DEF TypeOK
    <3>4. QED
      BY <3>1, <3>3, OneThread
  <2>2. /\ Awaited(n)' /\ Linked' >= Linked
        /\ \/ pc'[Main] = pc[Main] /\ packet'[Main] = packet[Main]
           \/ pc[Main] = "idle" /\ pc'[Main] \in {"raise", "unlink"}
           \/ pc[Main] = "raise" /\ pc'[Main] = "number"
           \/ pc[Main] = "number" /\ pc'[Main] = "insert"
           \/ pc[Main] = "insert" /\ pc'[Main] = "link"
           \/ pc[Main] = "link" /\ pc'[Main] = "tail"
           \/ pc[Main] = "tail" /\ pc'[Main] = "idle"
           \/ pc[Main] = "unlink" /\ pc'[Main] = "idle" /\ packet[Main] \in flying'
        /\ pc[Main] # "idle" => written' = written
        /\ n + 1 \in held => n + 1 \in held'
        /\ n + 1 \in flying => n + 1 \in flying' \cup held'
    BY <1>2, NothingGoesBack
  <2>3. InHand(n)' \/ InList(n)' \/ Later(n)'
    BY <2>1, <2>2, StageAfterwards
  <2>4. /\ OnItsWay(n) \/ Waiting(n) => OnItsWay(n)' \/ Waiting(n)'
        /\ Waiting(n) => Waiting(n)'
        /\ Taking(n) => Taking(n)' \/ OnItsWay(n)'
    BY <2>2 DEF OnItsWay, Waiting, Taking
  <2>5. ASSUME NEW step \in {"raise", "number", "insert", "link"}, Writing(n, step)
        PROVE  \/ \E s \in {"raise", "number", "insert", "link"} :
                     pc'[Main] = s /\ Writing(n, s)'
               \/ InList(n)' \/ Later(n)'
    BY <2>3 DEF Writing, InHand
  <2>6. ASSUME NEW step \in Step \ {"unlink"}, Listed(n, step)
        PROVE  (\E s \in Step \ {"unlink"} : pc'[Main] = s /\ Listed(n, s)') \/ Later(n)'
    <3>1. Linked \in Int /\ Linked' \in Int /\ n + 1 <= Linked
      BY <2>1, <2>6 DEF Linked, Listed
    <3>2. n + 1 <= Linked'
      BY <2>2, <3>1
    <3>3. ~InHand(n)'
      <4> SUFFICES ASSUME NEW s \in {"raise", "number", "insert", "link"}, Writing(n, s)'
                   PROVE  FALSE
        BY DEF InHand
      <4>1. written' = n + 1 /\ Busy'
        BY DEF Writing, Busy
      <4>2. Linked' = written' - 1
        BY <4>1 DEF Linked
      <4>3. QED
        BY <2>1, <3>2, <4>1, <4>2
    <3>4. QED
      BY <2>3, <3>3 DEF InList, Listed
  <2>7. /\ Writing(n, "raise") \/ Listed(n, "raise") => pc'[Main] \in {"raise", "number"}
        /\ Writing(n, "number") \/ Listed(n, "number") => pc'[Main] \in {"number", "insert"}
        /\ Writing(n, "insert") \/ Listed(n, "insert") => pc'[Main] \in {"insert", "link"}
        /\ Writing(n, "link") \/ Listed(n, "link") => pc'[Main] \in {"link", "tail"}
        /\ Listed(n, "tail") => pc'[Main] \in {"tail", "idle"}
        /\ Listed(n, "idle") => pc'[Main] \in {"idle", "raise", "unlink"}
    BY <2>2 DEF Writing, Listed
  <2>8. /\ Writing(n, "raise") =>
             Writing(n, "raise")' \/ Writing(n, "number")' \/ InList(n)' \/ Later(n)'
        /\ Writing(n, "number") =>
             Writing(n, "number")' \/ Writing(n, "insert")' \/ InList(n)' \/ Later(n)'
        /\ Writing(n, "insert") =>
             Writing(n, "insert")' \/ Writing(n, "link")' \/ InList(n)' \/ Later(n)'
        /\ Writing(n, "link") => Writing(n, "link")' \/ InList(n)' \/ Later(n)'
    BY <2>5, <2>7
  <2>9. /\ Listed(n, "idle") => Listed(n, "idle")' \/ Listed(n, "raise")' \/ Later(n)'
        /\ Listed(n, "raise") => Listed(n, "raise")' \/ Listed(n, "number")' \/ Later(n)'
        /\ Listed(n, "number") => Listed(n, "number")' \/ Listed(n, "insert")' \/ Later(n)'
        /\ Listed(n, "insert") => Listed(n, "insert")' \/ Listed(n, "link")' \/ Later(n)'
        /\ Listed(n, "link") => Listed(n, "link")' \/ Listed(n, "tail")' \/ Later(n)'
        /\ Listed(n, "tail") => Listed(n, "tail")' \/ Listed(n, "idle")' \/ Later(n)'
    BY <2>6, <2>7
  <2>10. QED
    BY <2>4, <2>8, <2>9
<1>3. QED
  BY <1>1, <1>2

\* What fairness makes happen ends the stage it is about.
LEMMA StagesEnd ==
  ASSUME Threads = {Main}, QInv, NEW n \in Nat, Awaited(n), ~Handed(n)'
  PROVE  /\ \A step \in Step \ {"unlink"} :
              <<Finishes(Main)>>_vars => ~Writing(n, step)' \/ pc[Main] # step
         /\ \A step \in Step \ {"unlink"} :
              <<Finishes(Main)>>_vars => ~Listed(n, step)' \/ pc[Main] # step
         /\ <<Transmit>>_vars => ~InList(n)'
         /\ <<Unlink>>_vars => ~Taking(n)'
         /\ <<Acknowledged(n + 1)>>_vars => ~OnItsWay(n)'
         /\ <<Dispatch>>_vars => FALSE
<1>1. pc \in [{Main} -> Step] /\ Incoming = Len(received) /\ IInv
  BY OneThread, IncomingIsLength DEF QInv
<1>2. Finishes(Main) => pc'[Main] # pc[Main]
  BY <1>1 DEF Finishes, Raise, Number, Insert, Link, MoveTail, Goes
<1>3. Transmit => pc'[Main] = "unlink"
  BY <1>1 DEF Transmit, Goes
<1>4. Unlink => pc'[Main] = "idle"
  BY <1>1 DEF Unlink, Goes
<1>5. ~Dispatch
  BY <1>1, DispatchHands DEF Awaited, Handed
<1>6. QED
  BY <1>2, <1>3, <1>4, <1>5 DEF Writing, Listed, InList, Taking, OnItsWay, Acknowledged

\* The packet p after the last one handed on is handed on too, however many packets
\* are sent meanwhile and however often the network loses it or delivers it twice.
LEMMA NextIsHandedOn ==
  ASSUME Threads = {Main}, NEW n \in Nat, NEW p \in Packet, p = n + 1
  PROVE  FairSpec /\ []CanHappen => (Awaited(n) ~> Handed(n))
<1> DEFINE W(step) == Writing(n, step)
           L(step) == Listed(n, step)
           Gone == Handed(n)
<1>1. Awaited(n) /\ QInv =>
        \/ W("raise") \/ W("number") \/ W("insert") \/ W("link")
        \/ L("idle") \/ L("raise") \/ L("number") \/ L("insert") \/ L("link") \/ L("tail")
        \/ Taking(n) \/ OnItsWay(n) \/ Waiting(n) \/ Gone
  BY StageOfNext DEF InHand, InList, Later
<1>2. /\ InList(n) <=> \/ L("idle") \/ L("raise") \/ L("number") \/ L("insert")
                       \/ L("link") \/ L("tail")
      /\ W("raise") \/ W("number") \/ W("insert") \/ W("link") \/ InList(n) => Awaited(n)
      /\ Taking(n) \/ OnItsWay(n) \/ Waiting(n) => Awaited(n)
      /\ Gone <=> Handed(n)
      /\ Later(n) <=> Taking(n) \/ OnItsWay(n) \/ Waiting(n) \/ Gone
  BY DEF InList, Listed, Writing, Taking, OnItsWay, Waiting, Awaited, Handed, Later
<1>3. QInv /\ [Next]_vars /\ Awaited(n) =>
        /\ W("raise") => W("raise")' \/ W("number")' \/ InList(n)' \/ Later(n)'
        /\ W("number") => W("number")' \/ W("insert")' \/ InList(n)' \/ Later(n)'
        /\ W("insert") => W("insert")' \/ W("link")' \/ InList(n)' \/ Later(n)'
        /\ W("link") => W("link")' \/ InList(n)' \/ Later(n)'
        /\ L("idle") => L("idle")' \/ L("raise")' \/ Later(n)'
        /\ L("raise") => L("raise")' \/ L("number")' \/ Later(n)'
        /\ L("number") => L("number")' \/ L("insert")' \/ Later(n)'
        /\ L("insert") => L("insert")' \/ L("link")' \/ Later(n)'
        /\ L("link") => L("link")' \/ L("tail")' \/ Later(n)'
        /\ L("tail") => L("tail")' \/ L("idle")' \/ Later(n)'
        /\ Taking(n) => Taking(n)' \/ OnItsWay(n)' \/ Waiting(n)' \/ Gone'
        /\ OnItsWay(n) => OnItsWay(n)' \/ Waiting(n)' \/ Gone'
        /\ Waiting(n) => Waiting(n)' \/ Gone'
  BY StagesFollow
<1>4. QInv /\ Awaited(n) =>
        /\ <<Finishes(Main)>>_vars =>
             /\ W("raise") => ~W("raise")' \/ Gone'
             /\ W("number") => ~W("number")' \/ Gone'
             /\ W("insert") => ~W("insert")' \/ Gone'
             /\ W("link") => ~W("link")' \/ Gone'
             /\ L("raise") => ~L("raise")' \/ Gone'
             /\ L("number") => ~L("number")' \/ Gone'
             /\ L("insert") => ~L("insert")' \/ Gone'
             /\ L("link") => ~L("link")' \/ Gone'
             /\ L("tail") => ~L("tail")' \/ Gone'
        /\ <<Transmit>>_vars => ~InList(n)' \/ Gone'
        /\ <<Unlink>>_vars => ~Taking(n)' \/ Gone'
        /\ <<Acknowledged(p)>>_vars => ~OnItsWay(n)' \/ Gone'
        /\ <<Dispatch>>_vars => Gone'
  BY StagesEnd DEF Writing, Listed
<1>5. QInv /\ CanHappen =>
        /\ W("raise") \/ W("number") \/ W("insert") \/ W("link")
             => ENABLED <<Finishes(Main)>>_vars
        /\ L("raise") \/ L("number") \/ L("insert") \/ L("link") \/ L("tail")
             => ENABLED <<Finishes(Main)>>_vars
        /\ L("idle") => ENABLED <<Transmit>>_vars
        /\ Taking(n) => ENABLED <<Unlink>>_vars
        /\ OnItsWay(n) => ENABLED <<Acknowledged(p)>>_vars
        /\ Waiting(n) => ENABLED <<Dispatch>>_vars
  <2>1. ASSUME QInv, CanHappen, Waiting(n)
        PROVE  ENABLED <<Dispatch>>_vars
    <3>1. n + 1 \in held /\ number[n + 1] = n + 1 /\ Incoming = n
      BY <2>1, IncomingIsLength DEF Waiting, Awaited, QInv, IInv
    <3>2. \E q \in held : number[q] = Incoming + 1
      BY <3>1
    <3>3. QED
      BY <2>1, <3>2, Zenon DEF CanHappen
  <2>2. ASSUME QInv, CanHappen, L("idle")
        PROVE  ENABLED <<Transmit>>_vars
    <3>1. pc[Main] = "idle" /\ next[0] # 0
      BY <2>2, ListedIsFirst DEF Listed
    <3>2. QED
      BY <2>2, <3>1, Zenon DEF CanHappen
  <2>3. ASSUME CanHappen, OnItsWay(n)
        PROVE  ENABLED <<Acknowledged(p)>>_vars
    <3>1. p \in flying
      BY <2>3 DEF OnItsWay
    <3>2. QED
      BY <2>3, <3>1, Zenon DEF CanHappen, MayArrive
  <2>4. ASSUME CanHappen, Taking(n)
        PROVE  ENABLED <<Unlink>>_vars
    BY <2>4, Zenon DEF CanHappen, Taking
  <2>5. ASSUME CanHappen,
               NEW step \in {"raise", "number", "insert", "link", "tail"}, W(step) \/ L(step)
        PROVE  ENABLED <<Finishes(Main)>>_vars
    <3>1. pc[Main] \in {"raise", "number", "insert", "link", "tail"}
      BY <2>5 DEF Writing, Listed
    <3>2. QED
      BY <2>5, <3>1, Zenon DEF CanHappen
  <2>6. QED
    BY <2>1, <2>2, <2>3, <2>4, <2>5
<1>6. Fairness => Ends(Main) /\ Services /\ HandsOn /\ Retransmits(p)
  BY DEF Fairness
<1>7. (Init => QInv) /\ (QInv /\ [Next]_vars => QInv')
  BY InitQInv, NextQInv
<1> HIDE DEF W, L, Gone
<1>8. FairSpec /\ []CanHappen => (Awaited(n) ~> Gone)
  BY <1>1, <1>2, <1>3, <1>4, <1>5, <1>6, <1>7, PTL
     DEF FairSpec, Spec, Ends, Services, HandsOn, Retransmits
<1>9. QED
  BY <1>8, <1>2, PTL

-----------------------------------------------------------------------------
(* One sender's packets go through a channel.                              *)

LEMMA StepOfChannel ==
  ASSUME Threads = {Main}, IInv, TInv, [Next]_vars
  PROVE  [AsChannel!Next]_(AsChannel!cvars)
<1> USE DEF AsChannel!Next, AsChannel!Put, AsChannel!ComeOut, AsChannel!cvars
<1>1. CASE Dispatch
  <2>1. PICK p \in held : number[p] = Incoming + 1 /\ received' = Append(received, p)
    BY <1>1 DEF Dispatch
  <2>2. number[p] = p /\ Incoming = Len(received)
    BY IncomingIsLength DEF IInv
  <2>3. p \in 1..written /\ written \in Nat /\ Len(received) \in Nat
    BY LenProperties DEF TInv, TypeOK
  <2>4. written' = written
    BY <1>1 DEF Dispatch
  <2>5. QED
    BY <2>1, <2>2, <2>3, <2>4
<1>2. CASE \E t \in Threads : Send(t)
  BY <1>2 DEF Send, receiver
<1>3. CASE ~Dispatch /\ ~\E t \in Threads : Send(t)
  BY <1>3 DEF Next, vars, receiver, Sends, Raise, Number, Insert, Link, MoveTail, Transmit,
     Unlink, Arrive
<1>4. QED
  BY <1>1, <1>2, <1>3

\* With one sender SendQueue implements Channel, for any number of packets: whatever
\* the network loses, repeats or lets overtake, each packet comes out once, in its
\* turn and only after it was put in.
THEOREM SendQueueImplementsChannel ==
  ASSUME Threads = {Main}
  PROVE  Spec => OneSenderIsChannel
<1>1. Init => AsChannel!Init
  BY DEF Init, AsChannel!Init
<1>2. IInv /\ TInv /\ [Next]_vars => [AsChannel!Next]_(AsChannel!cvars)
  BY StepOfChannel
<1>3. (Init => IInv /\ TInv) /\ (IInv /\ TInv /\ [Next]_vars => (IInv /\ TInv)')
  BY InitIInv, InitTInv, NextIInv, NextTInv
<1>4. QED
  BY <1>1, <1>2, <1>3, PTL DEF Spec, OneSenderIsChannel, AsChannel!Spec

-----------------------------------------------------------------------------
(* Every packet arrives, by induction on the number of packets.            *)

\* Induction for a set of numbers, from the least number not in it.
LEMMA SetInduction ==
  ASSUME NEW X, 0 \in X, \A n \in Nat : n \in X => n + 1 \in X
  PROVE  Nat \subseteq X
<1> DEFINE T == Nat \ X
           R == OpToRel(<, Nat)
<1>1. IsWellFoundedOn(R, Nat)
  BY NatLessThanWellFounded, Zenon
<1>2. \A k, l \in Nat : k < l => <<k, l>> \in R
  BY DEF OpToRel
<1>3. T \subseteq Nat
  OBVIOUS
<1>4. \A k \in T : k # 0 /\ k - 1 \in T /\ k - 1 < k
  OBVIOUS
<1> HIDE DEF R, T
<1>5. T = {}
  <2> SUFFICES ASSUME T # {} PROVE FALSE
    OBVIOUS
  <2>1. PICK k \in T : \A l \in T : ~(<<l, k>> \in R)
    BY <1>1, <1>3, WFMin
  <2>2. k \in Nat /\ k - 1 \in Nat /\ k - 1 \in T /\ k - 1 < k
    BY <1>3, <1>4
  <2>3. <<k - 1, k>> \in R
    BY <1>2, <2>2
  <2>4. QED
    BY <2>1, <2>2, <2>3
<1>6. QED
  BY <1>5 DEF T

\* Once n packets are sent, n packets are handed on.
Reaches(n) == written >= n ~> Len(received) >= n

LEMMA NoneReaches == ASSUME Threads = {Main} PROVE Spec => Reaches(0)
<1>1. QInv => Len(received) >= 0
  BY LenProperties DEF QInv, IInv, Types
<1>2. (Init => QInv) /\ (QInv /\ [Next]_vars => QInv')
  BY InitQInv, NextQInv
<1>3. QED
  BY <1>1, <1>2, PTL DEF Spec, Reaches

LEMMA OneMoreReaches ==
  ASSUME Threads = {Main}, NEW n \in Nat
  PROVE  FairSpec /\ []CanHappen /\ Reaches(n) => Reaches(n + 1)
<1> DEFINE Sent == written >= n
           SentNext == written >= n + 1
           Has == Len(received) >= n
           HasNext == Len(received) >= n + 1
<1>1. (Init => QInv) /\ (QInv /\ [Next]_vars => QInv')
  BY InitQInv, NextQInv
<1>2. QInv => written \in Node /\ Len(received) \in Nat
  BY LenProperties DEF QInv, IInv, Types
<1>3. QInv /\ SentNext => Sent
  BY <1>2
<1>4. QInv /\ SentNext /\ [Next]_vars => SentNext'
  <2> SUFFICES ASSUME QInv, SentNext, [Next]_vars PROVE SentNext'
    OBVIOUS
  <2>1. written' \in {written, written + 1}
    BY DEF Next, vars, Sends, Send, Raise, Number, Insert, Link, MoveTail, Transmit, Unlink,
           Arrive, Dispatch
  <2>2. QED
    BY <1>2, <2>1
<1>5. QInv /\ SentNext /\ Has => Awaited(n) \/ HasNext
  BY <1>2 DEF Awaited
<1>6. QInv /\ Handed(n) => HasNext
  BY <1>2 DEF Handed
<1>7. CASE n + 1 \in Packet
  <2>1. FairSpec /\ []CanHappen => (Awaited(n) ~> Handed(n))
    BY <1>7, NextIsHandedOn
  <2>2. Reaches(n) <=> (Sent ~> Has)
    BY PTL DEF Reaches
  <2>3. Reaches(n + 1) <=> (SentNext ~> HasNext)
    BY PTL DEF Reaches
  <2> HIDE DEF Sent, SentNext, Has, HasNext
  <2>4. QED
    BY <1>1, <1>3, <1>4, <1>5, <1>6, <2>1, <2>2, <2>3, PTL DEF FairSpec, Spec
<1>8. CASE n + 1 \notin Packet
  <2>1. QInv => ~SentNext
    BY <1>2, <1>8
  <2>2. Reaches(n + 1) <=> (SentNext ~> HasNext)
    BY PTL DEF Reaches
  <2> HIDE DEF SentNext, HasNext
  <2>3. QED
    BY <1>1, <2>1, <2>2, PTL DEF FairSpec, Spec
<1>9. QED
  BY <1>7, <1>8

\* With one sender every packet that enet_peer_send took arrives, for any number of
\* packets, however often each is lost, repeated or overtaken.  TLA+ can quantify over
\* a set of numbers but cannot build one from a temporal formula; the last hypothesis
\* names it, and is true of every behaviour.
ReachesSet == \E X : \A n \in Nat : n \in X <=> Reaches(n)

THEOREM AllArrive ==
  ASSUME Threads = {Main}
  PROVE  FairSpec /\ []CanHappen /\ ReachesSet => EverythingArrives
<1> SUFFICES ASSUME NEW p \in Packet
             PROVE  FairSpec /\ []CanHappen /\ ReachesSet => (written >= p ~> p \in Range(received))
  BY DEF EverythingArrives
<1>1. FairSpec /\ []CanHappen => Reaches(0) /\ \A n \in Nat : Reaches(n) => Reaches(n + 1)
  BY NoneReaches, OneMoreReaches DEF FairSpec
<1>2. FairSpec /\ []CanHappen /\ ReachesSet => Reaches(p)
  <2> SUFFICES ASSUME NEW X, \A n \in Nat : n \in X <=> Reaches(n),
                      Reaches(0), \A n \in Nat : Reaches(n) => Reaches(n + 1)
               PROVE  Reaches(p)
    BY <1>1 DEF ReachesSet
  <2>1. 0 \in X /\ \A n \in Nat : n \in X => n + 1 \in X
    OBVIOUS
  <2>2. QED
    BY <2>1, SetInduction
<1>3. QInv /\ Len(received) >= p => p \in Range(received)
  <2> SUFFICES ASSUME QInv, Len(received) >= p PROVE p \in Range(received)
    OBVIOUS
  <2>1. p \in 1..Len(received)
    BY LenProperties DEF QInv, IInv, Types
  <2>2. received \in Seq(Packet) /\ InOrder
    BY DEF QInv, IInv, Types
  <2>3. received[p] = p /\ p \in DOMAIN received
    BY <2>1, <2>2 DEF InOrder
  <2>4. QED
    BY <2>3 DEF Range
<1>4. (Init => QInv) /\ (QInv /\ [Next]_vars => QInv')
  BY InitQInv, NextQInv
<1>5. QED
  BY <1>2, <1>3, <1>4, PTL DEF FairSpec, Spec, Reaches
=============================================================================
