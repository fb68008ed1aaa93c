--------------------------- MODULE InventoryProofs ---------------------------
(***************************************************************************)
(* Proofs about Inventory, for every worth, stack, beginning and number of *)
(* commands and events.  NothingForgotten is inductive beside the types:   *)
(* a step either moves an amount from one term of its sum to another, or   *)
(* takes no more from the sum than from what the server holds.             *)
(***************************************************************************)
EXTENDS Inventory, WellFoundedInduction, TLAPS

USE InventoryAssumption DEF InventoryAssumption

\* Taking away at most what is there leaves an amount.
LEMMA LessIsNat ==
  ASSUME NEW n \in Nat, NEW m \in Nat
  PROVE  Less(n, m) \in Nat /\ Less(n, m) <= n /\ Less(n, m) >= n - m
BY DEF Less, Lesser

\* A loss takes no more from the mirror and what is pending than was lost.
LEMMA LossBound ==
  ASSUME NEW m \in Nat, NEW p \in Nat, NEW n \in Nat
  PROVE  Less(m, Less(n, p)) + Less(p, n) >= m + p - n
BY DEF Less, Lesser

\* The smaller kind of lock is a kind of lock.
LEMMA LowerIsLock == \A l \in Breakable : l \in Lock /\ Lower[l] \in Lock
BY DEF Breakable, Lower, Lock

\* Plans are made of integers.
LEMMA PlanType ==
  ASSUME NEW want \in [Lock -> Int], mirror \in [Lock -> Nat]
  PROVE  Plan(want).breaks \in [Lock -> Int] /\ Plan(want).drops \in [Lock -> Int]
<1>1. \A n \in Int : LocksFor(n) \in Int
  BY DEF LocksFor
<1>2. want["wl"] \in Int /\ want["dl"] \in Int /\ want["bgl"] \in Int
  BY DEF Lock
<1>3. mirror["wl"] \in Int /\ mirror["dl"] \in Int /\ mirror["bgl"] \in Int
  BY DEF Lock
<1>4. \A a, b, c \in Int : [wl |-> a, dl |-> b, bgl |-> c] \in [Lock -> Int]
  BY DEF Lock
<1> DEFINE bgl      == Lesser(want["bgl"], mirror["bgl"])
           dl       == want["dl"] + (want["bgl"] - bgl) * Worth
           lackDl   == dl - mirror["dl"]
           breakBgl == IF lackDl > 0 /\ mirror["bgl"] - bgl >= LocksFor(lackDl)
                       THEN LocksFor(lackDl) ELSE 0
           useWl    == lackDl > 0 /\ breakBgl = 0
                         /\ mirror["wl"] >= want["wl"] + lackDl * Worth
           dropDl   == IF useWl THEN mirror["dl"] ELSE dl
           wl       == IF useWl THEN want["wl"] + lackDl * Worth ELSE want["wl"]
           lackWl   == wl - mirror["wl"]
           spareDl  == mirror["dl"] + breakBgl * Worth - dropDl
           breakDl  == IF lackWl > 0 /\ spareDl >= LocksFor(lackWl)
                       THEN LocksFor(lackWl) ELSE 0
<1>5. Plan(want) = [breaks |-> [wl |-> 0, dl |-> breakDl, bgl |-> breakBgl],
                    drops |-> [wl |-> wl, dl |-> dropDl, bgl |-> bgl]]
  BY Zenon DEF Plan
<1>6. Worth \in Int
  OBVIOUS
<1>7. bgl \in Int
  BY <1>2, <1>3 DEF Lesser
<1>8. dl \in Int
  <2> HIDE DEF bgl
  <2>1. want["bgl"] - bgl \in Int
    BY <1>2, <1>7
  <2>2. (want["bgl"] - bgl) * Worth \in Int
    BY <1>6, <2>1
  <2>3. QED
    BY <1>2, <2>2
<1>9. lackDl \in Int
  <2> HIDE DEF dl
  <2>1. QED
    BY <1>3, <1>8
<1>10. breakBgl \in Int
  <2> HIDE DEF lackDl, bgl
  <2>1. QED
    BY <1>1, <1>9
<1>11. lackDl * Worth \in Int
  <2> HIDE DEF lackDl
  <2>1. QED
    BY <1>6, <1>9
<1>12. dropDl \in Int
  <2> HIDE DEF dl, useWl
  <2>1. QED
    BY <1>3, <1>8
<1>13. wl \in Int
  <2>1. want["wl"] + lackDl * Worth \in Int
    <3> HIDE DEF lackDl
    <3>1. QED
      BY <1>2, <1>11
  <2> HIDE DEF useWl, lackDl
  <2>2. QED
    BY <1>2, <2>1
<1>14. lackWl \in Int
  <2> HIDE DEF wl
  <2>1. QED
    BY <1>3, <1>13
<1>15. breakDl \in Int
  <2> HIDE DEF lackWl, spareDl
  <2>1. QED
    BY <1>1, <1>14
<1> HIDE DEF breakDl, breakBgl, wl, dropDl, bgl
<1>16. [wl |-> 0, dl |-> breakDl, bgl |-> breakBgl] \in [Lock -> Int]
  BY <1>4, <1>10, <1>15
<1>17. [wl |-> wl, dl |-> dropDl, bgl |-> bgl] \in [Lock -> Int]
  BY <1>4, <1>7, <1>12, <1>13
<1>18. QED
  BY <1>5, <1>16, <1>17

-----------------------------------------------------------------------------
(* Types                                                                   *)

LEMMA InitTypeOK == Init => TypeOK
<1> SUFFICES ASSUME Init PROVE TypeOK
  OBVIOUS
<1>1. AmountsOK
  BY DEF Init, AmountsOK, None
<1>2. ThreadsOK
  BY DEF Init, ThreadsOK, None, Command, Lock
<1>3. asked \in Seq(Requests)
  BY DEF Init
<1>4. done \in [Event -> Nat] /\ dropping \in BOOLEAN
  BY DEF Init
<1>5. QED
  BY <1>1, <1>2, <1>3, <1>4 DEF TypeOK

\* The first request is one, and so are the others.
LEMMA FirstIsRequest ==
  ASSUME asked \in Seq(Requests), asked # <<>>
  PROVE  /\ Tail(asked) \in Seq(Requests)
         /\ First.item \in Lock /\ First.count \in Nat
         /\ First.for # "drop" => First.item \in Breakable
<1>1. Head(asked) \in Requests /\ Tail(asked) \in Seq(Requests)
  OBVIOUS
<1>2. QED
  BY <1>1, LowerIsLock DEF First, Requests

\* What is not touched keeps its type.
LEMMA ThreadsKept == ThreadsOK /\ UNCHANGED threads => ThreadsOK'
BY DEF ThreadsOK, threads

LEMMA AmountsKept ==
  AmountsOK /\ UNCHANGED <<held, manager, uncounted>> => AmountsOK'
BY DEF AmountsOK, manager

LEMMA BoundedKept ==
  ASSUME NEW e \in Event, NEW max, done \in [Event -> Nat], Happens(e, max)
  PROVE  done' \in [Event -> Nat]
BY DEF Happens

LEMMA CheckTypeOK ==
  ASSUME TypeOK, NEW t \in Thread, Check(t)
  PROVE  TypeOK'
<1> USE DEF Check, TypeOK
<1>1. AmountsOK'
  BY AmountsKept
<1>2. \A c \in Command : Checked[c] \subseteq [Lock -> Int]
  <2> SUFFICES ASSUME NEW c \in Command, NEW a \in Checked[c] PROVE a \in [Lock -> Int]
    OBVIOUS
  <2>1. mirror \in [Lock -> Int] /\ None \in [Lock -> Int]
    BY DEF AmountsOK, None
  <2>2. \A n \in Nat : [None EXCEPT !["wl"] = n] \in [Lock -> Int]
                       /\ [None EXCEPT !["dl"] = n] \in [Lock -> Int]
                       /\ [None EXCEPT !["bgl"] = n] \in [Lock -> Int]
    BY <2>1 DEF Lock
  <2>3. \A n \in Nat : FewLocks(n) \in [Lock -> Int]
    BY <2>2 DEF FewLocks
  <2>4. \A n \in Nat : Amounts(n) \in [Lock -> Int]
    <3> SUFFICES ASSUME NEW n \in Nat PROVE Amounts(n) \in [Lock -> Int]
      OBVIOUS
    <3>1. \A i, j, k \in Int : [wl |-> i, dl |-> j, bgl |-> k] \in [Lock -> Int]
      BY DEF Lock
    <3>2. Worth \in Nat \ {0}
      OBVIOUS
    <3>3. Worth * Worth \in Nat \ {0}
      BY <3>2
    <3>4. n % Worth \in Int /\ n \div Worth \in Int /\ n \div (Worth * Worth) \in Int
      BY <3>2, <3>3
    <3>5. (n \div Worth) % Worth \in Int
      BY <3>2, <3>4
    <3>6. QED
      BY <3>1, <3>4, <3>5, Zenon DEF Amounts
  <2>5. CASE c = "dw"
    <3>1. mirror["wl"] \in Nat
      BY DEF AmountsOK, Lock
    <3>2. PICK n \in 1..mirror["wl"] : a = [None EXCEPT !["wl"] = n]
      BY <2>5 DEF Checked
    <3>3. n \in Nat
      BY <3>1
    <3>4. QED
      BY <2>2, <3>2, <3>3, Zenon
  <2>6. CASE c = "dbgl"
    <3>1. mirror["bgl"] \in Nat
      BY DEF AmountsOK, Lock
    <3>2. PICK n \in 1..mirror["bgl"] : a = [None EXCEPT !["bgl"] = n]
      BY <2>6 DEF Checked
    <3>3. n \in Nat
      BY <3>1
    <3>4. QED
      BY <2>2, <3>2, <3>3, Zenon
  <2>7. CASE c = "dd"
    <3>1. Sum(mirror) \in Int
      BY <2>1 DEF Sum, Lock
    <3>2. PICK n \in Nat : a = Amounts(n) \/ a = FewLocks(n)
      BY <2>7, <3>1 DEF Checked
    <3>3. QED
      BY <2>3, <2>4, <3>2
  <2>8. CASE c = "daw"
    BY <2>1, <2>8 DEF Checked
  <2>9. CASE c = "dbglvis"
    BY <2>1, <2>9 DEF Checked
  <2>10. QED
    BY <2>5, <2>6, <2>7, <2>8, <2>9 DEF Command
<1>3. ThreadsOK'
  <2>1. kind' \in [Thread -> Command] /\ drops' \in [Thread -> [Lock -> Int]]
    BY <1>2 DEF ThreadsOK
  <2>2. QED
    BY <2>1 DEF ThreadsOK, None
<1>4. done' \in [Event -> Nat]
  BY BoundedKept DEF Event
<1>5. QED
  BY <1>1, <1>3, <1>4

LEMMA ThreadTypeOK ==
  ASSUME TypeOK, NEW t \in Thread, ThreadStep(t)
  PROVE  TypeOK'
<1> USE DEF TypeOK, Goes
<1> DEFINE Same == UNCHANGED <<asked, done>> /\ dropping' \in BOOLEAN
<1>1. CASE Start(t)
  <2>1. ThreadsOK'
    BY <1>1 DEF Start, ThreadsOK
  <2>2. QED
    BY <1>1, <2>1, AmountsKept DEF Start
<1>2. CASE Begin(t)
  <2>1. ThreadsOK'
    <3>1. CASE ReturnsUnconnected(t)
      BY <1>2, <3>1 DEF Begin, ReturnsUnconnected, Leaves, ThreadsOK, None, Command, Lock
    <3>2. CASE /\ Goes(t, "started", "working")
               /\ IF kind[t] = "dd"
                  THEN /\ breaks' = [breaks EXCEPT ![t] = Plan(drops[t]).breaks]
                       /\ drops' = [drops EXCEPT ![t] = Plan(drops[t]).drops]
                  ELSE UNCHANGED <<breaks, drops>>
               /\ UNCHANGED <<dropping, kind, item, count>>
      <4>1. breaks' \in [Thread -> [Lock -> Int]] /\ drops' \in [Thread -> [Lock -> Int]]
        <5>1. drops[t] \in [Lock -> Int] /\ mirror \in [Lock -> Nat]
          BY DEF ThreadsOK, AmountsOK
        <5>2. Plan(drops[t]).breaks \in [Lock -> Int] /\ Plan(drops[t]).drops \in [Lock -> Int]
          BY <5>1, PlanType
        <5>3. \/ UNCHANGED <<breaks, drops>>
              \/ /\ breaks' = [breaks EXCEPT ![t] = Plan(drops[t]).breaks]
                 /\ drops' = [drops EXCEPT ![t] = Plan(drops[t]).drops]
          BY <3>2
        <5>4. QED
          BY <5>2, <5>3 DEF ThreadsOK
      <4>2. QED
        BY <3>2, <4>1 DEF ThreadsOK
    <3>3. QED
      BY <1>2, <3>1, <3>2 DEF Begin
  <2>2. dropping' \in BOOLEAN
    BY <1>2 DEF Begin, ReturnsUnconnected
  <2>3. AmountsOK' /\ UNCHANGED <<asked, done>>
    BY <1>2, AmountsKept DEF Begin
  <2>4. QED
    BY <2>1, <2>2, <2>3
<1>3. CASE Break(t)
  <2>1. PICK l \in Breakable : /\ Asks("break", l, 1)
                               /\ item' = [item EXCEPT ![t] = l]
                               /\ breaks' = [breaks EXCEPT ![t][l] = @ - 1]
    BY <1>3 DEF Break
  <2>2. l \in Lock
    BY LowerIsLock
  <2>3. ThreadsOK'
    BY <1>3, <2>1, <2>2 DEF Break, ThreadsOK
  <2>4. asked' \in Seq(Requests)
    <3>1. [for |-> "break", item |-> l, count |-> 1] \in Requests
      BY DEF Requests
    <3>2. QED
      BY <2>1, <3>1 DEF Asks
  <2>5. AmountsOK' /\ UNCHANGED <<dropping, done>>
    BY <1>3, AmountsKept DEF Break
  <2>6. QED
    BY <2>3, <2>4, <2>5
<1>4. CASE BreakRemoves(t)
  <2>1. ThreadsOK'
    BY <1>4 DEF BreakRemoves, ThreadsOK
  <2>2. AmountsOK'
    <3>1. item[t] \in Lock
      BY DEF ThreadsOK
    <3>2. mirror[item[t]] \in Nat /\ uncounted[item[t]] + 1 \in Nat
      BY <3>1 DEF AmountsOK
    <3>3. Less(mirror[item[t]], 1) \in Nat
      BY <3>2, LessIsNat
    <3>4. mirror' \in [Lock -> Nat] /\ uncounted' \in [Lock -> Nat]
      BY <1>4, <3>2, <3>3 DEF BreakRemoves, RemoveItem, AmountsOK
    <3>5. QED
      BY <1>4, <3>4 DEF BreakRemoves, AmountsOK
  <2>3. QED
    BY <1>4, <2>1, <2>2 DEF BreakRemoves
<1>5. CASE BreakAdds(t)
  <2>1. ThreadsOK'
    BY <1>5 DEF BreakAdds, ThreadsOK
  <2>2. AmountsOK'
    <3>1. Lower[item[t]] \in Lock
      BY <1>5, LowerIsLock DEF BreakAdds, ThreadsOK
    <3>2. mirror[Lower[item[t]]] + Worth \in Nat
      BY <3>1 DEF AmountsOK
    <3>3. mirror' \in [Lock -> Nat]
      BY <1>5, <3>2 DEF BreakAdds, AddItem, AmountsOK
    <3>4. QED
      BY <1>5, <3>3 DEF BreakAdds, AmountsOK
  <2>3. QED
    BY <1>5, <2>1, <2>2 DEF BreakAdds
<1>6. CASE Drop(t)
  <2>1. PICK l \in Lock : /\ DropNext(t, l)
                          /\ Asks("drop", l, Lesser(drops[t][l], Stack))
                          /\ item' = [item EXCEPT ![t] = l]
                          /\ count' = [count EXCEPT ![t] = Lesser(drops[t][l], Stack)]
                          /\ drops' = [drops EXCEPT ![t][l] = @ - Stack]
    BY <1>6 DEF Drop
  <2>2. Lesser(drops[t][l], Stack) \in Nat
    BY <2>1 DEF DropNext, Lesser, ThreadsOK
  <2>3. ThreadsOK'
    BY <1>6, <2>1, <2>2 DEF Drop, ThreadsOK
  <2>4. asked' \in Seq(Requests)
    <3>1. [for |-> "drop", item |-> l, count |-> Lesser(drops[t][l], Stack)] \in Requests
      BY <2>2 DEF Requests
    <3>2. QED
      BY <2>1, <3>1 DEF Asks
  <2>5. AmountsOK' /\ UNCHANGED <<dropping, done>>
    BY <1>6, AmountsKept DEF Drop
  <2>6. QED
    BY <2>3, <2>4, <2>5
<1>7. CASE DropRemoves(t)
  <2>1. ThreadsOK'
    BY <1>7 DEF DropRemoves, ThreadsOK
  <2>2. AmountsOK'
    BY <1>7, LessIsNat DEF DropRemoves, RemoveItem, AmountsOK, ThreadsOK
  <2>3. QED
    BY <1>7, <2>1, <2>2 DEF DropRemoves
<1>8. CASE DropRecords(t)
  <2>1. ThreadsOK'
    BY <1>8 DEF DropRecords, ThreadsOK
  <2>2. AmountsOK'
    BY <1>8 DEF DropRecords, RecordPendingDrop, AmountsOK, ThreadsOK
  <2>3. QED
    BY <1>8, <2>1, <2>2 DEF DropRecords
<1>9. CASE End(t)
  <2>1. ThreadsOK'
    BY <1>9 DEF End, Leaves, ThreadsOK, None, Command, Lock
  <2>2. QED
    BY <1>9, <2>1, AmountsKept DEF End
<1>10. QED
  BY <1>1, <1>2, <1>3, <1>4, <1>5, <1>6, <1>7, <1>8, <1>9 DEF ThreadStep

LEMMA ServerTypeOK ==
  ASSUME TypeOK, Server
  PROVE  TypeOK'
<1> USE DEF TypeOK
<1>1. ASSUME NEW l \in Lock, NEW n \in Nat, Loses(l, n), UNCHANGED uncounted
      PROVE  AmountsOK'
  <2>1. held' \in [Lock -> Nat]
    BY <1>1 DEF Loses, AmountsOK
  <2>2. Less(n, pending[l]) \in Nat
    BY LessIsNat DEF AmountsOK
  <2>3. mirror' \in [Lock -> Nat] /\ pending' \in [Lock -> Nat]
    BY <1>1, <2>2, LessIsNat DEF Loses, ModifyLost, AmountsOK
  <2>4. QED
    BY <1>1, <2>1, <2>3 DEF AmountsOK
<1>2. ASSUME NEW l \in Lock, NEW n \in Nat, Gains(l, n), UNCHANGED uncounted
      PROVE  AmountsOK'
  BY <1>2 DEF Gains, ModifyGained, AddItem, AmountsOK
<1>3. CASE ServeDrop
  <2>1. AmountsOK'
    BY <1>1, <1>3, FirstIsRequest DEF ServeDrop, Taken
  <2>2. QED
    BY <1>3, <2>1, FirstIsRequest, ThreadsKept DEF ServeDrop, Taken
<1>4. CASE ServeBreak
  <2>1. AmountsOK'
    BY <1>1, <1>4, FirstIsRequest DEF ServeBreak
  <2>2. [for |-> "rest", item |-> First.item, count |-> 1] \in Requests
    BY <1>4, FirstIsRequest DEF ServeBreak, Requests
  <2>3. asked' \in Seq(Requests)
    <3>1. Tail(asked) \in Seq(Requests)
      BY <1>4, FirstIsRequest DEF ServeBreak
    <3>2. <<[for |-> "rest", item |-> First.item, count |-> 1]>> \in Seq(Requests)
      BY <2>2
    <3>3. QED
      BY <1>4, <3>1, <3>2 DEF ServeBreak
  <2>4. QED
    BY <1>4, <2>1, <2>3, ThreadsKept DEF ServeBreak
<1>5. CASE ServeRest
  <2>1. Lower[First.item] \in Lock /\ Worth \in Nat
    BY <1>5, FirstIsRequest, LowerIsLock DEF ServeRest, Taken
  <2>2. AmountsOK'
    BY <1>2, <1>5, <2>1 DEF ServeRest
  <2>3. QED
    BY <1>5, <2>2, FirstIsRequest, ThreadsKept DEF ServeRest, Taken
<1>6. CASE Refuse
  BY <1>6, FirstIsRequest, ThreadsKept, AmountsKept DEF Refuse, Taken
<1>7. CASE OtherChange
  <2>1. AmountsOK'
    BY <1>1, <1>2, <1>7 DEF OtherChange
  <2>2. QED
    BY <1>7, <2>1, BoundedKept, ThreadsKept DEF OtherChange, Event
<1>8. CASE Collect
  <2>1. AmountsOK'
    <3>1. \A l \in Lock : mirror[l] + 1 \in Nat /\ held[l] + 1 \in Nat
                          /\ uncounted[l] + 1 \in Nat
      BY DEF AmountsOK
    <3>2. held' \in [Lock -> Nat] /\ uncounted' \in [Lock -> Nat]
      BY <1>8, <3>1 DEF Collect, AmountsOK
    <3>3. mirror' \in [Lock -> Nat]
      <4>1. mirror' = mirror \/ \E l \in Lock : mirror' = [mirror EXCEPT ![l] = @ + 1]
        BY <1>8 DEF Collect, AddItem
      <4>2. QED
        BY <3>1, <4>1 DEF AmountsOK
    <3>4. QED
      BY <1>8, <3>2, <3>3 DEF Collect, AmountsOK
  <2>2. QED
    BY <1>8, <2>1, BoundedKept, ThreadsKept DEF Collect, Event
<1>9. CASE InventoryState
  <2>1. AmountsOK'
    BY <1>9 DEF InventoryState, ParseInventory, AmountsOK, None
  <2>2. QED
    BY <1>9, <2>1, BoundedKept, ThreadsKept DEF InventoryState, Event
<1>10. QED
  BY <1>3, <1>4, <1>5, <1>6, <1>7, <1>8, <1>9 DEF Server

LEMMA NextTypeOK == TypeOK /\ [Next]_vars => TypeOK'
<1>1. ASSUME TypeOK, UNCHANGED vars PROVE TypeOK'
  BY <1>1, AmountsKept, ThreadsKept DEF vars, TypeOK
<1>2. QED
  BY <1>1, CheckTypeOK, ThreadTypeOK, ServerTypeOK DEF Next

\* Every variable keeps its type; in particular no amount falls below nothing,
\* where the uint32 of InventoryItem would wrap.
THEOREM TypeCorrect == Spec => []TypeOK
<1>1. QED
  BY InitTypeOK, NextTypeOK, PTL DEF Spec

-----------------------------------------------------------------------------
(* No loss is deducted twice                                               *)

LEMMA Naturals ==
  ASSUME TypeOK, NEW l \in Lock
  PROVE  /\ mirror[l] \in Nat /\ pending[l] \in Nat /\ uncounted[l] \in Nat /\ held[l] \in Nat
         /\ \A t \in Thread : Unrecorded(t, l) \in Nat
BY DEF TypeOK, AmountsOK, ThreadsOK, Unrecorded

\* Only the thread that takes a step changes what it has unrecorded.
LEMMA OthersKept ==
  ASSUME TypeOK, NEW t \in Thread, NEW from, NEW to, Goes(t, from, to),
         \A u \in Thread \ {t} : item'[u] = item[u] /\ count'[u] = count[u]
  PROVE  \A u \in Thread \ {t}, l \in Lock : Unrecorded(u, l)' = Unrecorded(u, l)
<1> SUFFICES ASSUME NEW u \in Thread \ {t}, NEW l \in Lock
             PROVE  Unrecorded(u, l)' = Unrecorded(u, l)
  OBVIOUS
<1>1. pc'[u] = pc[u] /\ item'[u] = item[u] /\ count'[u] = count[u]
  BY DEF Goes, TypeOK, ThreadsOK
<1>2. QED
  BY <1>1 DEF Unrecorded

\* What thread t and the amounts contribute to the sum, over what the server holds.
Margin(t, l) == mirror[l] + pending[l] + Unrecorded(t, l) + uncounted[l] - held[l]

\* A step keeps NothingForgotten if it lets no margin shrink.
LEMMA MarginSuffices ==
  ASSUME TypeOK, TypeOK', NothingForgotten, NEW t \in Thread,
         \A u \in Thread \ {t}, l \in Lock : Unrecorded(u, l)' = Unrecorded(u, l),
         \A l \in Lock : Margin(t, l)' >= Margin(t, l)
  PROVE  NothingForgotten'
<1> SUFFICES ASSUME NEW l \in Lock
             PROVE  mirror'[l] + pending'[l] + Unrecorded(1, l)' + Unrecorded(2, l)'
                      + uncounted'[l] >= held'[l]
  BY DEF NothingForgotten
<1>1. /\ mirror[l] \in Nat /\ pending[l] \in Nat /\ uncounted[l] \in Nat /\ held[l] \in Nat
      /\ Unrecorded(1, l) \in Nat /\ Unrecorded(2, l) \in Nat
  BY Naturals DEF Thread
<1>2. /\ mirror'[l] \in Nat /\ pending'[l] \in Nat /\ uncounted'[l] \in Nat
      /\ held'[l] \in Nat /\ Unrecorded(1, l)' \in Nat /\ Unrecorded(2, l)' \in Nat
  BY DEF TypeOK, AmountsOK, ThreadsOK, Unrecorded, Thread
<1>3. mirror[l] + pending[l] + Unrecorded(1, l) + Unrecorded(2, l) + uncounted[l] >= held[l]
  BY DEF NothingForgotten
<1>4. mirror'[l] + pending'[l] + Unrecorded(t, l)' + uncounted'[l] - held'[l]
        >= mirror[l] + pending[l] + Unrecorded(t, l) + uncounted[l] - held[l]
  BY DEF Margin
<1>5. CASE t = 1
  <2>1. Unrecorded(2, l)' = Unrecorded(2, l)
    BY <1>5 DEF Thread
  <2>2. QED
    BY <1>1, <1>2, <1>3, <1>4, <1>5, <2>1
<1>6. CASE t = 2
  <2>1. Unrecorded(1, l)' = Unrecorded(1, l)
    BY <1>6 DEF Thread
  <2>2. QED
    BY <1>1, <1>2, <1>3, <1>4, <1>6, <2>1
<1>7. QED
  BY <1>5, <1>6 DEF Thread

LEMMA CheckForgetsNothing ==
  ASSUME TypeOK, TypeOK', NothingForgotten, NEW t \in Thread, Check(t)
  PROVE  NothingForgotten'
<1>1. Goes(t, "idle", "checked")
  BY DEF Check, Goes
<1>2. \A u \in Thread \ {t}, l \in Lock : Unrecorded(u, l)' = Unrecorded(u, l)
  BY <1>1, OthersKept DEF Check
<1>3. \A l \in Lock : Unrecorded(t, l)' = Unrecorded(t, l)
  BY <1>1 DEF Goes, Unrecorded, TypeOK, ThreadsOK
<1>4. \A l \in Lock : Margin(t, l)' >= Margin(t, l)
  BY <1>3, Naturals DEF Margin, Check, manager
<1>5. QED
  BY <1>2, <1>4, MarginSuffices

LEMMA ThreadForgetsNothing ==
  ASSUME TypeOK, TypeOK', NothingForgotten, NEW t \in Thread, ThreadStep(t)
  PROVE  NothingForgotten'
<1> DEFINE Rest == \A u \in Thread \ {t}, l \in Lock : Unrecorded(u, l)' = Unrecorded(u, l)
\* A step that neither touches the amounts nor begins or ends in "taken".
<1>1. ASSUME NEW from, NEW to, Goes(t, from, to), from # "taken", to # "taken",
             \A u \in Thread \ {t} : item'[u] = item[u] /\ count'[u] = count[u],
             UNCHANGED <<held, manager, uncounted>>
      PROVE  NothingForgotten'
  <2>1. Rest
    BY <1>1, OthersKept
  <2>2. \A l \in Lock : Unrecorded(t, l)' = Unrecorded(t, l)
    BY <1>1 DEF Goes, Unrecorded, TypeOK, ThreadsOK
  <2>3. \A l \in Lock : Margin(t, l)' >= Margin(t, l)
    BY <1>1, <2>2, Naturals DEF Margin, manager
  <2>4. QED
    BY <2>1, <2>3, MarginSuffices
<1>2. CASE Start(t)
  BY <1>1, <1>2 DEF Start
<1>3. CASE Begin(t)
  <2>1. CASE ReturnsUnconnected(t)
    BY <1>1, <1>3, <2>1 DEF Begin, ReturnsUnconnected, Leaves, TypeOK, ThreadsOK
  <2>2. CASE Goes(t, "started", "working") /\ UNCHANGED <<item, count>>
    BY <1>1, <1>3, <2>2 DEF Begin
  <2>3. QED
    BY <1>3, <2>1, <2>2 DEF Begin
<1>4. CASE Break(t)
  <2>1. \A u \in Thread \ {t} : item'[u] = item[u] /\ count'[u] = count[u]
    BY <1>4 DEF Break, TypeOK, ThreadsOK
  <2>2. QED
    BY <1>1, <1>4, <2>1 DEF Break
<1>5. CASE BreakRemoves(t)
  <2>1. Rest
    BY <1>5, OthersKept DEF BreakRemoves
  <2>2. \A l \in Lock : Unrecorded(t, l)' = 0 /\ Unrecorded(t, l) = 0
    BY <1>5 DEF BreakRemoves, Goes, Unrecorded, TypeOK, ThreadsOK
  <2>3. \A l \in Lock : mirror'[l] + uncounted'[l] >= mirror[l] + uncounted[l]
                        /\ mirror'[l] \in Nat /\ uncounted'[l] \in Nat
    <3> SUFFICES ASSUME NEW l \in Lock
                 PROVE  mirror'[l] + uncounted'[l] >= mirror[l] + uncounted[l]
      BY DEF TypeOK, AmountsOK
    <3>1. CASE l = item[t]
      <4>1. mirror'[l] = Less(mirror[l], 1) /\ uncounted'[l] = uncounted[l] + 1
        BY <1>5, <3>1 DEF BreakRemoves, RemoveItem, TypeOK, AmountsOK
      <4>2. Less(mirror[l], 1) >= mirror[l] - 1 /\ Less(mirror[l], 1) \in Nat
        BY LessIsNat, Naturals
      <4>3. QED
        BY <4>1, <4>2, Naturals
    <3>2. CASE l # item[t]
      BY <1>5, <3>2, Naturals DEF BreakRemoves, RemoveItem, TypeOK, AmountsOK
    <3>3. QED
      BY <3>1, <3>2
  <2>4. \A l \in Lock : Margin(t, l)' >= Margin(t, l)
    <3> SUFFICES ASSUME NEW l \in Lock PROVE Margin(t, l)' >= Margin(t, l)
      OBVIOUS
    <3>1. pending' = pending /\ held' = held
      BY <1>5 DEF BreakRemoves
    <3>2. QED
      BY <2>2, <2>3, <3>1, Naturals DEF Margin
  <2>5. QED
    BY <2>1, <2>4, MarginSuffices
<1>6. CASE BreakAdds(t)
  <2>1. Rest
    BY <1>6, OthersKept DEF BreakAdds
  <2>2. \A l \in Lock : Unrecorded(t, l)' = 0 /\ Unrecorded(t, l) = 0
    BY <1>6 DEF BreakAdds, Goes, Unrecorded, TypeOK, ThreadsOK
  <2>3. \A l \in Lock : mirror'[l] >= mirror[l] /\ mirror'[l] \in Nat
    BY <1>6, Naturals DEF BreakAdds, AddItem, TypeOK, AmountsOK
  <2>4. \A l \in Lock : Margin(t, l)' >= Margin(t, l)
    <3> SUFFICES ASSUME NEW l \in Lock PROVE Margin(t, l)' >= Margin(t, l)
      OBVIOUS
    <3>1. pending' = pending /\ held' = held /\ uncounted' = uncounted
      BY <1>6 DEF BreakAdds
    <3>2. QED
      BY <2>2, <2>3, <3>1, Naturals DEF Margin
  <2>5. QED
    BY <2>1, <2>4, MarginSuffices
<1>7. CASE Drop(t)
  <2>1. \A u \in Thread \ {t} : item'[u] = item[u] /\ count'[u] = count[u]
    BY <1>7 DEF Drop, TypeOK, ThreadsOK
  <2>2. QED
    BY <1>1, <1>7, <2>1 DEF Drop
<1>8. CASE DropRemoves(t)
  <2>1. Rest
    BY <1>8, OthersKept DEF DropRemoves
  <2>2. \A l \in Lock : Margin(t, l)' >= Margin(t, l)
    <3> SUFFICES ASSUME NEW l \in Lock PROVE Margin(t, l)' >= Margin(t, l)
      OBVIOUS
    <3>1. pending' = pending /\ held' = held /\ uncounted' = uncounted
      BY <1>8 DEF DropRemoves
    <3>2. Unrecorded(t, l) = 0
      BY <1>8 DEF DropRemoves, Goes, Unrecorded
    <3>3. CASE l = item[t]
      <4>1. mirror'[l] = Less(mirror[l], count[t])
        BY <1>8, <3>3 DEF DropRemoves, RemoveItem, TypeOK, AmountsOK
      <4>2. Unrecorded(t, l)' = count[t] /\ count[t] \in Nat
        BY <1>8, <3>3 DEF DropRemoves, Goes, Unrecorded, TypeOK, ThreadsOK
      <4>3. Less(mirror[l], count[t]) >= mirror[l] - count[t] /\ Less(mirror[l], count[t]) \in Nat
        BY <4>2, LessIsNat, Naturals
      <4>4. QED
        BY <3>1, <3>2, <4>1, <4>2, <4>3, Naturals DEF Margin
    <3>4. CASE l # item[t]
      <4>1. mirror'[l] = mirror[l]
        BY <1>8, <3>4 DEF DropRemoves, RemoveItem, TypeOK, AmountsOK
      <4>2. Unrecorded(t, l)' = 0
        BY <1>8, <3>4 DEF DropRemoves, Goes, Unrecorded, TypeOK, ThreadsOK
      <4>3. QED
        BY <3>1, <3>2, <4>1, <4>2, Naturals DEF Margin
    <3>5. QED
      BY <3>3, <3>4
  <2>3. QED
    BY <2>1, <2>2, MarginSuffices
<1>9. CASE DropRecords(t)
  <2>1. Rest
    BY <1>9, OthersKept DEF DropRecords
  <2>2. \A l \in Lock : Margin(t, l)' >= Margin(t, l)
    <3> SUFFICES ASSUME NEW l \in Lock PROVE Margin(t, l)' >= Margin(t, l)
      OBVIOUS
    <3>1. mirror' = mirror /\ held' = held /\ uncounted' = uncounted
      BY <1>9 DEF DropRecords
    <3>2. Unrecorded(t, l)' = 0
      BY <1>9 DEF DropRecords, Goes, Unrecorded, TypeOK, ThreadsOK
    <3>3. CASE l = item[t]
      <4>1. pending'[l] = pending[l] + count[t]
        BY <1>9, <3>3 DEF DropRecords, RecordPendingDrop, TypeOK, AmountsOK
      <4>2. Unrecorded(t, l) = count[t] /\ count[t] \in Nat
        BY <1>9, <3>3 DEF DropRecords, Goes, Unrecorded, TypeOK, ThreadsOK
      <4>3. QED
        BY <3>1, <3>2, <4>1, <4>2, Naturals DEF Margin
    <3>4. CASE l # item[t]
      <4>1. pending'[l] = pending[l]
        BY <1>9, <3>4 DEF DropRecords, RecordPendingDrop, TypeOK, AmountsOK
      <4>2. Unrecorded(t, l) = 0
        BY <1>9, <3>4 DEF DropRecords, Goes, Unrecorded
      <4>3. QED
        BY <3>1, <3>2, <4>1, <4>2, Naturals DEF Margin
    <3>5. QED
      BY <3>3, <3>4
  <2>3. QED
    BY <2>1, <2>2, MarginSuffices
<1>10. CASE End(t)
  BY <1>1, <1>10 DEF End, Leaves, TypeOK, ThreadsOK
<1>11. QED
  BY <1>2, <1>3, <1>4, <1>5, <1>6, <1>7, <1>8, <1>9, <1>10 DEF ThreadStep

LEMMA ServerForgetsNothing ==
  ASSUME TypeOK, TypeOK', NothingForgotten, Server
  PROVE  NothingForgotten'
\* The threads do nothing: the amounts alone are to be looked at.
<1>1. ASSUME UNCHANGED threads,
             \A l \in Lock : mirror'[l] + pending'[l] + uncounted'[l] - held'[l]
                              >= mirror[l] + pending[l] + uncounted[l] - held[l]
      PROVE  NothingForgotten'
  <2>1. \A u \in Thread, l \in Lock : Unrecorded(u, l)' = Unrecorded(u, l)
    BY <1>1 DEF threads, Unrecorded
  <2>2. ASSUME NEW l \in Lock PROVE Margin(1, l)' >= Margin(1, l)
    <3>1. Unrecorded(1, l)' = Unrecorded(1, l) /\ Unrecorded(1, l) \in Nat
      BY <2>1, Naturals DEF Thread
    <3>2. /\ mirror'[l] \in Nat /\ pending'[l] \in Nat /\ uncounted'[l] \in Nat
          /\ held'[l] \in Nat
      BY DEF TypeOK, AmountsOK
    <3>3. QED
      BY <1>1, <3>1, <3>2, Naturals DEF Margin
  <2>3. 1 \in Thread
    BY DEF Thread
  <2>4. QED
    BY <2>1, <2>2, <2>3, MarginSuffices
<1>2. ASSUME NEW k \in Lock, NEW n \in Nat, Loses(k, n), UNCHANGED uncounted, NEW l \in Lock
      PROVE  mirror'[l] + pending'[l] + uncounted'[l] - held'[l]
               >= mirror[l] + pending[l] + uncounted[l] - held[l]
  <2>1. CASE l = k
    <3>1. /\ held'[l] = held[l] - n /\ uncounted'[l] = uncounted[l]
          /\ pending'[l] = Less(pending[l], n)
          /\ mirror'[l] = Less(mirror[l], Less(n, pending[l]))
      BY <1>2, <2>1 DEF Loses, ModifyLost, TypeOK, AmountsOK
    <3>2. Less(mirror[l], Less(n, pending[l])) + Less(pending[l], n) >= mirror[l] + pending[l] - n
      BY LossBound, Naturals
    <3>3. Less(pending[l], n) \in Nat /\ mirror'[l] \in Nat
      BY LessIsNat, Naturals DEF TypeOK, AmountsOK
    <3>4. QED
      BY <3>1, <3>2, <3>3, Naturals
  <2>2. CASE l # k
    <3>1. /\ held'[l] = held[l] /\ uncounted'[l] = uncounted[l]
          /\ pending'[l] = pending[l] /\ mirror'[l] = mirror[l]
      BY <1>2, <2>2 DEF Loses, ModifyLost, TypeOK, AmountsOK
    <3>2. /\ mirror[l] \in Nat /\ pending[l] \in Nat /\ uncounted[l] \in Nat
          /\ held[l] \in Nat
      BY DEF TypeOK, AmountsOK
    <3>3. QED
      BY <3>1, <3>2, Naturals
  <2>3. QED
    BY <2>1, <2>2
<1>3. ASSUME NEW k \in Lock, NEW n \in Nat, Gains(k, n), UNCHANGED uncounted, NEW l \in Lock
      PROVE  mirror'[l] + pending'[l] + uncounted'[l] - held'[l]
               >= mirror[l] + pending[l] + uncounted[l] - held[l]
  <2>1. CASE l = k
    <3>1. /\ held'[l] = held[l] + n /\ uncounted'[l] = uncounted[l]
          /\ pending'[l] = pending[l] /\ mirror'[l] = mirror[l] + n
      BY <1>3, <2>1 DEF Gains, ModifyGained, AddItem, TypeOK, AmountsOK
    <3>2. QED
      BY <3>1, Naturals
  <2>2. CASE l # k
    <3>1. /\ held'[l] = held[l] /\ uncounted'[l] = uncounted[l]
          /\ pending'[l] = pending[l] /\ mirror'[l] = mirror[l]
      BY <1>3, <2>2 DEF Gains, ModifyGained, AddItem, TypeOK, AmountsOK
    <3>2. /\ mirror[l] \in Nat /\ pending[l] \in Nat /\ uncounted[l] \in Nat
          /\ held[l] \in Nat
      BY DEF TypeOK, AmountsOK
    <3>3. QED
      BY <3>1, <3>2, Naturals
  <2>3. QED
    BY <2>1, <2>2
<1>4. CASE ServeDrop
  <2>1. First.item \in Lock /\ First.count \in Nat
    BY <1>4, FirstIsRequest DEF ServeDrop, Taken, TypeOK
  <2>2. QED
    BY <1>1, <1>2, <1>4, <2>1 DEF ServeDrop
<1>5. CASE ServeBreak
  <2>1. First.item \in Lock
    BY <1>5, FirstIsRequest DEF ServeBreak, TypeOK
  <2>2. QED
    BY <1>1, <1>2, <1>5, <2>1 DEF ServeBreak
<1>6. CASE ServeRest
  <2>1. Lower[First.item] \in Lock /\ Worth \in Nat
    BY <1>6, FirstIsRequest, LowerIsLock DEF ServeRest, Taken, TypeOK
  <2>2. QED
    BY <1>1, <1>3, <1>6, <2>1 DEF ServeRest
<1>7. CASE Refuse
  <2>1. UNCHANGED threads /\ UNCHANGED <<held, mirror, pending, uncounted>>
    BY <1>7 DEF Refuse, manager
  <2>2. QED
    BY <1>1, <2>1, Naturals
<1>8. CASE OtherChange
  <2>1. PICK k \in Lock : Loses(k, 1) \/ Gains(k, 1)
    BY <1>8 DEF OtherChange
  <2>2. UNCHANGED threads /\ UNCHANGED uncounted
    BY <1>8 DEF OtherChange
  <2>3. QED
    BY <1>1, <1>2, <1>3, <2>1, <2>2
<1>9. CASE Collect
  <2>1. PICK k \in Lock :
          /\ held' = [held EXCEPT ![k] = @ + 1]
          /\ \/ AddItem(k, 1) /\ UNCHANGED uncounted
             \/ /\ uncounted' = [uncounted EXCEPT ![k] = @ + 1]
                /\ UNCHANGED mirror \/ \E other \in Lock \ {k} : AddItem(other, 1)
    BY <1>9 DEF Collect
  <2>2. UNCHANGED threads /\ pending' = pending
    BY <1>9 DEF Collect
  <2>3. ASSUME NEW l \in Lock
        PROVE  mirror'[l] + uncounted'[l] - held'[l] >= mirror[l] + uncounted[l] - held[l]
    <3>1. CASE AddItem(k, 1) /\ UNCHANGED uncounted
      <4>1. /\ held'[l] - held[l] = mirror'[l] - mirror[l]
            /\ uncounted'[l] = uncounted[l] /\ mirror'[l] \in Nat /\ held'[l] \in Nat
        <5>1. CASE l = k
          <6>1. held'[l] = held[l] + 1 /\ mirror'[l] = mirror[l] + 1
            BY <2>1, <3>1, <5>1 DEF AddItem, TypeOK, AmountsOK
          <6>2. QED
            BY <3>1, <6>1, Naturals
        <5>2. CASE l # k
          <6>1. held'[l] = held[l] /\ mirror'[l] = mirror[l]
            BY <2>1, <3>1, <5>2 DEF AddItem, TypeOK, AmountsOK
          <6>2. QED
            BY <3>1, <6>1, Naturals
        <5>3. QED
          BY <5>1, <5>2
      <4>2. QED
        BY <4>1, Naturals
    <3>2. ASSUME uncounted' = [uncounted EXCEPT ![k] = @ + 1], mirror'[l] >= mirror[l]
          PROVE  mirror'[l] + uncounted'[l] - held'[l] >= mirror[l] + uncounted[l] - held[l]
      <4>1. /\ held'[l] \in Nat /\ uncounted'[l] \in Nat /\ mirror'[l] \in Nat
            /\ held'[l] - held[l] = uncounted'[l] - uncounted[l]
        <5>1. CASE l = k
          <6>1. held'[l] = held[l] + 1 /\ uncounted'[l] = uncounted[l] + 1
            BY <2>1, <3>2, <5>1 DEF TypeOK, AmountsOK
          <6>2. QED
            BY <6>1, Naturals DEF TypeOK, AmountsOK
        <5>2. CASE l # k
          <6>1. held'[l] = held[l] /\ uncounted'[l] = uncounted[l]
            BY <2>1, <3>2, <5>2 DEF TypeOK, AmountsOK
          <6>2. QED
            BY <6>1, Naturals DEF TypeOK, AmountsOK
        <5>3. QED
          BY <5>1, <5>2
      <4>2. QED
        BY <3>2, <4>1, Naturals
    <3>3. CASE uncounted' = [uncounted EXCEPT ![k] = @ + 1] /\ UNCHANGED mirror
      BY <3>3, <3>2 DEF TypeOK, AmountsOK
    <3>4. CASE /\ uncounted' = [uncounted EXCEPT ![k] = @ + 1]
               /\ \E other \in Lock \ {k} : AddItem(other, 1)
      <4>1. PICK other \in Lock : mirror' = [mirror EXCEPT ![other] = @ + 1]
        BY <3>4 DEF AddItem
      <4>2. mirror'[l] = mirror[l] \/ mirror'[l] = mirror[l] + 1
        BY <4>1 DEF TypeOK, AmountsOK
      <4>3. mirror'[l] >= mirror[l]
        BY <4>2, Naturals
      <4>4. QED
        BY <3>4, <3>2, <4>3
    <3>5. QED
      BY <2>1, <3>1, <3>3, <3>4
  <2>4. QED
    <3>1. \A l \in Lock : /\ mirror'[l] \in Nat /\ uncounted'[l] \in Nat /\ held'[l] \in Nat
                          /\ pending'[l] = pending[l]
      BY <2>2 DEF TypeOK, AmountsOK
    <3>2. QED
      BY <1>1, <2>2, <2>3, <3>1, Naturals
<1>10. CASE InventoryState
  <2>1. UNCHANGED threads
    BY <1>10 DEF InventoryState
  <2>2. mirror' = held /\ held' = held /\ pending' = pending
    BY <1>10 DEF InventoryState, ParseInventory
  <2>3. ASSUME NEW l \in Lock
        PROVE  mirror'[l] + pending'[l] + Unrecorded(1, l)' + Unrecorded(2, l)'
                 + uncounted'[l] >= held'[l]
    <3>1. /\ mirror'[l] = held'[l] /\ held'[l] \in Nat /\ pending'[l] \in Nat
          /\ uncounted'[l] \in Nat
      BY <2>2 DEF TypeOK, AmountsOK
    <3>2. Unrecorded(1, l)' \in Nat /\ Unrecorded(2, l)' \in Nat
      BY DEF TypeOK, ThreadsOK, Unrecorded, Thread
    <3>3. QED
      BY <3>1, <3>2
  <2>4. QED
    BY <2>3 DEF NothingForgotten
<1>11. QED
  BY <1>4, <1>5, <1>6, <1>7, <1>8, <1>9, <1>10, Zenon DEF Server

\* NothingForgotten holds in every state: whenever a report of the server comes
\* between the two calls by which a thread takes a stack from the mirror and
\* records it, and whatever the server refuses, no loss stays deducted twice.
THEOREM NoLossTwice == Spec => []NothingForgotten
<1> DEFINE Inv == TypeOK /\ NothingForgotten
<1>1. Init => Inv
  <2> SUFFICES ASSUME Init PROVE NothingForgotten
    BY InitTypeOK
  <2>1. \A l \in Lock : Unrecorded(1, l) = 0 /\ Unrecorded(2, l) = 0
    BY DEF Init, Unrecorded, Thread
  <2>2. QED
    BY <2>1 DEF Init, None, NothingForgotten
<1>2. Inv /\ [Next]_vars => Inv'
  <2> SUFFICES ASSUME Inv, [Next]_vars PROVE Inv'
    OBVIOUS
  <2>1. TypeOK'
    BY NextTypeOK
  <2>2. CASE UNCHANGED vars
    BY <2>1, <2>2 DEF vars, manager, threads, NothingForgotten, Unrecorded
  <2>3. CASE Next
    BY <2>1, <2>3, CheckForgetsNothing, ThreadForgetsNothing, ServerForgetsNothing DEF Next
  <2>4. QED
    BY <2>1, <2>2, <2>3
<1>3. QED
  BY <1>1, <1>2, PTL DEF Spec

-----------------------------------------------------------------------------
(* A drop ends.  What a thread has left to do is a number, and each step   *)
(* of the thread's own makes it smaller.                                   *)

Positive(n) == IF n > 0 THEN n ELSE 0

\* Three steps for each lock to break and each stack to drop, which holds a lock at
\* least, less those already taken of the present one.
ToDo(b, d, step) ==
  3 * (Positive(b["dl"]) + Positive(b["bgl"])
       + Positive(d["wl"]) + Positive(d["dl"]) + Positive(d["bgl"]))
    + (IF step \in {"broken", "confirmed"} THEN 2
       ELSE IF step \in {"removed", "taken"} THEN 1 ELSE 0)
Left(t) == ToDo(breaks[t], drops[t], pc[t])

Working == {"working", "broken", "removed", "confirmed", "taken"}

\* A thread at work stays as it is, has less left to do, or ends.
WorkShrinks ==
  [][\A t \in Thread : pc[t] \in Working =>
       \/ UNCHANGED <<pc[t], breaks[t], drops[t]>>
       \/ pc'[t] \in Working /\ Left(t)' < Left(t)
       \/ pc'[t] = "idle"]_vars

\* Left is a natural number.
LEMMA LeftIsNat ==
  ASSUME TypeOK, NEW t \in Thread
  PROVE  Left(t) \in Nat
<1>1. /\ breaks[t]["dl"] \in Int /\ breaks[t]["bgl"] \in Int
      /\ drops[t]["wl"] \in Int /\ drops[t]["dl"] \in Int /\ drops[t]["bgl"] \in Int
  BY DEF TypeOK, ThreadsOK, Lock
<1>2. \A n \in Int : Positive(n) \in Nat
  BY DEF Positive
<1>3. QED
  BY <1>1, <1>2 DEF Left, ToDo

\* A step of another thread, of the main loop or of the server leaves a thread alone.
LEMMA ThreadAlone ==
  ASSUME TypeOK, NEW t \in Thread, pc[t] \in Working,
         \/ Server \/ UNCHANGED vars \/ (\E u \in Thread : Check(u))
         \/ \E u \in Thread \ {t} : ThreadStep(u)
  PROVE  UNCHANGED <<pc[t], breaks[t], drops[t]>>
<1> USE DEF TypeOK, ThreadsOK, Working
<1>1. CASE Server \/ UNCHANGED vars
  BY <1>1 DEF Server, ServeDrop, ServeBreak, ServeRest, Refuse, OtherChange, Collect,
     InventoryState, threads, vars
<1>2. ASSUME NEW u \in Thread, Check(u)
      PROVE  UNCHANGED <<pc[t], breaks[t], drops[t]>>
  <2>1. u # t
    BY <1>2 DEF Check
  <2>2. PICK c \in Command : \E a \in Checked[c] : drops' = [drops EXCEPT ![u] = a]
    BY <1>2 DEF Check
  <2>3. QED
    BY <1>2, <2>1, <2>2 DEF Check
<1>3. ASSUME NEW u \in Thread \ {t}, ThreadStep(u)
      PROVE  UNCHANGED <<pc[t], breaks[t], drops[t]>>
  BY <1>3 DEF ThreadStep, Start, Begin, ReturnsUnconnected, Break, BreakRemoves, BreakAdds,
     Drop, DropRemoves, DropRecords, End, Goes, Leaves
<1>4. QED
  BY <1>1, <1>2, <1>3

\* A step of its own takes something off what it has left to do.
LEMMA OwnStep ==
  ASSUME TypeOK, NEW t \in Thread, pc[t] \in Working, ThreadStep(t)
  PROVE  (pc'[t] \in Working /\ Left(t)' < Left(t)) \/ pc'[t] = "idle"
<1>1. /\ breaks[t]["dl"] \in Int /\ breaks[t]["bgl"] \in Int
      /\ drops[t]["wl"] \in Int /\ drops[t]["dl"] \in Int /\ drops[t]["bgl"] \in Int
      /\ pc \in [Thread -> {"idle", "checked", "started", "working", "broken", "removed",
                            "confirmed", "taken"}]
      /\ breaks \in [Thread -> [Lock -> Int]] /\ drops \in [Thread -> [Lock -> Int]]
  BY DEF TypeOK, ThreadsOK, Lock
<1>2. \A n \in Int : Positive(n) \in Nat /\ (n > 0 => Positive(n - 1) = Positive(n) - 1)
  BY DEF Positive
<1>3. \A n \in Int : n > 0 => Positive(n - Stack) <= Positive(n) - 1 /\ Positive(n - Stack) \in Nat
  BY DEF Positive
<1>4. CASE Break(t)
  <2>1. PICK l \in Breakable : breaks[t][l] > 0 /\ breaks' = [breaks EXCEPT ![t][l] = @ - 1]
    BY <1>4 DEF Break, BreakNext
  <2>2. pc[t] = "working" /\ pc'[t] = "broken" /\ drops' = drops
    BY <1>1, <1>4 DEF Break, Goes
  <2>3. l \in {"dl", "bgl"}
    BY DEF Breakable, Lower
  <2>4. /\ breaks'[t][l] = breaks[t][l] - 1
        /\ \A k \in Lock : k # l => breaks'[t][k] = breaks[t][k]
    BY <1>1, <2>1, <2>3 DEF Lock
  <2>5. QED
    BY <1>1, <1>2, <2>1, <2>2, <2>3, <2>4 DEF Left, ToDo, Working, Lock
<1>5. CASE Drop(t)
  <2>1. PICK l \in Lock : drops[t][l] > 0 /\ drops' = [drops EXCEPT ![t][l] = @ - Stack]
    BY <1>5 DEF Drop, DropNext
  <2>2. pc[t] = "working" /\ pc'[t] = "confirmed" /\ breaks' = breaks
    BY <1>1, <1>5 DEF Drop, Goes
  <2>3. /\ drops'[t][l] = drops[t][l] - Stack
        /\ \A k \in Lock : k # l => drops'[t][k] = drops[t][k]
    BY <1>1, <2>1
  <2>4. QED
    BY <1>1, <1>2, <1>3, <2>1, <2>2, <2>3 DEF Left, ToDo, Working, Lock
<1>6. CASE BreakRemoves(t) \/ BreakAdds(t) \/ DropRemoves(t) \/ DropRecords(t)
  <2>1. /\ \/ pc[t] = "broken" /\ pc'[t] = "removed"
           \/ pc[t] = "removed" /\ pc'[t] = "working"
           \/ pc[t] = "confirmed" /\ pc'[t] = "taken"
           \/ pc[t] = "taken" /\ pc'[t] = "working"
        /\ breaks' = breaks /\ drops' = drops
    BY <1>1, <1>6 DEF BreakRemoves, BreakAdds, DropRemoves, DropRecords, Goes
  <2>2. QED
    BY <1>1, <1>2, <2>1 DEF Left, ToDo, Working
<1>7. CASE End(t)
  BY <1>1, <1>7 DEF End, Goes
<1>8. CASE Start(t) \/ Begin(t)
  BY <1>8 DEF Start, Begin, ReturnsUnconnected, Goes, Working
<1>9. QED
  BY <1>4, <1>5, <1>6, <1>7, <1>8 DEF ThreadStep

\* No drop goes on for ever: whatever the server, the player and the other thread do
\* meanwhile, a thread has always less and less left to do, by natural numbers.
THEOREM DropsTerminate == Spec => WorkShrinks
<1>1. TypeOK /\ [Next]_vars =>
        [\A t \in Thread : pc[t] \in Working =>
           \/ UNCHANGED <<pc[t], breaks[t], drops[t]>>
           \/ pc'[t] \in Working /\ Left(t)' < Left(t)
           \/ pc'[t] = "idle"]_vars
  BY ThreadAlone, OwnStep DEF Next
<1>2. QED
  BY <1>1, TypeCorrect, PTL DEF Spec, WorkShrinks

\* A drop in progress has a thread that ends it.
DroppingHasThread == dropping => \E t \in Thread : pc[t] \in Working \cup {"started"}

\* s_dropping is never left behind by threads that overlap: while it is set, one of
\* them has still to reset it.
THEOREM FlagHasThread == Spec => []DroppingHasThread
<1>1. Init => DroppingHasThread
  BY DEF Init, DroppingHasThread
<1>2. TypeOK /\ DroppingHasThread /\ [Next]_vars => DroppingHasThread'
  <2> SUFFICES ASSUME TypeOK, DroppingHasThread, [Next]_vars, dropping'
               PROVE  \E t \in Thread : pc'[t] \in Working \cup {"started"}
    BY DEF DroppingHasThread
  <2> USE DEF TypeOK, ThreadsOK, Working
  <2>1. CASE Server \/ UNCHANGED vars
    BY <2>1 DEF DroppingHasThread, Server, ServeDrop, ServeBreak, ServeRest, Refuse,
       OtherChange, Collect, InventoryState, threads, vars
  <2>2. ASSUME NEW t \in Thread, Check(t)
        PROVE  \E u \in Thread : pc'[u] \in Working \cup {"started"}
    <3>1. dropping' = dropping /\ pc[t] = "idle" /\ pc' = [pc EXCEPT ![t] = "checked"]
      BY <2>2 DEF Check
    <3>2. QED
      BY <3>1 DEF DroppingHasThread
  <2>3. ASSUME NEW t \in Thread, ThreadStep(t)
        PROVE  \E u \in Thread : pc'[u] \in Working \cup {"started"}
    <3>1. pc'[t] \in Working \cup {"started"}
      BY <2>3 DEF ThreadStep, Start, Begin, ReturnsUnconnected, Break, BreakRemoves,
         BreakAdds, Drop, DropRemoves, DropRecords, End, Goes
    <3>2. QED
      BY <3>1
  <2>4. QED
    BY <2>1, <2>2, <2>3 DEF Next
<1>3. QED
  BY <1>1, <1>2, TypeCorrect, PTL DEF Spec

-----------------------------------------------------------------------------
(* The flag comes down, by induction on what the thread has left to do.    *)

\* Induction for a set of numbers, from the least number not in it.
LEMMA SetInduction ==
  ASSUME NEW X, 0 \in X, \A n \in Nat : n \in X => n + 1 \in X
  PROVE  Nat \subseteq X
<1> DEFINE T == Nat \ X
           R == OpToRel(<, Nat)
<1>1. IsWellFoundedOn(R, Nat)
  BY NatLessThanWellFounded, Zenon
<1>2. \A k, l \in Nat : k < l => <<k, l>> \in R
  BY DEF OpToRel
<1>3. T \subseteq Nat
  OBVIOUS
<1>4. \A k \in T : k # 0 /\ k - 1 \in T /\ k - 1 < k
  OBVIOUS
<1> HIDE DEF R, T
<1>5. T = {}
  <2> SUFFICES ASSUME T # {} PROVE FALSE
    OBVIOUS
  <2>1. PICK k \in T : \A l \in T : ~(<<l, k>> \in R)
    BY <1>1, <1>3, WFMin
  <2>2. k \in Nat /\ k - 1 \in Nat /\ k - 1 \in T /\ k - 1 < k
    BY <1>3, <1>4
  <2>3. <<k - 1, k>> \in R
    BY <1>2, <2>2
  <2>4. QED
    BY <2>1, <2>2, <2>3
<1>6. QED
  BY <1>5 DEF T

AtWork(t) == pc[t] \in Working
Started(t) == pc[t] = "started"
Below(t, n) == AtWork(t) /\ Left(t) < n

LEMMA LeftStaysNat ==
  ASSUME NEW t \in Thread
  PROVE  TypeOK' => (Left(t) \in Nat)'
<1>1. TypeOK => Left(t) \in Nat
  BY LeftIsNat
<1>2. QED
  BY <1>1, PTL

\* A thread that leaves resets the flag, and until then it is at work.
LEMMA WorkLasts ==
  ASSUME TypeOK, NEW t \in Thread, [Next]_vars
  PROVE  /\ Started(t) => (Started(t) \/ AtWork(t) \/ ~dropping)'
         /\ AtWork(t) => (AtWork(t) \/ ~dropping)'
<1> USE DEF TypeOK, ThreadsOK, Working, AtWork, Started
<1>1. CASE Server \/ UNCHANGED vars
  BY <1>1 DEF Server, ServeDrop, ServeBreak, ServeRest, Refuse, OtherChange, Collect,
     InventoryState, threads, vars
<1>2. ASSUME NEW u \in Thread, Check(u), Started(t) \/ AtWork(t)
      PROVE  pc'[t] = pc[t]
  BY <1>2 DEF Check
<1>3. ASSUME NEW u \in Thread, ThreadStep(u)
      PROVE  /\ Started(t) => (Started(t) \/ AtWork(t) \/ ~dropping)'
             /\ AtWork(t) => (AtWork(t) \/ ~dropping)'
  BY <1>3 DEF ThreadStep, Start, Begin, ReturnsUnconnected, Break, BreakRemoves, BreakAdds,
     Drop, DropRemoves, DropRecords, End, Goes
<1>4. QED
  BY <1>1, <1>2, <1>3 DEF Next

LEMMA WorkGoesOn ==
  ASSUME TypeOK, NEW t \in Thread, NEW n \in Nat
  PROVE  /\ Below(t, n + 1) /\ [Next]_vars => (Below(t, n + 1) \/ ~dropping)'
         /\ Below(t, n + 1) /\ <<ThreadStep(t)>>_vars => (Below(t, n) \/ ~dropping)'
         /\ Started(t) /\ <<ThreadStep(t)>>_vars => ~Started(t)'
<1>1. ASSUME Below(t, n + 1), [Next]_vars
      PROVE  (Below(t, n + 1) \/ ~dropping)'
  <2>1. TypeOK'
    BY <1>1, NextTypeOK
  <2>2. Left(t) \in Nat /\ Left(t)' \in Nat
    BY <2>1, LeftIsNat, LeftStaysNat
  <2>3. \/ UNCHANGED <<pc[t], breaks[t], drops[t]>>
        \/ (pc'[t] \in Working /\ Left(t)' < Left(t)) \/ pc'[t] = "idle"
    BY <1>1, ThreadAlone, OwnStep DEF Next, Below, AtWork
  <2>4. CASE UNCHANGED <<pc[t], breaks[t], drops[t]>>
    BY <1>1, <2>4 DEF Below, AtWork, Left
  <2>5. CASE pc'[t] \in Working /\ Left(t)' < Left(t)
    BY <1>1, <2>2, <2>5 DEF Below, AtWork
  <2>6. CASE pc'[t] = "idle"
    BY <1>1, <2>6, WorkLasts DEF Below, AtWork, Working
  <2>7. QED
    BY <2>3, <2>4, <2>5, <2>6
<1>2. ASSUME Below(t, n + 1), ThreadStep(t)
      PROVE  (Below(t, n) \/ ~dropping)'
  <2>1. TypeOK' /\ [Next]_vars
    BY <1>2, NextTypeOK DEF Next
  <2>2. Left(t) \in Nat /\ Left(t)' \in Nat
    BY <2>1, LeftIsNat, LeftStaysNat
  <2>3. (pc'[t] \in Working /\ Left(t)' < Left(t)) \/ pc'[t] = "idle"
    BY <1>2, OwnStep DEF Below, AtWork
  <2>4. CASE pc'[t] = "idle"
    BY <1>2, <2>1, <2>4, WorkLasts DEF Below, AtWork, Working
  <2>5. QED
    BY <1>2, <2>2, <2>3, <2>4 DEF Below, AtWork
<1>3. ASSUME Started(t), ThreadStep(t)
      PROVE  ~Started(t)'
  BY <1>3 DEF Started, TypeOK, ThreadsOK, ThreadStep, Start, Begin, ReturnsUnconnected, Break,
     BreakRemoves, BreakAdds, Drop, DropRemoves, DropRecords, End, Goes
<1>4. QED
  BY <1>1, <1>2, <1>3

\* A thread with less than n steps to go lowers the flag, or another one does.
EndsBelow(t, n) == Below(t, n) ~> ~dropping

LEMMA OneMoreStep ==
  ASSUME NEW t \in Thread, NEW n \in Nat
  PROVE  FairSpec /\ []CanHappen /\ EndsBelow(t, n) => EndsBelow(t, n + 1)
<1>1. TypeOK => /\ Below(t, n + 1) /\ [Next]_vars => (Below(t, n + 1) \/ ~dropping)'
                /\ Below(t, n + 1) /\ <<ThreadStep(t)>>_vars => (Below(t, n) \/ ~dropping)'
  BY WorkGoesOn
<1>2. CanHappen /\ Below(t, n + 1) => ENABLED <<ThreadStep(t)>>_vars
  <2> SUFFICES ASSUME CanHappen, Below(t, n + 1) PROVE ENABLED <<ThreadStep(t)>>_vars
    OBVIOUS
  <2>1. pc[t] \notin {"idle", "checked"}
    BY DEF Below, AtWork, Working
  <2>2. QED
    BY <2>1, Zenon DEF CanHappen
<1>3. Fairness => Runs(t)
  BY DEF Fairness
<1>4. QED
  BY <1>1, <1>2, <1>3, TypeCorrect, PTL DEF FairSpec, Spec, Runs, EndsBelow

\* TLA+ can quantify over a set of numbers but cannot build one from a temporal
\* formula: this names it, and is true of every behaviour.
EndsSet == \A t \in Thread : \E X : \A n \in Nat : n \in X <=> EndsBelow(t, n)

LEMMA WorkEnds ==
  ASSUME NEW t \in Thread
  PROVE  FairSpec /\ []CanHappen /\ EndsSet => (AtWork(t) ~> ~dropping)
<1>1. Spec => EndsBelow(t, 0)
  <2>1. TypeOK => ~Below(t, 0)
    BY LeftIsNat DEF Below
  <2>2. QED
    BY <2>1, TypeCorrect, PTL DEF EndsBelow
<1>2. FairSpec /\ []CanHappen => EndsBelow(t, 0) /\ \A n \in Nat : EndsBelow(t, n) => EndsBelow(t, n + 1)
  BY <1>1, OneMoreStep DEF FairSpec
<1>3. FairSpec /\ []CanHappen /\ EndsSet => \A n \in Nat : EndsBelow(t, n)
  <2> SUFFICES ASSUME NEW X, \A n \in Nat : n \in X <=> EndsBelow(t, n),
                      EndsBelow(t, 0), \A n \in Nat : EndsBelow(t, n) => EndsBelow(t, n + 1)
               PROVE  \A n \in Nat : EndsBelow(t, n)
    BY <1>2 DEF EndsSet
  <2>1. 0 \in X /\ \A n \in Nat : n \in X => n + 1 \in X
    OBVIOUS
  <2>2. QED
    BY <2>1, SetInduction
<1>4. (\A n \in Nat : EndsBelow(t, n)) => \A n \in Nat : [](Below(t, n) => <>~dropping)
  BY PTL DEF EndsBelow
<1>5. (\A n \in Nat : [](Below(t, n) => <>~dropping)) => [](\A n \in Nat : Below(t, n) => <>~dropping)
  OBVIOUS
<1>6. TypeOK /\ (\A n \in Nat : Below(t, n) => <>~dropping) => (AtWork(t) => <>~dropping)
  <2> SUFFICES ASSUME TypeOK, \A n \in Nat : Below(t, n) => <>~dropping, AtWork(t)
               PROVE  <>~dropping
    OBVIOUS
  <2>1. Left(t) + 1 \in Nat /\ Below(t, Left(t) + 1)
    BY LeftIsNat DEF Below
  <2>2. QED
    BY <2>1
<1>7. QED
  BY <1>3, <1>4, <1>5, <1>6, TypeCorrect, PTL DEF FairSpec

\* The mark of a drop in progress comes down, for any plan, any number of commands
\* and whatever the server answers, also where two threads set and reset it: a later
\* drop is not refused for ever.
THEOREM DropsEnd == FairSpec /\ []CanHappen /\ EndsSet => DroppingEnds
<1> DEFINE Active(t) == AtWork(t) \/ Started(t)
<1>1. ASSUME NEW t \in Thread
      PROVE  FairSpec /\ []CanHappen /\ EndsSet => [](Active(t) => <>~dropping)
  <2>1. TypeOK /\ [Next]_vars => (Started(t) => (Started(t) \/ AtWork(t) \/ ~dropping)')
    BY WorkLasts
  <2>2. TypeOK => (Started(t) /\ <<ThreadStep(t)>>_vars => ~Started(t)')
    BY WorkGoesOn
  <2>3. CanHappen /\ Started(t) => ENABLED <<ThreadStep(t)>>_vars
    <3> SUFFICES ASSUME CanHappen, Started(t) PROVE ENABLED <<ThreadStep(t)>>_vars
      OBVIOUS
    <3>1. pc[t] \notin {"idle", "checked"}
      BY DEF Started
    <3>2. QED
      BY <3>1, Zenon DEF CanHappen
  <2>4. Fairness => Runs(t)
    BY DEF Fairness
  <2>5. QED
    BY <2>1, <2>2, <2>3, <2>4, WorkEnds, TypeCorrect, PTL DEF FairSpec, Spec, Runs
<1>2. FairSpec /\ []CanHappen /\ EndsSet => \A t \in Thread : [](Active(t) => <>~dropping)
  BY <1>1
<1>3. (\A t \in Thread : [](Active(t) => <>~dropping)) => [](\A t \in Thread : Active(t) => <>~dropping)
  OBVIOUS
<1>4. DroppingHasThread /\ (\A t \in Thread : Active(t) => <>~dropping) => (dropping => <>~dropping)
  <2>1. DroppingHasThread => (dropping => \E t \in Thread : Active(t))
    BY DEF DroppingHasThread, AtWork, Started
  <2> HIDE DEF Active
  <2>2. QED
    BY <2>1
<1> HIDE DEF Active
<1>5. QED
  BY <1>2, <1>3, <1>4, FlagHasThread, PTL DEF FairSpec, DroppingEnds
=============================================================================
