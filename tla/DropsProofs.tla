----------------------------- MODULE DropsProofs -----------------------------
(***************************************************************************)
(* Theorems about Drops, for any worlds, items, places and bounds.         *)
(***************************************************************************)
EXTENDS Drops, TLAPS

USE DropsAssumption DEF DropsAssumption

-----------------------------------------------------------------------------
(* The inductive invariant.                                                *)

\* The server numbers the drops of a world one by one.
Numbered ==
  \A w \in Worlds :
    /\ \A o \in ground[w] : o.uid <= last[w]
    /\ \A o, p \in ground[w] : o.uid = p.uid => o = p

\* A number that is remembered as collected is that of a drop that is gone.
ProcessedGone ==
  \A p \in processed :
    /\ p.uid <= last[p.world]
    /\ \A o \in ground[p.world] : o.uid # p.uid

IInv == TypeOK /\ Numbered /\ ProcessedGone /\ MirrorIsGround

LEMMA InitInv == Init => IInv
  BY DEF Init, IInv, TypeOK, Numbered, ProcessedGone, MirrorIsGround, Nowhere, Uids, Mirror

LEMMA EnterInv ==
  ASSUME IInv, NEW w \in Worlds, Enter(w)
  PROVE  IInv'
  <1>1. TypeOK'
    BY DEF Enter, IInv, TypeOK, Uids
  <1>2. Numbered' /\ ProcessedGone'
    BY DEF Enter, IInv, Numbered, ProcessedGone
  <1>3. MirrorIsGround'
    <2>1. last[w] \in Nat /\ last[w] >= 0
      BY DEF IInv, TypeOK
    <2> QED
      BY <2>1 DEF Enter, MirrorIsGround, Mirror
  <1> QED
    BY <1>1, <1>2, <1>3 DEF IInv

LEMMA EnterUnparsedInv ==
  ASSUME IInv, NEW w \in Worlds, EnterUnparsed(w)
  PROVE  IInv'
  BY DEF EnterUnparsed, IInv, TypeOK, Numbered, ProcessedGone, MirrorIsGround, Uids, Mirror

LEMMA DropInv ==
  ASSUME IInv, NEW i \in Items, NEW s \in Spots, NEW n \in Amount, Drop(i, s, n)
  PROVE  IInv'
  <1> DEFINE new == [uid |-> last[world] + 1, item |-> i, spot |-> s, amount |-> n]
  <1>1. PICK uid \in Uid :
          /\ Allocates(uid)
          /\ lastUid' = uid
          /\ items' = items \cup {[uid |-> uid, item |-> i, spot |-> s, amount |-> n]}
    BY DEF Drop
  <1>2. /\ world \in Worlds /\ last[world] \in 0..MaxUid /\ last[world] + 1 \in Uid
        /\ last' = [last EXCEPT ![world] = last[world] + 1]
        /\ ground' = [ground EXCEPT ![world] = ground[world] \cup {new}]
        /\ UNCHANGED <<world, live, processed, inventory, astray>>
    BY DEF Drop, IInv, TypeOK, Uid
  <1>3. new \in Object
    BY <1>2 DEF Object
  <1>4. \A m \in Uids(Mirror) : m < uid
    BY <1>1 DEF Allocates, IInv, TypeOK, Uids, Mirror, Object, Uid
  <1>5. TypeOK'
    <2>1. ground' \in [Worlds -> SUBSET Object]
      BY <1>2, <1>3 DEF IInv, TypeOK
    <2>2. last' \in [Worlds -> 0..MaxUid]
      BY <1>2 DEF IInv, TypeOK, Uid
    <2>3. items' \subseteq Object /\ live' \subseteq Object
      BY <1>1, <1>2 DEF IInv, TypeOK, Object
    <2>4. Uids(items') \cap Uids(live') = {}
      BY <1>1, <1>2, <1>4 DEF IInv, TypeOK, Uids, Mirror, Object, Uid
    <2>5. lastUid' \in 0..MaxUid
      BY <1>1 DEF Uid
    <2> QED
      BY <1>2, <2>1, <2>2, <2>3, <2>4, <2>5 DEF IInv, TypeOK, Uids
  <1>6. Numbered'
    <2> SUFFICES ASSUME NEW w \in Worlds
                 PROVE  /\ \A o \in ground'[w] : o.uid <= last'[w]
                        /\ \A o, p \in ground'[w] : o.uid = p.uid => o = p
      BY DEF Numbered
    <2>1. CASE w # world
      BY <1>2, <2>1 DEF IInv, TypeOK, Numbered
    <2>2. CASE w = world
      <3>1. ground'[w] = ground[w] \cup {new} /\ last'[w] = last[w] + 1
        BY <1>2, <2>2 DEF IInv, TypeOK
      <3>2. \A o \in ground[w] : o.uid <= last[w] /\ o.uid \in Nat
        BY DEF IInv, TypeOK, Numbered, Object, Uid
      <3> QED
        BY <1>2, <2>2, <3>1, <3>2 DEF IInv, Numbered
    <2> QED
      BY <2>1, <2>2
  <1>7. ProcessedGone'
    <2> SUFFICES ASSUME NEW p \in processed
                 PROVE  /\ p.uid <= last'[p.world]
                        /\ \A o \in ground'[p.world] : o.uid # p.uid
      BY <1>2 DEF ProcessedGone
    <2>0. /\ p.world \in Worlds /\ p.uid \in Nat /\ p.uid <= last[p.world]
          /\ last[p.world] \in Nat
          /\ \A o \in ground[p.world] : o.uid # p.uid
      BY DEF IInv, TypeOK, ProcessedGone, Uid
    <2>1. CASE p.world # world
      BY <1>2, <2>0, <2>1 DEF IInv, TypeOK
    <2>2. CASE p.world = world
      <3>1. ground'[p.world] = ground[p.world] \cup {new} /\ last'[p.world] = last[p.world] + 1
        BY <1>2, <2>2 DEF IInv, TypeOK
      <3> QED
        BY <2>0, <2>2, <3>1
    <2> QED
      BY <2>1, <2>2
  <1>8. MirrorIsGround'
    <2> SUFFICES ASSUME astray = "no"
                 PROVE  Mirror' = ground'[world] /\ lastUid' = last'[world]
      BY <1>2 DEF MirrorIsGround
    <2>1. Mirror = ground[world] /\ lastUid = last[world]
      BY <1>2 DEF IInv, MirrorIsGround
    <2>2. uid = last[world] + 1
      BY <1>1, <1>2, <2>1 DEF Allocates, IInv, TypeOK, Numbered, Uids, Object, Uid
    <2> QED
      BY <1>1, <1>2, <2>1, <2>2 DEF IInv, TypeOK, Mirror
  <1> QED
    BY <1>5, <1>6, <1>7, <1>8 DEF IInv

LEMMA GrowInv ==
  ASSUME IInv, world \in Worlds, NEW d \in ground[world], Grow(d)
  PROVE  IInv'
  <1> DEFINE o == [d EXCEPT !.amount = @ + 1]
  <1>1. /\ ground' = [ground EXCEPT ![world] = (ground[world] \ {d}) \cup {o}]
        /\ Update(o)
        /\ UNCHANGED <<world, last, lastUid, processed, inventory, astray>>
    BY DEF Grow
  <1>2. d \in Object /\ o \in Object /\ o.uid = d.uid
    BY DEF Grow, IInv, TypeOK, Object, Amount
  <1>3. /\ items' \subseteq Object /\ live' \subseteq Object
        /\ Uids(items') \cap Uids(live') = {}
    <2>1. CASE o.uid \in Uids(items) \ Uids(live)
      BY <1>1, <1>2, <2>1 DEF Update, IInv, TypeOK, Uids
    <2>2. CASE ~(o.uid \in Uids(items) \ Uids(live))
      BY <1>1, <1>2, <2>2 DEF Update, IInv, TypeOK, Uids
    <2> QED
      BY <2>1, <2>2
  <1>4. TypeOK'
    BY <1>1, <1>2, <1>3 DEF IInv, TypeOK, Uids
  <1>5. Numbered'
    <2> SUFFICES ASSUME NEW w \in Worlds
                 PROVE  /\ \A e \in ground'[w] : e.uid <= last'[w]
                        /\ \A e, p \in ground'[w] : e.uid = p.uid => e = p
      BY DEF Numbered
    <2>1. CASE w # world
      BY <1>1, <2>1 DEF IInv, TypeOK, Numbered
    <2>2. CASE w = world
      <3>1. ground'[w] = (ground[w] \ {d}) \cup {o}
        BY <1>1, <2>2 DEF IInv, TypeOK
      <3>2. /\ \A e \in ground[w] : e.uid <= last[w]
            /\ \A e, p \in ground[w] : e.uid = p.uid => e = p
        BY DEF IInv, Numbered
      <3> HIDE DEF o
      <3> QED
        BY <1>1, <1>2, <2>2, <3>1, <3>2
    <2> QED
      BY <2>1, <2>2
  <1>6. ProcessedGone'
    BY <1>1, <1>2 DEF IInv, TypeOK, ProcessedGone
  <1>7. MirrorIsGround'
    <2> SUFFICES ASSUME astray = "no"
                 PROVE  Mirror' = ground'[world] /\ lastUid' = last'[world]
      BY <1>1 DEF MirrorIsGround
    <2>1. Mirror = ground[world] /\ lastUid = last[world]
      BY DEF IInv, MirrorIsGround
    <2>2. \A e \in Mirror : e.uid = d.uid <=> e = d
      BY <2>1 DEF IInv, Numbered
    <2>3. ground'[world] = (ground[world] \ {d}) \cup {o}
      BY <1>1 DEF IInv, TypeOK
    <2>4. Mirror' = (Mirror \ {d}) \cup {o}
      <3>1. CASE o.uid \in Uids(items) \ Uids(live)
        <4>1. d \notin live
          BY <1>2, <3>1 DEF Uids
        <4> QED
          BY <1>1, <1>2, <2>2, <3>1, <4>1 DEF Update, Mirror
      <3>2. CASE ~(o.uid \in Uids(items) \ Uids(live))
        <4>1. d \notin items
          BY <1>2, <3>2 DEF Uids, IInv, TypeOK
        <4> QED
          BY <1>1, <1>2, <2>2, <3>2, <4>1 DEF Update, Mirror
      <3> QED
        BY <3>1, <3>2
    <2> QED
      BY <1>1, <2>1, <2>3, <2>4
  <1> QED
    BY <1>4, <1>5, <1>6, <1>7 DEF IInv

\* What Collect does besides the choice of a match.
Matches(d) == IF Candidates(d) = {} THEN {{}} ELSE {{c} : c \in Candidates(d)}

\* In a picture that is the ground, the number leads to the drop itself, which is
\* all that is removed unless it lies in a pile.
LEMMA CollectExact ==
  ASSUME IInv, world \in Worlds, NEW d \in ground[world], astray = "no"
  PROVE  /\ Mirror = ground[world] /\ lastUid = last[world]
         /\ d.uid <= last[world]
         /\ Matches(d) = {{d}}
         /\ Pile(d) = {d} /\ Removed(d, {d}) => Mirror' = ground[world] \ {d}
  <1>1. Mirror = ground[world] /\ lastUid = last[world]
    BY DEF IInv, MirrorIsGround
  <1>2. \A e \in Mirror : e.uid = d.uid <=> e = d
    BY <1>1 DEF IInv, Numbered
  <1>3. d.uid <= last[world]
    BY DEF IInv, Numbered
  <1>4. d \in live \/ d \in items
    BY <1>1 DEF Mirror
  <1>5. Known(d.uid) = {d}
    <2> DEFINE of(objects) == {e \in objects : e.uid = d.uid}
    <2>1. of(live) = IF d \in live THEN {d} ELSE {}
      BY <1>2 DEF Mirror
    <2>2. of(items) = IF d \in items THEN {d} ELSE {}
      BY <1>2 DEF Mirror
    <2>3. Known(d.uid) = IF of(live) # {} THEN of(live) ELSE of(items)
      BY DEF Known
    <2> HIDE DEF of
    <2> QED
      BY <1>4, <2>1, <2>2, <2>3
  <1>6. Matches(d) = {{d}}
    BY <1>5 DEF Matches, Candidates
  <1>7. ASSUME Pile(d) = {d}, Removed(d, {d})
        PROVE  Mirror' = ground[world] \ {d}
    <2> DEFINE rest(objects) == {e \in objects : e.uid # d.uid}
    <2>1. rest(items) = items \ {d} /\ rest(live) = live \ {d}
      BY <1>2 DEF Mirror
    <2>2. items' \in OneGone(rest(items), d) /\ live' \in OneGone(rest(live), d)
      <3>1. \A objects : {e \in objects : e.uid \notin {d.uid} \cup Uids({d})} = rest(objects)
        BY DEF Uids
      <3> QED
        BY <1>7, <3>1 DEF Removed
    <2>3. \A e \in Mirror : e.item = d.item /\ e.spot = d.spot => e = d
      BY <1>1, <1>7 DEF Pile
    <2>4. OneGone(items \ {d}, d) = {items \ {d}} /\ OneGone(live \ {d}, d) = {live \ {d}}
      BY <2>3 DEF OneGone, Mirror
    <2>5. items' = items \ {d} /\ live' = live \ {d}
      BY <2>1, <2>2, <2>4
    <2> QED
      BY <1>1, <2>5 DEF Mirror
  <1> QED
    BY <1>1, <1>3, <1>6, <1>7

LEMMA CollectInv ==
  ASSUME IInv, world \in Worlds, NEW d \in ground[world],
         NEW isLocal \in BOOLEAN, NEW expired \in BOOLEAN, Collect(d, isLocal, expired)
  PROVE  IInv'
  <1>0. d \in Object /\ d.uid \in Uid /\ d.item \in Items /\ d.amount \in Int
    BY DEF IInv, TypeOK, Object, Amount
  <1>1. PICK matched \in Matches(d) : Removed(d, matched)
    BY DEF Collect, Matches
  <1>2. /\ ground' = [ground EXCEPT ![world] = ground[world] \ {d}]
        /\ lastUid' = IF d.uid > lastUid THEN d.uid ELSE lastUid
        /\ processed' \subseteq processed \cup {[uid |-> d.uid, world |-> world]}
        /\ astray' = IF astray = "no" /\ Pile(d) # {d} THEN "pile" ELSE astray
        /\ UNCHANGED <<world, last>>
    BY DEF Collect
  <1>3. items' \subseteq items /\ live' \subseteq live
    <2>1. \A objects, m : \A r \in OneGone(objects, m) : r \subseteq objects
      BY DEF OneGone
    <2> DEFINE rest(objects) == {e \in objects : e.uid \notin {d.uid} \cup Uids(matched)}
    <2>2. \/ items' = rest(items) /\ live' = rest(live)
          \/ \E m \in matched : items' \in OneGone(rest(items), m) /\ live' \in OneGone(rest(live), m)
      BY <1>1 DEF Removed
    <2> QED
      BY <2>1, <2>2
  <1>4. inventory' \in [Items -> Int]
    <2>1. CASE ~isLocal
      BY <2>1 DEF Collect, IInv, TypeOK
    <2>2. CASE isLocal
      <3>1. PICK m \in Matches(d) :
              inventory' =
                [i \in Items |->
                   inventory[i] - (IF i = d.item THEN d.amount ELSE 0)
                     + (IF IsNew(d.uid, IF expired THEN {} ELSE processed)
                           /\ \E e \in m : e.item = i
                        THEN (CHOOSE e \in m : TRUE).amount ELSE 0)]
        BY <2>2 DEF Collect, Matches
      <3>2. m = {} \/ \E c \in Mirror : m = {c}
        <4>1. Candidates(d) \subseteq Mirror
          <5>1. Known(d.uid) \subseteq Mirror
            BY DEF Known, Mirror
          <5>2. Nearest(d.spot) \subseteq Mirror
            BY DEF Nearest
          <5> QED
            BY <5>1, <5>2 DEF Candidates
        <4> QED
          BY <4>1 DEF Matches
      <3>3. m # {} => (CHOOSE e \in m : TRUE).amount \in Int
        BY <3>2 DEF Mirror, IInv, TypeOK, Object, Amount
      <3>4. \A i \in Items :
              inventory[i] - (IF i = d.item THEN d.amount ELSE 0)
                + (IF IsNew(d.uid, IF expired THEN {} ELSE processed) /\ \E e \in m : e.item = i
                   THEN (CHOOSE e \in m : TRUE).amount ELSE 0) \in Int
        BY <1>0, <3>3 DEF IInv, TypeOK
      <3> QED
        BY <3>1, <3>4
    <2> QED
      BY <2>1, <2>2
  <1>5. TypeOK'
    <2>1. ground' \in [Worlds -> SUBSET Object]
      BY <1>2 DEF IInv, TypeOK
    <2>2. Uids(items') \cap Uids(live') = {}
      BY <1>3 DEF IInv, TypeOK, Uids
    <2>3. lastUid' \in 0..MaxUid
      BY <1>0, <1>2 DEF IInv, TypeOK, Uid
    <2>4. processed' \subseteq [uid : Uid, world : Worlds]
      BY <1>0, <1>2 DEF IInv, TypeOK
    <2> QED
      BY <1>2, <1>3, <1>4, <2>1, <2>2, <2>3, <2>4 DEF IInv, TypeOK, Uids
  <1>6. Numbered'
    BY <1>2 DEF IInv, TypeOK, Numbered
  <1>7. ProcessedGone'
    <2> SUFFICES ASSUME NEW p \in processed'
                 PROVE  /\ p.uid <= last[p.world]
                        /\ \A o \in ground'[p.world] : o.uid # p.uid
      BY <1>2 DEF ProcessedGone
    <2>1. CASE p \in processed
      BY <1>2, <2>1 DEF IInv, TypeOK, ProcessedGone
    <2>2. CASE p = [uid |-> d.uid, world |-> world]
      BY <1>2, <2>2 DEF IInv, TypeOK, Numbered
    <2> QED
      BY <1>2, <2>1, <2>2
  <1>8. MirrorIsGround'
    <2> SUFFICES ASSUME astray' = "no"
                 PROVE  Mirror' = ground'[world] /\ lastUid' = last[world]
      BY <1>2 DEF MirrorIsGround
    <2>1. astray = "no" /\ Pile(d) = {d}
      BY <1>2
    <2>0. /\ lastUid = last[world] /\ d.uid <= last[world] /\ Matches(d) = {{d}}
          /\ Removed(d, {d}) => Mirror' = ground[world] \ {d}
      BY <2>1, CollectExact
    <2>2. Mirror' = ground[world] \ {d}
      <3>1. matched = {d}
        BY <2>0
      <3> QED
        BY <1>1, <2>0, <3>1
    <2>3. lastUid' = last[world]
      <3>1. d.uid \in Int /\ last[world] \in Int
        BY <1>0 DEF IInv, TypeOK, Uid
      <3> QED
        BY <1>2, <2>0, <3>1
    <2> QED
      BY <1>2, <2>2, <2>3 DEF IInv, TypeOK
  <1> QED
    BY <1>5, <1>6, <1>7, <1>8 DEF IInv

LEMMA StepInv == IInv /\ [Next]_vars => IInv'
  <1> SUFFICES ASSUME IInv, [Next]_vars
               PROVE  IInv'
    OBVIOUS
  <1>1. CASE UNCHANGED vars
    BY <1>1 DEF vars, server, IInv, TypeOK, Numbered, ProcessedGone, MirrorIsGround, Uids, Mirror
  <1>2. CASE Next
    BY <1>2, EnterInv, EnterUnparsedInv, DropInv, GrowInv, CollectInv DEF Next
  <1> QED
    BY <1>1, <1>2

LEMMA Invariant == Spec => []IInv
  BY InitInv, StepInv, PTL DEF Spec

-----------------------------------------------------------------------------
(* The theorems.                                                           *)

\* Every variable keeps its type; no number stands for two objects of the picture.
THEOREM TypeCorrect == Spec => []TypeOK
  <1>1. IInv => TypeOK
    BY DEF IInv
  <1> QED
    BY <1>1, Invariant, PTL

\* The picture follows the ground number by number, through any drops, growths
\* and collects of anybody, until it meets one of the three things it cannot
\* follow.
THEOREM PictureExact == Spec => []MirrorIsGround
  <1>1. IInv => MirrorIsGround
    BY DEF IInv
  <1> QED
    BY <1>1, Invariant, PTL

\* In an exact picture a collect is entered once and as what it is, unless its
\* number was collected in another world too.
THEOREM CreditExact == Spec => CreditIsTrue
  <1> DEFINE True == astray = "no" =>
               \/ UNCHANGED inventory
               \/ \E d \in ground[world] :
                    /\ \E p \in processed : p.uid = d.uid /\ p.world # world
                    /\ inventory' = [inventory EXCEPT ![d.item] = @ - d.amount]
  <1>1. IInv /\ [Next]_vars => [True]_vars
    <2> SUFFICES ASSUME IInv, Next, astray = "no", inventory' # inventory
                 PROVE  True
      BY DEF vars
    <2>1. PICK d \in ground[world], isLocal, expired \in BOOLEAN : Collect(d, isLocal, expired)
      BY DEF Next, Enter, EnterUnparsed, Drop, Grow
    <2>2. isLocal /\ world \in Worlds
      BY <2>1 DEF Collect
    <2> DEFINE kept == IF expired THEN {} ELSE processed
    <2>3. inventory' =
            [i \in Items |->
               inventory[i] - (IF i = d.item THEN d.amount ELSE 0)
                 + (IF IsNew(d.uid, kept) /\ d.item = i THEN d.amount ELSE 0)]
      <3>1. Matches(d) = {{d}}
        BY <2>2, CollectExact
      <3>2. (CHOOSE m \in {d} : TRUE) = d
        OBVIOUS
      <3> QED
        BY <2>1, <2>2, <3>1, <3>2 DEF Collect, Matches
    <2>4. d.item \in Items /\ d.amount \in Int /\ inventory \in [Items -> Int]
      BY <2>2 DEF IInv, TypeOK, Object, Amount
    <2>5. ~IsNew(d.uid, kept)
      <3> SUFFICES ASSUME IsNew(d.uid, kept)
                   PROVE  FALSE
        OBVIOUS
      <3>1. \A i \in Items : inventory'[i] = inventory[i]
        BY <2>3, <2>4
      <3> QED
        BY <2>3, <2>4, <3>1
    <2>6. PICK p \in processed : p.uid = d.uid
      BY <2>5 DEF IsNew
    <2>7. p.world # world
      BY <2>6 DEF IInv, ProcessedGone
    <2>8. inventory' = [inventory EXCEPT ![d.item] = @ - d.amount]
      <3>1. inventory' = [i \in Items |-> inventory[i] - (IF i = d.item THEN d.amount ELSE 0) + 0]
        BY <2>3, <2>5
      <3>2. \A i \in Items : /\ inventory[i] - 0 + 0 = inventory[i]
                            /\ inventory[i] - d.amount + 0 = inventory[i] - d.amount
        BY <2>4
      <3>3. \A i \in Items :
              inventory'[i] = IF i = d.item THEN inventory[i] - d.amount ELSE inventory[i]
        BY <3>1, <3>2
      <3>4. inventory' = [i \in Items |-> inventory'[i]]
        BY <3>1
      <3> QED
        BY <2>4, <3>3, <3>4
    <2> QED
      BY <2>6, <2>7, <2>8
  <1> QED
    BY <1>1, Invariant, PTL DEF Spec, CreditIsTrue
=============================================================================
