-------------------------------- MODULE Drops --------------------------------
(***************************************************************************)
(* Items on the ground of a world, and the proxy's picture of them.  The   *)
(* server numbers the drops of a world from 1; a map carries them with     *)
(* their numbers, but the packet that reports a new drop carries none, and *)
(* WorldManager counts along.  The packet that reports a collect carries   *)
(* nothing but the number: what was collected, and what goes into the      *)
(* mirror of the user's backpack, is looked up.                            *)
(*                                                                         *)
(* The reports come in order and one thread handles them, each in one      *)
(* step with the event it reports.  Spots are more than 12 pixels apart    *)
(* and all within 250 of each other, the reach of the code's search for a  *)
(* drop whose number it does not know.                                     *)
(***************************************************************************)
EXTENDS Integers, FiniteSets

CONSTANTS
  Worlds,
  Locks,      \* world, diamond and blue gem locks
  Others,     \* every other item
  Spots,      \* places on the ground; drops of one spot lie within 12 pixels
  MaxAmount,  \* bound: the size of a drop
  MaxUid      \* bound: drops in one world

ASSUME DropsAssumption ==
  /\ Locks \cap Others = {}
  /\ MaxAmount \in Nat \ {0} /\ MaxUid \in Nat

VARIABLES
  world,      \* where the user is
  ground,     \* what lies in each world
  last,       \* the number of the last drop in each world
  items,      \* items_ of WorldManager
  live,       \* live_objects_
  lastUid,    \* last_dropped_item_uid_
  processed,  \* processed_uids_, with the world of each number for the properties
  inventory,  \* of each item: what the mirror holds beyond what the backpack holds
  astray      \* observer: what the picture of this world met first that it cannot follow

server == <<world, ground, last>>
vars == <<server, items, live, lastUid, processed, inventory, astray>>

Nowhere == "nowhere"
Items == Locks \cup Others
Uid == 1..MaxUid
Amount == 1..MaxAmount
Object == [uid : Uid, item : Items, spot : Spots, amount : Amount]

Uids(objects) == {o.uid : o \in objects}
Mirror == items \cup live

TypeOK ==
  /\ world \in Worlds \cup {Nowhere}
  /\ ground \in [Worlds -> SUBSET Object]
  /\ last \in [Worlds -> 0..MaxUid]
  /\ items \subseteq Object /\ live \subseteq Object
  /\ Uids(items) \cap Uids(live) = {}
  /\ lastUid \in 0..MaxUid
  /\ processed \subseteq [uid : Uid, world : Worlds]
  /\ inventory \in [Items -> Int]
  /\ astray \in {"no", "unparsed", "emptied", "pile"}

Init ==
  /\ world = Nowhere
  /\ ground = [w \in Worlds |-> {}]
  /\ last = [w \in Worlds |-> 0]
  /\ items = {} /\ live = {} /\ lastUid = 0
  /\ processed = {}
  /\ inventory = [i \in Items |-> 0]
  /\ astray = "no"

-----------------------------------------------------------------------------
(* Entering a world: the map                                               *)

\* set_current_world_v2.  The parser finds the section of the drops by its
\* count, which it does not accept when it is 0: of a world without drops it
\* does not learn the last number either.
Enter(w) ==
  /\ world' = w
  /\ items' = ground[w] /\ live' = {}
  /\ lastUid' = IF ground[w] = {} THEN 0 ELSE last[w]
  /\ astray' = IF ground[w] = {} /\ last[w] > 0 THEN "emptied" ELSE "no"
  /\ UNCHANGED <<ground, last, processed, inventory>>

\* A map that does not parse leaves the picture of the world before.
EnterUnparsed(w) ==
  /\ world' = w
  /\ astray' = "unparsed"
  /\ UNCHANGED <<ground, last, items, live, lastUid, processed, inventory>>

-----------------------------------------------------------------------------
(* PACKET_ITEM_CHANGE_OBJECT in Client::on_receive                         *)

\* Mutant: one more than the drops that are known.
AllocatesKnown(uid) ==
  \E n \in {0} \cup Uids(Mirror) : uid = n + 1 /\ \A m \in Uids(Mirror) : m <= n

\* allocate_next_dropped_uid: one more than the last number, as corrected by the
\* drops that are known.
Allocates(uid) ==
  \E n \in {lastUid} \cup Uids(Mirror) :
    uid = n + 1 /\ \A m \in {lastUid} \cup Uids(Mirror) : m <= n

\* net id -1: something is dropped, by anybody.
Drop(i, s, n) ==
  /\ world \in Worlds /\ last[world] < MaxUid
  /\ last' = [last EXCEPT ![world] = @ + 1]
  /\ ground' = [ground EXCEPT ![world] =
       @ \cup {[uid |-> last[world] + 1, item |-> i, spot |-> s, amount |-> n]}]
  /\ \E uid \in Uid :
       /\ Allocates(uid)
       /\ lastUid' = uid
       /\ items' = items \cup {[uid |-> uid, item |-> i, spot |-> s, amount |-> n]}
  /\ UNCHANGED <<world, live, processed, inventory, astray>>

\* Mutant: the list of the map is not searched.
UpdateLive(o) == live' = {e \in live : e.uid # o.uid} \cup {o} /\ UNCHANGED items

\* update_dropped_item: the object of this number is replaced where it is, or
\* joins the live objects.
Update(o) ==
  IF o.uid \in Uids(items) \ Uids(live)
  THEN items' = {e \in items : e.uid # o.uid} \cup {o} /\ UNCHANGED live
  ELSE live' = {e \in live : e.uid # o.uid} \cup {o} /\ UNCHANGED items

\* net id -3: a drop joined one that lies there.
Grow(d) ==
  LET o == [d EXCEPT !.amount = @ + 1] IN
  /\ world \in Worlds /\ d \in ground[world] /\ d.amount < MaxAmount
  /\ ground' = [ground EXCEPT ![world] = (@ \ {d}) \cup {o}]
  /\ Update(o)
  /\ UNCHANGED <<world, last, lastUid, processed, inventory, astray>>

\* get_dropped_item: the live objects first.
Known(uid) ==
  LET of(objects) == {e \in objects : e.uid = uid}
  IN  IF of(live) # {} THEN of(live) ELSE of(items)

\* find_nearest_dropped_lock, then find_nearest_dropped_item, around a collector
\* who stands where the drop lies.
Nearest(spot) ==
  LET locks == {e \in Mirror : e.item \in Locks}
      pool == IF locks # {} THEN locks ELSE Mirror
      here == {e \in pool : e.spot = spot}
  IN  IF here # {} THEN here ELSE pool

\* Mutant: the number is not looked for.
NearestOnly(d) == Nearest(d.spot)

Candidates(d) == IF Known(d.uid) # {} THEN Known(d.uid) ELSE Nearest(d.spot)

\* record_collected_uid: not among the numbers it holds.
IsNew(uid, kept) == uid \notin {p.uid : p \in kept}

\* remove_dropped_item: from each list one object like the match at its place.
OneGone(objects, m) ==
  LET like == {e \in objects : e.item = m.item /\ e.spot = m.spot}
  IN  IF like = {} THEN {objects} ELSE {objects \ {e} : e \in like}

\* The three removals: by the number of the match, by the number of the packet,
\* by the place of the match.
Removed(d, matched) ==
  LET gone == {d.uid} \cup Uids(matched)
      rest(objects) == {e \in objects : e.uid \notin gone}
  IN  IF matched = {} THEN items' = rest(items) /\ live' = rest(live)
      ELSE \E m \in matched : items' \in OneGone(rest(items), m) /\ live' \in OneGone(rest(live), m)

\* The drops like this one, at its place.
Pile(d) == {o \in ground[world] : o.item = d.item /\ o.spot = d.spot}

\* A net id: its player collected the drop.  The set of numbers is forgotten
\* when more than 15 seconds have passed since it last was.
Collect(d, isLocal, expired) ==
  LET kept == IF expired THEN {} ELSE processed IN
  /\ world \in Worlds /\ d \in ground[world]
  /\ ground' = [ground EXCEPT ![world] = @ \ {d}]
  /\ lastUid' = IF d.uid > lastUid THEN d.uid ELSE lastUid
  /\ \E matched \in IF Candidates(d) = {} THEN {{}} ELSE {{c} : c \in Candidates(d)} :
       /\ Removed(d, matched)
       /\ IF ~isLocal THEN UNCHANGED <<processed, inventory>>
          ELSE /\ processed' = kept \cup {[uid |-> d.uid, world |-> world]}
               /\ inventory' =
                    [i \in Items |->
                       inventory[i] - (IF i = d.item THEN d.amount ELSE 0)
                         + (IF IsNew(d.uid, kept) /\ \E m \in matched : m.item = i
                            THEN (CHOOSE m \in matched : TRUE).amount ELSE 0)]
  /\ astray' = IF astray = "no" /\ Pile(d) # {d} THEN "pile" ELSE astray
  /\ UNCHANGED <<world, last>>

-----------------------------------------------------------------------------
Next ==
  \/ \E w \in Worlds \ {world} : Enter(w) \/ EnterUnparsed(w)
  \/ \E i \in Items, s \in Spots, n \in Amount : Drop(i, s, n)
  \/ world \in Worlds /\ \E d \in ground[world] :
       Grow(d) \/ \E isLocal, expired \in BOOLEAN : Collect(d, isLocal, expired)

Spec == Init /\ [][Next]_vars
-----------------------------------------------------------------------------

\* The picture is the ground, number by number, through any drops, growths and
\* collects, until a map does not parse, an emptied world is entered, or a drop
\* is collected beside another of its kind (utils/world_manager.hpp:647-750).
MirrorIsGround ==
  world \in Worlds /\ astray = "no" => Mirror = ground[world] /\ lastUid = last[world]

\* As long as the picture is the ground, a collect of the user is entered in the
\* mirror of the backpack exactly once and as what was collected; only a number
\* that was also collected in another world within the 15 seconds is passed over
\* (client/client.cpp:655-730).
CreditIsTrue ==
  [][ astray = "no" => \/ UNCHANGED inventory
                 \/ \E d \in ground[world] :
                      /\ \E p \in processed : p.uid = d.uid /\ p.world # world
                      /\ inventory' = [inventory EXCEPT ![d.item] = @ - d.amount] ]_vars
=============================================================================
