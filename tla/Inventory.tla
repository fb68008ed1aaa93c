------------------------------ MODULE Inventory ------------------------------
(***************************************************************************)
(* The proxy's copy of the player's locks (utils/inventory_manager) and    *)
(* the commands that drop them: /dw and /dbgl, /dd, /daw, /dbglvis.        *)
(*                                                                         *)
(* A drop command checks the copy and leaves the rest to a thread, which   *)
(* asks the game server for each stack and takes it from the copy itself;  *)
(* the server's own report of the loss is then to be ignored, for which    *)
(* the thread records the stack as pending.  Every call into the manager   *)
(* is under its mutex, and is a step; between two calls of the thread the  *)
(* main thread may handle a packet of the server.                          *)
(*                                                                         *)
(* The server's amounts are the ones it last reported: what is still on    *)
(* its way to the proxy has not happened yet, as far as the proxy can see. *)
(***************************************************************************)
EXTENDS Integers, Sequences

CONSTANTS
  Worth,       \* how many locks one of the next kind is worth (100)
  Stack,       \* how many are dropped at a time (100)
  Initially,   \* the locks the player begins with
  MaxCommand,  \* bound: commands
  MaxEvent     \* bound: changes the commands have no part in

Lock == {"wl", "dl", "bgl"}

ASSUME InventoryAssumption ==
  /\ Worth \in Nat \ {0} /\ Stack \in Nat \ {0}
  /\ Initially \in [Lock -> Nat]
  /\ MaxCommand \in Nat /\ MaxEvent \in Nat

VARIABLES
  held,       \* the server's amounts
  mirror,     \* items_
  pending,    \* pending_drop_lost_
  dropping,   \* s_dropping
  pc,         \* the threads of two commands, and the commands before them
  kind,       \* each thread's command
  breaks,     \* the locks it has left to break
  drops,      \* the locks it has left to drop
  item,       \* the kind of lock it works on
  count,      \* and how many of it
  asked,      \* what the server has been asked for
  uncounted,  \* gone from mirror, or missing in it, since the last inventory
              \* and not pending: locks broken, and collected unseen
  done        \* how often each bounded event happened

manager == <<mirror, pending>>
threads == <<pc, kind, breaks, drops, item, count>>
vars == <<held, manager, dropping, threads, asked, uncounted, done>>

Thread == {1, 2}
Lower == [dl |-> "wl", bgl |-> "dl"]
Breakable == DOMAIN Lower
Command == {"dw", "dbgl", "dd", "daw", "dbglvis"}
Event == {"command", "other"}

Requests == [for : {"drop"}, item : Lock, count : Nat]
              \cup [for : {"break", "rest"}, item : Breakable, count : Nat]

AmountsOK ==
  /\ held \in [Lock -> Nat] /\ mirror \in [Lock -> Nat]
  /\ pending \in [Lock -> Nat] /\ uncounted \in [Lock -> Nat]

ThreadsOK ==
  /\ pc \in [Thread -> {"idle", "checked", "started", "working", "broken", "removed",
                        "confirmed", "taken"}]
  /\ kind \in [Thread -> Command]
  /\ breaks \in [Thread -> [Lock -> Int]] /\ drops \in [Thread -> [Lock -> Int]]
  /\ item \in [Thread -> Lock] /\ count \in [Thread -> Nat]
  /\ \A t \in Thread : pc[t] \in {"broken", "removed"} => item[t] \in Breakable

TypeOK ==
  /\ AmountsOK
  /\ ThreadsOK
  /\ dropping \in BOOLEAN
  /\ asked \in Seq(Requests)
  /\ done \in [Event -> Nat]

None == [l \in Lock |-> 0]

\* Login: the inventory has come.
Init ==
  /\ held = Initially
  /\ mirror = Initially
  /\ pending = None
  /\ dropping = FALSE
  /\ pc = [t \in Thread |-> "idle"]
  /\ kind = [t \in Thread |-> "dd"]
  /\ breaks = [t \in Thread |-> None] /\ drops = [t \in Thread |-> None]
  /\ item = [t \in Thread |-> "wl"] /\ count = [t \in Thread |-> 0]
  /\ asked = <<>>
  /\ uncounted = None
  /\ done = [e \in Event |-> 0]

Happens(e, max) == done[e] < max /\ done' = [done EXCEPT ![e] = @ + 1]

-----------------------------------------------------------------------------
(* utils/inventory_manager                                                 *)

Lesser(m, n) == IF m < n THEN m ELSE n
Less(n, m) == n - Lesser(n, m)

\* Mutant: a count above the amount is not looked for.
RemoveUncapped(l, n) == mirror' = [mirror EXCEPT ![l] = @ - n]

\* remove_item, add_item
RemoveItem(l, n) == mirror' = [mirror EXCEPT ![l] = Less(@, n)]
AddItem(l, n) == mirror' = [mirror EXCEPT ![l] = @ + n]

\* record_pending_drop
RecordPendingDrop(l, n) == pending' = [pending EXCEPT ![l] = @ + n]

\* Mutant: what is pending is forgotten, and deducted all the same.
LostTwice(l, n) ==
  /\ pending' = [pending EXCEPT ![l] = Less(@, n)]
  /\ mirror' = [mirror EXCEPT ![l] = Less(@, n)]

\* apply_modify_inventory: a loss is first taken from what is pending.
ModifyLost(l, n) ==
  /\ pending' = [pending EXCEPT ![l] = Less(@, n)]
  /\ mirror' = [mirror EXCEPT ![l] = Less(@, Less(n, pending[l]))]

ModifyGained(l, n) == AddItem(l, n) /\ UNCHANGED pending

\* parse_inventory: what is pending stays.
ParseInventory == mirror' = held /\ UNCHANGED pending

-----------------------------------------------------------------------------
(* The commands, on the main thread, the GUI's or that of /w1              *)

Sum(amounts) == amounts["wl"] + Worth * amounts["dl"] + Worth * Worth * amounts["bgl"]

\* What /dd makes of an amount: whole locks of each kind, or, below one, as many
\* diamond locks, or world locks if there are not enough of those.
Amounts(n) ==
  [wl |-> n % Worth, dl |-> (n \div Worth) % Worth, bgl |-> n \div (Worth * Worth)]
FewLocks(n) ==
  IF mirror["dl"] < n /\ mirror["wl"] >= n THEN [None EXCEPT !["wl"] = n]
  ELSE [None EXCEPT !["dl"] = n]

\* What a command may be asked to drop, and has found in the inventory.
Checked ==
  [dw      |-> {[None EXCEPT !["wl"] = n] : n \in 1..mirror["wl"]},
   dbgl    |-> {[None EXCEPT !["bgl"] = n] : n \in 1..mirror["bgl"]},
   dd      |-> {a \in {Amounts(n) : n \in 1..Sum(mirror)}
                        \cup {FewLocks(n) : n \in 1..(Worth - 1)}
                  : Sum(a) <= Sum(mirror)},
   daw     |-> {mirror} \ {None},
   dbglvis |-> {None}]

\* The checks.  /dbglvis does not look whether a drop is in progress.  (The
\* command takes the first free place among the threads.)
Check(t) ==
  /\ pc[t] = "idle" /\ (t = 2 => pc[1] # "idle")
  /\ Happens("command", MaxCommand)
  /\ \E c \in Command :
       /\ c = "dbglvis" \/ ~dropping
       /\ kind' = [kind EXCEPT ![t] = c]
       /\ \E a \in Checked[c] : drops' = [drops EXCEPT ![t] = a]
  /\ pc' = [pc EXCEPT ![t] = "checked"]
  /\ breaks' = [breaks EXCEPT ![t] = None]
  /\ UNCHANGED <<held, manager, dropping, item, count, asked, uncounted>>

Goes(t, from, to) == pc[t] = from /\ pc' = [pc EXCEPT ![t] = to]

\* s_dropping = true, and the thread.
Start(t) ==
  /\ Goes(t, "checked", "started")
  /\ dropping' = TRUE
  /\ UNCHANGED <<held, manager, kind, breaks, drops, item, count, asked, uncounted, done>>

-----------------------------------------------------------------------------
(* The thread                                                              *)

LocksFor(n) == (n + Worth - 1) \div Worth

\* How /dd gets at the amounts it wants: a shortage of blue gem locks is made up
\* for with diamond locks, one of those by breaking a spare blue gem lock or
\* else with world locks, and one of these by breaking spare diamond locks.
Plan(want) ==
  LET bgl      == Lesser(want["bgl"], mirror["bgl"])
      dl       == want["dl"] + (want["bgl"] - bgl) * Worth
      lackDl   == dl - mirror["dl"]
      breakBgl == IF lackDl > 0 /\ mirror["bgl"] - bgl >= LocksFor(lackDl)
                  THEN LocksFor(lackDl) ELSE 0
      useWl    == lackDl > 0 /\ breakBgl = 0
                    /\ mirror["wl"] >= want["wl"] + lackDl * Worth
      dropDl   == IF useWl THEN mirror["dl"] ELSE dl
      wl       == IF useWl THEN want["wl"] + lackDl * Worth ELSE want["wl"]
      lackWl   == wl - mirror["wl"]
      spareDl  == mirror["dl"] + breakBgl * Worth - dropDl
      breakDl  == IF lackWl > 0 /\ spareDl >= LocksFor(lackWl)
                  THEN LocksFor(lackWl) ELSE 0
  IN [breaks |-> [wl |-> 0, dl |-> breakDl, bgl |-> breakBgl],
      drops |-> [wl |-> wl, dl |-> dropDl, bgl |-> bgl]]

\* What only the thread knew is gone with it.
Leaves(t) ==
  /\ breaks' = [breaks EXCEPT ![t] = None]
  /\ drops' = [drops EXCEPT ![t] = None]
  /\ item' = [item EXCEPT ![t] = "wl"]
  /\ count' = [count EXCEPT ![t] = 0]
  /\ kind' = [kind EXCEPT ![t] = "dd"]

\* Mutant: a thread that finds no connection just returns.
ReturnsAtOnce(t) == Goes(t, "started", "idle") /\ Leaves(t) /\ UNCHANGED dropping

\* Its first steps: without a connection it ends.  (/dbglvis does not look.)
ReturnsUnconnected(t) ==
  /\ kind[t] # "dbglvis"
  /\ Goes(t, "started", "idle")
  /\ Leaves(t)
  /\ dropping' = FALSE

Begin(t) ==
  /\ \/ ReturnsUnconnected(t)
     \/ /\ Goes(t, "started", "working")
        /\ IF kind[t] = "dd"
           THEN /\ breaks' = [breaks EXCEPT ![t] = Plan(drops[t]).breaks]
                /\ drops' = [drops EXCEPT ![t] = Plan(drops[t]).drops]
           ELSE UNCHANGED <<breaks, drops>>
        /\ UNCHANGED <<dropping, kind, item, count>>
  /\ UNCHANGED <<held, manager, asked, uncounted, done>>

Asks(for, l, n) == asked' = Append(asked, [for |-> for, item |-> l, count |-> n])

\* The order of its work: breaking before dropping, blue gem locks first.
BreakNext(t, l) ==
  /\ breaks[t][l] > 0
  /\ l = "dl" => breaks[t]["bgl"] <= 0
DropNext(t, l) ==
  /\ \A b \in Breakable : breaks[t][b] <= 0
  /\ drops[t][l] > 0
  /\ l # "bgl" => drops[t]["bgl"] <= 0
  /\ l = "wl" => drops[t]["dl"] <= 0

\* send_activate_packet, remove_item and add_item
Break(t) ==
  /\ Goes(t, "working", "broken")
  /\ \E l \in Breakable :
       /\ BreakNext(t, l)
       /\ Asks("break", l, 1)
       /\ item' = [item EXCEPT ![t] = l]
       /\ breaks' = [breaks EXCEPT ![t][l] = @ - 1]
  /\ UNCHANGED <<held, manager, dropping, kind, drops, count, uncounted, done>>

BreakRemoves(t) ==
  /\ Goes(t, "broken", "removed")
  /\ RemoveItem(item[t], 1)
  /\ uncounted' = [uncounted EXCEPT ![item[t]] = @ + 1]
  /\ UNCHANGED <<held, pending, dropping, kind, breaks, drops, item, count, asked, done>>

BreakAdds(t) ==
  /\ Goes(t, "removed", "working")
  /\ AddItem(Lower[item[t]], Worth)
  /\ UNCHANGED <<held, pending, dropping, kind, breaks, drops, item, count, asked,
                 uncounted, done>>

\* The dialog_return that drops a stack, remove_item and record_pending_drop
Drop(t) ==
  /\ Goes(t, "working", "confirmed")
  /\ \E l \in Lock :
       /\ DropNext(t, l)
       /\ Asks("drop", l, Lesser(drops[t][l], Stack))
       /\ item' = [item EXCEPT ![t] = l]
       /\ count' = [count EXCEPT ![t] = Lesser(drops[t][l], Stack)]
       /\ drops' = [drops EXCEPT ![t][l] = @ - Stack]
  /\ UNCHANGED <<held, manager, dropping, kind, breaks, uncounted, done>>

DropRemoves(t) ==
  /\ Goes(t, "confirmed", "taken")
  /\ RemoveItem(item[t], count[t])
  /\ UNCHANGED <<held, pending, dropping, kind, breaks, drops, item, count, asked,
                 uncounted, done>>

DropRecords(t) ==
  /\ Goes(t, "taken", "working")
  /\ RecordPendingDrop(item[t], count[t])
  /\ UNCHANGED <<held, mirror, dropping, kind, breaks, drops, item, count, asked,
                 uncounted, done>>

\* /daw stops when the connection is gone.
Stops(t) ==
  \/ \A l \in Lock : breaks[t][l] <= 0 /\ drops[t][l] <= 0
  \/ kind[t] = "daw"

End(t) ==
  /\ Goes(t, "working", "idle")
  /\ Stops(t)
  /\ Leaves(t)
  /\ dropping' = FALSE
  /\ UNCHANGED <<held, manager, asked, uncounted, done>>

-----------------------------------------------------------------------------
(* The game server, and the packets with which it reports what it did      *)

Loses(l, n) == held[l] >= n /\ held' = [held EXCEPT ![l] = @ - n] /\ ModifyLost(l, n)
Gains(l, n) == held' = [held EXCEPT ![l] = @ + n] /\ ModifyGained(l, n)

First == Head(asked)
Taken == asked # <<>> /\ asked' = Tail(asked)

ServeDrop ==
  /\ Taken
  /\ First.for = "drop"
  /\ Loses(First.item, First.count)
  /\ UNCHANGED <<dropping, threads, uncounted, done>>

\* A lock is broken: it is lost, and the smaller ones gained.
ServeBreak ==
  /\ asked # <<>>
  /\ First.for = "break"
  /\ Loses(First.item, 1)
  /\ asked' = <<[for |-> "rest", item |-> First.item, count |-> 1]>> \o Tail(asked)
  /\ UNCHANGED <<dropping, threads, uncounted, done>>

ServeRest ==
  /\ Taken
  /\ First.for = "rest"
  /\ Gains(Lower[First.item], Worth)
  /\ UNCHANGED <<dropping, threads, uncounted, done>>

\* There is no room, no permission or not that much.
Refuse ==
  /\ Taken
  /\ First.for # "rest"
  /\ UNCHANGED <<held, manager, dropping, threads, uncounted, done>>

\* The player trades, places, buys or sells.
OtherChange ==
  /\ Happens("other", MaxEvent)
  /\ \E l \in Lock : Loses(l, 1) \/ Gains(l, 1)
  /\ UNCHANGED <<dropping, threads, asked, uncounted>>

\* He collects a lock.  The report names only the object: the proxy looks it up
\* among those it has seen dropped, or else takes the nearest one, and counts
\* nothing when it finds none or has seen the object's number before.
Collect ==
  /\ Happens("other", MaxEvent)
  /\ \E l \in Lock :
       /\ held' = [held EXCEPT ![l] = @ + 1]
       /\ \/ AddItem(l, 1) /\ UNCHANGED uncounted
          \/ /\ uncounted' = [uncounted EXCEPT ![l] = @ + 1]
             /\ UNCHANGED mirror \/ \E other \in Lock \ {l} : AddItem(other, 1)
  /\ UNCHANGED <<pending, dropping, threads, asked>>

\* The inventory is sent again, as it is in another world.
InventoryState ==
  /\ Happens("other", MaxEvent)
  /\ ParseInventory
  /\ uncounted' = None
  /\ UNCHANGED <<held, dropping, threads, asked>>

-----------------------------------------------------------------------------
ThreadStep(t) ==
  \/ Start(t)
  \/ Begin(t)
  \/ Break(t) \/ BreakRemoves(t) \/ BreakAdds(t)
  \/ Drop(t) \/ DropRemoves(t) \/ DropRecords(t)
  \/ End(t)

Server ==
  \/ ServeDrop \/ ServeBreak \/ ServeRest \/ Refuse
  \/ OtherChange \/ Collect \/ InventoryState

Next == (\E t \in Thread : Check(t) \/ ThreadStep(t)) \/ Server

Spec == Init /\ [][Next]_vars

\* A thread that can go on does.
Runs(t) == WF_vars(ThreadStep(t))
Fairness == \A t \in Thread : Runs(t)

FairSpec == Spec /\ Fairness

-----------------------------------------------------------------------------
(* Properties                                                              *)

\* What a thread has taken from the mirror and not yet recorded.
Unrecorded(t, l) == IF pc[t] = "taken" /\ item[t] = l THEN count[t] ELSE 0

\* The mirror never lacks more of a kind of lock than the drops recorded as
\* pending, being recorded, or refused while they were, and what the commands
\* broke and the player collected unseen since the last inventory: however the
\* reports fall between a thread's two calls, whatever is refused, capped at
\* nothing or sent again, no loss is deducted twice and stays so.
NothingForgotten ==
  \A l \in Lock :
    mirror[l] + pending[l] + Unrecorded(1, l) + Unrecorded(2, l) + uncounted[l] >= held[l]

\* A drop in progress comes to an end, so that the next one is not refused for
\* ever, even where two overlap.
DroppingEnds == dropping ~> ~dropping

\* With nothing under way and nothing reported that the commands have no part
\* in, a drop that passes the check of the balance is covered by the locks the
\* player has.
AtRest == asked = <<>> /\ \A t \in Thread : pc[t] = "idle"
BalanceVerified ==
  [][\A t \in Thread : AtRest /\ pc'[t] = "checked" => Sum(drops'[t]) <= Sum(held)]_vars

\* A thread that drops always has a step to take.  The proof that a drop ends takes
\* this as a hypothesis, because the provers know nothing of ENABLED; TLC does.
CanHappen ==
  \A t \in Thread : pc[t] \notin {"idle", "checked"} => ENABLED <<ThreadStep(t)>>_vars
=============================================================================
