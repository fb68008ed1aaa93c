--------------------------- MODULE AutomationProofs ---------------------------
(***************************************************************************)
(* Proofs about Automation, for every set of kinds and every bound.        *)
(*                                                                         *)
(* A worker may reset the flag long after a newer generation has started,  *)
(* so the flag alone says little.  What is inductive is the other          *)
(* direction.  As long as one thread gives the commands: while the flag is *)
(* set and that thread is not in the middle of replacing the worker, the   *)
(* newest generation's worker is in its loop, and it cannot leave it       *)
(* before the flag is reset; that of a drop command, whose work runs out,  *)
(* is at most about to reset it.  Where two threads give them: whoever set *)
(* the flag last starts a worker, and no worker ends without resetting it. *)
(***************************************************************************)
EXTENDS Automation, TLAPS

\* The commands under way have their generations left.
Bounded == generation + Owes("main") + Owes("gui") <= MaxGeneration

\* Only /ac and the drop commands have buttons.
Buttons ==
  /\ gui => AnyPlace
  /\ ~gui => pc["gui"] = "idle"

\* A drop command is between superseding its worker and resetting the flag.
Superseded == kind = "drop" /\ pc["main"] = "disable"

\* Where the main thread is, and what it has done to the flag by then, if no
\* other gives commands.
MainThread ==
  ~gui =>
    /\ pc["main"] = "bump" /\ kind # "drop" => ~enabled
    /\ pc["main"] = "spawn" /\ kind = "harvest" => enabled
    /\ pc["main"] \in {"idle", "disable", "enable"} /\ ~Superseded /\ enabled
         => NewestRuns

\* Farming starts in a world only, and its loop never finds itself out of one.
FarmInWorld ==
  kind = "farm" /\ (enabled \/ pc["main"] \in {"enable", "spawn"}) => InWorld

\* Harvesting: no worker is about to reset the flag.
HarvestAsked ==
  kind = "harvest" =>
    /\ \A g \in Generations : worker[g] # "clearing"
    /\ Quiet => (enabled <=> asked = "on")

\* The buttons' automations: whatever threads are at them, the flag is up only
\* with somebody about to start a worker or a worker that will reset it.
SomebodyClears ==
  AnyPlace /\ enabled =>
    \/ \E c \in Commanders : pc[c] = "spawn"
    \/ \E g \in Generations : worker[g] \notin {"unborn", "gone"}

IInv ==
  /\ TypeOK
  /\ Bounded
  /\ Buttons
  /\ MainThread
  /\ FarmInWorld
  /\ HarvestAsked
  /\ SomebodyClears

USE KindsAssumption DEF KindsAssumption, Generations, WorkerState, Step

LEMMA InitIInv == Init => IInv
<1>1. Init => TypeOK
  <2>1. Init => enabled \in BOOLEAN /\ gui \in BOOLEAN
    BY Zenon DEF Init
  <2>2. Init => worker \in [Generations -> WorkerState] /\ generation \in 0..MaxGeneration
    BY DEF Init
  <2>3. QED
    BY <2>1, <2>2 DEF Init, TypeOK, Commanders
<1>2. Init => MainThread /\ FarmInWorld /\ HarvestAsked /\ SomebodyClears
  BY DEF Init, MainThread, FarmInWorld, HarvestAsked, SomebodyClears, Quiet, Commanders
<1>3. Init => Bounded /\ Buttons
  BY DEF Init, Bounded, Buttons, Owes, Commanders, AnyPlace
<1>4. QED
  BY <1>1, <1>2, <1>3 DEF IInv

\* A step of the main thread: a dialog or an event.
LEMMA MainIInv == IInv /\ Main => IInv'
<1> SUFFICES ASSUME IInv, Main PROVE IInv'
  OBVIOUS
<1> USE DEF IInv, TypeOK, Bounded, Buttons, MainThread, FarmInWorld, HarvestAsked,
            SomebodyClears, NewestRuns, InWorld, Quiet, Superseded, RunsOut, AnyPlace,
            Owes, At, Commanders, settings
<1>1. CASE Dialog
  BY <1>1 DEF Dialog, Begins
<1>2. CASE EnterWorld
  BY <1>2 DEF EnterWorld, Begins, StopAll
<1>3. CASE LeaveWorld
  BY <1>3 DEF LeaveWorld
<1>4. CASE Disconnected
  BY <1>4 DEF Disconnected, Begins, StopAll
<1>5. CASE Pulled
  BY <1>5 DEF Pulled, Begins
<1>6. QED
  BY <1>1, <1>2, <1>3, <1>4, <1>5 DEF Main

\* A step of a command, of whichever thread.
LEMMA CommandIInv == \A c \in Commanders : IInv /\ Command(c) => IInv'
<1> SUFFICES ASSUME NEW c \in Commanders, IInv, Command(c) PROVE IInv'
  OBVIOUS
<1> USE DEF IInv, TypeOK, Bounded, Buttons, MainThread, FarmInWorld, HarvestAsked,
            SomebodyClears, NewestRuns, InWorld, Quiet, Superseded, RunsOut, AnyPlace,
            Owes, At, Commanders, settings, FirstToStop, StopsBy
<1>1. CASE Toggle(c)
  BY <1>1 DEF Toggle, Begins
<1>2. CASE Disable(c)
  BY <1>2 DEF Disable
<1>3. CASE Bump(c)
  BY <1>3 DEF Bump
<1>4. CASE Enable(c)
  BY <1>4 DEF Enable
<1>5. CASE Spawn(c)
  BY <1>5 DEF Spawn
<1>6. QED
  BY <1>1, <1>2, <1>3, <1>4, <1>5 DEF Command, Goes

\* A step of a worker, of whatever generation.
LEMMA WorkerIInv == \A g \in Generations : IInv /\ Worker(g) => IInv'
<1> SUFFICES ASSUME NEW g \in Generations, IInv, Worker(g) PROVE IInv'
  OBVIOUS
<1> USE DEF IInv, TypeOK, Bounded, Buttons, MainThread, FarmInWorld, HarvestAsked,
            SomebodyClears, NewestRuns, InWorld, Quiet, Superseded, RunsOut, AnyPlace,
            Owes, Advance, settings
<1>1. CASE CheckLoop(g)
  BY <1>1 DEF CheckLoop, LoopCondition
<1>2. CASE Act(g)
  BY <1>2 DEF Act
<1>3. CASE Leave(g)
  BY <1>3 DEF Leave
<1>4. CASE Clear(g)
  BY <1>4 DEF Clear
<1>5. QED
  BY <1>1, <1>2, <1>3, <1>4 DEF Worker

LEMMA NextIInv == IInv /\ [Next]_vars => IInv'
<1>1. IInv /\ Next => IInv'
  BY MainIInv, CommandIInv, WorkerIInv DEF Next
<1>2. IInv /\ UNCHANGED vars => IInv'
  BY DEF vars, settings, IInv, TypeOK, Bounded, Buttons, MainThread, FarmInWorld,
         HarvestAsked, SomebodyClears, NewestRuns, InWorld, Quiet, Superseded, RunsOut,
         AnyPlace, Owes
<1>3. QED
  BY <1>1, <1>2

LEMMA Inductive == Spec => []IInv
BY InitIInv, NextIInv, PTL DEF Spec

\* Every variable keeps its type: no commands, of one thread or two, and no
\* handlers together take more generations than were given commands.
THEOREM TypeCorrect == Spec => []TypeOK
BY Inductive, PTL DEF IInv

\* A flag that shows the automation on has a worker behind it: the newest one
\* where one thread gives the commands, one that will reset the flag where the
\* GUI's thread gives some of them.
THEOREM WorkerBehindFlag == Spec => []EnabledHasWorker
<1>1. IInv => EnabledHasWorker
  BY DEF IInv, Buttons, MainThread, SomebodyClears, EnabledHasWorker, Quiet, Superseded,
         Commanders
<1>2. QED
  BY <1>1, Inductive, PTL

\* Harvesting is on between commands exactly when the last one switched it on.
THEOREM HarvestSticks == Spec => []HarvestToggleSticks
<1>1. IInv => HarvestToggleSticks
  BY DEF IInv, HarvestAsked, HarvestToggleSticks
<1>2. QED
  BY <1>1, Inductive, PTL

-----------------------------------------------------------------------------
(* Liveness.  CanHappen is a hypothesis: a worker's guards together leave   *)
(* out no state of a worker that runs, and TLC finds that invariant.        *)

\* What a superseded worker can be found doing next: its generation never comes
\* back, so its loop ends the next time it looks.
LEMMA SupersededMoves ==
  ASSUME NEW g \in Generations, TypeOK, g < generation, [Next]_vars
  PROVE  /\ g < generation'
         /\ \/ worker'[g] = worker[g]
            \/ worker[g] = "looping" /\ worker'[g] = "leaving"
            \/ worker[g] = "acting" /\ worker'[g] = "looping"
            \/ worker[g] = "leaving" /\ worker'[g] \in {"clearing", "gone"}
            \/ worker[g] = "clearing" /\ worker'[g] = "gone"
<1> USE DEF TypeOK
<1>1. CASE Main
  BY <1>1 DEF Main, Dialog, EnterWorld, LeaveWorld, Disconnected, Pulled
<1>2. CASE \E h \in Generations : Worker(h)
  <2>1. PICK h \in Generations : Worker(h)
    BY <1>2
  <2>2. CASE h = g
    BY <2>1, <2>2 DEF Worker, CheckLoop, Act, Leave, Clear, Advance, LoopCondition
  <2>3. CASE h # g
    BY <2>1, <2>3 DEF Worker, CheckLoop, Act, Leave, Clear, Advance
  <2>4. QED
    BY <2>2, <2>3
<1>3. CASE UNCHANGED vars
  BY <1>3 DEF vars
<1>4. CASE \E c \in Commanders : Command(c)
  BY <1>4 DEF Command, Goes, Toggle, Disable, Bump, Enable, Spawn
<1>5. QED
  BY <1>1, <1>2, <1>3, <1>4 DEF Next

LEMMA SupersededStep ==
  ASSUME NEW g \in Generations, TypeOK, g < generation, <<Worker(g)>>_vars
  PROVE  worker'[g] # worker[g]
BY DEF TypeOK, Worker, CheckLoop, Act, Leave, Clear, Advance

\* Each worker that was superseded ends, however often the automation is switched
\* off and on again meanwhile and whatever the flag shows when it looks.
THEOREM SupersededGone == FairSpec /\ []CanHappen => SupersededEnds
<1> SUFFICES ASSUME NEW g \in Generations
             PROVE  FairSpec /\ []CanHappen =>
                      ((worker[g] # "unborn" /\ g < generation) ~> worker[g] = "gone")
  BY DEF SupersededEnds
<1> DEFINE Old(state) == g < generation /\ worker[g] = state
           Gone == worker[g] = "gone"
<1>1. TypeOK /\ worker[g] # "unborn" /\ g < generation
        => Old("looping") \/ Old("acting") \/ Old("leaving") \/ Old("clearing") \/ Gone
  BY DEF TypeOK
<1>2. /\ TypeOK /\ Old("acting") /\ [Next]_vars => Old("acting")' \/ Old("looping")'
      /\ TypeOK /\ Old("looping") /\ [Next]_vars => Old("looping")' \/ Old("leaving")'
      /\ TypeOK /\ Old("leaving") /\ [Next]_vars
           => Old("leaving")' \/ Old("clearing")' \/ Gone'
      /\ TypeOK /\ Old("clearing") /\ [Next]_vars => Old("clearing")' \/ Gone'
  BY SupersededMoves
<1>3. /\ TypeOK /\ Old("acting") /\ <<Worker(g)>>_vars => ~Old("acting")'
      /\ TypeOK /\ Old("looping") /\ <<Worker(g)>>_vars => ~Old("looping")'
      /\ TypeOK /\ Old("leaving") /\ <<Worker(g)>>_vars => ~Old("leaving")'
      /\ TypeOK /\ Old("clearing") /\ <<Worker(g)>>_vars => ~Old("clearing")'
  BY SupersededStep
<1>4. CanHappen /\ (Old("acting") \/ Old("looping") \/ Old("leaving") \/ Old("clearing"))
        => ENABLED <<Worker(g)>>_vars
  BY Zenon DEF CanHappen
<1>5. Fairness => Runs(g)
  BY DEF Fairness
<1>6. QED
  BY <1>1, <1>2, <1>3, <1>4, <1>5, TypeCorrect, PTL DEF FairSpec, Spec, Runs
=============================================================================
