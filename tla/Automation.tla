------------------------------ MODULE Automation ------------------------------
(***************************************************************************)
(* The automations that run on a worker thread of their own: /farm and     *)
(* /autofarm, /harvest and /autoharvest (/plant and /autoplant are the     *)
(* same code over other items), /ac, and /dropall and /dropat, which run   *)
(* until everything is dropped.  Each has a flag the user sees and a       *)
(* generation counter; a worker is started for one generation and goes on  *)
(* while the flag is set and its generation is the newest.                 *)
(*                                                                         *)
(* The main thread runs the commands, the dialogs and the stop_all of      *)
(* extension/autofarm; the GUI's thread runs the commands of its own       *)
(* buttons, /ac and /dropall, without asking it.  Every load and store of  *)
(* the two atomics that another thread can come between is a step.         *)
(***************************************************************************)
EXTENDS Naturals

CONSTANTS
  Kinds,         \* the automations looked at, one per behaviour
  MaxGeneration  \* bound: starts and stops of one automation

ASSUME KindsAssumption ==
  /\ Kinds \subseteq {"farm", "harvest", "collect", "drop"}
  /\ MaxGeneration \in Nat

VARIABLES
  kind,        \* which automation this is
  gui,         \* the user works its button in the GUI, which has one
  enabled,     \* s_enabled, of /ac and the drops s_running
  generation,  \* s_generation
  worker,      \* the worker started for each generation
  pc,          \* each commanding thread, within a command or a handler
  place,       \* where the player is: world data arrived, and he is in it
  asked        \* what the last command or handler to finish was for

settings == <<kind, gui>>
vars == <<settings, enabled, generation, worker, pc, place, asked>>

Generations == 1..MaxGeneration
WorkerState == {"unborn", "looping", "acting", "leaving", "clearing", "gone"}
Commanders == {"main", "gui"}
Step == {"idle", "disable", "bump", "enable", "spawn"}

TypeOK ==
  /\ kind \in Kinds
  /\ enabled \in BOOLEAN
  /\ generation \in 0..MaxGeneration
  /\ worker \in [Generations -> WorkerState]
  /\ gui \in BOOLEAN
  /\ pc \in [Commanders -> Step]
  /\ place \in {"none", "world", "menu"}
  /\ asked \in {"on", "off"}

\* /ac and the drop commands know nothing of worlds: they start outside one, and
\* stop_all of extension/autofarm does not stop them.  They have GUI buttons.
AnyPlace == kind \in {"collect", "drop"}

Init ==
  /\ kind \in Kinds
  /\ gui \in BOOLEAN
  /\ gui => AnyPlace
  /\ enabled = FALSE
  /\ generation = 0
  /\ worker = [g \in Generations |-> "unborn"]
  /\ pc = [c \in Commanders |-> "idle"]
  /\ place = "none"
  /\ asked = "off"

-----------------------------------------------------------------------------
(* The threads that give commands                                          *)

\* in_world(): the world's name has been set.  Nothing in the proxy resets it.
InWorld == place # "none"

\* A command under way that has a generation still to take.
Owes(c) ==
  IF pc[c] \in {"bump", "enable", "spawn"} \/ (pc[c] = "disable" /\ kind # "drop")
  THEN 1 ELSE 0

\* The thread is between two commands or events; every one of them takes at most
\* one generation.
Begins(c) ==
  /\ pc[c] = "idle"
  /\ generation + Owes("main") + Owes("gui") < MaxGeneration

At(c, step) == pc' = [pc EXCEPT ![c] = step]

\* stop() resets the flag and then supersedes the worker; the drop commands do
\* it the other way round.
FirstToStop == IF kind = "drop" THEN "bump" ELSE "disable"

StopsBy(c, step) ==
  /\ pc[c] = step
  /\ \/ /\ step = FirstToStop
        /\ At(c, IF step = "bump" THEN "disable" ELSE "bump")
        /\ UNCHANGED asked
     \/ step # FirstToStop /\ At(c, "idle") /\ asked' = "off"

\* The toggle command, of either thread.
Toggle(c) ==
  /\ Begins(c)
  /\ c = "gui" => gui
  /\ At(c, IF enabled THEN FirstToStop
           ELSE IF AnyPlace \/ InWorld THEN "enable" ELSE "idle")
  /\ UNCHANGED <<settings, enabled, generation, worker, place, asked>>

\* The dialog's checkbox, set or not.  Farming leaves a set one to start, which
\* finds the flag set; the others look at the flag first.
Dialog ==
  /\ Begins("main") /\ kind # "drop"
  /\ \E want \in BOOLEAN :
       At("main", IF want
                  THEN IF kind = "farm" /\ ~InWorld THEN "idle"
                       ELSE IF kind # "farm" /\ enabled THEN "idle" ELSE "enable"
                  ELSE IF enabled THEN "disable" ELSE "idle")
  /\ UNCHANGED <<settings, enabled, generation, worker, place, asked>>

\* stop_all of extension/autofarm.
StopAll == At("main", IF AnyPlace THEN "idle" ELSE "disable")

\* The world's data arrives: the targets of an earlier world are stale.
EnterWorld ==
  /\ Begins("main")
  /\ place' = "world"
  /\ StopAll
  /\ UNCHANGED <<settings, enabled, generation, worker, asked>>

\* OnRequestWorldSelectMenu: the player is out of the world.
LeaveWorld ==
  /\ pc["main"] = "idle"
  /\ place = "world"
  /\ place' = "menu"
  /\ UNCHANGED <<settings, enabled, generation, worker, pc, asked>>

\* The Disconnection event.
Disconnected ==
  /\ Begins("main")
  /\ place' = IF InWorld THEN "menu" ELSE "none"
  /\ StopAll
  /\ UNCHANGED <<settings, enabled, generation, worker, asked>>

\* A text overlay says that somebody pulled the player.
Pulled ==
  /\ Begins("main")
  /\ kind = "farm" /\ enabled
  /\ At("main", "disable")
  /\ UNCHANGED <<settings, enabled, generation, worker, place, asked>>

Disable(c) ==
  /\ StopsBy(c, "disable")
  /\ enabled' = FALSE
  /\ UNCHANGED <<settings, generation, worker, place>>

\* Mutant: the handler and the command both bump.
BumpTwice(c) ==
  /\ StopsBy(c, "bump")
  /\ generation' = generation + 2
  /\ UNCHANGED <<settings, enabled, worker, place>>

\* Every worker is superseded.
Bump(c) ==
  /\ StopsBy(c, "bump")
  /\ generation' = generation + 1
  /\ UNCHANGED <<settings, enabled, worker, place>>

\* start(): farming gives up when exchange(true) finds the flag already set.
Enable(c) ==
  /\ pc[c] = "enable"
  /\ enabled' = TRUE
  /\ At(c, IF kind = "farm" /\ enabled THEN "idle" ELSE "spawn")
  /\ UNCHANGED <<settings, generation, worker, place, asked>>

\* Mutant: the worker's thread cannot be started.
SpawnFails(c) ==
  /\ pc[c] = "spawn"
  /\ generation' = generation + 1
  /\ asked' = "on"
  /\ At(c, "idle")
  /\ UNCHANGED <<settings, enabled, worker, place>>

\* ++s_generation and a worker for it.
Spawn(c) ==
  /\ pc[c] = "spawn"
  /\ generation' = generation + 1
  /\ worker' = [worker EXCEPT ![generation + 1] = "looping"]
  /\ asked' = "on"
  /\ At(c, "idle")
  /\ UNCHANGED <<settings, enabled, place>>

-----------------------------------------------------------------------------
(* The workers                                                             *)

\* Mutant: the loop looks at the flag alone.
LoopConditionFlagOnly(g) == enabled

\* The condition of the worker's loop; the drop commands do not look at the flag.
LoopCondition(g) ==
  /\ enabled \/ kind = "drop"
  /\ g = generation
  /\ kind = "farm" => InWorld

\* Nothing is left to drop, or there is no upstream to drop to.
RunsOut == kind = "drop"

Advance(g, from, to) ==
  /\ worker[g] = from
  /\ worker' = [worker EXCEPT ![g] = to]
  /\ UNCHANGED <<settings, generation, pc, place, asked>>

CheckLoop(g) ==
  /\ \/ LoopCondition(g) /\ Advance(g, "looping", "acting")
     \/ (~LoopCondition(g) \/ RunsOut) /\ Advance(g, "looping", "leaving")
  /\ UNCHANGED enabled

\* A place, a punch, a step of a path, a sweep; then the pause.
Act(g) == Advance(g, "acting", "looping") /\ UNCHANGED enabled

\* Mutant: every worker resets the flag on its way out.
LeaveClearing(g) == Advance(g, "leaving", "clearing") /\ UNCHANGED enabled

\* After the loop farming compares generations before it resets the flag,
\* harvesting leaves the flag alone, /ac and the drop commands reset it.
Leave(g) ==
  /\ Advance(g, "leaving",
       IF kind \in {"collect", "drop"} \/ (kind = "farm" /\ g = generation)
       THEN "clearing" ELSE "gone")
  /\ UNCHANGED enabled

Clear(g) == Advance(g, "clearing", "gone") /\ enabled' = FALSE

-----------------------------------------------------------------------------
\* What a command that has begun goes on with.
Goes(c) ==
  \/ Disable(c)
  \/ Bump(c)
  \/ Enable(c)
  \/ Spawn(c)

Main ==
  \/ Dialog
  \/ EnterWorld
  \/ LeaveWorld
  \/ Disconnected
  \/ Pulled

Command(c) == Toggle(c) \/ Goes(c)

Worker(g) ==
  \/ CheckLoop(g)
  \/ Act(g)
  \/ Leave(g)
  \/ Clear(g)

Next ==
  \/ Main
  \/ \E c \in Commanders : Command(c)
  \/ \E g \in Generations : Worker(g)

Spec == Init /\ [][Next]_vars

\* A thread that can take a step does; what the user and the server do next is
\* up to them.
Proceeds(c) == WF_vars(Goes(c))
Runs(g) == WF_vars(Worker(g))

Fairness ==
  /\ \A c \in Commanders : Proceeds(c)
  /\ \A g \in Generations : Runs(g)

FairSpec == Spec /\ Fairness

-----------------------------------------------------------------------------
Quiet == \A c \in Commanders : pc[c] = "idle"

\* The newest generation's worker has not left, or, where the work can run out,
\* is about to reset the flag.
NewestRuns ==
  /\ generation \in Generations
  /\ worker[generation] \in
       {"looping", "acting"} \cup (IF RunsOut THEN {"leaving", "clearing"} ELSE {})

\* Between commands a flag that shows the automation on has a worker behind it,
\* whatever older workers do to the flag on their way out: the newest one, as long
\* as one thread gives the commands.  Where the GUI gives some of them as well a
\* stop and a start may pass each other, and the flag be up with a superseded
\* worker; but then one that will take it down is still there.
EnabledHasWorker ==
  Quiet /\ enabled =>
    IF gui THEN \E g \in Generations : worker[g] \notin {"unborn", "gone"}
           ELSE NewestRuns

\* Starting again at once after a stop sticks for harvesting: no worker of an
\* earlier generation undoes it.
HarvestToggleSticks == kind = "harvest" /\ Quiet => (enabled <=> asked = "on")

\* A superseded worker ends, whatever the flag does meanwhile: a start right
\* after a stop never leaves two workers at work.
SupersededEnds ==
  \A g \in Generations :
    (worker[g] # "unborn" /\ g < generation) ~> worker[g] = "gone"

\* A worker that was started and has not ended can take a step.  The proof of the
\* above takes this as a hypothesis, because the provers know nothing of ENABLED;
\* TLC does.
CanHappen ==
  \A g \in Generations :
    worker[g] \in {"looping", "acting", "leaving", "clearing"} => ENABLED <<Worker(g)>>_vars

=============================================================================
