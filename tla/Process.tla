------------------------------- MODULE Process -------------------------------
(***************************************************************************)
(* The life of the proxy's process and the two files it rewrites in place: *)
(* the machine's hosts file, which points the game's login server at the   *)
(* proxy, and config.json.                                                 *)
(*                                                                         *)
(* main adds the entries, loads the configuration, serves, and takes the   *)
(* entries out again in its catch blocks; the loop itself never ends.  The *)
(* system calls the console handler on a thread of its own, one for each   *)
(* Ctrl+C or closed window, at any time: it removes the entries and ends   *)
(* the process whatever main is doing, once the thread that shows what is  *)
(* played in Discord has ended: it and the catch blocks join that thread,  *)
(* which may be waiting for Discord to answer.  Debugger detection, the    *)
(* task manager or a power cut end the process without that.               *)
(*                                                                         *)
(* The hosts file is a set of lines; a rewrite leaves some of them missing *)
(* until it is complete.  One process runs at a time.  The hosts file can  *)
(* be read, and can be written exactly by an administrator.                *)
(***************************************************************************)
EXTENDS Naturals

CONSTANTS
  Main,       \* the thread of main
  Handlers,   \* the threads of the console handler
  UserLines,  \* lines of the hosts file that are not the proxy's
  Entries     \* gt_entries

ASSUME ProcessAssumption == Main \notin Handlers /\ UserLines \cap Entries = {}

VARIABLES
  hosts,   \* the lines in the hosts file
  config,  \* config.json: absent, cut short, whole, lacking keys of this
           \* version, or with a value of a type it does not take
  discord, \* the thread of DiscordPresence, "off" without g_initialized
  admin,   \* the process was started as administrator
  pc,      \* where each thread is
  call,    \* where each thread is in modify_hosts_file
  before,  \* the lines each thread has read there
  called   \* observer: handlers that were called while the proxy served

vars == <<hosts, config, discord, admin, pc, call, before, called>>

Threads == {Main} \cup Handlers

\* The proxy is past the hosts file and has not thrown.
Serving == pc[Main] \in {"loading", "defaults", "running", "saving"}

TypeOK ==
  /\ hosts \subseteq UserLines \cup Entries
  /\ config \in {"none", "cut", "whole", "old", "wrong"}
  /\ discord \in {"off", "sleeping", "talking", "ended"}
  /\ admin \in BOOLEAN
  /\ pc \in [Threads -> {"off", "begin", "started", "adding", "loading", "defaults", "running",
                         "saving", "catching", "closing", "joining", "removing", "exiting"}]
  /\ \A h \in Handlers : pc[h] \in {"off", "closing", "joining", "removing", "exiting"}
  /\ pc[Main] # "closing"
  /\ call \in [Threads -> {"none", "read", "writing"}]
  /\ \A t \in Threads : call[t] # "none" => pc[t] \in {"adding", "removing"}
  /\ before \in [Threads -> SUBSET (UserLines \cup Entries)]
  /\ called \subseteq {h \in Handlers : pc[h] # "off"}

Init ==
  /\ \E kept \in SUBSET Entries : hosts = UserLines \cup kept
  /\ config \in {"none", "whole", "old", "wrong"}
  /\ discord = "off"
  /\ admin = FALSE
  /\ pc = [t \in Threads |-> "off"]
  /\ call = [t \in Threads |-> "none"]
  /\ before = [t \in Threads |-> {}]
  /\ called = {}

Goes(t, from, to) == pc[t] = from /\ pc' = [pc EXCEPT ![t] = to]

\* Every thread ends with the process; the files stay as they are.
ProcessEnds ==
  /\ pc' = [t \in Threads |-> "off"]
  /\ call' = [t \in Threads |-> "none"]
  /\ before' = [t \in Threads |-> {}]
  /\ called' = {}
  /\ discord' = "off"
  /\ UNCHANGED <<hosts, config, admin>>

-----------------------------------------------------------------------------
(* HostsManager::modify_hosts_file, under its static mutex                 *)

\* global_hosts_manager is set as main comes to add, and keeps its value when
\* the exception destroys the manager it points to.
ManagerSet == pc[Main] \notin {"off", "begin", "started"}
ManagerGone == pc[Main] \in {"catching", "removing", "joining", "exiting"}

\* Mutant: the mutex is a local variable of the call.
MutexPerCall == TRUE

MutexFree == \A t \in Threads : call[t] = "none"

\* Mutant: only the first entry found is erased.
EraseFirst(t, lines) ==
  IF pc[t] = "adding" THEN lines \cup Entries ELSE lines \ {CHOOSE e \in Entries : TRUE}

\* What the thread makes of the lines it has read.
Target(t, lines) == IF pc[t] = "adding" THEN lines \cup Entries ELSE lines \ Entries

\* Mutant: the result of the add is not looked at.
AfterAny(t, ok) ==
  CASE pc[t] = "adding" -> "loading"
    [] t = Main /\ pc[t] = "removing" /\ discord # "off" -> "joining"
    [] OTHER -> "exiting"

\* After the call: main loads the configuration, or returns 1 from a failed add,
\* or from its catch block when that has stopped the presence; a handler, which
\* has done so before, calls ExitProcess.
After(t, ok) ==
  CASE pc[t] = "adding" /\ ok -> "loading"
    [] t = Main /\ pc[t] = "removing" /\ discord # "off" -> "joining"
    [] OTHER -> "exiting"

Return(t, ok) == pc' = [pc EXCEPT ![t] = After(t, ok)]

\* The lines are read; if there is nothing to change the call is over.
Read(t) ==
  /\ pc[t] \in {"adding", "removing"} /\ MutexFree
  /\ IF Target(t, hosts) = hosts
     THEN Return(t, TRUE) /\ UNCHANGED <<call, before>>
     ELSE /\ call' = [call EXCEPT ![t] = "read"]
          /\ before' = [before EXCEPT ![t] = hosts]
          /\ UNCHANGED pc
  /\ UNCHANGED <<hosts, config, discord, admin, called>>

\* The path of a destroyed manager may be gone: the file is not opened.  What
\* else its use may do, a crash, is an action of its own below.
PathLost(t) ==
  /\ pc[t] = "removing" /\ call[t] = "none" /\ MutexFree /\ ManagerGone
  /\ Return(t, FALSE)
  /\ UNCHANGED <<hosts, config, discord, admin, call, before, called>>

\* std::ofstream truncates the file.
Open(t) ==
  /\ call[t] = "read" /\ admin
  /\ hosts' = {}
  /\ call' = [call EXCEPT ![t] = "writing"]
  /\ UNCHANGED <<config, discord, admin, pc, before, called>>

\* Mutant: the mutex is locked by hand, and this return forgets it.
OpenFailsLocked(t) ==
  /\ call[t] = "read" /\ (~admin \/ ManagerGone)
  /\ Return(t, FALSE)
  /\ UNCHANGED <<hosts, config, discord, admin, call, before, called>>

OpenFails(t) ==
  /\ call[t] = "read" /\ (~admin \/ ManagerGone)
  /\ Return(t, FALSE)
  /\ call' = [call EXCEPT ![t] = "none"]
  /\ UNCHANGED <<hosts, config, discord, admin, before, called>>

\* A buffer of lines goes out.
Write(t) ==
  /\ call[t] = "writing"
  /\ \E part \in SUBSET Target(t, before[t]) :
       hosts \subseteq part /\ hosts # part /\ hosts' = part
  /\ UNCHANGED <<config, discord, admin, pc, call, before, called>>

CloseFile(t) ==
  /\ call[t] = "writing"
  /\ hosts' = Target(t, before[t])
  /\ Return(t, TRUE)
  /\ call' = [call EXCEPT ![t] = "none"]
  /\ UNCHANGED <<config, discord, admin, before, called>>

ModifyHosts(t) ==
  Read(t) \/ PathLost(t) \/ Open(t) \/ OpenFails(t) \/ Write(t) \/ CloseFile(t)

-----------------------------------------------------------------------------
(* main                                                                    *)

Start ==
  /\ Goes(Main, "off", "begin")
  /\ admin' \in BOOLEAN
  /\ UNCHANGED <<hosts, config, discord, call, before, called>>

\* DiscordPresence::start: it talks to Discord once itself, then starts the thread.
StartPresence ==
  /\ Goes(Main, "begin", "started")
  /\ discord' = "sleeping"
  /\ UNCHANGED <<hosts, config, admin, call, before, called>>

SetManager ==
  /\ Goes(Main, "started", "adding")
  /\ UNCHANGED <<hosts, config, discord, admin, call, before, called>>

\* Mutant: a file that does not parse is taken for what could be read of it.
LoadAny ==
  /\ \/ config \notin {"none", "old"} /\ Goes(Main, "loading", "running") /\ UNCHANGED config
     \/ config \in {"none", "old"} /\ Goes(Main, "loading", "defaults") /\ config' = "cut"
  /\ UNCHANGED <<hosts, discord, admin, call, before, called>>

\* Config::Config: a whole file is taken, one that does not parse or has a value
\* of another type is an exception, and missing keys are written with defaults.
Load ==
  /\ \/ config = "whole" /\ Goes(Main, "loading", "running") /\ UNCHANGED config
     \/ config \in {"cut", "wrong"} /\ Goes(Main, "loading", "catching") /\ UNCHANGED config
     \/ config \in {"none", "old"} /\ Goes(Main, "loading", "defaults") /\ config' = "cut"
  /\ UNCHANGED <<hosts, discord, admin, call, before, called>>

\* Config::save, on whichever thread sets a value; its mutex lets in one at a
\* time.
Save ==
  /\ Goes(Main, "running", "saving")
  /\ config' = "cut"
  /\ UNCHANGED <<hosts, discord, admin, call, before, called>>

Saved ==
  /\ Goes(Main, "defaults", "running") \/ Goes(Main, "saving", "running")
  /\ config' = "whole"
  /\ UNCHANGED <<hosts, discord, admin, call, before, called>>

\* An exception leaves Core::run, and the try block with its HostsManager.
Throw ==
  /\ Goes(Main, "running", "catching")
  /\ UNCHANGED <<hosts, config, discord, admin, call, before, called>>

Catch ==
  /\ Goes(Main, "catching", "removing")
  /\ UNCHANGED <<hosts, config, discord, admin, call, before, called>>

\* Mutant: the handler returns TRUE and leaves the rest to the system.
Handled(t) ==
  /\ pc[t] = "exiting"
  /\ IF t = Main THEN ProcessEnds
     ELSE /\ pc' = [pc EXCEPT ![t] = "off"] /\ called' = called \ {t}
          /\ UNCHANGED <<hosts, config, discord, admin, call, before>>

\* return 1: from main, or ExitProcess(0) from the handler.
Exit(t) == pc[t] = "exiting" /\ ProcessEnds

-----------------------------------------------------------------------------
(* console_handler, and the end without it                                 *)

ConsoleClosed(h) ==
  /\ pc[Main] # "off" /\ Goes(h, "off", "closing")
  /\ called' = IF Serving THEN called \cup {h} ELSE called
  /\ UNCHANGED <<hosts, config, discord, admin, call, before>>

\* DiscordPresence::stop has returned: the handler looks whether there is a manager,
\* the catch block returns.
AfterStop(t) == IF t # Main /\ ManagerSet THEN "removing" ELSE "exiting"

\* close_growtopia reads a setting, for which it waits for the mutex of the
\* configuration; then the handler calls stop, which returns when g_initialized is
\* not set.
CloseGame(h) ==
  /\ pc[Main] # "saving"
  /\ Goes(h, "closing", IF discord = "off" THEN AfterStop(h) ELSE "joining")
  /\ UNCHANGED <<hosts, config, discord, admin, call, before, called>>

-----------------------------------------------------------------------------
(* DiscordPresence                                                         *)

\* stop has cleared g_callbacks_running.
Stopping == \E t \in Threads : pc[t] = "joining"

\* callbacks_loop, after its sleep: it ends, or in a later round tells Discord what
\* is played.
Turn ==
  /\ discord = "sleeping"
  /\ discord' = IF Stopping THEN "ended" ELSE "talking"
  /\ UNCHANGED <<hosts, config, admin, pc, call, before, called>>

\* Discord answers, or its pipe breaks: ReadFile returns.
Answered ==
  /\ discord = "talking" /\ discord' = "sleeping"
  /\ UNCHANGED <<hosts, config, admin, pc, call, before, called>>

\* join returns and stop comes to its end.  When another thread has been in the same
\* join the std::thread is empty by now: the library lets this one go on, or throws,
\* which nobody catches.
Join(t) ==
  /\ pc[t] = "joining" /\ discord \in {"ended", "off"}
  /\ \/ /\ pc' = [pc EXCEPT ![t] = AfterStop(t)] /\ discord' = "off"
        /\ UNCHANGED <<hosts, config, admin, call, before, called>>
     \/ discord = "off" /\ ProcessEnds

\* TerminateProcess by the anti-debugging monitor or from outside, a crash, a
\* power cut.
Killed == pc[Main] # "off" /\ ProcessEnds

-----------------------------------------------------------------------------
HandlerStep(h) == CloseGame(h) \/ Join(h) \/ ModifyHosts(h) \/ Exit(h)

MainStep ==
  SetManager \/ ModifyHosts(Main) \/ Load \/ Saved \/ Catch \/ Join(Main) \/ Exit(Main)

Next ==
  \/ Start \/ StartPresence \/ MainStep \/ Save \/ Throw \/ Killed
  \/ Turn \/ Answered
  \/ \E h \in Handlers : ConsoleClosed(h) \/ HandlerStep(h)

\* All threads are the system's to run, and a file of finitely many lines comes to
\* its end.  The handler's wait for the mutex of the configuration ends because the
\* loop sleeps between its rounds.  Nothing makes Discord answer: neither Answered nor
\* StartPresence, which waits for an answer too, is fair.
Continues(t) == IF t = Main THEN MainStep ELSE Join(t) \/ ModifyHosts(t) \/ Exit(t)
Runs(t) == WF_vars(Continues(t)) /\ WF_vars(CloseFile(t))
GetsMutex(h) == SF_vars(CloseGame(h))
Wakes == WF_vars(Turn)
Fairness ==
  /\ \A t \in Threads : Runs(t)
  /\ \A h \in Handlers : GetsMutex(h)
  /\ Wakes

Spec == Init /\ [][Next]_vars /\ Fairness
-----------------------------------------------------------------------------

\* Whatever threads rewrite the hosts file and whenever the process ends, a
\* reader finds a file that is either as one whole change left it or as the end
\* of the process cut it; no completed change loses a line of the user or undoes
\* half of another thread's (core/hosts_manager.hpp:22-71).
Writers == {t \in Threads : call[t] = "writing"}
Shown == IF Writers = {} THEN hosts ELSE before[CHOOSE t \in Writers : TRUE]
Outside == INSTANCE Hosts WITH lines <- Shown, alive <- (pc[Main] # "off")
ChangesWhole == Outside!Spec

\* As long as no handler has come to the hosts file, a serving proxy has its
\* entries there: the game's logins come to it (main.cpp:564-608).
LoginsComeHere ==
  (Serving /\ \A h \in Handlers : pc[h] \in {"off", "closing", "joining"}) => Entries \subseteq hosts

\* Closing the console of a serving proxy that was started as administrator and
\* that does not throw meanwhile leaves none of its entries behind, with two
\* handlers at it as well, by the time a handler calls ExitProcess (main.cpp:383-394).
\* It says nothing of a process that ends before: two handlers in the join of
\* DiscordPresence::stop may abort it with the entries in place.
CloseCleansUp ==
  \A h \in called : pc[h] = "exiting" /\ Serving /\ admin => hosts \cap Entries = {}

\* A proxy serves on a whole configuration only, so one that is cut short once
\* keeps every later start from serving (core/config.cpp:45-122).
ServesOnWholeConfig == pc[Main] = "running" => config = "whole"

\* As long as Discord always answers sooner or later, the console, once closed, ends
\* the process: no early return of the rewriting keeps its mutex, and no wait is for a
\* thread that waits (main.cpp:383-394).  The hypothesis is needed: the handler joins
\* a thread that reads from the pipe of Discord without a limit
\* (utils/discord_presence.cpp:85), and waits for ever when nothing comes.
DiscordAnswers == []<>(discord # "talking")
CloseEnds == DiscordAnswers => \A t \in Handlers : pc[t] = "closing" ~> pc[Main] = "off"

\* A save can be completed, a thread that leaves, has read the hosts file or finds its
\* mutex free or the joined thread ended can go on, a handler can take the mutex of the
\* configuration when it is free, and the thread of DiscordPresence can end its sleep.
\* The proof that a close ends takes this as a hypothesis, because the
\* provers know nothing of ENABLED; TLC does.
MayContinue(t) == ENABLED <<Continues(t)>>_vars
MayCloseFile(t) == ENABLED <<CloseFile(t)>>_vars
MayCloseGame(h) == ENABLED <<CloseGame(h)>>_vars
MayTurn == ENABLED <<Turn>>_vars
CanHappen ==
  /\ pc[Main] = "saving" => MayContinue(Main)
  /\ \A t \in Threads :
       /\ pc[t] = "exiting" \/ call[t] = "read" => MayContinue(t)
       /\ pc[t] \in {"adding", "removing"} /\ MutexFree => MayContinue(t)
       /\ pc[t] = "joining" /\ discord \in {"ended", "off"} => MayContinue(t)
       /\ call[t] = "writing" => MayCloseFile(t)
  /\ \A h \in Handlers : pc[h] = "closing" /\ pc[Main] # "saving" => MayCloseGame(h)
  /\ discord = "sleeping" => MayTurn
=============================================================================
