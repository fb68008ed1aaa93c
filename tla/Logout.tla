-------------------------------- MODULE Logout --------------------------------
(***************************************************************************)
(* /logout: the three steps to the game's main menu, the threads that wait *)
(* between them, and the rejection of the login a game makes when it takes *)
(* the end of its session for a lost connection.                           *)
(*                                                                         *)
(* Threads that only sleep and then act are counted by what they wait for. *)
(* Time is not modelled: a thread wakes up at any moment, and the 30 s in  *)
(* which a login is rejected outlast every thread and every message that a *)
(* /logout has started.                                                    *)
(***************************************************************************)
EXTENDS Naturals

CONSTANTS
  MaxLogout,  \* bound: how often /logout is typed
  MaxLost,    \* bound: connections lost for reasons of their own
  MaxPlay     \* bound: how often the user presses Play Online

ASSUME LogoutAssumption == MaxLogout \in Nat /\ MaxLost \in Nat /\ MaxPlay \in Nat

VARIABLES
  game,      \* the game's screen
  armed,     \* s_logout_until is in the future
  waiting,   \* s_waiting_for_menu
  exiting,   \* quit_to_exit is on its way to the server
  quitting,  \* so is action|quit
  asleep,    \* the sleeping threads, by what they do when they wake up
  done       \* what has been done how often

flags == <<armed, waiting>>
messages == <<exiting, quitting>>
vars == <<game, flags, messages, asleep, done>>

Online == {"world", "select"}
Screen == Online \cup {"main", "login", "refused"}
Purpose == {"timer", "menu", "fallback", "disconnect", "cancel"}
Event == {"logout", "back", "reject", "lost", "play"}

TypeOK ==
  /\ game \in Screen
  /\ armed \in BOOLEAN
  /\ waiting \in BOOLEAN
  /\ exiting \in BOOLEAN
  /\ quitting \in BOOLEAN
  /\ asleep \in [Purpose -> 0..MaxLogout]
  /\ done \in [Event -> Nat]

Init ==
  /\ game = "select"
  /\ armed = FALSE
  /\ waiting = FALSE
  /\ exiting = FALSE
  /\ quitting = FALSE
  /\ asleep = [p \in Purpose |-> 0]
  /\ done = [e \in Event |-> 0]

Happens(e) == done' = [done EXCEPT ![e] = @ + 1]
FallsAsleep(p) == asleep' = [asleep EXCEPT ![p] = @ + 1]
WakesUp(p) == asleep[p] > 0 /\ asleep' = [asleep EXCEPT ![p] = @ - 1]
WakesUpTo(p, q) ==
  asleep[p] > 0 /\ asleep' = [asleep EXCEPT ![p] = @ - 1, ![q] = @ + 1]

-----------------------------------------------------------------------------
(* The game, its user and the real server                                  *)

\* The connection ends: the game takes it for lost and logs in again itself.
LosesConnection ==
  IF game \in Online
  THEN game' = "login"
  ELSE UNCHANGED game

ConnectionLost ==
  /\ done["lost"] < MaxLost
  /\ game \in Online
  /\ LosesConnection
  /\ exiting' = FALSE
  /\ quitting' = FALSE
  /\ Happens("lost")
  /\ UNCHANGED <<flags, asleep>>

EnterWorld ==
  /\ game = "select"
  /\ game' = "world"
  /\ UNCHANGED <<flags, messages, asleep, done>>

\* A user who logs in again takes longer than the 2.5 s timer of a /logout.
PlayOnline ==
  /\ done["play"] < MaxPlay
  /\ game = "main"
  /\ ~waiting
  /\ game' = "login"
  /\ Happens("play")
  /\ UNCHANGED <<flags, messages, asleep>>

\* The real server acts on action|quit, if the session is still there.
ServerQuits ==
  /\ quitting
  /\ quitting' = FALSE
  /\ exiting' = FALSE
  /\ LosesConnection
  /\ UNCHANGED <<flags, asleep, done>>

\* Thirty seconds have passed since the last /logout.
WindowEnds ==
  /\ armed
  /\ \A p \in Purpose : asleep[p] = 0
  /\ ~exiting /\ ~quitting /\ game # "login"
  /\ armed' = FALSE
  /\ UNCHANGED <<game, waiting, messages, asleep, done>>

\* Esc in the Growtopia window: Back in the world select menu, Cancel on the
\* connecting screen.  The window need not be found.
PressBack ==
  \/ UNCHANGED game
  \/ game \in {"select", "login", "refused"} /\ game' = "main"

-----------------------------------------------------------------------------
(* LogoutCommand                                                           *)

\* execute(): step 1.  No menu will come if the game already shows it.
Execute ==
  /\ done["logout"] < MaxLogout
  /\ game \in Online
  /\ armed' = TRUE
  /\ waiting' = TRUE
  /\ exiting' = (game = "world")
  /\ FallsAsleep("timer")
  /\ Happens("logout")
  /\ UNCHANGED <<game, quitting>>

\* Mutant: the flag is looked at, not taken.
MenuOpensUntaken ==
  /\ game = "world"
  /\ game' = "select"
  /\ exiting' = FALSE
  /\ IF waiting THEN FallsAsleep("menu") ELSE UNCHANGED asleep
  /\ UNCHANGED <<armed, waiting, quitting, done>>

\* OnRequestWorldSelectMenu, asked for by quit_to_exit or by the user's own
\* exit, and on_world_select_menu(): step 2.
MenuOpens ==
  /\ game = "world"
  /\ game' = "select"
  /\ exiting' = FALSE
  /\ waiting' = FALSE
  /\ IF waiting THEN FallsAsleep("menu") ELSE UNCHANGED asleep
  /\ UNCHANGED <<armed, quitting, done>>

\* leave_to_main_menu(): step 3.
Leave == PressBack /\ Happens("back")

\* The 2.5 s of kMenuTimeout are over, with or without a menu.
TimerEnds ==
  /\ IF waiting
     THEN WakesUpTo("timer", "fallback") /\ Leave
     ELSE WakesUp("timer") /\ UNCHANGED <<game, done>>
  /\ waiting' = FALSE
  /\ UNCHANGED <<armed, messages>>

MenuDelayEnds ==
  /\ WakesUpTo("menu", "fallback")
  /\ Leave
  /\ UNCHANGED <<flags, messages>>

\* Mutant: nothing is done for a game that Back did not reach.
FallbackIdle ==
  /\ WakesUp("fallback")
  /\ UNCHANGED <<game, flags, messages, done>>

\* The game is still connected 2 s after Back: action|quit goes to the server.
Fallback ==
  /\ WakesUp("fallback")
  /\ quitting' = (quitting \/ game # "main")
  /\ UNCHANGED <<game, flags, exiting, done>>

\* Mutant: the window stays open after a rejection.
RejectKeepingWindow ==
  /\ game' = "refused"
  /\ FallsAsleep("disconnect")
  /\ Happens("reject")
  /\ UNCHANGED armed

\* reject_login_after_logout() takes the window, so that the next login passes.
Reject ==
  /\ game' = "refused"
  /\ armed' = FALSE
  /\ FallsAsleep("disconnect")
  /\ Happens("reject")

\* The login packet of the game.
Login ==
  /\ game = "login"
  /\ IF armed
     THEN Reject
     ELSE game' = "select" /\ UNCHANGED <<armed, asleep, done>>
  /\ UNCHANGED <<waiting, messages>>

\* 300 ms after the rejection: whatever the game is connected to by now ends.
RejectDisconnects ==
  /\ WakesUpTo("disconnect", "cancel")
  /\ LosesConnection
  /\ UNCHANGED <<flags, messages, done>>

\* 700 ms later: Cancel.
RejectCancels ==
  /\ WakesUp("cancel")
  /\ PressBack
  /\ UNCHANGED <<flags, messages, done>>

-----------------------------------------------------------------------------
World == ConnectionLost \/ EnterWorld \/ PlayOnline \/ ServerQuits \/ WindowEnds

Threads ==
  \/ TimerEnds
  \/ MenuDelayEnds
  \/ Fallback
  \/ RejectDisconnects
  \/ RejectCancels

Next == World \/ Threads \/ Execute \/ MenuOpens \/ Login

Spec == Init /\ [][Next]_vars

\* Sleeping threads wake up, the real server acts on a quit, and a game that has
\* connected logs in.
Fairness ==
  /\ WF_vars(TimerEnds)
  /\ WF_vars(MenuDelayEnds)
  /\ WF_vars(Fallback)
  /\ WF_vars(RejectDisconnects)
  /\ WF_vars(RejectCancels)
  /\ WF_vars(ServerQuits)
  /\ WF_vars(Login)

FairSpec == Spec /\ Fairness

-----------------------------------------------------------------------------
\* The menu and the timeout race for one flag, and the timeout of one /logout
\* may take the flag of the next.  Back is still pressed at most once per
\* /logout: pressing it again would leave the screen the game has reached.
BackOncePerLogout == done["back"] <= done["logout"]

\* One login is rejected per /logout, never the one after it.
RejectOncePerLogout == done["reject"] <= done["logout"]

\* Whether or not the key reaches the game, whether or not the server opens the
\* menu: a game that logs out gets off line, be it by the rejection of its own
\* attempt to log in again.
LogoutLeaves == waiting ~> game \in {"main", "refused"}

\* A sleeping thread can wake up, the server can act on a quit and a game that has
\* connected can log in, whatever else is under way.  The proof of the above takes
\* this as a hypothesis, because the provers know nothing of ENABLED; TLC does.
CanHappen ==
  /\ asleep["timer"] > 0 => ENABLED <<TimerEnds>>_vars
  /\ asleep["menu"] > 0 => ENABLED <<MenuDelayEnds>>_vars
  /\ asleep["fallback"] > 0 => ENABLED <<Fallback>>_vars
  /\ quitting => ENABLED <<ServerQuits>>_vars
  /\ game = "login" => ENABLED <<Login>>_vars

===============================================================================
