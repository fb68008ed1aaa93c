------------------------------ MODULE LoginProofs ------------------------------
(***************************************************************************)
(* Proofs about the two ways in which the proxy has a hand in how the game *)
(* logs in: Logout, for every number of /logouts, lost connections and     *)
(* logins by hand, and Redirect, for every number of directives.           *)
(*                                                                         *)
(* Logout's theorems are budgets.  A /logout grants one press of Back and  *)
(* one rejection; s_waiting_for_menu and s_logout_until each hold a grant  *)
(* that is not used yet, and the sleeping menu thread one it has taken.    *)
(***************************************************************************)
EXTENDS Logout, Redirect, TLAPS

Grant(flag) == IF flag THEN 1 ELSE 0

Flags ==
  /\ game \in Screen
  /\ armed \in BOOLEAN /\ waiting \in BOOLEAN
  /\ exiting \in BOOLEAN /\ quitting \in BOOLEAN

\* The counters, without the bound on the sleeping threads.
Counters ==
  /\ asleep \in [Purpose -> Nat]
  /\ done \in [Event -> Nat]

BackBudget == done["back"] + asleep["menu"] + Grant(waiting) <= done["logout"]

RejectBudget == done["reject"] + Grant(armed) <= done["logout"]

\* A sleeping thread was started by what has happened before it.
Sleepers ==
  /\ done["logout"] <= MaxLogout
  /\ asleep["timer"] <= done["logout"]
  /\ asleep["fallback"] <= done["back"]
  /\ asleep["disconnect"] + asleep["cancel"] <= done["reject"]

IInv == Counters /\ BackBudget /\ RejectBudget /\ Sleepers

USE LogoutAssumption DEF LogoutAssumption, Purpose, Event

LEMMA InitIInv == Init => IInv
BY DEF Init, IInv, Counters, BackBudget, RejectBudget, Sleepers, Grant

LEMMA WorldIInv == IInv /\ World => IInv'
<1> SUFFICES ASSUME IInv, World PROVE IInv'
  OBVIOUS
<1> USE DEF IInv, Counters, BackBudget, RejectBudget, Sleepers, Grant, flags, Happens
<1>1. CASE ConnectionLost
  BY <1>1 DEF ConnectionLost
<1>2. CASE EnterWorld
  BY <1>2 DEF EnterWorld
<1>3. CASE PlayOnline
  BY <1>3 DEF PlayOnline
<1>4. CASE ServerQuits
  BY <1>4 DEF ServerQuits
<1>5. CASE WindowEnds
  BY <1>5 DEF WindowEnds
<1>6. QED
  BY <1>1, <1>2, <1>3, <1>4, <1>5 DEF World

LEMMA ThreadsIInv == IInv /\ Threads => IInv'
<1> SUFFICES ASSUME IInv, Threads PROVE IInv'
  OBVIOUS
<1> USE DEF IInv, Counters, BackBudget, RejectBudget, Sleepers, Grant, flags, Happens,
            WakesUp, WakesUpTo, Leave
<1>1. CASE TimerEnds
  <2>1. CASE waiting
    BY <1>1, <2>1 DEF TimerEnds
  <2>2. CASE ~waiting
    BY <1>1, <2>2 DEF TimerEnds
  <2>3. QED
    BY <2>1, <2>2
<1>2. CASE MenuDelayEnds
  BY <1>2 DEF MenuDelayEnds
<1>3. CASE Fallback
  BY <1>3 DEF Fallback
<1>4. CASE RejectDisconnects
  BY <1>4 DEF RejectDisconnects
<1>5. CASE RejectCancels
  BY <1>5 DEF RejectCancels
<1>6. QED
  BY <1>1, <1>2, <1>3, <1>4, <1>5 DEF Threads

\* The command itself, and the two packets the proxy hears of.
LEMMA HandlersIInv == IInv /\ (Execute \/ MenuOpens \/ Login) => IInv'
<1> SUFFICES ASSUME IInv, Execute \/ MenuOpens \/ Login PROVE IInv'
  OBVIOUS
<1> USE DEF IInv, Counters, BackBudget, RejectBudget, Sleepers, Grant, Happens, FallsAsleep
<1>1. CASE Execute
  BY <1>1 DEF Execute
<1>2. CASE MenuOpens
  BY <1>2 DEF MenuOpens
<1>3. CASE Login
  <2>1. CASE armed
    BY <1>3, <2>1 DEF Login, Reject
  <2>2. CASE ~armed
    BY <1>3, <2>2 DEF Login
  <2>3. QED
    BY <2>1, <2>2
<1>4. QED
  BY <1>1, <1>2, <1>3

LEMMA NextIInv == IInv /\ [Next]_vars => IInv'
<1>1. IInv /\ Next => IInv'
  BY WorldIInv, ThreadsIInv, HandlersIInv DEF Next
<1>2. IInv /\ UNCHANGED vars => IInv'
  BY DEF vars, flags, IInv, Counters, BackBudget, RejectBudget, Sleepers
<1>3. QED
  BY <1>1, <1>2

LEMMA Inductive == Spec => []IInv
BY InitIInv, NextIInv, PTL DEF Spec

LEMMA NextFlags == Flags /\ [Next]_vars => Flags'
<1> SUFFICES ASSUME Flags, [Next]_vars PROVE Flags'
  OBVIOUS
<1> USE DEF Flags, flags, messages, Screen, Online, PressBack, LosesConnection, Leave
<1>1. CASE World
  BY <1>1 DEF World, ConnectionLost, EnterWorld, PlayOnline, ServerQuits, WindowEnds
<1>2. CASE Threads
  BY <1>2 DEF Threads, TimerEnds, MenuDelayEnds, Fallback, RejectDisconnects, RejectCancels
<1>3. CASE Execute
  BY <1>3 DEF Execute
<1>4. CASE MenuOpens
  BY <1>4 DEF MenuOpens
<1>5. CASE Login
  BY <1>5 DEF Login, Reject
<1>6. CASE UNCHANGED vars
  BY <1>6 DEF vars
<1>7. QED
  BY <1>1, <1>2, <1>3, <1>4, <1>5, <1>6 DEF Next

\* Every variable keeps its type; of no kind do more threads sleep than there
\* were /logouts, although one /logout starts up to three of them.
THEOREM TypeCorrect == Spec => []TypeOK
<1>1. Init => Flags
  BY DEF Init, Flags, Screen, Online
<1>2. Spec => []Flags
  BY <1>1, NextFlags, PTL DEF Spec
<1>3. Flags /\ IInv => TypeOK
  <2> SUFFICES ASSUME Flags, IInv PROVE TypeOK
    OBVIOUS
  <2>1. \A p \in Purpose : asleep[p] \in 0..MaxLogout
    BY DEF IInv, Counters, BackBudget, RejectBudget, Sleepers, Grant
  <2>2. asleep \in [Purpose -> 0..MaxLogout]
    BY <2>1 DEF IInv, Counters
  <2>3. QED
    BY <2>2 DEF Flags, IInv, Counters, TypeOK
<1>4. QED
  BY <1>2, <1>3, Inductive, PTL

\* However the menu, the timeouts and further /logouts interleave, Back is
\* pressed at most once per /logout: leave_to_main_menu never runs twice for one.
THEOREM BackOnce == Spec => []BackOncePerLogout
<1>1. IInv => BackOncePerLogout
  BY DEF IInv, Counters, BackBudget, Grant, BackOncePerLogout
<1>2. QED
  BY <1>1, Inductive, PTL

\* One login is rejected per /logout, never the one after it.
THEOREM RejectOnce == Spec => []RejectOncePerLogout
<1>1. IInv => RejectOncePerLogout
  BY DEF IInv, Counters, RejectBudget, Sleepers, Grant, RejectOncePerLogout
<1>2. QED
  BY <1>1, Inductive, PTL

-----------------------------------------------------------------------------
(* Liveness of /logout.  CanHappen is a hypothesis: it says of each fair    *)
(* step what its guard is, and TLC finds it invariant.                      *)

Away == game \in {"main", "refused"}

\* While a /logout waits for the menu its timer sleeps, and the window in which a
\* login is rejected is open, unless a rejection has just closed it.
WaitsArmed == waiting => asleep["timer"] > 0 /\ (armed \/ Away)

\* The stages of a /logout, each with the window open.
Waits     == armed /\ waiting
HasMenu   == armed /\ asleep["menu"] > 0
FallsBack == armed /\ asleep["fallback"] > 0
Quits     == armed /\ quitting
LogsIn    == armed /\ game = "login"

Stages == Waits \/ HasMenu \/ FallsBack \/ Quits \/ LogsIn

\* Nothing but a rejection closes the window while a stage lasts.
LEMMA WindowStays ==
  ASSUME IInv, Flags, WaitsArmed, Stages, [Next]_vars
  PROVE  armed' \/ Away'
<1> USE DEF IInv, Counters, Flags, WaitsArmed, Stages, Waits, HasMenu, FallsBack, Quits,
            LogsIn, Away, flags, messages
<1>1. CASE World
  BY <1>1 DEF World, ConnectionLost, EnterWorld, PlayOnline, ServerQuits, WindowEnds
<1>2. CASE Threads
  BY <1>2 DEF Threads, TimerEnds, MenuDelayEnds, Fallback, RejectDisconnects, RejectCancels
<1>3. CASE Execute \/ MenuOpens
  BY <1>3 DEF Execute, MenuOpens
<1>4. CASE Login
  BY <1>4 DEF Login, Reject
<1>5. CASE UNCHANGED vars
  BY <1>5 DEF vars
<1>6. QED
  BY <1>1, <1>2, <1>3, <1>4, <1>5 DEF Next

LEMMA NextWaitsArmed == IInv /\ Flags /\ WaitsArmed /\ [Next]_vars => WaitsArmed'
<1> SUFFICES ASSUME IInv, Flags, WaitsArmed, [Next]_vars PROVE WaitsArmed'
  OBVIOUS
<1> USE DEF IInv, Counters, Flags, WaitsArmed, Away, flags, messages, Online, PressBack,
            LosesConnection, FallsAsleep, WakesUp, WakesUpTo, Leave
<1>1. CASE World
  <2>1. CASE ConnectionLost
    BY <2>1 DEF ConnectionLost
  <2>2. CASE EnterWorld \/ PlayOnline
    BY <2>2 DEF EnterWorld, PlayOnline
  <2>3. CASE ServerQuits
    BY <2>3 DEF ServerQuits
  <2>4. CASE WindowEnds
    <3>1. asleep["timer"] = 0
      BY <2>4 DEF WindowEnds
    <3>2. QED
      BY <2>4, <3>1 DEF WindowEnds
  <2>5. QED
    BY <1>1, <2>1, <2>2, <2>3, <2>4 DEF World
<1>2. CASE Threads
  BY <1>2 DEF Threads, TimerEnds, MenuDelayEnds, Fallback, RejectDisconnects, RejectCancels
<1>3. CASE Execute \/ MenuOpens
  BY <1>3 DEF Execute, MenuOpens
<1>4. CASE Login
  BY <1>4 DEF Login, Reject
<1>5. CASE UNCHANGED vars
  BY <1>5 DEF vars
<1>6. QED
  BY <1>1, <1>2, <1>3, <1>4, <1>5 DEF Next

\* Each stage lasts until the next one begins, or the game is off line.
LEMMA StagesFollow ==
  ASSUME IInv, Flags, WaitsArmed, [Next]_vars
  PROVE  /\ Waits => (Waits \/ HasMenu \/ FallsBack \/ Away)'
         /\ HasMenu => (HasMenu \/ FallsBack \/ Away)'
         /\ FallsBack => (FallsBack \/ Quits \/ Away)'
         /\ Quits => (Quits \/ LogsIn \/ Away)'
         /\ LogsIn => (LogsIn \/ Away)'
<1> USE WindowStays
    DEF IInv, Counters, Flags, WaitsArmed, Stages, Waits, HasMenu, FallsBack, Quits, LogsIn,
        Away, flags, messages, Screen, Online, PressBack, LosesConnection, FallsAsleep,
        WakesUp, WakesUpTo, Leave
<1>1. CASE World
  BY <1>1 DEF World, ConnectionLost, EnterWorld, PlayOnline, ServerQuits, WindowEnds
<1>2. CASE Threads
  BY <1>2 DEF Threads, TimerEnds, MenuDelayEnds, Fallback, RejectDisconnects, RejectCancels
<1>3. CASE Execute \/ MenuOpens
  BY <1>3 DEF Execute, MenuOpens
<1>4. CASE Login
  BY <1>4 DEF Login, Reject
<1>5. CASE UNCHANGED vars
  BY <1>5 DEF vars
<1>6. QED
  BY <1>1, <1>2, <1>3, <1>4, <1>5 DEF Next

\* And the thread, the server or the game that it waits for ends it.
LEMMA StagesEnd ==
  ASSUME IInv, Flags, WaitsArmed
  PROVE  /\ Waits /\ <<TimerEnds>>_vars => (FallsBack \/ Away)'
         /\ HasMenu /\ <<MenuDelayEnds>>_vars => (FallsBack \/ Away)'
         /\ FallsBack /\ <<Fallback>>_vars => (Quits \/ Away)'
         /\ Quits /\ <<ServerQuits>>_vars => (LogsIn \/ Away)'
         /\ LogsIn /\ <<Login>>_vars => Away'
BY DEF IInv, Counters, Flags, WaitsArmed, Waits, HasMenu, FallsBack, Quits, LogsIn, Away,
       flags, messages, Screen, Online, PressBack, LosesConnection, WakesUp, WakesUpTo, Leave,
       TimerEnds, MenuDelayEnds, Fallback, ServerQuits, Login, Reject

\* Every /logout gets the game off line, for any number of them, of lost connections
\* and of logins by hand, whether or not Back reaches the window and the menu opens.
THEOREM LogoutArrives == FairSpec /\ []CanHappen => LogoutLeaves
<1>1. Spec => []Flags
  <2>1. Init => Flags
    BY DEF Init, Flags, Screen, Online
  <2>2. QED
    BY <2>1, NextFlags, PTL DEF Spec
<1>2. Spec => []WaitsArmed
  <2>1. Init => WaitsArmed
    BY DEF Init, WaitsArmed
  <2>2. QED
    BY <1>1, <2>1, Inductive, NextWaitsArmed, PTL DEF Spec
<1>3. /\ WaitsArmed /\ waiting => Waits \/ Away
      /\ WaitsArmed /\ CanHappen /\ Waits => ENABLED <<TimerEnds>>_vars
      /\ CanHappen /\ HasMenu => ENABLED <<MenuDelayEnds>>_vars
      /\ CanHappen /\ FallsBack => ENABLED <<Fallback>>_vars
      /\ CanHappen /\ Quits => ENABLED <<ServerQuits>>_vars
      /\ CanHappen /\ LogsIn => ENABLED <<Login>>_vars
  BY Zenon DEF WaitsArmed, CanHappen, Waits, HasMenu, FallsBack, Quits, LogsIn
<1>4. (game \in {"main", "refused"}) <=> Away
  BY DEF Away
<1>5. QED
  BY <1>1, <1>2, <1>3, <1>4, Inductive, StagesFollow, StagesEnd, PTL
     DEF FairSpec, Spec, Fairness, LogoutLeaves

-----------------------------------------------------------------------------
(* Redirect.  Its invariant Target says, of each moment, whose directive   *)
(* is stored.                                                              *)

USE RedirectAssumption DEF RedirectAssumption, Unset, Torn, Directives, Undialled

LEMMA InitTarget == RedirectInit => RedirectTypeOK /\ Target
  <1> SUFFICES ASSUME RedirectInit
               PROVE  RedirectTypeOK /\ Target
    OBVIOUS
  <1>1. RedirectTypeOK
    <2>1. webFirst \in BOOLEAN /\ abandoned \in BOOLEAN
      BY Zenon DEF RedirectInit
    <2> QED
      BY <2>1 DEF RedirectInit, RedirectTypeOK
  <1>2. Target
    BY DEF RedirectInit, Target, Numbers, Places, Answering, LoginKept,
           SwitchKept, Forgetting,
           PlaysWhereDirected, DirectiveIsKept, Told, ByLogin, BySwitch, Kept,
           WebHasTarget, Follows
  <1> QED
    BY <1>1, <1>2

LEMMA NextTypes == RedirectTypeOK /\ [RedirectNext]_redirectVars => RedirectTypeOK'
  <1> SUFFICES ASSUME RedirectTypeOK, [RedirectNext]_redirectVars
               PROVE  RedirectTypeOK'
    OBVIOUS
  <1> USE DEF RedirectTypeOK, webTarget, gameClient, HttpTo
  <1>1. CASE HttpRequest /\ UNCHANGED webFirst
    BY <1>1 DEF HttpRequest, GivesUpAttempt
  <1>2. CASE HttpFails /\ UNCHANGED webFirst
    BY <1>2 DEF HttpFails
  <1>3. CASE HttpAnswered /\ UNCHANGED webFirst
    BY <1>3 DEF HttpAnswered
  <1>4. CASE HttpAddress /\ UNCHANGED webFirst
    BY <1>4 DEF HttpAddress
  <1>5. CASE HttpPort /\ UNCHANGED webFirst
    BY <1>5 DEF HttpPort
  <1>6. CASE HttpNoPort /\ UNCHANGED webFirst
    BY <1>6 DEF HttpNoPort
  <1>7. CASE GtAsks /\ UNCHANGED webFirst
    BY <1>7 DEF GtAsks
  <1>8. CASE GtGivesUp /\ UNCHANGED webFirst
    BY <1>8 DEF GtGivesUp, GivesUpAttempt
  <1>9. CASE SlotFreed /\ UNCHANGED webFirst
    BY <1>9 DEF SlotFreed
  <1>10. CASE Connection /\ UNCHANGED webFirst
    BY <1>10 DEF Connection, Dialled, WebTarget, SubTarget
  <1>11. CASE ForgetAddress /\ UNCHANGED webFirst
    BY <1>11 DEF ForgetAddress
  <1>12. CASE ForgetPort /\ UNCHANGED webFirst
    BY <1>12 DEF ForgetPort
  <1>13. CASE SendToServer /\ UNCHANGED webFirst
    BY <1>13 DEF SendToServer
  <1>14. CASE UNCHANGED redirectVars
    BY <1>14 DEF redirectVars
  <1> QED
    BY <1>1, <1>2, <1>3, <1>4, <1>5, <1>6, <1>7, <1>8, <1>9, <1>10,
       <1>11, <1>12, <1>13, <1>14
       DEF RedirectNext, HttpThread, GameClient, MainThread

\* The HTTP thread is at work only while the game client waits for it; what it
\* overwrites is nobody's any more.
LEMMA HttpThreadTarget ==
  ASSUME RedirectTypeOK, Target, HttpThread, UNCHANGED webFirst
  PROVE  Target'
  <1> USE DEF RedirectTypeOK, Target, Numbers, Places, Answering, LoginKept,
              SwitchKept, Forgetting,
              PlaysWhereDirected, DirectiveIsKept, Told, ByLogin, BySwitch, Kept,
              WebHasTarget, Follows, webTarget, gameClient, HttpTo, GivesUpAttempt
  <1>1. CASE HttpRequest
    BY <1>1 DEF HttpRequest
  <1>2. CASE HttpFails
    BY <1>2 DEF HttpFails
  <1>3. CASE HttpAnswered
    BY <1>3 DEF HttpAnswered
  <1>4. CASE HttpAddress
    BY <1>4 DEF HttpAddress
  <1>5. CASE HttpPort
    BY <1>5 DEF HttpPort
  <1>6. CASE HttpNoPort
    BY <1>6 DEF HttpNoPort
  <1> QED
    BY <1>1, <1>2, <1>3, <1>4, <1>5, <1>6 DEF HttpThread

\* The game client gives up or asks; only giving up leaves something behind.
LEMMA GameClientTarget ==
  ASSUME RedirectTypeOK, Target, GameClient, UNCHANGED webFirst
  PROVE  Target'
  <1> USE DEF RedirectTypeOK, Target, Numbers, Places, Answering, LoginKept,
              SwitchKept, Forgetting,
              PlaysWhereDirected, DirectiveIsKept, Told, ByLogin, BySwitch, Kept,
              WebHasTarget, Follows, webTarget, gameClient, HttpTo, GivesUpAttempt
  <1>1. CASE GtAsks
    BY <1>1 DEF GtAsks
  <1>2. CASE GtGivesUp
    BY <1>2 DEF GtGivesUp
  <1>3. CASE SlotFreed
    BY <1>3 DEF SlotFreed
  <1> QED
    BY <1>1, <1>2, <1>3 DEF GameClient

\* The listener dials what the asking client was told, or uses up what an attempt
\* given up left there.
LEMMA MainThreadTarget ==
  ASSUME RedirectTypeOK, Target, MainThread, UNCHANGED webFirst
  PROVE  Target'
  <1> USE DEF RedirectTypeOK, Target, Numbers, Places, Answering, LoginKept,
              SwitchKept, Forgetting,
              PlaysWhereDirected, DirectiveIsKept, Told, ByLogin, BySwitch, Kept,
              WebHasTarget, Follows, webTarget, gameClient, HttpTo, GivesUpAttempt
  <1>1. CASE Connection
    BY <1>1 DEF Connection, Dialled, WebTarget, SubTarget, SubHasTarget
  <1>2. CASE ForgetAddress
    BY <1>2 DEF ForgetAddress
  <1>3. CASE ForgetPort
    BY <1>3 DEF ForgetPort
  <1>4. CASE SendToServer
    BY <1>4 DEF SendToServer
  <1> QED
    BY <1>1, <1>2, <1>3, <1>4 DEF MainThread

LEMMA Directions == RedirectSpec => [](RedirectTypeOK /\ Target)
  <1>1. RedirectTypeOK /\ Target /\ [RedirectNext]_redirectVars => RedirectTypeOK' /\ Target'
    <2> SUFFICES ASSUME RedirectTypeOK, Target, [RedirectNext]_redirectVars
                 PROVE  RedirectTypeOK' /\ Target'
      OBVIOUS
    <2>1. CASE RedirectNext
      BY <2>1, NextTypes, HttpThreadTarget, GameClientTarget, MainThreadTarget DEF RedirectNext
    <2>2. CASE UNCHANGED redirectVars
      <3>1. Target'
        BY <2>2 DEF Target, Numbers, Places, Answering, LoginKept,
               SwitchKept, Forgetting,
               PlaysWhereDirected, DirectiveIsKept, Told, ByLogin, BySwitch, Kept,
               WebHasTarget, Follows, redirectVars, webTarget, gameClient
      <3> QED
        BY <2>2, <3>1, NextTypes
    <2> QED
      BY <2>1, <2>2
  <1>2. RedirectInit => RedirectTypeOK /\ Target
    BY InitTarget
  <1> QED
    BY <1>1, <1>2, PTL DEF RedirectSpec

\* Every variable of Redirect keeps its type: what the proxy has stored is a
\* directive or nothing, apart from the moment in which address_ is assigned.
THEOREM DirectionTyped == RedirectSpec => []RedirectTypeOK
  <1>1. RedirectSpec => [](RedirectTypeOK /\ Target)
    BY Directions
  <1> QED
    BY <1>1, PTL

\* However logins, moves, abandoned attempts and the two threads interleave, the
\* session a game client plays in is the one it was directed to, or that of an
\* OnSendToServer it has not followed; never another login's, never a mixture.
THEOREM DialledRight == RedirectSpec => []PlaysWhereDirected
  <1>1. RedirectSpec => [](RedirectTypeOK /\ Target)
    BY Directions
  <1>2. Target => PlaysWhereDirected
    BY DEF Target
  <1> QED
    BY <1>1, <1>2, PTL

\* A game client that has given up no attempt is always dialled for.
THEOREM DialledAtAll == RedirectSpec => []DirectiveIsKept
  <1>1. RedirectSpec => [](RedirectTypeOK /\ Target)
    BY Directions
  <1>2. Target => DirectiveIsKept
    BY DEF Target
  <1> QED
    BY <1>1, <1>2, PTL
===============================================================================
