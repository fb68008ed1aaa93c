---------------------------- MODULE ProcessProofs ----------------------------
(***************************************************************************)
(* Theorems about Process, for any number of handler threads and any lines *)
(* in the hosts file.                                                      *)
(***************************************************************************)
EXTENDS Process, TLAPS

USE ProcessAssumption DEF ProcessAssumption

-----------------------------------------------------------------------------
(* The inductive invariant.                                                *)

\* Handlers end with the process.
OffTogether == pc[Main] = "off" => \A h \in Handlers : pc[h] = "off"

\* The mutex: one thread at a time is between reading and the end of the call.
OneCall == \A t, u \in Threads : call[t] # "none" /\ call[u] # "none" => t = u

\* Nobody changes the file between the reading and the truncation, and a
\* rewrite puts in nothing but what the thread made of the lines it read.
CallSound ==
  \A t \in Threads :
    /\ call[t] = "read" => before[t] = hosts
    /\ call[t] = "writing" => hosts \subseteq Target(t, before[t])

\* A handler that was called while the proxy served finds main beyond the add.
CalledLate == called # {} => Serving \/ ManagerGone

IInv ==
  /\ TypeOK
  /\ OffTogether
  /\ OneCall
  /\ CallSound
  /\ CalledLate
  /\ LoginsComeHere
  /\ CloseCleansUp
  /\ ServesOnWholeConfig

LEMMA InitInv == Init => IInv
  BY DEF Init, IInv, TypeOK, OffTogether, OneCall, CallSound, CalledLate, LoginsComeHere,
         CloseCleansUp, ServesOnWholeConfig, Serving, Threads

\* The steps that change neither a file nor a call: main and the handlers go on.
Quiet ==
  \/ Start \/ StartPresence \/ SetManager \/ Throw \/ Catch \/ Turn \/ Answered
  \/ \E h \in Handlers : ConsoleClosed(h) \/ CloseGame(h)

\* stop returns.
Joined(t) ==
  /\ pc[t] = "joining" /\ discord \in {"ended", "off"}
  /\ pc' = [pc EXCEPT ![t] = AfterStop(t)] /\ discord' = "off"
  /\ UNCHANGED <<hosts, config, admin, call, before, called>>

ConfigStep == Load \/ Save \/ Saved

LEMMA QuietInv == IInv /\ Quiet => IInv'
  <1> SUFFICES ASSUME IInv, Quiet
               PROVE  IInv'
    OBVIOUS
  <1> USE DEF IInv, Threads, Goes
  <1>1. CASE Start
    <2>1. called = {}
      BY <1>1 DEF Start, CalledLate, Serving, ManagerGone
    <2>2. admin' \in BOOLEAN
      BY <1>1, Zenon DEF Start
    <2> QED
      BY <1>1, <2>1, <2>2 DEF Start, TypeOK, OffTogether, OneCall, CallSound, CalledLate,
         LoginsComeHere, CloseCleansUp, ServesOnWholeConfig, Serving, ManagerGone, Target
  <1>2. CASE SetManager
    BY <1>2 DEF SetManager, TypeOK, OffTogether, OneCall, CallSound, CalledLate,
       LoginsComeHere, CloseCleansUp, ServesOnWholeConfig, Serving, ManagerGone, Target
  <1>7. CASE StartPresence \/ Turn \/ Answered
    BY <1>7 DEF StartPresence, Turn, Answered, TypeOK, OffTogether, OneCall, CallSound, CalledLate,
       LoginsComeHere, CloseCleansUp, ServesOnWholeConfig, Serving, ManagerGone, Target
  <1>3. CASE Throw
    BY <1>3 DEF Throw, TypeOK, OffTogether, OneCall, CallSound, CalledLate,
       LoginsComeHere, CloseCleansUp, ServesOnWholeConfig, Serving, ManagerGone, Target
  <1>4. CASE Catch
    BY <1>4 DEF Catch, TypeOK, OffTogether, OneCall, CallSound, CalledLate,
       LoginsComeHere, CloseCleansUp, ServesOnWholeConfig, Serving, ManagerGone, Target
  <1>5. ASSUME NEW h \in Handlers, ConsoleClosed(h)
        PROVE  IInv'
    BY <1>5 DEF ConsoleClosed, TypeOK, OffTogether, OneCall, CallSound, CalledLate,
       LoginsComeHere, CloseCleansUp, ServesOnWholeConfig, Serving, ManagerGone, Target
  <1>6. ASSUME NEW h \in Handlers, CloseGame(h)
        PROVE  IInv'
    <2>1. pc[Main] # "off" /\ (Serving => ManagerSet)
      BY <1>6 DEF CloseGame, OffTogether, Serving, ManagerSet
    <2> QED
      BY <1>6, <2>1 DEF CloseGame, AfterStop, TypeOK, OffTogether, OneCall, CallSound, CalledLate,
         LoginsComeHere, CloseCleansUp, ServesOnWholeConfig, Serving, ManagerGone, Target
  <1> QED
    BY <1>1, <1>2, <1>3, <1>4, <1>5, <1>6, <1>7 DEF Quiet

LEMMA JoinedInv ==
  ASSUME NEW t \in Threads, IInv, Joined(t)
  PROVE  IInv'
  <1> USE DEF IInv, Threads
  <1>1. pc[Main] # "off" /\ (Serving => ManagerSet)
    BY DEF Joined, OffTogether, Serving, ManagerSet
  <1>2. AfterStop(t) \in {"removing", "exiting"} /\ (t = Main => AfterStop(t) = "exiting")
    BY DEF AfterStop
  <1>3. t \in Handlers /\ Serving => AfterStop(t) = "removing"
    BY <1>1 DEF AfterStop
  <1> QED
    BY <1>1, <1>2, <1>3 DEF Joined, TypeOK, OffTogether, OneCall, CallSound, CalledLate,
       LoginsComeHere, CloseCleansUp, ServesOnWholeConfig, Serving, ManagerGone, Target

LEMMA ConfigInv == IInv /\ ConfigStep => IInv'
  <1> SUFFICES ASSUME IInv, ConfigStep
               PROVE  IInv'
    OBVIOUS
  <1> USE DEF IInv, Threads, Goes
  <1>1. CASE Load
    BY <1>1 DEF Load, TypeOK, OffTogether, OneCall, CallSound, CalledLate,
       LoginsComeHere, CloseCleansUp, ServesOnWholeConfig, Serving, ManagerGone, Target
  <1>2. CASE Save
    BY <1>2 DEF Save, TypeOK, OffTogether, OneCall, CallSound, CalledLate,
       LoginsComeHere, CloseCleansUp, ServesOnWholeConfig, Serving, ManagerGone, Target
  <1>3. CASE Saved
    BY <1>3 DEF Saved, TypeOK, OffTogether, OneCall, CallSound, CalledLate,
       LoginsComeHere, CloseCleansUp, ServesOnWholeConfig, Serving, ManagerGone, Target
  <1> QED
    BY <1>1, <1>2, <1>3 DEF ConfigStep

LEMMA EndInv == IInv /\ ProcessEnds => IInv'
  BY DEF IInv, ProcessEnds, TypeOK, OffTogether, OneCall, CallSound, CalledLate,
     LoginsComeHere, CloseCleansUp, ServesOnWholeConfig, Serving, Threads

LEMMA ModifyInv ==
  ASSUME NEW t \in Threads, IInv, ModifyHosts(t)
  PROVE  IInv'
  <1> USE DEF IInv, Threads
  <1>0. t \in Handlers => pc[t] # "adding"
    BY DEF TypeOK
  <1>1. CASE Read(t)
    BY <1>0, <1>1 DEF Read, Return, After, MutexFree, TypeOK, OffTogether, OneCall, CallSound,
       CalledLate, LoginsComeHere, CloseCleansUp, ServesOnWholeConfig, Serving, ManagerGone, Target
  <1>2. CASE PathLost(t)
    BY <1>0, <1>2 DEF PathLost, Return, After, MutexFree, TypeOK, OffTogether, OneCall, CallSound,
       CalledLate, LoginsComeHere, CloseCleansUp, ServesOnWholeConfig, Serving, ManagerGone, Target
  <1>3. CASE Open(t)
    BY <1>0, <1>3 DEF Open, TypeOK, OffTogether, OneCall, CallSound,
       CalledLate, LoginsComeHere, CloseCleansUp, ServesOnWholeConfig, Serving, ManagerGone, Target
  <1>4. CASE OpenFails(t)
    BY <1>0, <1>4 DEF OpenFails, Return, After, TypeOK, OffTogether, OneCall, CallSound,
       CalledLate, LoginsComeHere, CloseCleansUp, ServesOnWholeConfig, Serving, ManagerGone, Target
  <1>5. CASE Write(t)
    BY <1>0, <1>5 DEF Write, TypeOK, OffTogether, OneCall, CallSound,
       CalledLate, LoginsComeHere, CloseCleansUp, ServesOnWholeConfig, Serving, ManagerGone, Target
  <1>6. CASE CloseFile(t)
    BY <1>0, <1>6 DEF CloseFile, Return, After, TypeOK, OffTogether, OneCall, CallSound,
       CalledLate, LoginsComeHere, CloseCleansUp, ServesOnWholeConfig, Serving, ManagerGone, Target
  <1> QED
    BY <1>1, <1>2, <1>3, <1>4, <1>5, <1>6 DEF ModifyHosts

LEMMA StepInv == IInv /\ [Next]_vars => IInv'
  <1> SUFFICES ASSUME IInv, [Next]_vars
               PROVE  IInv'
    OBVIOUS
  <1>1. CASE UNCHANGED vars
    BY <1>1 DEF vars, IInv, TypeOK, OffTogether, OneCall, CallSound, CalledLate,
       LoginsComeHere, CloseCleansUp, ServesOnWholeConfig, Serving, ManagerGone, Target
  <1>2. CASE Quiet
    BY <1>2, QuietInv
  <1>3. CASE ConfigStep
    BY <1>3, ConfigInv
  <1>4. ASSUME NEW t \in Threads, ModifyHosts(t)
        PROVE  IInv'
    BY <1>4, ModifyInv
  <1>5. CASE ProcessEnds
    BY <1>5, EndInv
  <1>6. ASSUME NEW t \in Threads, Joined(t)
        PROVE  IInv'
    BY <1>6, JoinedInv
  <1> QED
    BY <1>1, <1>2, <1>3, <1>4, <1>5, <1>6 DEF Next, MainStep, HandlerStep, Quiet, ConfigStep,
       Join, Joined, Exit, Killed, Threads

LEMMA Invariant == Spec => []IInv
  BY InitInv, StepInv, PTL DEF Spec

-----------------------------------------------------------------------------
(* The theorems.                                                           *)

\* Every variable keeps its type; what is in the hosts file is the user's or the
\* proxy's, and only a thread that adds or removes is in modify_hosts_file.
THEOREM TypeCorrect == Spec => []TypeOK
  <1>1. IInv => TypeOK
    BY DEF IInv
  <1> QED
    BY <1>1, Invariant, PTL

\* A serving proxy whose handlers have not come to the hosts file has all its
\* entries there, whatever killed processes left behind.
THEOREM LoginsArrive == Spec => []LoginsComeHere
  <1>1. IInv => LoginsComeHere
    BY DEF IInv
  <1> QED
    BY <1>1, Invariant, PTL

\* However many handlers there are and however their calls overlap, closing a
\* serving administrator's proxy leaves no entry.
THEOREM CleanClose == Spec => []CloseCleansUp
  <1>1. IInv => CloseCleansUp
    BY DEF IInv
  <1> QED
    BY <1>1, Invariant, PTL

\* The proxy serves on a whole configuration only.
THEOREM WholeConfig == Spec => []ServesOnWholeConfig
  <1>1. IInv => ServesOnWholeConfig
    BY DEF IInv
  <1> QED
    BY <1>1, Invariant, PTL

-----------------------------------------------------------------------------
(* Process implements Hosts.                                               *)

LEMMA ShownWriting ==
  ASSUME NEW t \in Threads, OneCall, call[t] = "writing"
  PROVE  Shown = before[t]
  <1>1. Writers = {t}
    BY DEF OneCall, Writers
  <1> QED
    BY <1>1 DEF Shown

LEMMA ShownIdle == Writers = {} => Shown = hosts
  BY DEF Shown

\* A step that neither opens, writes nor closes the file shows the same lines.
LEMMA ShownKept ==
  ASSUME UNCHANGED hosts, UNCHANGED before,
         \A t \in Threads : (call'[t] = "writing") <=> (call[t] = "writing")
  PROVE  Shown' = Shown
  <1>1. Writers' = Writers
    BY DEF Writers, Threads
  <1> QED
    BY <1>1 DEF Shown

LEMMA QuietRefines ==
  ASSUME IInv, Quiet \/ ConfigStep \/ \E t \in Threads : Joined(t)
  PROVE  [Outside!Next]_(Outside!hvars)
  <1>1. Shown' = Shown
    BY ShownKept DEF Quiet, ConfigStep, Joined, Start, StartPresence, SetManager, Throw, Catch,
       Turn, Answered, ConsoleClosed, CloseGame, Load, Save, Saved
  <1>2. (pc[Main] # "off")' = (pc[Main] # "off") \/ (pc[Main] = "off" /\ pc'[Main] # "off")
    <2>1. CASE Start
      BY <2>1 DEF Start, Goes, IInv, TypeOK, Threads
    <2>2. CASE ~Start
      BY <2>2 DEF Quiet, ConfigStep, Joined, AfterStop, StartPresence, SetManager, Throw, Catch,
         Turn, Answered, ConsoleClosed, CloseGame, Load, Save, Saved, Goes, IInv, TypeOK,
         OffTogether, Threads
    <2> QED
      BY <2>1, <2>2
  <1>3. CASE (pc[Main] # "off")' = (pc[Main] # "off")
    BY <1>1, <1>3 DEF Outside!hvars
  <1>4. CASE pc[Main] = "off" /\ pc'[Main] # "off"
    BY <1>1, <1>4 DEF Outside!Next, Outside!Begin
  <1> QED
    BY <1>2, <1>3, <1>4

LEMMA EndRefines ==
  ASSUME IInv, pc[Main] # "off", ProcessEnds
  PROVE  [Outside!Next]_(Outside!hvars)
  <1>1. pc'[Main] = "off" /\ Shown' = hosts
    <2>1. Writers' = {}
      BY DEF ProcessEnds, Writers, Threads
    <2> QED
      BY <2>1 DEF ProcessEnds, Shown, Threads
  <1>2. CASE Writers = {}
    BY <1>1, <1>2, ShownIdle DEF Outside!Next, Outside!End
  <1>3. ASSUME NEW t \in Threads, call[t] = "writing"
        PROVE  Outside!Next
    <2>1. Shown = before[t]
      BY <1>3, ShownWriting DEF IInv
    <2>2. hosts \subseteq before[t] \cup Entries
      BY <1>3 DEF IInv, CallSound, Target
    <2> QED
      BY <1>1, <2>1, <2>2 DEF Outside!Next, Outside!End
  <1> QED
    BY <1>2, <1>3 DEF Writers

LEMMA ModifyRefines ==
  ASSUME IInv, NEW t \in Threads, ModifyHosts(t)
  PROVE  [Outside!Next]_(Outside!hvars)
  <1>1. pc[Main] # "off" /\ pc'[Main] # "off"
    <2>1. pc[t] \in {"adding", "removing"}
      BY DEF ModifyHosts, Read, PathLost, Open, OpenFails, Write, CloseFile, IInv, TypeOK
    <2>2. pc[Main] # "off"
      BY <2>1 DEF IInv, OffTogether, Threads
    <2> QED
      BY <2>2 DEF ModifyHosts, Read, PathLost, Open, OpenFails, Write, CloseFile, Return, After,
         IInv, TypeOK, Threads
  <1>2. CASE Read(t)
    <2>1. Writers = {} /\ Writers' = {}
      BY <1>2 DEF Read, MutexFree, Writers, Threads, IInv, TypeOK
    <2> QED
      BY <1>1, <1>2, <2>1 DEF Read, Shown, Outside!hvars
  <1>3. CASE PathLost(t)
    BY <1>1, <1>3, ShownKept DEF PathLost, Outside!hvars
  <1>4. CASE Open(t)
    <2>1. Shown = hosts
      <3>1. Writers = {}
        BY <1>4 DEF Open, Writers, IInv, OneCall
      <3> QED
        BY <3>1, ShownIdle
    <2>2. Writers' = {t}
      BY <1>4 DEF Open, Writers, IInv, OneCall, TypeOK, Threads
    <2>3. Shown' = before[t]
      BY <1>4, <2>2 DEF Open, Shown
    <2> QED
      BY <1>1, <1>4, <2>1, <2>3 DEF Open, IInv, CallSound, Outside!hvars
  <1>5. CASE OpenFails(t)
    <2>1. \A u \in Threads : (call'[u] = "writing") <=> (call[u] = "writing")
      BY <1>5 DEF OpenFails, IInv, TypeOK
    <2> QED
      BY <1>1, <1>5, <2>1, ShownKept DEF OpenFails, Outside!hvars
  <1>6. CASE Write(t)
    <2>1. Shown = before[t]
      BY <1>6, ShownWriting DEF Write, IInv
    <2>2. Shown' = before[t]
      <3>1. Writers = {t} /\ Writers' = Writers
        BY <1>6 DEF Write, Writers, IInv, OneCall, Threads
      <3> QED
        BY <1>6, <3>1 DEF Write, Shown
    <2> QED
      BY <1>1, <2>1, <2>2 DEF Outside!hvars
  <1>7. CASE CloseFile(t)
    <2>1. Shown = before[t]
      BY <1>7, ShownWriting DEF CloseFile, IInv
    <2>2. Shown' = Target(t, before[t])
      <3>1. Writers' = {}
        BY <1>7 DEF CloseFile, Writers, IInv, OneCall, TypeOK, Threads
      <3> QED
        BY <1>7, <3>1 DEF CloseFile, Shown
    <2> QED
      BY <1>1, <2>1, <2>2 DEF Target, Outside!Next, Outside!Add, Outside!Remove
  <1> QED
    BY <1>2, <1>3, <1>4, <1>5, <1>6, <1>7 DEF ModifyHosts

LEMMA StepRefines == IInv /\ [Next]_vars => [Outside!Next]_(Outside!hvars)
  <1> SUFFICES ASSUME IInv, [Next]_vars
               PROVE  [Outside!Next]_(Outside!hvars)
    OBVIOUS
  <1>1. CASE UNCHANGED vars
    <2>1. Shown' = Shown
      BY <1>1, ShownKept DEF vars
    <2> QED
      BY <1>1, <2>1 DEF vars, Outside!hvars
  <1>2. CASE Quiet \/ ConfigStep \/ \E t \in Threads : Joined(t)
    BY <1>2, QuietRefines
  <1>3. ASSUME NEW t \in Threads, ModifyHosts(t)
        PROVE  [Outside!Next]_(Outside!hvars)
    BY <1>3, ModifyRefines
  <1>4. ASSUME NEW t \in Threads, Exit(t)
        PROVE  [Outside!Next]_(Outside!hvars)
    <2>1. pc[Main] # "off"
      BY <1>4 DEF Exit, IInv, OffTogether, Threads
    <2> QED
      BY <1>4, <2>1, EndRefines DEF Exit
  <1>5. CASE Killed
    BY <1>5, EndRefines DEF Killed
  <1>6. ASSUME NEW t \in Threads, pc[t] = "joining", ProcessEnds
        PROVE  [Outside!Next]_(Outside!hvars)
    <2>1. pc[Main] # "off"
      BY <1>6 DEF IInv, OffTogether, Threads
    <2> QED
      BY <1>6, <2>1, EndRefines
  <1> QED
    BY <1>1, <1>2, <1>3, <1>4, <1>5, <1>6 DEF Next, MainStep, HandlerStep, Quiet, ConfigStep,
       Join, Joined, Threads

\* The rewriting of the hosts file by all threads of the process, and its end at
\* any point, is what Hosts says of it: whole changes that leave the user's lines
\* alone, and lines lost only by the end of the process.
THEOREM ProcessImplementsHosts == Spec => ChangesWhole
  <1>1. Init => Outside!Init
    <2> SUFFICES ASSUME Init
                 PROVE  Outside!Init
      OBVIOUS
    <2>1. Writers = {} /\ pc[Main] = "off"
      BY DEF Init, Writers, Threads
    <2> QED
      BY <2>1 DEF Init, Shown, Outside!Init
  <1> QED
    BY <1>1, StepRefines, Invariant, PTL DEF Spec, ChangesWhole, Outside!Spec

-----------------------------------------------------------------------------
(* A close ends, if Discord answers.  A thread that leaves ends the        *)
(* process, and so does one that removes and holds the mutex of the hosts  *)
(* file, main after it has stopped the presence too (DoomedEnds); main     *)
(* holds that mutex once for the add.  While a handler waits for it either *)
(* somebody holds it, or it is free and the handler can take it            *)
(* (WaitEnds).  The wait for the mutex of the configuration (CloseGetsOn)  *)
(* and the join (JoinEnds) come before.                                    *)

Off == pc[Main] = "off"
Leaves(t) == pc[t] = "exiting"
Reads(t) == pc[t] = "removing" /\ call[t] = "read"
Writes(t) == pc[t] = "removing" /\ call[t] = "writing"
Joins(t) == pc[t] = "joining"
Parts(t) == t = Main /\ Joins(t)
Doomed(t) == Leaves(t) \/ Reads(t) \/ Writes(t) \/ Parts(t)

\* The thread of DiscordPresence is asleep, or there is none to wait for.
Sleeps == discord = "sleeping"
Gone == discord \in {"ended", "off"}

\* A handler that removes came past the check for the manager, which main has set
\* before and sets no second time; and who joins does so after the start.
RemovesLate ==
  /\ \A h \in Handlers : pc[h] = "removing" => ManagerSet
  /\ \A t \in Threads : pc[t] = "joining" => pc[Main] \notin {"off", "begin"}

LEMMA Late == Spec => []RemovesLate
  <1> DEFINE On == pc[Main] \in {"off", "begin"} => discord = "off"
  <1>1. Init => RemovesLate /\ On
    BY DEF Init, RemovesLate, Threads
  <1>2. IInv /\ RemovesLate /\ On /\ [Next]_vars => (RemovesLate /\ On)'
    <2> SUFFICES ASSUME IInv, RemovesLate, On, [Next]_vars
                 PROVE  RemovesLate' /\ On'
      OBVIOUS
    <2> USE DEF IInv, TypeOK, RemovesLate, ManagerSet, Threads
    <2>1. CASE UNCHANGED vars
      BY <2>1 DEF vars
    <2>2. CASE Quiet \/ ConfigStep
      BY <2>2 DEF Quiet, ConfigStep, Start, StartPresence, SetManager, Throw, Catch, Turn, Answered,
         ConsoleClosed, CloseGame, AfterStop, Load, Save, Saved, Goes, OffTogether
    <2>3. ASSUME NEW u \in Threads, ModifyHosts(u)
          PROVE  RemovesLate' /\ On'
      BY <2>3 DEF ModifyHosts, Read, PathLost, Open, OpenFails, Write, CloseFile, Return, After,
         OffTogether
    <2>4. CASE ProcessEnds
      BY <2>4 DEF ProcessEnds
    <2>5. ASSUME NEW u \in Threads, Joined(u)
          PROVE  RemovesLate' /\ On'
      BY <2>5 DEF Joined, AfterStop
    <2> QED
      BY <2>1, <2>2, <2>3, <2>4, <2>5 DEF Next, MainStep, HandlerStep, Quiet, ConfigStep, Join,
         Joined, Exit, Killed
  <1> QED
    BY <1>1, <1>2, Invariant, PTL DEF Spec

\* The thread that is joined ends its sleep, and then nobody starts it again.
LEMMA SleepEnds ==
  ASSUME NEW t \in Threads, IInv, RemovesLate, Joins(t), [Next]_vars
  PROVE  /\ Sleeps => (Sleeps \/ Gone)'
         /\ Gone => Gone'
         /\ Sleeps /\ <<Turn>>_vars => Gone'
  <1> USE DEF Joins, Sleeps, Gone
  <1>1. Turn => (Sleeps => Gone')
    BY DEF Turn, Stopping
  <1>2. CASE UNCHANGED vars
    BY <1>2 DEF vars
  <1>3. CASE (Quiet /\ ~Turn) \/ ConfigStep
    BY <1>1, <1>3 DEF Quiet, ConfigStep, Start, StartPresence, SetManager, Throw, Catch, Answered,
       ConsoleClosed, CloseGame, Load, Save, Saved, Goes, RemovesLate
  <1>4. ASSUME NEW u \in Threads, ModifyHosts(u)
        PROVE  discord' = discord
    BY <1>4 DEF ModifyHosts, Read, PathLost, Open, OpenFails, Write, CloseFile
  <1>5. ProcessEnds => Gone'
    BY DEF ProcessEnds
  <1>6. (\E u \in Threads : Joined(u)) => Gone'
    BY DEF Joined
  <1>7. CASE Turn
    BY <1>1, <1>7 DEF Turn
  <1> QED
    BY <1>1, <1>2, <1>3, <1>4, <1>5, <1>6, <1>7 DEF Next, MainStep, HandlerStep, Quiet,
       ConfigStep, Join, Joined, Exit, Killed, Threads

\* A join ends: Discord answers, the thread wakes, sees that it is to stop, and ends.
LEMMA JoinEnds ==
  ASSUME NEW t \in Threads
  PROVE  Spec /\ []CanHappen /\ DiscordAnswers => [](Joins(t) => <>~Joins(t))
  <1>1. IInv /\ RemovesLate /\ Joins(t) /\ [Next]_vars =>
          /\ Sleeps => (Sleeps \/ Gone)'
          /\ Gone => Gone'
          /\ Sleeps /\ <<Turn>>_vars => Gone'
    BY SleepEnds
  <1>2. IInv /\ Joins(t) /\ <<Continues(t)>>_vars => ~Joins(t)'
    <2>1. ASSUME Joins(t), Join(t), IInv
          PROVE  ~Joins(t)'
      BY <2>1 DEF Joins, Join, ProcessEnds, AfterStop, IInv, TypeOK, Threads
    <2> QED
      BY <2>1 DEF Joins, Continues, MainStep, SetManager, ModifyHosts, Read, PathLost, Open,
         OpenFails, Write, CloseFile, Load, Saved, Catch, Exit, Goes, IInv, TypeOK
  <1>3. CanHappen => /\ Joins(t) /\ Gone => ENABLED <<Continues(t)>>_vars
                     /\ Sleeps => ENABLED <<Turn>>_vars
    BY Zenon DEF CanHappen, MayContinue, MayTurn, Joins, Gone, Sleeps
  <1>4. IInv => (discord # "talking" <=> Sleeps \/ Gone)
    BY DEF IInv, TypeOK, Sleeps, Gone
  <1>5. Fairness => Runs(t) /\ Wakes
    BY DEF Fairness
  <1> QED
    BY <1>1, <1>2, <1>3, <1>4, <1>5, Invariant, Late, PTL DEF Spec, Runs, Wakes, DiscordAnswers

\* Once a thread is doomed, the process ends.
LEMMA StaysDoomed ==
  ASSUME NEW t \in Threads, IInv, [Next]_vars
  PROVE  /\ Leaves(t) => (Leaves(t) \/ Off)'
         /\ Parts(t) => (Parts(t) \/ Leaves(t) \/ Off)'
         /\ Reads(t) => (Reads(t) \/ Writes(t) \/ Parts(t) \/ Leaves(t) \/ Off)'
         /\ Writes(t) => (Writes(t) \/ Parts(t) \/ Leaves(t) \/ Off)'
  <1> USE DEF Leaves, Parts, Joins, Reads, Writes, Off, IInv, TypeOK, Threads
  <1>1. CASE UNCHANGED vars
    BY <1>1 DEF vars
  <1>2. CASE Quiet \/ ConfigStep
    BY <1>2 DEF Quiet, ConfigStep, Start, StartPresence, SetManager, Throw, Catch, Turn, Answered,
       ConsoleClosed, CloseGame, Load, Save, Saved, Goes, OffTogether
  <1>3. ASSUME NEW u \in Threads, ModifyHosts(u)
        PROVE  /\ Leaves(t) => Leaves(t)'
               /\ Parts(t) => Parts(t)'
               /\ Reads(t) => (Reads(t) \/ Writes(t) \/ Parts(t) \/ Leaves(t))'
               /\ Writes(t) => (Writes(t) \/ Parts(t) \/ Leaves(t))'
    BY <1>3 DEF ModifyHosts, Read, PathLost, Open, OpenFails, Write, CloseFile, MutexFree,
       Return, After
  <1>4. CASE ProcessEnds
    BY <1>4 DEF ProcessEnds
  <1>5. ASSUME NEW u \in Threads, Joined(u)
        PROVE  /\ Leaves(t) => Leaves(t)'
               /\ Parts(t) => (Parts(t) \/ Leaves(t))'
               /\ Reads(t) => Reads(t)'
               /\ Writes(t) => Writes(t)'
    BY <1>5 DEF Joined, AfterStop
  <1> QED
    BY <1>1, <1>2, <1>3, <1>4, <1>5 DEF Next, MainStep, HandlerStep, Quiet, ConfigStep, Join,
       Joined, Exit, Killed

\* What the thread itself does takes it on.
LEMMA GoesOn ==
  ASSUME NEW t \in Threads, IInv
  PROVE  /\ Leaves(t) /\ <<Continues(t)>>_vars => Off'
         /\ Reads(t) /\ <<Continues(t)>>_vars => ~Reads(t)'
         /\ Writes(t) /\ <<CloseFile(t)>>_vars => ~Writes(t)'
  <1> USE DEF Leaves, Reads, Writes, Off, IInv, TypeOK, Threads
  <1>1. ASSUME Leaves(t), Continues(t)
        PROVE  Off'
    BY <1>1 DEF Continues, MainStep, ModifyHosts, SetManager, Load, Saved, Catch, Join, Goes, Exit,
       ProcessEnds, Read, PathLost, Open, OpenFails, Write, CloseFile
  <1>2. ASSUME Reads(t), Continues(t)
        PROVE  ~Reads(t)'
    BY <1>2 DEF Continues, MainStep, ModifyHosts, SetManager, Load, Saved, Catch, Join, Goes, Exit,
       Read, PathLost, Open, OpenFails, Write, CloseFile, MutexFree
  <1>3. ASSUME Writes(t), CloseFile(t)
        PROVE  ~Writes(t)'
    BY <1>3 DEF CloseFile
  <1> QED
    BY <1>1, <1>2, <1>3

LEMMA DoomedEnds ==
  ASSUME NEW t \in Threads
  PROVE  Spec /\ []CanHappen /\ DiscordAnswers => [](Doomed(t) => <>Off)
  <1>1. IInv /\ [Next]_vars =>
          /\ Leaves(t) => (Leaves(t) \/ Off)'
          /\ Parts(t) => (Parts(t) \/ Leaves(t) \/ Off)'
          /\ Reads(t) => (Reads(t) \/ Writes(t) \/ Parts(t) \/ Leaves(t) \/ Off)'
          /\ Writes(t) => (Writes(t) \/ Parts(t) \/ Leaves(t) \/ Off)'
    BY StaysDoomed
  <1>2. IInv => /\ Leaves(t) /\ <<Continues(t)>>_vars => Off'
                /\ Reads(t) /\ <<Continues(t)>>_vars => ~Reads(t)'
                /\ Writes(t) /\ <<CloseFile(t)>>_vars => ~Writes(t)'
    BY GoesOn
  <1>3. CanHappen => /\ Leaves(t) \/ Reads(t) => ENABLED <<Continues(t)>>_vars
                     /\ Writes(t) => ENABLED <<CloseFile(t)>>_vars
    BY Zenon DEF CanHappen, MayContinue, MayCloseFile, Leaves, Reads, Writes
  <1>4. Fairness => Runs(t)
    BY DEF Fairness
  <1>5. Parts(t) => Joins(t)
    BY DEF Parts
  <1>6. Spec /\ []CanHappen /\ DiscordAnswers => [](Joins(t) => <>~Joins(t))
    BY JoinEnds
  <1> QED
    BY <1>1, <1>2, <1>3, <1>4, <1>5, <1>6, Invariant, PTL DEF Spec, Runs, Doomed

SomeoneDoomed == \E t \in Threads : Doomed(t)

LEMMA SomeoneEnds == Spec /\ []CanHappen /\ DiscordAnswers => [](SomeoneDoomed => <>Off)
  <1>1. Spec /\ []CanHappen /\ DiscordAnswers => \A t \in Threads : [](Doomed(t) => <>Off)
    BY DoomedEnds
  <1>2. (\A t \in Threads : [](Doomed(t) => <>Off)) => [](\A t \in Threads : Doomed(t) => <>Off)
    OBVIOUS
  <1>3. (\A t \in Threads : Doomed(t) => <>Off) => (SomeoneDoomed => <>Off)
    BY DEF SomeoneDoomed
  <1> QED
    BY <1>1, <1>2, <1>3, PTL

-----------------------------------------------------------------------------
(* The wait for the mutex of the hosts file.                               *)

Closing(h) == pc[h] = "closing"
Waits(h) == pc[h] = "removing" /\ call[h] = "none"
Adding == pc[Main] = "adding"
Reading == Adding /\ call[Main] = "read"
Writing == Adding /\ call[Main] = "writing"

LEMMA WaitLasts ==
  ASSUME NEW h \in Handlers, IInv, RemovesLate, [Next]_vars
  PROVE  /\ Closing(h) => (Closing(h) \/ Joins(h) \/ Waits(h) \/ SomeoneDoomed \/ Off)'
         /\ Joins(h) => (Joins(h) \/ Waits(h) \/ SomeoneDoomed \/ Off)'
         /\ Waits(h) => (Waits(h) \/ SomeoneDoomed \/ Off)'
         /\ Waits(h) /\ ~Adding => (~Adding \/ Off)'
         /\ Reading => (Reading \/ Writing \/ ~Adding)'
         /\ Writing => (Writing \/ ~Adding)'
  <1> USE DEF Closing, Joins, Waits, Adding, Reading, Writing, Off, SomeoneDoomed, Doomed, Leaves,
              Reads, IInv, TypeOK, Threads
  <1>1. CASE UNCHANGED vars
    BY <1>1 DEF vars
  <1>2. CASE Quiet \/ ConfigStep
    BY <1>2 DEF Quiet, ConfigStep, Start, StartPresence, SetManager, Throw, Catch, Turn, Answered,
       ConsoleClosed, CloseGame, AfterStop, Load, Save, Saved, Goes, OffTogether, RemovesLate,
       ManagerSet
  <1>3. ASSUME NEW u \in Threads, ModifyHosts(u)
        PROVE  /\ Closing(h) => Closing(h)'
               /\ Joins(h) => Joins(h)'
               /\ Waits(h) => (Waits(h) \/ Leaves(h) \/ Reads(h))'
               /\ Waits(h) /\ ~Adding => ~Adding'
               /\ Reading => (Reading \/ Writing \/ ~Adding)'
               /\ Writing => (Writing \/ ~Adding)'
    BY <1>3 DEF ModifyHosts, Read, PathLost, Open, OpenFails, Write, CloseFile, MutexFree,
       Return, After
  <1>4. CASE ProcessEnds
    BY <1>4 DEF ProcessEnds
  <1>5. ASSUME NEW u \in Threads, Joined(u)
        PROVE  /\ Closing(h) => Closing(h)'
               /\ Joins(h) => (Joins(h) \/ Waits(h) \/ Leaves(h))'
               /\ Waits(h) => Waits(h)'
               /\ Waits(h) /\ ~Adding => ~Adding'
               /\ Reading => Reading'
               /\ Writing => Writing'
    BY <1>5 DEF Joined, AfterStop
  <1> QED
    BY <1>1, <1>2, <1>3, <1>4, <1>5 DEF Next, MainStep, HandlerStep, Quiet, ConfigStep, Join,
       Joined, Exit, Killed

\* Nobody but main's add, or a thread whose leaving ends the process, keeps a handler
\* from the mutex.
LEMMA WhoHoldsIt ==
  ASSUME IInv, ~SomeoneDoomed, ~Reading, ~Writing
  PROVE  MutexFree
  BY DEF MutexFree, SomeoneDoomed, Doomed, Reads, Writes, Reading, Writing, Adding, IInv, TypeOK,
     Threads

LEMMA WaitGoesOn ==
  ASSUME NEW h \in Handlers, IInv
  PROVE  /\ Waits(h) /\ <<Continues(h)>>_vars => ~Waits(h)'
         /\ Adding /\ ~Reading /\ ~Writing /\ <<Continues(Main)>>_vars => (Reading \/ ~Adding)'
         /\ Reading /\ <<Continues(Main)>>_vars => ~Reading'
         /\ Writing /\ <<CloseFile(Main)>>_vars => ~Adding'
  <1> USE DEF Waits, Adding, Reading, Writing, IInv, TypeOK, Threads
  <1>1. ASSUME Waits(h), Continues(h)
        PROVE  ~Waits(h)'
    BY <1>1 DEF Continues, Join, ModifyHosts, Exit, Read, PathLost, Open, OpenFails, Write,
       CloseFile, Return, After
  <1>2. ASSUME Adding, Continues(Main)
        PROVE  /\ ~Reading /\ ~Writing => (Reading \/ ~Adding)'
               /\ Reading => ~Reading'
    BY <1>2 DEF Continues, MainStep, ModifyHosts, SetManager, Load, Saved, Catch, Join, Goes, Exit,
       Read, PathLost, Open, OpenFails, Write, CloseFile, MutexFree, Return, After
  <1>3. ASSUME Writing, CloseFile(Main)
        PROVE  ~Adding'
    BY <1>3 DEF CloseFile, Return, After
  <1> QED
    BY <1>1, <1>2, <1>3

\* A handler that waits for the mutex of the hosts file does so until it has it or
\* another thread is about to end the process.
LEMMA WaitEnds ==
  ASSUME NEW t \in Handlers
  PROVE  Spec /\ []CanHappen => (Waits(t) ~> SomeoneDoomed \/ Off)
  <1>1. IInv /\ RemovesLate /\ [Next]_vars =>
          /\ Waits(t) => (Waits(t) \/ SomeoneDoomed \/ Off)'
          /\ Waits(t) /\ ~Adding => (~Adding \/ Off)'
          /\ Reading => (Reading \/ Writing \/ ~Adding)'
          /\ Writing => (Writing \/ ~Adding)'
    BY WaitLasts
  <1>2. IInv =>
          /\ Waits(t) /\ <<Continues(t)>>_vars => ~Waits(t)'
          /\ Adding /\ ~Reading /\ ~Writing /\ <<Continues(Main)>>_vars => (Reading \/ ~Adding)'
          /\ Reading /\ <<Continues(Main)>>_vars => ~Reading'
          /\ Writing /\ <<CloseFile(Main)>>_vars => ~Adding'
    BY WaitGoesOn
  <1>3. IInv /\ CanHappen /\ ~SomeoneDoomed =>
          /\ Waits(t) /\ ~Adding => ENABLED <<Continues(t)>>_vars
          /\ Adding /\ ~Writing => ENABLED <<Continues(Main)>>_vars
          /\ Writing => ENABLED <<CloseFile(Main)>>_vars
    <2> SUFFICES ASSUME IInv, CanHappen, ~SomeoneDoomed
                 PROVE  /\ Waits(t) /\ ~Adding => MayContinue(t)
                        /\ Adding /\ ~Writing => MayContinue(Main)
                        /\ Writing => MayCloseFile(Main)
      BY Zenon DEF MayContinue, MayCloseFile
    <2>1. ~Reading /\ ~Writing => MutexFree
      BY WhoHoldsIt
    <2> QED
      BY <2>1, Zenon DEF CanHappen, Waits, Adding, Reading, Writing, Threads
  <1>4. Fairness => Runs(t) /\ Runs(Main)
    BY DEF Fairness, Threads
  <1>5. (Reading \/ Writing) => Adding
    BY DEF Reading, Writing
  <1> QED
    BY <1>1, <1>2, <1>3, <1>4, <1>5, Invariant, Late, PTL DEF Spec, Runs

\* However often settings are saved meanwhile, a console handler gets past the wait
\* for the mutex of the configuration.
LEMMA CloseGetsOn ==
  ASSUME NEW t \in Handlers
  PROVE  Spec /\ []CanHappen => (Closing(t) ~> Joins(t) \/ Waits(t) \/ SomeoneDoomed \/ Off)
  <1> DEFINE Saving == pc[Main] = "saving"
  <1>1. IInv /\ RemovesLate /\ [Next]_vars =>
          (Closing(t) => (Closing(t) \/ Joins(t) \/ Waits(t) \/ SomeoneDoomed \/ Off)')
    BY WaitLasts
  <1>2. IInv /\ Closing(t) /\ <<CloseGame(t)>>_vars => ~Closing(t)'
    BY DEF IInv, TypeOK, CloseGame, AfterStop, Goes, Threads, Closing
  <1>3. IInv /\ Saving /\ <<Continues(Main)>>_vars => ~Saving'
    BY DEF IInv, TypeOK, Continues, MainStep, SetManager, ModifyHosts, Read, PathLost, Open,
       OpenFails, Write, CloseFile, Load, Saved, Catch, Join, Exit, Goes, Threads
  <1>4. CanHappen => /\ Closing(t) /\ ~Saving => ENABLED <<CloseGame(t)>>_vars
                     /\ Saving => ENABLED <<Continues(Main)>>_vars
    <2> SUFFICES ASSUME CanHappen
                 PROVE  /\ Closing(t) /\ ~Saving => MayCloseGame(t)
                        /\ Saving => MayContinue(Main)
      BY Zenon DEF MayCloseGame, MayContinue
    <2> QED
      BY Zenon DEF CanHappen, Closing
  <1>5. Fairness => Runs(Main) /\ GetsMutex(t)
    BY DEF Fairness, Threads
  <1> HIDE DEF Saving
  <1> QED
    BY <1>1, <1>2, <1>3, <1>4, <1>5, Invariant, Late, PTL DEF Spec, Runs, GetsMutex

\* The join over, a handler removes the entries.
LEMMA JoinGetsOn ==
  ASSUME NEW t \in Handlers
  PROVE  Spec /\ []CanHappen /\ DiscordAnswers => (Joins(t) ~> Waits(t) \/ SomeoneDoomed \/ Off)
  <1>1. IInv /\ RemovesLate /\ [Next]_vars =>
          (Joins(t) => (Joins(t) \/ Waits(t) \/ SomeoneDoomed \/ Off)')
    BY WaitLasts
  <1>2. Spec /\ []CanHappen /\ DiscordAnswers => [](Joins(t) => <>~Joins(t))
    <2>1. t \in Threads
      BY DEF Threads
    <2> QED
      BY <2>1, JoinEnds
  <1> QED
    BY <1>1, <1>2, Invariant, Late, PTL DEF Spec

\* If Discord always answers, closing the console ends the process, for any number of
\* handlers at once, any lines in the hosts file, and whatever main is doing: saving a
\* setting, adding the entries, or removing them and stopping the presence itself.
THEOREM CloseEndsIt == Spec /\ []CanHappen => CloseEnds
  <1> SUFFICES ASSUME NEW t \in Handlers
               PROVE  Spec /\ []CanHappen /\ DiscordAnswers =>
                        (pc[t] = "closing" ~> pc[Main] = "off")
    BY DEF CloseEnds
  <1>1. Spec /\ []CanHappen /\ DiscordAnswers => (Closing(t) ~> Off)
    BY CloseGetsOn, JoinGetsOn, WaitEnds, SomeoneEnds, PTL
  <1> QED
    BY <1>1, PTL DEF Closing, Off
=============================================================================
