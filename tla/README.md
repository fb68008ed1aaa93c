# A TLA+ development of Vin-Proxy

Vin-Proxy sits between the Growtopia game client and the real game server. It
accepts the game's ENet connection, dials the server for it, relays every packet
through a chain of extensions that may read, change or withhold it, and runs some
150 chat commands, several of them as automations on threads of their own.

This directory holds TLA+ models of the parts of it whose correctness depends on
*when* things happen, the TLC runs that check them on small instances, and
theorems about them that TLAPS checks for all values of their constants. File
names such as `server/server.cpp` are below `src/src/`; `lib/…` is below `src/lib/`.

Contents: [the system](#the-system) · [modules](#modules) · [runs](#runs) ·
[fairness](#fairness) · [theorems](#theorems) · [findings](#findings) ·
[what is left out](#what-is-left-out) · [plan](#plan) · [running it](#running-it)

## The system

### Threads

| Thread | What it runs |
| --- | --- |
| main loop (`core/core.cpp`, `Core::run`) | services both ENet hosts in turn: `Server::process`, then `Client::process`; all their handlers, all event listeners, the commands typed in the chat |
| HTTP (`extension/web_server`) | answers `server_data.php`; keeps the real server's address and port for the main loop |
| GUI (`main.cpp`, `proxy_imgui_gui.cpp`) | Connect and Disconnect buttons, buttons for `/ac` and `/dropall`, commands typed in its console, mode check boxes |
| workers | one per start of an automation (`/farm`, `/harvest`, `/plant`, `/ac`, `/dropall`, `/dropat`), per drop command, per `/logout` step, per delayed answer |
| console handlers | one per Ctrl+C or closed window, on threads of the system: join the Discord thread, restore the hosts file and end the process |
| Discord (`utils/discord_presence.cpp`) | every 15 s tells Discord what is played and waits for its answer, without a limit |

Almost nothing is shared under a lock. Atomics carry flags and generations; the
managers (`inventory_manager`, `world_manager`) lock each call by itself; `Player`
objects, ENet peers and the redirect targets have no lock at all.

### Components

| Component | State | Operations | Talks to | What is hard |
| --- | --- | --- | --- | --- |
| Server half, `server/server.cpp` | `player_`, one ENet peer | connect, receive, disconnect; waits inside `on_receive` for the upstream | client half directly, extensions by events | handlers run inside a handler; the other half's end |
| Client half, `client/client.cpp` | `player_`, one peer, `g_connect_pending` | connect, receive, disconnect, time out | server half directly, extensions by events | attempts that outlive their session, stale `player_` |
| ENet, `lib/enet` | peer state, channel numbers, command lists | the calls above | the network | loss, repetition, order; calls from several threads |
| Login web server | `address_`, `port_` | HTTP request, Connection listener | HTTP thread ↔ main loop | unlocked, two fields |
| Sub-server switch | `address_`, `port_` | OnSendToServer, Connection listener | web server's listener | two listeners, one slot |
| `/logout` | two atomics, sleeping threads | command, menu hook, login hook | server half, the game's window | timers racing the menu; the next login |
| Automations | a flag and a generation each | command, dialog, `stop_all`, worker loop | main loop ↔ workers | stop and start again; who resets the flag |
| VendSafe, VendFast | mode, waiting flag, kept request; duplicate flag | dialogs, bubbles, toggles | each other, through one event | canceled events reach the next listener |
| Inventory manager | `items_`, `pending_drop_lost_`, seen uids | add, remove, record, modify, parse | main loop ↔ drop threads | the same loss seen twice, or never |
| Lock drop commands | `s_dropping` | check, break, drop | inventory manager, server | check long before use; overlapping drops |
| Relay and packet rewriting | per-listener switches | forward, cancel, rewrite, split | all listeners | a packet rewritten twice; errors on the way |
| World manager | tiles, dropped items, live objects, last number | map data, tile and object changes | inventory manager, everything that reads the world | the number of a drop is counted, not sent; references without a lock |
| Parser | spawn, console, dialog rewriting | every server text call | relay | answers of its own to dialogs |
| Hosts file, configuration | two files | rewrite in place, at start, end and on every setting | `main`, console handlers, the operating system | an end in the middle; two threads; mutexes and a thread waited for while closing |
| `/doorbf`, `/autocomp`, `/w1`, autosurgery, … | flags, plans | one command or dialog each | managers, server | as the automations |
| GUI, Lua, logging, anti-debugging | presentation | — | — | — |

What makes each correct, in a sentence:

* **Session.** Both halves of an established session end together; a handler
  never works on a Player that another handler has deleted; a packet of the game
  that is passed on vanishes only while the upstream closes or behind the Player of an
  earlier session; attempts and orphans end.
* **Redirect.** A session is dialled to the address *and* port of the directive
  the game client followed.
* **Send queue.** Packets arrive once each and in the order they were sent.
* **Automations.** A flag that shows an automation on has a worker behind it, the newest
  one unless two threads give the commands; a superseded worker ends; what the user asked for sticks.
* **Logout.** One Back and one rejected login per `/logout`, and the game does go off line.
* **Vending.** A withheld dialog is answered, once, or is a confirm dialog that VendFast
  takes for a duplicate; there are no more confirmations than requests made.
* **Inventory.** No loss is deducted twice; a drop's check is covered by what the
  player has; the mark of a drop in progress comes down.
* **Drops.** The picture of the ground is the ground, number by number; a collect is
  credited once and as what it was.
* **Process.** The hosts file is changed as a whole or by the end of the process only;
  a serving proxy has its entries there, a closed one does not; a close ends when Discord answers.

The hazards, each at its line and with the properties that would catch it, are
listed under `hazards` in `PROJECT.json`.

## Modules

```
EnetPeer <-- Session   ==implements==> Pairing      Redirect     Inventory
             Process   ==implements==> Hosts        Logout       Vending
             SendQueue ==implements==> Channel      Automation   Drops
<M>Proofs extends <M>;  MC<M> extends <M> and is what TLC runs
LoginProofs extends Logout and Redirect
```

`LoginProofs` holds the theorems of the two modules about a login: whether it is let
through (Logout) and where it leads (Redirect, whose `Init`, `Next`, `Spec` and `TypeOK`
are therefore called `RedirectInit`, `RedirectNext`, `RedirectSpec` and `RedirectTypeOK`).

Each module's actions are the code's handlers, one action per handler, with
everything it changes; where two threads share state, one action per access that
another thread can come between. `map` in `PROJECT.json` names the lines behind
every definition.

### EnetPeer, Session, Pairing

`EnetPeer` reduces ENet's ten peer states to the five the proxy can tell apart
and gives each API call as a function of the state. `Session` is the two halves
over two such peers: `gtPeer`/`srv` are the game client's connection and
`Server::player_`, `upPeer`/`cli` the upstream connection and `Client::player_`.
Sessions are numbered, so that a Player of an earlier session can be told from
the current one. `waiting` counts the rounds of the wait inside `Server::on_receive`,
which calls `Client::process` but not `Server::process`; while it runs, only the
client half's handlers are enabled (`InLoop`). A packet of the game is passed on
(`Forward`), kept from the server on purpose or because it cannot be read, with an
upstream or without (`Withhold`), or is its disconnect (`Quit`). `HttpLogin`, the GUI's buttons and
the `/logout` thread act at any time. Two settings are chosen at the start and stay:
`webLoaded`, whether the web server extension is there at all, and `buttons`, whether
the GUI's Connect and Disconnect are used. One run covers the four combinations, and
the properties that the buttons break name `~buttons`.

`Pairing` is the abstract specification: two booleans' worth of state and five
steps, in which an established session's halves end in one step. `Session` refines
it with `down <- srv # 0` and `up` read off `upPeer`; where the buttons are used the
mapping shows nothing at all, since they reset a peer behind the main thread's back.

### Redirect

Where a session is dialled to. Directives (answers to `server_data.php`, and
`OnSendToServer`) are numbered; the HTTP thread's assignments to `address_` (with
the moment in between, when a reader finds anything) and `port_`, and the main
loop's clearing of the two, are separate steps. The order of the two Connection
listeners is that of an `unordered_map` and is chosen at the start. Assumed of the
environment: the game client has one HTTP request under way at a time, and the
real server sends one `OnSendToServer` per connection.

### SendQueue, Channel

`enet_peer_send` as two or more threads execute it: load and store of the sequence
number, the four link writes of `enet_list_insert`, against
`enet_protocol_check_outgoing_commands` taking from the front and a receiver that
may see packets lost, repeated and overtaken. Left out: the links of the list of
*sent* commands (a write through a packet's old place has no effect in the model), that a
packet to be sent again is linked into the list of outgoing ones once more (it stays in
flight and may arrive again, `Arrive`), windows, fragments, and the 16-bit wrap of the
numbers.

`Channel` is the abstract specification: how many packets were put in, and those that came
out; one comes out at a time, the next of those put in. SendQueue implements it, with
`sent <- written` and `got <- received`, as long as one thread sends.

### Automation

One automation of a kind: `farm`, `harvest` (`/plant` is the same code over other
items), `collect`, or `drop` (`/dropall` and `/dropat`, whose worker also ends when
nothing is left, whose command stops before it starts, and which no handler stops).
Commands, dialogs and handlers run on the main thread; the setting `gui`, chosen at the
start for `collect` and `drop`, has the GUI's thread give the same commands through its
buttons (`Toggle("gui")`). Both threads are split at their accesses to `s_enabled` and
`s_generation`, so that a stop of the one and a start of the other pass each other in any
order; each start creates a worker for its generation that loops, acts, leaves and, by kind, resets the flag.
What a worker does in the world is one action, `Act`.

### Logout

The command, its timer, the menu hook, the fallback, and the rejection of the
game's automatic login with its two sleeping steps. The game's screens are the
environment: `PressBack` may or may not reach the window.

### Vending

The two extensions on the dialogs the server sends for opened machines, several at
a time. A dialog is `whole`, `lacking` the fields the extensions read, or `odd`: VendSafe
reads it, and to VendFast it is a buy dialog without stock, which it leaves alone, or a
confirm dialog whose count is no number, at which it throws after raising its flag
(`FastThrows`); no thread lowers the flag then, and `thrown` remembers it. Both listeners
see every dialog, because eventpp's heterogeneous list does not consult
`canContinueInvoking`. VendFast's empty and add modes are left out: they answer one
dialog from that dialog alone and keep no state.

### Inventory

The mirror (`items_`), what is pending (`pending_drop_lost_`) and the drop commands'
threads. Every call into the manager is a step, because it is one critical section;
two threads may be at work, since `/dbglvis` does not look at `s_dropping` and the
others load and store it in two steps. The server's amounts are those it last
reported. `uncounted` is a history variable: locks broken, and collected without the
proxy finding out, since the last full inventory. The three amounts a command reads
before it plans are read in one step. Left out: the answers the parser gives to drop
dialogs by itself, the raw copy of the backpack, and the cache file.

### Drops

The server numbers the drops of a world and the map names the last number; the packet
that reports a new drop carries none, so `WorldManager` counts along, and the packet
of a collect carries the number alone. `ground` and `last` are the server's,
`items`, `live` and `lastUid` the proxy's, `inventory` the mirror of the backpack less
the backpack, `processed` the numbers `record_collected_uid` remembers for 15 s. Each
report is one step with what it reports, because one thread handles them in order.
`astray` is an observer: it names the first of the three things the picture cannot
follow (a map that does not parse, a world whose drops are all gone, a collect from a
pile) since the last map. `Inventory` keeps its own coarser `Collect`: it bounds the
mirror from below whatever the lookup finds, and Drops says what the lookup finds.
Abstracted: places are spots further than 12 pixels apart and within the 250 of the
search, and an amount grows by one.

### Process, Hosts

The life of the process: `main` adds the entries of the login server to the hosts
file, loads `config.json` (or writes the defaults where it is absent or lacks keys, or
fails at one that is cut or has a value of another type), serves, saves settings, and takes
the entries out in its catch blocks; console handlers on threads of the system take
them out and end the process, whatever `main` is doing; `Killed` ends it anywhere.
`modify_hosts_file` is split into reading, truncating, writing buffer by buffer and
closing, under its mutex; the file is the set of its lines. `Save` truncates
`config.json` until `Saved`. A handler's `close_growtopia` waits for the mutex of the
configuration. Then its `DiscordPresence::stop` joins the thread of `callbacks_loop`
(`discord`), as a catch block does once it has removed the entries: asked to stop, the
thread ends at its next round (`Turn`), but within a round it waits for Discord
(`Answered`). Where two threads are in the same join, the second may go on or abort the
process (`Join`). After an exception has left the try block, `global_hosts_manager`
points to a destroyed manager, whose use may fail in any way (`PathLost`, `OpenFails`,
`Killed`).

`Hosts` is the abstract specification: the lines and whether the proxy runs; all
entries are added or all removed, and only the end of the proxy may cost lines.
Process implements it with `lines` read as what was there before a rewrite that is
under way (`Shown`).

## Runs

Mutants of the mapped definitions, one per property, are kept beside the
definitions they change ("Mutant: …") and listed in `PROJECT.json`; each makes TLC
report the property it is listed for.

| Run | Shows | Bounds, and why they are enough |
| --- | --- | --- |
| `session` | `StaleIsOlder`, `PlayersMatchPeers`, `WaitHasSession`, `LeakBounded`, `SilentLossIsStale`, `Paired`, `CloseReachesClient`, `PendingResolves`, `OrphanEnds` | four sessions, a wait of two rounds, packets passed on and withheld, with and without the buttons and the web server: a stale Player needs a session before it, a leak two, a third and fourth show that nothing accumulates; two rounds are a first and a last |
| `redirect` | `PlaysWhereDirected`, `DirectiveIsKept` | four directives: two logins and two moves, in every order |
| `send_queue` | `ListSound`, `OneSenderIsChannel`, `EverythingArrives` | one sender, four packets: one in flight, one held back, one queued, one being linked |
| `send_queue_worker` | `DropsOnlyRepeats` **fails** | two senders, two packets |
| `automation` | `EnabledHasWorker`, `HarvestToggleSticks`, `SupersededEnds` | all four kinds, `collect` and `drop` with and without the GUI's thread, five generations: a worker of each of three starts alive at once, with two stops |
| `logout` | `BackOncePerLogout`, `RejectOncePerLogout`, `LogoutLeaves` | two overlapping `/logout`, one lost connection, two logins by hand |
| `vending` | `ConfirmsWhatItAnswered`, `WithheldIsAnswered` | two machines, two mode changes, two prices, one refusal, dialogs of each form: a confirm dialog that makes VendFast throw and one after it |
| `vending_twice` | `AnsweredOnce` **fails** | VendFast's buy mode, one machine |
| `inventory` | `NothingForgotten`, `DroppingEnds` | two commands, one event they have no part in, one diamond lock worth two: enough for a plan that breaks and drops, and for two threads at once |
| `inventory_break` | `BalanceVerified` **fails** | two commands, one blue gem lock, nothing else happens |
| `drops` | `MirrorIsGround`, `CreditIsTrue` | two worlds, two spots, a lock and another item, two drops a world, amounts of one and two: a number met in both worlds, a pile, a lock mistaken for what lies elsewhere. Worlds and spots are symmetric |
| `process` | `ChangesWhole`, `LoginsComeHere`, `CloseCleansUp`, `ServesOnWholeConfig`, `CloseEnds` | two handlers and the Discord thread, one line of the user, two entries: a file cut between the entries, two closes at once, entries left by an earlier kill |

`TypeOK` (`RedirectTypeOK` in Redirect) is checked in one run of each module.
`CHECK_DEADLOCK FALSE` stands where a bounded system stops by itself: no more sessions, packets, machines, drops or
commands. Process has no bound and is checked for deadlock: a process that cannot be
ended, or be started again, would be one.

What the passing properties say of the code, and why a unit test would not:

* `SilentLossIsStale` explains every packet of the game that the proxy means to pass on
  and that is lost without anyone being told: the upstream is closing, or the game came
  back before `Client::player_` of its last session was replaced. It needs two sessions
  and the nested loop. It does not speak of the packets that the proxy keeps from the
  server itself (`Withhold`: size, filter, a failed read, a listener's cancel).
* `WaitHasSession` is what makes the dereference after the wait in `on_receive`
  safe although the wait runs handlers that delete `player_`.
* `PlaysWhereDirected` spells out the exact exceptions in which a session is
  dialled elsewhere: an `OnSendToServer` the game did not follow. It is never another
  login's answer, nor a mixture of two.
* `EnabledHasWorker`: workers of older generations may still be on their way out and
  write the flag; the newest one has not left while the flag is set. With the GUI's
  buttons that is not so, and what is left is that some worker is there that will take
  the flag down.
* `WithheldIsAnswered` names when VendFast takes a confirm dialog for a duplicate and
  withholds it unanswered: within the second after a confirmation of its own, and for
  good once it has thrown.
* `ConfirmsWhatItAnswered`: the waiting flag outlives its dialog when a request is
  refused or bought by hand, yet the confirmations never outnumber the buy dialogs.
* `NothingForgotten`: the server's report of a drop may come before the thread's
  first call into the mirror, between its two calls, or after; in each case the sum
  of mirror and pending covers what the server holds.
* `MirrorIsGround` and `CreditIsTrue` say how far a count kept without numbers on the
  wire can be trusted, and name the three places where it is lost.
* `ChangesWhole` holds although handlers rewrite the hosts file while `main` does: the
  mutex spans reading and writing. What a kill cuts is the only loss.
* `CloseEnds` has a hypothesis, that Discord always answers at last; without it TLC shows a
  handler that waits for the Discord thread for ever. With it, the three waits of a
  handler end although `main` and another handler may be in each of them.
* `CloseCleansUp` is about a handler that comes to `ExitProcess`: two handlers in the same
  join may abort the process before, with the entries in place. It does not cover a close
  during startup or after an exception: a handler that comes before `main` has added the
  entries removes none and `main` may still add them, or be ended within doing so; after
  an exception the manager is gone.
* `ServesOnWholeConfig` holds because a file that does not parse, or has a value of another
  type, is refused; the price
  is that a `config.json` cut once ends every later start.

## Fairness

Only steps the program or its libraries are bound to take are fair.

* Session: the main loop services both hosts, the wait counts its rounds, ENet's own
  timeout ends an unanswered connect attempt, and the real server speaks first on an
  accepted connection (`SERVER_HELLO`). Nothing obliges the game client, the user, the
  HTTP side or an established upstream to do anything.
* Automation: a runnable thread runs: each commander goes on with a command it has begun,
  and each worker with its loop. What the user and server do next is up to them.
* SendQueue: a thread finishes its call, the main loop comes round, and ENet
  retransmits a reliable packet until its acknowledgement gets through (or the
  connection ends, which is outside the module). The main loop's visits to the list get
  strong fairness: each time the loop comes round it services the host, but between two
  visits it may be sending itself, and then it is not at the list. Weak fairness would
  let it send for ever.
* Logout: sleeping threads wake up; the server acts on `action|quit`; a connected game
  logs in.
* Inventory: a drop thread that can go on does. Nothing is assumed of the server.
* Process: `main` and the handlers are runnable threads, and a file of finitely many lines
  comes to its end, so that a rewrite is closed at last (`CloseFile`). A handler's wait for
  the mutex of the configuration gets strong fairness, because `main` lets go of it between
  two settings and sleeps between two rounds of its loop. The Discord thread wakes
  from its sleep (`Turn`). Discord's answer (`Answered`) is not fair, nor is the start of
  the presence, which waits for one too; that Discord answers is a hypothesis inside
  `CloseEnds`, where a reader sees it. Nothing obliges the loop to save, throw or end, or
  the user to close.
* Vending, Redirect, Drops: safety only.

The safety properties and the refinements are checked and proved without fairness.

A module whose liveness is proved defines `CanHappen` beside its fairness: for each fair
action that a proof uses, a condition on the state under which the action is possible.

## Theorems

| Module | Theorem | Establishes |
| --- | --- | --- |
| SessionProofs | `TypeCorrect`, `PlayersCorrect`, `WaitSafe`, `StaleFromEarlier`, `LeakBound`, `SilentLossExplained` | the type invariant, the safety invariants and the action property of `session`, for every number of sessions, length of the wait and choice of settings |
| SessionProofs | `SessionImplementsPairing` | `Paired`: Session implements Pairing |
| SessionProofs | `AttemptsResolve`, `CloseArrives`, `OrphansEnd` | `PendingResolves`, `CloseReachesClient`, `OrphanEnds`, given `CanHappen` |
| AutomationProofs | `TypeCorrect`, `WorkerBehindFlag`, `HarvestSticks` | the type invariant, `EnabledHasWorker`, `HarvestToggleSticks`, for all kinds and every number of starts |
| AutomationProofs | `SupersededGone` | `SupersededEnds`, given `CanHappen` |
| LoginProofs | `TypeCorrect`, `BackOnce`, `RejectOnce` | Logout's type invariant and its two budgets |
| LoginProofs | `LogoutArrives` | `LogoutLeaves`, given `CanHappen` |
| LoginProofs | `DirectionTyped`, `DialledRight`, `DialledAtAll` | `RedirectTypeOK`, `PlaysWhereDirected`, `DirectiveIsKept`, for every number of directives |
| VendingProofs | `TypeCorrect`, `OneConfirmEach`, `NoneSwallowed` | the type invariant, `ConfirmsWhatItAnswered`, `WithheldIsAnswered` |
| VendingProofs | `SafeAloneAnswersOnce` | `AnsweredOnce`, as long as VendFast's buy mode is not there |
| SendQueueProofs | `TypeCorrect` | the type invariant, for any number of threads that send at once |
| SendQueueProofs | `OneSenderInOrder`, `OneSenderListSound` | packet number i is the i-th to be handed on (`InOrder`), and `ListSound`, for one sender and any number of packets |
| SendQueueProofs | `OneSenderLosesNothing` | `DropsOnlyRepeats`, for one sender |
| SendQueueProofs | `SendQueueImplementsChannel` | `OneSenderIsChannel`: SendQueue implements Channel, for one sender |
| SendQueueProofs | `AllArrive` | `EverythingArrives`, for one sender and any number of packets, given `CanHappen` and `ReachesSet` |
| SendQueueProofs | `NeverTwice` | however many threads send at once, no packet is handed on twice |
| InventoryProofs | `TypeCorrect`, `NoLossTwice` | the type invariant, `NothingForgotten`, for any exchange rate, stack size and beginning |
| InventoryProofs | `DropsTerminate`, `FlagHasThread` | each step of a thread at work has less left to do, by natural numbers; while `s_dropping` is set there is a thread that will reset it |
| InventoryProofs | `DropsEnd` | `DroppingEnds`, given `CanHappen` and `EndsSet` |
| DropsProofs | `TypeCorrect`, `PictureExact`, `CreditExact` | the type invariant, `MirrorIsGround`, `CreditIsTrue`, for any worlds, items, spots and bounds |
| ProcessProofs | `TypeCorrect`, `LoginsArrive`, `CleanClose`, `WholeConfig` | the type invariant and the safety invariants, for any number of handlers and any lines |
| ProcessProofs | `ProcessImplementsHosts` | `ChangesWhole`: Process implements Hosts |
| ProcessProofs | `CloseEndsIt` | `CloseEnds`, with its hypothesis that Discord answers, for any number of handlers, given `CanHappen` |

The arguments:

* **Session.** None of the properties is inductive. `IInv` adds how the numbers
  grow (`Numbering`), that a session ended during the wait took the upstream with it
  (`WaitAlone`), that a Player found at the end of a wait is a fresh one (`WaitFresh`),
  that a session lasts as long as its slot is taken (`SlotFree`), and a count of Players
  allocated and to be allocated against the numbers of the sessions that dialled
  (`LeakCount`). Safety and the refinement are corollaries, the latter step by step.
* **Automation.** The flag alone says little, since old workers may reset it late.
  Inductive is, as long as one thread gives the commands: while the flag is set and the
  main thread is not replacing the worker, the newest generation's worker is in its loop
  (`MainThread`), and farming never finds itself out of a world (`FarmInWorld`). Where the
  GUI's thread gives some as well: a set flag has a command about to start a worker, or a
  worker that has still to reset it (`SomebodyClears`).
* **Logout** and **Vending** are budgets: each `/logout`, each answered buy dialog,
  grants one use; the flags hold grants not used yet. That a dialog is withheld with
  reason needs more: VendFast's flag is up only while a thread is to lower it or after it
  has thrown (`FlagsOK`).
* **Redirect.** `Target` (at the end of the module) says, for each moment between being
  directed and playing, whose directive is stored: the HTTP thread works only while the
  client waits for it, a client moved by `OnSendToServer` finds the other target
  forgotten (`SwitchKept`, `Forgetting`), and whatever is missing of a login's target
  was used up by an attempt given up before (`LoginKept`, `Places`).
* **SendQueue.** A packet's number is its place among those sent, whatever the links
  do; the receiver hands on by number. For the list, the packets before some `f` are in
  flight, held or handed on (`Taken`), those from `f` on stand in the list (`Queue`),
  with the exceptions of the step that is under way. Types of several senders need the
  bound on every link (`Bounded`): a racing write leaves a packet that was written.
  With several senders the numbers are no longer the places; what is left is that the
  receiver hands on one packet per number (`InTurn`), and that a packet without a number is
  known to its thread alone (`Private`), so that no number seen is changed any more. Hence
  the race of `send_queue_worker` loses packets but never repeats one.
* **Inventory.** `NothingForgotten` is inductive beside the types. Each step either
  moves an amount from one term of the sum to another (take from the mirror → being
  recorded → pending) or takes no more from the sum than from what the server holds
  (`LossBound`). Thread steps touch one thread's term only (`OthersKept`,
  `MarginSuffices`).
* **Drops.** `MirrorIsGround` needs the server's numbering (`Numbered`); that the numbers
  remembered are of drops that are gone (`ProcessedGone`) makes every collect in an exact
  picture a new one, unless another world gave the number.
* **Process.** One call at a time (`OneCall`), and what a rewrite puts in is what its
  thread made of the lines it read, which nobody has changed since (`CallSound`). A step
  of a rewrite then shows either the old lines or the target; an end within it shows
  some of them, which `Hosts` allows the end alone.

The arguments for liveness are chains of stages: each stage lasts or gives way to a later
one, whatever else happens, and a fair step ends it.

* **Session**: an orphan is dialling, then open, then closing; the wait inside the server
  half services the client half, so no stage needs the server half.
* **Automation**: a superseded worker has at most its turn, a check, and its leaving before
  it; nothing the main thread does sends it back.
* **Logout**: of every /logout something is still under way (`WaitsArmed`): a timer, the
  menu, a request to the server, or the login to be rejected. Each of these is taken in
  turn, and further /logout commands only add to them.
* **SendQueue**: the packet next in line is being written, listed, first in the list, being
  taken, on its way, handed on. No packet is before it, so that strong fairness of the main
  loop's visits takes it off the list, and retransmission takes it across. `AllArrive` is
  an induction over the packets.
* **Inventory**: `Left` counts what a thread has still to do: what is planned to be broken
  and to be dropped, and its place in the step that is under way. `DropsEnd` is an induction
  over it.
* **Process**: a handler gets past the mutex of the configuration (`CloseGetsOn`), then the
  join: Discord answers, the thread wakes and ends, and nobody starts it again
  (`JoinEnds`). Then it waits for the mutex of the hosts file. Whoever holds that one
  rewrites, closes the file and lets go (`WhoHoldsIt`).
  If it removes, its thread ends the process afterwards, `main` after a join of its own
  (`DoomedEnds`). If it is `main`,
  adding, it goes on without the process ending, but adds no second time: a handler that
  removes came after the manager was set (`RemovesLate`). Then the mutex is free for the
  waiting handler or taken by a thread that removes (`WaitEnds`).

The two inductions are over a temporal formula. The library's induction theorems take an
operator as a parameter, which no installed prover can instantiate, and TLA+ cannot form
the set of the numbers for which a temporal formula holds. `SetInduction` therefore states
induction for a set of naturals, proved from the well-foundedness of `<` (the least number
that is not in the set), and the hypotheses `ReachesSet` and `EndsSet` say that there is the
set of the numbers that satisfy the formula. Every behaviour has that set, so they exclude
nothing; they name what the language cannot. It is stated in both modules because their
theorems share nothing else.

The hypothesis `[]CanHappen` of these theorems stands for what the provers cannot see:
to them ENABLED of a step is an unknown predicate, and `CanHappen` says under which
condition on the state it holds. It is a claim about the model alone and no assumption
about the code: with `INVARIANT CanHappen` added to the cfg of `session`, `automation`,
`logout`, `send_queue`, `inventory` or `process`, TLC finds it true in every reachable state.

Assumptions are the `ASSUME`s of the modules: bounds are naturals, limits positive,
`Main` is one of the threads. TLC evaluates them in every run.

Every property that a passing run checks, safety, refinement or liveness, is stated by a
theorem. Only model-checked is `CanHappen` of each module, on which the liveness theorems
rest, because no installed prover expands ENABLED. The theorems about SendQueue but for
`TypeCorrect` and `NeverTwice` are about one sender; `send_queue_worker` shows what
several senders lose. No module here uses a RECURSIVE operator.

## Findings

| Run | Where | What |
| --- | --- | --- |
| `vending_twice` | `extension/vendsafe/vendsafe_extension.hpp:55` | with VendFast's buy mode on, both extensions answer the same buy dialog: the cancel of the first does not stop the second, contrary to `core/core.hpp:97` |
| `send_queue_worker` | `player/player.cpp:13` | two threads send on one ENet peer: two packets get one number and the receiver drops one as a duplicate |
| `inventory_break` | `extension/command_handler/drop_currency_command.cpp:385` | `/dd` applies the exchange of a broken lock to the mirror and so does the server's report: later checks pass for locks the player does not have |

Two theorems say how far the first two reach. `SafeAloneAnswersOnce`: without VendFast's buy
mode no dialog is answered twice, for any number of machines and refusals.
`OneSenderLosesNothing`: with one sender the receiver drops nothing but repeats, for any
number of packets; it takes the second thread to lose one. `NeverTwice`: losing is all the
race can do to a packet; it is never handed on twice.

Disagreements between documents and code, and consequences of the code, met on the way
that no run is spent on:

* `COMMANDS.md:721`: `/ac` toggles; off and on again within the worker's pause ends switched
  off, because a leaving worker resets the flag whatever its generation
  (`autocollect_command.cpp:312`). A `/dropall` typed to cancel one that has just run out
  starts another (`dropall_command.cpp:124`).
* The GUI's button runs `/ac` and `/dropall` on the GUI's thread (`main.cpp:458-473`), beside
  the same commands of the chat: a stop of the one whose `++s_generation` comes after the
  start of the other supersedes the worker just started, and the flag shows the
  automation on until a leaving worker resets it.
* `vending_fast_extension.hpp:381` raises the flag against duplicates before it converts the
  count at 413; a count that is no number throws past everything that would lower it, and
  every later confirm dialog is withheld unanswered while buy mode is on, until the proxy
  is restarted.
* `main.cpp:385` announces a graceful shutdown: `stop` at 387 joins a thread that may be in a
  `ReadFile` without a limit (`discord_presence.cpp:85`), before the entries are removed.
  When Discord hangs, a Ctrl+C never ends the proxy, and a closed window ends it by the
  system's own timeout with the entries left in the hosts file. A second Ctrl+C joins the
  same `std::thread`.
* `README.md:104` has the proxy know the objects on the ground: enter a world, drop an item
  twice on one spot and collect one; the third removal of the handler
  (`client.cpp:767`) takes the other out of the picture too.
* In a world whose drops are all gone the next drop is counted as number 1; when a lock lies
  anywhere near, the collect of anything else is credited as that lock
  (`client.cpp:674`, `world_parser_v2.cpp:792`).
* For the same graceful shutdown, `ExitProcess` in the handler does not wait for
  a `Config::save` that begins after the handler's own look at the configuration, and leaves
  `config.json` cut; the next start ends in an exception.
* A console closed while the proxy is starting can leave the entries in the hosts file: the
  handler removes nothing yet, and `main` adds them before the process has ended.
* `COMMANDS.md:690-691` says that `/vendsafe` ensures that the price matches; it
  confirms whatever price the confirm dialog carries (`vendsafe_extension.hpp:325`).
* `logout_command.cpp:11` says that an *automatic* re-login is rejected; the code looks
  at the time only, and rejects the user's own login within 30 s if no automatic one came.
* `COMMANDS.md:849` says that `/dropall` drops all non-lock items; the code drops everything.
* `COMMANDS.md:462` says that `/dbglvis` loses no inventory; while `s_dropping` is set the
  parser answers a drop dialog without a count with "yes" (`parser_impl.hpp:1754-1777`).
* The farming design (`docs/superpowers/specs`, lines 90 and 93) has the automations stop on
  leaving a world; the code stops them on the next world's map data and on a disconnect.
* An unlocked Disconnect of the GUI makes `CloseReachesClient` fail: no event clears
  `Client::player_`, and Connect then says "Already connected" (`main.cpp:509`).

## What is left out

* The contents of packets, except where a property is about them: how the parser and
  the tracker rewrite them, filters, sizes, and the paths taken when a listener throws.
  Some forty listeners act on forty kinds of packets; a model of the order alone would
  hold by the shape of `core/core.cpp`, one of the contents would be of the code's size.
* What the proxy withholds from the server and why: Session has that it may (`Withhold`),
  not which packets.
* Memory lifetime: workers that hold a `Player*` while the main loop deletes it. The
  models identify Players by session, so a use of a stale one is visible as such in
  Session, but a worker's pointer is not modelled.
* The parser, `/doorbf`, `/run`, `/spam`, `/fish`, autosurgery, autocrime, item finder and
  join mode: one dialog or packet answered from itself, or a flag of its own; what is hard
  about them is the text or the game, not an order of steps.
* `/autocomp` (one exchange), the world logger (a log), player tracker, gems and visual
  items (mirrors for display), the pure algorithms (text, bytes, path finding: functions of
  their arguments that unit tests reach).
* Tiles of the world, and the layout of a map but for the section of the drops.
* Everything marked `not_modelled` in `PROJECT.json`, with the reason.
* Data races inside ENet other than on the sequence number and the outgoing list.

## Plan

The order in which the parts were taken: Session with Pairing, Automation, Redirect, Logout,
Vending, SendQueue, Inventory; then Process with Hosts, Drops, the drop commands as a kind
of Automation, one run for Session with and without the GUI's buttons; their proofs, and
those of Redirect and of the list; last the liveness of SendQueue, Inventory and Process,
and Channel.

What remains, in the order of its weight:

1. **Relay**: one packet through the listeners, prepended and appended, canceled, rewritten,
   or forwarded raw when a listener throws; abstract specification: at most one packet out
   for one in, in order. The jump packet, which parser and tracker both send, is the first
   thing to check there.
2. **Composition** of Drops with Inventory, so that a wrong credit meets the drop
   commands' check, and of Session with Redirect, which now share the choice of the target
   as a nondeterministic one in Session.
3. **A worker's `Player`**: the pointer fetched before a disconnect and used after it.
4. WorldLogger's player table, `/w1`, `/doorbf`.

## Running it

```
tlc -workers 2 -config Session.cfg MCSession      # and likewise for each run
tlapm SessionProofs.tla                           # and likewise for each *Proofs
```

`inventory` is the longest run (about a minute), then `drops` and `session`; the proofs
take a few minutes in all.
