------------------------------- MODULE Redirect -------------------------------
(***************************************************************************)
(* How the proxy finds out where to dial for the game client.              *)
(*                                                                         *)
(* The real server directs the game client twice: the answer of            *)
(* server_data.php when it logs in, and OnSendToServer when it is moved to *)
(* a sub-server.  The proxy keeps the address and port for itself and      *)
(* directs the game client to its own server half instead; when the game   *)
(* client then connects, the Connection listeners dial what was kept and   *)
(* forget it.                                                              *)
(*                                                                         *)
(* server_data.php is answered by a thread of the HTTP server, which       *)
(* shares address_ and port_ with the main thread's listener without a     *)
(* lock; their accesses are steps of their own here.  OnSendToServer and   *)
(* its listener both run on the main thread.                               *)
(*                                                                         *)
(* Directives, of either kind, are numbered in the order the real server   *)
(* gives them.                                                             *)
(***************************************************************************)
EXTENDS Naturals

CONSTANT
  MaxDirective   \* bound: how often the game client is directed

ASSUME RedirectAssumption == MaxDirective \in Nat

VARIABLES
  webFirst,   \* the web server's listener runs before sub_server_switch's
  issued,     \* directives given so far
  switches,   \* those of them that were OnSendToServer
  http,       \* the HTTP thread: where it is in the handler, for which directive
  address,    \* WebServerExtension::address_: a directive's, or Unset, or Torn
  port,       \* WebServerExtension::port_: a directive's, or Unset
  sub,        \* SubServerSwitchExtension::address_ and port_
  listener,   \* the web listener: what it has left to forget
  gt,         \* what the game client is doing
  told,       \* the directive it follows
  slot,       \* the server host's slot: its state, and the directive it is for
  dialled,    \* address and port dialled for the connection in the slot
  abandoned   \* the game client has given up an attempt the proxy still serves

webTarget == <<address, port>>
gameClient == <<gt, told, abandoned>>
redirectVars ==
  <<webFirst, issued, switches, http, webTarget, sub, listener, gameClient, slot, dialled>>

Directives == 1..MaxDirective
Unset == 0
Torn == MaxDirective + 1        \* a string another thread is assigning to
Undialled == [address |-> Unset, port |-> Unset]

RedirectTypeOK ==
  /\ webFirst \in BOOLEAN
  /\ issued \in 0..MaxDirective
  /\ switches \subseteq Directives
  /\ http \in [at : {"idle", "request", "address", "assigning", "port"},
               for : 0..MaxDirective]
  /\ address \in Directives \cup {Unset, Torn}
  /\ port \in Directives \cup {Unset}
  /\ sub \in Directives \cup {Unset}
  /\ listener \in {"done", "address", "port"}
  /\ gt \in {"menu", "login", "directed", "asking", "playing"}
  /\ told \in 0..MaxDirective
  /\ slot \in [state : {"free", "asking", "session", "moved"}, for : 0..MaxDirective]
  /\ dialled \in [address : Directives \cup {Unset, Torn},
                  port : Directives \cup {Unset}]
  /\ abandoned \in BOOLEAN

\* The listeners' order is that of the extensions' init, which Core::run calls
\* in the order of an unordered_map.
RedirectInit ==
  /\ webFirst \in BOOLEAN
  /\ issued = 0
  /\ switches = {}
  /\ http = [at |-> "idle", for |-> 0]
  /\ address = Unset
  /\ port = Unset
  /\ sub = Unset
  /\ listener = "done"
  /\ gt = "menu"
  /\ told = 0
  /\ slot = [state |-> "free", for |-> 0]
  /\ dialled = Undialled
  /\ abandoned = FALSE

-----------------------------------------------------------------------------
(* The HTTP thread: the handler of server_data.php.                        *)

\* The game client turns to something else while the proxy still serves its
\* attempt to connect.
GivesUpAttempt == gt = "asking" \/ (gt = "playing" /\ listener # "done")

\* The game client logs in.  It sends one request at a time.
HttpRequest ==
  /\ http.at = "idle"
  /\ gt # "login"
  /\ http' = [at |-> "request", for |-> http.for]
  /\ abandoned' = (abandoned \/ GivesUpAttempt)
  /\ gt' = "login"
  /\ UNCHANGED <<issued, switches, webTarget, sub, listener, told, slot, dialled>>

HttpTo(from, to) == http.at = from /\ http' = [http EXCEPT !.at = to]

\* The real server cannot be reached, or its answer is refused: a 502.
HttpFails ==
  /\ HttpTo("request", "idle")
  /\ gt' = "menu"
  /\ UNCHANGED <<issued, switches, webTarget, sub, listener, told, abandoned, slot, dialled>>

\* The real server has answered with a directive.
HttpAnswered ==
  /\ http.at = "request"
  /\ issued < MaxDirective
  /\ issued' = issued + 1
  /\ http' = [at |-> "address", for |-> issued + 1]
  /\ UNCHANGED <<switches, webTarget, sub, listener, gameClient, slot, dialled>>

\* address_ is assigned; what the main thread finds there meanwhile is an empty
\* string or anything else.
HttpAddress ==
  \/ /\ HttpTo("address", "assigning")
     /\ address' \in {Unset, Torn}
     /\ UNCHANGED <<issued, switches, port, sub, listener, gameClient, slot, dialled>>
  \/ /\ HttpTo("assigning", "port")
     /\ address' = http.for
     /\ UNCHANGED <<issued, switches, port, sub, listener, gameClient, slot, dialled>>

\* Mutant: the game client is answered before port_ is stored.
HttpPortLate ==
  /\ http.at = "port"
  /\ IF gt = "login"
     THEN gt' = "directed" /\ told' = http.for /\ UNCHANGED <<http, port>>
     ELSE http' = [http EXCEPT !.at = "idle"] /\ port' = http.for
          /\ UNCHANGED <<gt, told>>
  /\ UNCHANGED <<issued, switches, address, sub, listener, abandoned, slot, dialled>>

\* port_ is stored and the game client directed to the proxy.
HttpPort ==
  /\ HttpTo("port", "idle")
  /\ port' = http.for
  /\ gt' = "directed"
  /\ told' = http.for
  /\ UNCHANGED <<issued, switches, address, sub, listener, abandoned, slot, dialled>>

\* Mutant: what cannot be parsed is stored.
HttpNoPortStored ==
  /\ HttpTo("port", "idle")
  /\ gt' = "menu"
  /\ port' = Torn
  /\ UNCHANGED <<issued, switches, address, sub, listener, told, abandoned, slot, dialled>>

\* The answer has no port, std::stoi throws: a 500, with address_ assigned.
HttpNoPort ==
  /\ HttpTo("port", "idle")
  /\ gt' = "menu"
  /\ UNCHANGED <<issued, switches, webTarget, sub, listener, told, abandoned, slot, dialled>>

-----------------------------------------------------------------------------
(* The game client                                                         *)

\* A directed game client connects as soon as the server host's slot is free.
GtAsks ==
  /\ gt = "directed"
  /\ slot.state = "free"
  /\ gt' = "asking"
  /\ slot' = [state |-> "asking", for |-> told]
  /\ UNCHANGED <<issued, switches, http, webTarget, sub, listener, told, abandoned, dialled>>

\* It gives up.  What the proxy has of it stays until ENet notices.
GtGivesUp ==
  /\ gt \in {"directed", "asking", "playing"}
  /\ gt' = "menu"
  /\ abandoned' = (abandoned \/ GivesUpAttempt)
  /\ UNCHANGED <<issued, switches, http, webTarget, sub, listener, told, slot, dialled>>

\* The connection ends, and the session with it: the game client has left it, or
\* is thrown out.
SlotFreed ==
  /\ listener = "done"
  /\ slot.state # "free"
  /\ slot' = [state |-> "free", for |-> 0]
  /\ dialled' = Undialled
  /\ gt' = IF gt \in {"asking", "playing"} THEN "menu" ELSE gt
  /\ UNCHANGED <<issued, switches, http, webTarget, sub, listener, told, abandoned>>

-----------------------------------------------------------------------------
(* The main thread                                                         *)

\* The listeners' guards.
WebHasTarget == address # Unset /\ port # Unset
SubHasTarget == sub # Unset

WebTarget == [address |-> address, port |-> port]
SubTarget == [address |-> sub, port |-> sub]

\* Mutant: a sub-server target is dialled before a newer login's.
DialledSubFirst ==
  IF SubHasTarget THEN SubTarget
  ELSE IF WebHasTarget THEN WebTarget ELSE Undialled

\* Every listener with a target calls Client::connect, for canceling the event
\* does not keep it from the other one; the first call takes the client host's
\* only slot.
Dialled ==
  IF WebHasTarget /\ (webFirst \/ ~SubHasTarget) THEN WebTarget
  ELSE IF SubHasTarget THEN SubTarget ELSE Undialled

\* The CONNECT event of the game client's connection.  Both listeners forget
\* their targets, whether or not it is theirs that was dialled; the web server's
\* does so in two steps that the HTTP thread may come between.
Connection ==
  /\ listener = "done"
  /\ slot.state = "asking"
  /\ slot' = [slot EXCEPT !.state = "session"]
  /\ gt' = IF gt = "asking" THEN "playing" ELSE gt
  /\ dialled' = Dialled
  /\ sub' = Unset
  /\ listener' = IF WebHasTarget THEN "address" ELSE "done"
  /\ UNCHANGED <<issued, switches, http, webTarget, told, abandoned>>

\* address_.clear() and then port_ = 65535, at the end of the listener.
ForgetAddress ==
  /\ listener = "address"
  /\ address' = Unset
  /\ listener' = "port"
  /\ UNCHANGED <<issued, switches, http, port, sub, gameClient, slot, dialled>>

ForgetPort ==
  /\ listener = "port"
  /\ port' = Unset
  /\ listener' = "done"
  /\ UNCHANGED <<issued, switches, http, address, sub, gameClient, slot, dialled>>

\* OnSendToServer arrives on the upstream connection of a session.  The real
\* server sends one per connection, as the last thing it says.
SendToServer ==
  /\ listener = "done"
  /\ slot.state = "session"
  /\ dialled # Undialled
  /\ issued < MaxDirective
  /\ issued' = issued + 1
  /\ switches' = switches \cup {issued + 1}
  /\ sub' = issued + 1
  /\ IF gt = "playing"
     THEN gt' = "directed" /\ told' = issued + 1
     ELSE UNCHANGED <<gt, told>>
  /\ slot' = [slot EXCEPT !.state = "moved"]
  /\ UNCHANGED <<http, webTarget, listener, abandoned, dialled>>

-----------------------------------------------------------------------------
HttpThread ==
  \/ HttpRequest
  \/ HttpFails
  \/ HttpAnswered
  \/ HttpAddress
  \/ HttpPort
  \/ HttpNoPort

GameClient == GtAsks \/ GtGivesUp \/ SlotFreed

MainThread == Connection \/ ForgetAddress \/ ForgetPort \/ SendToServer

RedirectNext == (HttpThread \/ GameClient \/ MainThread) /\ UNCHANGED webFirst

RedirectSpec == RedirectInit /\ [][RedirectNext]_redirectVars

-----------------------------------------------------------------------------
Follows(d) == dialled = [address |-> d, port |-> d]

\* The session a game client plays in was dialled to the directive it followed,
\* address and port both, or not dialled at all.  Otherwise it is an
\* OnSendToServer that the game client has not followed: a newer one where the
\* web server's listener is first and an attempt was given up, any where
\* sub_server_switch's is first.  It is never the answer to another login, nor a
\* mixture of two.
PlaysWhereDirected ==
  gt = "playing" =>
    \/ dialled = Undialled
    \/ Follows(told)
    \/ \E d \in switches \ {told} :
         Follows(d) /\ (webFirst => abandoned /\ d > told)

\* A session is left without a server to dial only if the listener was serving,
\* at some time before, an attempt that the game client had given up: the two
\* threads then write the target in an order nobody intended.
DirectiveIsKept == gt = "playing" /\ ~abandoned => dialled # Undialled

-----------------------------------------------------------------------------
(* What is inductive, and the properties with it (proved in LoginProofs)   *)

Told == gt \in {"directed", "asking"}
ByLogin == Told /\ told \notin switches
BySwitch == Told /\ told \in switches
Kept(d) == address = d /\ port = d

\* Directives are numbered as they are given.
Numbers ==
  /\ \A d \in switches : d <= issued
  /\ sub # Unset => sub \in switches
  /\ told <= issued /\ http.for <= issued
  /\ gt \in {"directed", "asking", "playing"} => told # Unset
  /\ http.at \in {"address", "assigning", "port"} => http.for # Unset /\ http.for \notin switches

\* The game client waits while the HTTP thread is at work.  A slot or a listener
\* that serves an attempt the client is not making serves one it has given up.
Places ==
  /\ gt # "login" <=> http.at = "idle"
  /\ gt = "asking" => slot.state = "asking"
  /\ gt = "playing" => slot.state = "session"
  /\ slot.state = "asking" /\ gt # "asking" => abandoned
  /\ listener # "done" /\ gt # "playing" => abandoned
  /\ listener # "done" => sub = Unset

\* The address is still there when the port comes, or the listener of an attempt
\* that was given up has forgotten it.
Answering ==
  http.at = "port" =>
    /\ address \in {Unset, http.for}
    /\ ~abandoned => address = http.for
    /\ sub # Unset => address = http.for \/ (abandoned /\ sub > http.for)

\* A client that a login directed finds its target, or what is left of it.
LoginKept ==
  ByLogin =>
    /\ address \in {Unset, told} /\ port \in {Unset, told}
    /\ ~abandoned => Kept(told)
    /\ sub # Unset => Kept(told) \/ (abandoned /\ sub > told)

\* A client that OnSendToServer directed finds its target and no other.
SwitchKept ==
  BySwitch => /\ sub = told /\ ~WebHasTarget /\ listener = "done"
              /\ gt = "directed" => slot.state \in {"moved", "free"}

\* The listener is through with forgetting before a session is moved.
Forgetting ==
  gt = "playing" =>
    /\ listener = "done" => ~WebHasTarget
    /\ listener = "port" => address = Unset

Target ==
  /\ Numbers /\ Places /\ Answering /\ LoginKept /\ SwitchKept /\ Forgetting
  /\ PlaysWhereDirected /\ DirectiveIsKept

=============================================================================
