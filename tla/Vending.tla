------------------------------- MODULE Vending -------------------------------
(***************************************************************************)
(* Buying from a vending machine.  The game server answers an opened       *)
(* machine with a buy dialog, a request with a confirm dialog or a talk    *)
(* bubble that refuses it, and sells on a confirmation.  Two extensions    *)
(* take these dialogs from the player: VendSafe, and VendFast in its buy   *)
(* mode.  VendSafe is also active while VendFast buys, and a dialog that   *)
(* one of them cancels still reaches the other.                            *)
(***************************************************************************)
EXTENDS Naturals, Sequences

CONSTANTS
  FastBuy,    \* the user makes use of /vendfast's buy mode
  MaxOpen,    \* bound: machines opened
  MaxToggle,  \* bound: mode changes
  MaxPrice,   \* bound: the owner's prices
  MaxRefusal  \* bound: requests the server refuses

ASSUME VendingAssumption ==
  /\ FastBuy \in BOOLEAN
  /\ MaxOpen \in Nat /\ MaxToggle \in Nat /\ MaxRefusal \in Nat
  /\ MaxPrice \in Nat \ {0}

VARIABLES
  safe,        \* s_enabled of /vendsafe
  fast,        \* g_buy_mode_enabled of /vendfast
  waiting,     \* waiting_confirm_
  last,        \* last_tilex_, ..., last_expectprice_: the request kept
  confirming,  \* s_confirming_buy
  resetting,   \* a thread sleeps its second before it resets it
  up,          \* messages on their way to the game server
  down,        \* dialogs and bubbles on their way to the proxy
  screen,      \* the dialog the player has before him
  price,       \* the owner's price
  done,        \* how often each bounded event happened
  answered,    \* buy dialogs that VendSafe answered
  verified,    \* confirm dialogs that VendSafe answered
  thrown       \* a confirm dialog has made VendFast throw

modes == <<safe, fast>>
confirmation == <<confirming, resetting>>
memory == <<waiting, last, confirmation>>
wires == <<up, down>>
tally == <<answered, verified, thrown>>
vars == <<modes, memory, wires, screen, price, done, tally>>

Opening == 1..MaxOpen
Price == 1..MaxPrice
Event == {"open", "toggle", "refuse"}

\* What the server sends.  Each names the opening it belongs to, and is whole
\* when it has the fields that the extensions read, or lacks them all.  An odd one
\* has them, but tells no stock to buy, or a count to confirm that is no number.
Form == {"whole", "odd", "lacking"}
Dialog == [kind: {"buy", "confirm", "bubble"}, for: Opening, price: Price, form: Form]
Message == [by: {"player", "VendFast", "VendSafe"}, kind: {"open", "request", "verify"},
            for: Opening, price: Price \cup {0}, count: {"all", "one"}]
Nothing == [kind |-> "none"]

TypeOK ==
  /\ safe \in BOOLEAN /\ fast \in BOOLEAN
  /\ waiting \in BOOLEAN /\ confirming \in BOOLEAN /\ resetting \in BOOLEAN
  /\ last \in Dialog \cup {Nothing}
  /\ waiting => last # Nothing
  /\ up \in Seq(Message) /\ down \in Seq(Dialog)
  /\ screen \in Dialog \cup {Nothing}
  /\ price \in Price
  /\ done \in [Event -> Nat]
  /\ answered \in Nat /\ verified \in Nat /\ thrown \in BOOLEAN

Init ==
  /\ safe = FALSE /\ fast = FALSE
  /\ waiting = FALSE /\ last = Nothing
  /\ confirming = FALSE /\ resetting = FALSE
  /\ up = <<>> /\ down = <<>>
  /\ screen = Nothing
  /\ price = 1
  /\ done = [e \in Event |-> 0]
  /\ answered = 0 /\ verified = 0 /\ thrown = FALSE

Happens(e, max) == done[e] < max /\ done' = [done EXCEPT ![e] = @ + 1]

-----------------------------------------------------------------------------
(* The two extensions, in the order in which a dialog reaches them         *)

Arrives(kind) == down # <<>> /\ Head(down).kind = kind /\ down' = Tail(down)

Writes(by, kind, d, count) ==
  <<[by |-> by, kind |-> kind, for |-> d.for, price |-> d.price, count |-> count]>>
Sends(first, second) == up' = up \o first \o second

\* is_active()
SafeActive == safe \/ fast

\* A buy dialog: both ask for what they want of it, VendFast for the stock, and
\* only if there is some.
SafeTakesBuy == SafeActive /\ Head(down).form # "lacking"
FastTakesBuy == fast /\ Head(down).form = "whole"

\* Mutant: the flag is set before the fields are looked for.
SetsWaitingEarly == waiting' = (waiting \/ SafeActive)

SetsWaiting == waiting' = (waiting \/ SafeTakesBuy)

BuyDialog ==
  /\ Arrives("buy")
  /\ Sends(IF FastTakesBuy THEN Writes("VendFast", "request", Head(down), "all") ELSE <<>>,
           IF SafeTakesBuy THEN Writes("VendSafe", "request", Head(down), "all") ELSE <<>>)
  /\ last' = IF SafeTakesBuy THEN Head(down) ELSE last
  /\ SetsWaiting
  /\ screen' = IF FastTakesBuy \/ SafeTakesBuy THEN screen ELSE Head(down)
  /\ answered' = IF SafeTakesBuy THEN answered + 1 ELSE answered
  /\ UNCHANGED <<modes, confirmation, price, done, verified, thrown>>

\* A confirm dialog.  VendFast answers one a second; VendSafe answers one after
\* each buy dialog of its own, and fills missing fields in from what it kept.
FastConfirms == fast /\ ~confirming /\ Head(down).form = "whole"

\* VendFast raises its flag before it converts the count, and the exception of a
\* count that is no number passes by all that would lower it again.
FastThrows == fast /\ ~confirming /\ Head(down).form = "odd"

\* Mutant: the dialog is canceled before its fields are looked for.
FastIgnoresIncomplete == fast /\ (confirming \/ Head(down).form = "lacking")

FastIgnores == fast /\ confirming
SafeConfirms == SafeActive /\ waiting
SafeReads == IF Head(down).form # "lacking" THEN Head(down) ELSE last

\* Mutant: the flag stays up.
KeepsWaiting == UNCHANGED waiting

ClearsWaiting == waiting' = (waiting /\ ~SafeActive)

ConfirmDialog ==
  /\ Arrives("confirm")
  /\ Sends(IF FastConfirms THEN Writes("VendFast", "verify", Head(down), "all") ELSE <<>>,
           IF SafeConfirms THEN Writes("VendSafe", "verify", SafeReads, "all") ELSE <<>>)
  /\ confirming' = (confirming \/ FastConfirms \/ FastThrows)
  /\ resetting' = (resetting \/ FastConfirms)
  /\ ClearsWaiting
  /\ screen' = IF FastConfirms \/ FastIgnores \/ SafeConfirms THEN screen ELSE Head(down)
  /\ verified' = IF SafeConfirms THEN verified + 1 ELSE verified
  /\ thrown' = (thrown \/ FastThrows)
  /\ UNCHANGED <<modes, last, price, done, answered>>

\* "can't hold that many locks": VendSafe asks for one, of the request it kept.
Bubble ==
  /\ Arrives("bubble")
  /\ Sends(IF SafeActive /\ last # Nothing THEN Writes("VendSafe", "request", last, "one")
           ELSE <<>>, <<>>)
  /\ UNCHANGED <<modes, memory, screen, price, done, tally>>

\* The thread that VendFast's confirmation left has slept its second.
ConfirmingEnds ==
  /\ resetting
  /\ confirming' = FALSE /\ resetting' = FALSE
  /\ UNCHANGED <<modes, waiting, last, wires, screen, price, done, tally>>

ToggleSafe ==
  /\ Happens("toggle", MaxToggle)
  /\ safe' = ~safe
  /\ UNCHANGED <<fast, memory, wires, screen, price, tally>>

ToggleFast ==
  /\ FastBuy
  /\ Happens("toggle", MaxToggle)
  /\ fast' = ~fast
  /\ UNCHANGED <<safe, memory, wires, screen, price, tally>>

-----------------------------------------------------------------------------
(* The player and the game server                                          *)

OpenMachine ==
  /\ screen = Nothing
  /\ Happens("open", MaxOpen)
  /\ up' = Append(up, [by |-> "player", kind |-> "open", for |-> done["open"] + 1,
                       price |-> 0, count |-> "all"])
  /\ UNCHANGED <<modes, memory, down, screen, price, tally>>

\* He answers the dialog he is shown, or closes it.
Answer ==
  /\ screen # Nothing
  /\ screen' = Nothing
  /\ \/ UNCHANGED up
     \/ Sends(Writes("player", IF screen.kind = "buy" THEN "request" ELSE "verify",
                     screen, "all"), <<>>)
  /\ UNCHANGED <<modes, memory, down, price, done, tally>>

Serves(kind) == up # <<>> /\ Head(up).kind = kind /\ up' = Tail(up)
Shows(kind, form) ==
  down' = Append(down, [kind |-> kind, for |-> Head(up).for, price |-> price, form |-> form])

ServeOpen ==
  /\ Serves("open")
  /\ \E form \in Form : Shows("buy", form)
  /\ UNCHANGED <<modes, memory, screen, price, done, tally>>

ServeRequest ==
  /\ Serves("request")
  /\ \E form \in Form : Shows("confirm", form)
  /\ UNCHANGED <<modes, memory, screen, price, done, tally>>

\* More than the player can carry the price of.
RefuseRequest ==
  /\ Serves("request")
  /\ Head(up).count = "all"
  /\ Happens("refuse", MaxRefusal)
  /\ Shows("bubble", "whole")
  /\ UNCHANGED <<modes, memory, screen, price, tally>>

ServeVerify ==
  /\ Serves("verify")
  /\ UNCHANGED <<modes, memory, down, screen, price, done, tally>>

PriceChanges ==
  /\ price < MaxPrice
  /\ price' = price + 1
  /\ UNCHANGED <<modes, memory, wires, screen, done, tally>>

-----------------------------------------------------------------------------
Extensions == BuyDialog \/ ConfirmDialog \/ Bubble \/ ConfirmingEnds \/ ToggleSafe \/ ToggleFast
Others == OpenMachine \/ Answer \/ ServeOpen \/ ServeRequest \/ RefuseRequest
            \/ ServeVerify \/ PriceChanges
Next == Extensions \/ Others
Spec == Init /\ [][Next]_vars

-----------------------------------------------------------------------------
(* Properties                                                              *)

\* VendSafe confirms a purchase at most once for each buy dialog it answered,
\* whatever is toggled, retried, refused or answered by hand in between; a flag
\* still up stands for a confirmation to come (waiting_confirm_).
ConfirmsWhatItAnswered ==
  verified + (IF waiting THEN 1 ELSE 0) <= answered

\* A dialog withheld from the player was answered for him in the same step.  The
\* exception is a confirm dialog that VendFast takes for a duplicate: within the
\* second after a confirmation of its own, or, once the count of a confirm dialog
\* was no number, at any time, because nothing lowers its flag any more.
Consumed == Len(down') < Len(down)
TakenForDuplicate == Head(down).kind = "confirm" /\ fast /\ (resetting \/ thrown)
WithheldIsAnswered ==
  [][Consumed /\ Head(down).kind # "bubble" /\ screen' # Head(down)
       => Len(up') > Len(up) \/ TakenForDuplicate]_vars

\* A dialog is answered once: an event that one listener has canceled is not
\* for the next one (eventpp's CanContinueInvoking, core.hpp:97).
AnsweredOnce == [][Len(up') <= Len(up) + 1]_vars

=============================================================================
