---------------------------- MODULE VendingProofs ----------------------------
(***************************************************************************)
(* Proofs about Vending, for every number of machines, mode changes,       *)
(* prices and refusals.  The invariant is the type invariant, in two       *)
(* parts, with the budget: each buy dialog that VendSafe answers grants    *)
(* one confirmation, which waiting_confirm_ holds until it is used.        *)
(***************************************************************************)
EXTENDS Vending, TLAPS

FlagsOK ==
  /\ safe \in BOOLEAN /\ fast \in BOOLEAN /\ waiting \in BOOLEAN /\ confirming \in BOOLEAN
  /\ resetting \in BOOLEAN /\ thrown \in BOOLEAN
  /\ confirming => resetting \/ thrown

DataOK ==
  /\ last \in Dialog \cup {Nothing}
  /\ waiting => last # Nothing
  /\ up \in Seq(Message) /\ down \in Seq(Dialog)
  /\ screen \in Dialog \cup {Nothing}
  /\ price \in Price
  /\ done \in [Event -> Nat]
  /\ answered \in Nat /\ verified \in Nat

IInv == FlagsOK /\ DataOK /\ ConfirmsWhatItAnswered

USE VendingAssumption DEF VendingAssumption, Opening, Price, Event, IInv

\* What is taken from a queue leaves a queue.
LEMMA TakeFirst ==
  ASSUME NEW S, NEW q \in Seq(S), q # <<>>
  PROVE  Head(q) \in S /\ Tail(q) \in Seq(S) /\ Len(Tail(q)) = Len(q) - 1
OBVIOUS

\* A message about a dialog is a message.
LEMMA WritesMessage ==
  ASSUME NEW d \in Dialog, NEW by \in {"player", "VendFast", "VendSafe"},
         NEW kind \in {"request", "verify"}, NEW count \in {"all", "one"}
  PROVE  Writes(by, kind, d, count) \in Seq(Message)
<1>1. [by |-> by, kind |-> kind, for |-> d.for, price |-> d.price, count |-> count] \in Message
  BY DEF Message, Dialog
<1>2. QED
  BY <1>1 DEF Writes

\* Nothing said is a sequence of messages.
LEMMA EmptyIsSeq == <<>> \in Seq(Message)
OBVIOUS

\* Sending adds what is sent to the messages on their way.
LEMMA SendsMessages ==
  ASSUME NEW first \in Seq(Message), NEW second \in Seq(Message),
         up \in Seq(Message), Sends(first, second)
  PROVE  up' \in Seq(Message)
BY DEF Sends

\* Flags that stay as they are stay flags.
LEMMA FlagsKept ==
  ASSUME FlagsOK, UNCHANGED <<safe, fast, waiting, confirming, resetting, thrown>>
  PROVE  FlagsOK'
BY Zenon DEF FlagsOK

LEMMA InitIInv == Init => IInv
<1> SUFFICES ASSUME Init PROVE IInv
  OBVIOUS
<1>1. FlagsOK
  BY Zenon DEF FlagsOK, Init
<1>2. DataOK
  BY DEF DataOK, Init
<1>3. ConfirmsWhatItAnswered
  BY DEF ConfirmsWhatItAnswered, Init
<1>4. QED
  BY <1>1, <1>2, <1>3

LEMMA BuyIInv == IInv /\ BuyDialog => IInv'
<1> SUFFICES ASSUME IInv, BuyDialog PROVE IInv'
  OBVIOUS
<1> USE DEF BuyDialog, Arrives
<1>1. Head(down) \in Dialog /\ down' \in Seq(Dialog)
  BY TakeFirst DEF DataOK
<1>2. Head(down) # Nothing
  BY <1>1 DEF Dialog, Nothing
<1>3. up' \in Seq(Message)
  <2> DEFINE first == IF FastTakesBuy THEN Writes("VendFast", "request", Head(down), "all")
                      ELSE <<>>
             second == IF SafeTakesBuy THEN Writes("VendSafe", "request", Head(down), "all")
                       ELSE <<>>
  <2>1. first \in Seq(Message)
    <3>1. Writes("VendFast", "request", Head(down), "all") \in Seq(Message)
      BY <1>1, WritesMessage
    <3>2. QED
      BY <3>1, EmptyIsSeq, Zenon
  <2>2. second \in Seq(Message)
    <3>1. Writes("VendSafe", "request", Head(down), "all") \in Seq(Message)
      BY <1>1, WritesMessage
    <3>2. QED
      BY <3>1, EmptyIsSeq, Zenon
  <2>3. QED
    BY <2>1, <2>2, SendsMessages DEF DataOK
<1>4. FlagsOK'
  BY Zenon DEF FlagsOK, SetsWaiting, modes, confirmation
<1>5. screen' \in Dialog \cup {Nothing}
  <2>1. screen' = screen \/ screen' = Head(down)
    BY Zenon
  <2>2. QED
    BY <1>1, <2>1 DEF DataOK
<1>6. CASE SafeTakesBuy
  <2>1. last' = Head(down) /\ answered' = answered + 1 /\ verified' = verified
    BY <1>6, Zenon
  <2>2. DataOK'
    BY <1>1, <1>2, <1>3, <1>5, <2>1 DEF DataOK
  <2>3. ConfirmsWhatItAnswered'
    BY <2>1 DEF ConfirmsWhatItAnswered, DataOK
  <2>4. QED
    BY <1>4, <2>2, <2>3
<1>7. CASE ~SafeTakesBuy
  <2>1. last' = last /\ answered' = answered /\ verified' = verified
    BY <1>7, Zenon
  <2>2. waiting' = waiting
    BY <1>7, Zenon DEF SetsWaiting, FlagsOK
  <2>3. DataOK'
    BY <1>1, <1>3, <1>5, <2>1, <2>2 DEF DataOK
  <2>4. ConfirmsWhatItAnswered'
    BY <2>1, <2>2 DEF ConfirmsWhatItAnswered
  <2>5. QED
    BY <1>4, <2>3, <2>4
<1>8. QED
  BY <1>6, <1>7

LEMMA ConfirmIInv == IInv /\ ConfirmDialog => IInv'
<1> SUFFICES ASSUME IInv, ConfirmDialog PROVE IInv'
  OBVIOUS
<1> USE DEF ConfirmDialog, Arrives
<1>1. Head(down) \in Dialog /\ down' \in Seq(Dialog)
  BY TakeFirst DEF DataOK
<1>2. SafeConfirms => SafeReads \in Dialog
  BY <1>1 DEF SafeConfirms, SafeReads, DataOK
<1>3. up' \in Seq(Message)
  <2> DEFINE first == IF FastConfirms THEN Writes("VendFast", "verify", Head(down), "all")
                      ELSE <<>>
             second == IF SafeConfirms THEN Writes("VendSafe", "verify", SafeReads, "all")
                       ELSE <<>>
  <2>1. first \in Seq(Message)
    <3>1. Writes("VendFast", "verify", Head(down), "all") \in Seq(Message)
      BY <1>1, WritesMessage
    <3>2. QED
      BY <3>1, EmptyIsSeq, Zenon
  <2>2. second \in Seq(Message)
    <3>1. SafeConfirms => Writes("VendSafe", "verify", SafeReads, "all") \in Seq(Message)
      BY <1>2, WritesMessage
    <3>2. QED
      BY <3>1, EmptyIsSeq, Zenon
  <2>3. QED
    BY <2>1, <2>2, SendsMessages DEF DataOK
<1>4. FlagsOK'
  BY Zenon DEF FlagsOK, ClearsWaiting, modes
<1>6. screen' \in Dialog \cup {Nothing}
  <2>1. screen' = screen \/ screen' = Head(down)
    BY Zenon
  <2>2. QED
    BY <1>1, <2>1 DEF DataOK
<1>7. waiting' => waiting
  BY Zenon DEF ClearsWaiting
<1>8. CASE SafeConfirms
  <2>1. waiting /\ ~waiting' /\ verified' = verified + 1 /\ answered' = answered
    BY <1>8, Zenon DEF SafeConfirms, ClearsWaiting
  <2>2. DataOK'
    BY <1>1, <1>3, <1>6, <1>7, <2>1 DEF DataOK
  <2>3. ConfirmsWhatItAnswered'
    BY <2>1 DEF ConfirmsWhatItAnswered, DataOK
  <2>4. QED
    BY <1>4, <2>2, <2>3
<1>9. CASE ~SafeConfirms
  <2>1. verified' = verified /\ answered' = answered
    BY <1>9, Zenon
  <2>2. DataOK'
    BY <1>1, <1>3, <1>6, <1>7, <2>1 DEF DataOK
  <2>3. ConfirmsWhatItAnswered'
    BY <1>7, <2>1 DEF ConfirmsWhatItAnswered, DataOK
  <2>4. QED
    BY <1>4, <2>2, <2>3
<1>10. QED
  BY <1>8, <1>9

LEMMA BubbleIInv == IInv /\ Bubble => IInv'
<1> SUFFICES ASSUME IInv, Bubble PROVE IInv'
  OBVIOUS
<1> USE DEF Bubble, Arrives
<1>1. up' \in Seq(Message)
  <2> DEFINE first == IF SafeActive /\ last # Nothing
                      THEN Writes("VendSafe", "request", last, "one") ELSE <<>>
  <2>1. last # Nothing => Writes("VendSafe", "request", last, "one") \in Seq(Message)
    BY WritesMessage DEF DataOK
  <2>2. first \in Seq(Message)
    BY <2>1, EmptyIsSeq, Zenon
  <2>3. QED
    BY <2>2, EmptyIsSeq, SendsMessages DEF DataOK
<1>2. UNCHANGED <<safe, fast, waiting, last, confirming, resetting, screen, price, done,
                  answered, verified, thrown>>
  BY DEF modes, memory, confirmation, tally
<1>3. FlagsOK'
  BY <1>2, FlagsKept
<1>4. DataOK'
  BY <1>1, <1>2, TakeFirst DEF DataOK
<1>5. ConfirmsWhatItAnswered'
  BY <1>2 DEF ConfirmsWhatItAnswered
<1>6. QED
  BY <1>3, <1>4, <1>5

\* The modes, and the thread that resets s_confirming_buy.
LEMMA ModesIInv == IInv /\ (ConfirmingEnds \/ ToggleSafe \/ ToggleFast) => IInv'
<1> SUFFICES ASSUME IInv, ConfirmingEnds \/ ToggleSafe \/ ToggleFast PROVE IInv'
  OBVIOUS
<1> USE DEF ConfirmingEnds, ToggleSafe, ToggleFast, Happens
<1>1. UNCHANGED <<waiting, last, up, down, screen, price, answered, verified, thrown>>
  BY DEF memory, confirmation, wires, tally
<1>2. FlagsOK'
  <2>1. CASE ConfirmingEnds
    <3>1. UNCHANGED <<safe, fast, waiting, thrown>> /\ confirming' = FALSE /\ resetting' = FALSE
      BY <2>1 DEF modes, tally
    <3>2. QED
      BY <3>1, Zenon DEF FlagsOK
  <2>2. CASE ToggleSafe
    <3>1. UNCHANGED <<fast, waiting, confirming, resetting, thrown>> /\ safe' = ~safe
      BY <2>2, Zenon DEF memory, confirmation, tally
    <3>2. QED
      BY <3>1, Zenon DEF FlagsOK
  <2>3. CASE ToggleFast
    <3>1. UNCHANGED <<safe, waiting, confirming, resetting, thrown>> /\ fast' = ~fast
      BY <2>3, Zenon DEF memory, confirmation, tally
    <3>2. QED
      BY <3>1, Zenon DEF FlagsOK
  <2>4. QED
    BY <2>1, <2>2, <2>3
<1>3. done' \in [Event -> Nat]
  BY DEF DataOK
<1>4. DataOK'
  BY <1>1, <1>3 DEF DataOK
<1>5. ConfirmsWhatItAnswered'
  BY <1>1 DEF ConfirmsWhatItAnswered
<1>6. QED
  BY <1>2, <1>4, <1>5

\* The player and the server leave VendSafe and VendFast alone: it is enough
\* that they write messages and dialogs.
LEMMA OthersIInv == IInv /\ Others => IInv'
<1> SUFFICES ASSUME IInv, Others PROVE IInv'
  OBVIOUS
<1> USE DEF OpenMachine, Answer, ServeOpen, ServeRequest, RefuseRequest, ServeVerify,
            PriceChanges, Happens
<1>1. UNCHANGED <<safe, fast, waiting, last, confirming, resetting, answered, verified, thrown>>
  BY DEF Others, modes, memory, confirmation, tally
<1>2. FlagsOK' /\ ConfirmsWhatItAnswered'
  BY <1>1, FlagsKept DEF ConfirmsWhatItAnswered
<1>3. price' \in Price
  <2>1. \/ price' = price
        \/ price < MaxPrice /\ price' = price + 1
    BY DEF Others
  <2>2. QED
    BY <2>1 DEF DataOK
<1>4. done' \in [Event -> Nat]
  <2>1. \/ done' = done
        \/ \E e \in Event : done' = [done EXCEPT ![e] = @ + 1]
    BY DEF Others
  <2>2. QED
    BY <2>1 DEF DataOK
<1>5. screen' \in Dialog \cup {Nothing}
  <2>1. screen' = screen \/ screen' = Nothing
    BY DEF Others
  <2>2. QED
    BY <2>1 DEF DataOK
<1>6. ASSUME NEW kind \in {"open", "request", "verify"}, Serves(kind)
      PROVE  Head(up) \in Message /\ up' \in Seq(Message)
  BY <1>6, TakeFirst DEF Serves, DataOK
<1>7. ASSUME NEW kind \in {"buy", "confirm", "bubble"}, NEW form \in Form,
             Head(up) \in Message, Shows(kind, form)
      PROVE  down' \in Seq(Dialog)
  <2>1. [kind |-> kind, for |-> Head(up).for, price |-> price, form |-> form] \in Dialog
    BY <1>7 DEF Message, Dialog, DataOK
  <2>2. QED
    BY <1>7, <2>1 DEF Shows, DataOK
<1>8. up' \in Seq(Message) /\ down' \in Seq(Dialog)
  <2>1. CASE OpenMachine
    <3>1. [by |-> "player", kind |-> "open", for |-> done["open"] + 1,
           price |-> 0, count |-> "all"] \in Message
      BY <2>1 DEF Message, DataOK
    <3>2. QED
      BY <2>1, <3>1 DEF DataOK
  <2>2. CASE Answer
    <3> DEFINE first == Writes("player", IF screen.kind = "buy" THEN "request" ELSE "verify",
                               screen, "all")
    <3>1. first \in Seq(Message)
      BY <2>2, WritesMessage DEF DataOK
    <3>2. CASE UNCHANGED up
      BY <2>2, <3>2 DEF DataOK, modes
    <3>3. CASE Sends(first, <<>>)
      <4>1. up' \in Seq(Message)
        BY <3>1, <3>3, EmptyIsSeq, SendsMessages DEF DataOK
      <4>2. QED
        BY <2>2, <4>1 DEF DataOK
    <3>4. QED
      BY <2>2, <3>2, <3>3
  <2>3. CASE ServeOpen \/ ServeRequest \/ RefuseRequest
    <3>1. up' \in Seq(Message) /\ Head(up) \in Message
      BY <2>3, <1>6
    <3>2. "whole" \in Form
      BY DEF Form
    <3>3. QED
      BY <2>3, <1>7, <3>1, <3>2
  <2>4. CASE ServeVerify
    BY <2>4, <1>6 DEF DataOK
  <2>5. CASE PriceChanges
    BY <2>5 DEF DataOK, wires
  <2>6. QED
    BY <2>1, <2>2, <2>3, <2>4, <2>5 DEF Others
<1>9. DataOK'
  BY <1>1, <1>3, <1>4, <1>5, <1>8 DEF DataOK
<1>10. QED
  BY <1>2, <1>9

LEMMA SpecIInv == Spec => []IInv
<1>1. IInv /\ UNCHANGED vars => IInv'
  <2> SUFFICES ASSUME IInv, UNCHANGED vars PROVE IInv'
    OBVIOUS
  <2>1. UNCHANGED <<safe, fast, waiting, last, confirming, resetting, up, down, screen,
                    price, done, answered, verified, thrown>>
    BY DEF vars, modes, memory, confirmation, wires, tally
  <2>2. QED
    BY <2>1, FlagsKept DEF DataOK, ConfirmsWhatItAnswered
<1>2. IInv /\ [Next]_vars => IInv'
  BY <1>1, BuyIInv, ConfirmIInv, BubbleIInv, ModesIInv, OthersIInv, Zenon DEF Next, Extensions
<1>3. QED
  BY InitIInv, <1>2, PTL DEF Spec

\* Every variable keeps its type; in particular VendSafe waits for a confirm
\* dialog only while it keeps a request to fill missing fields in from.
THEOREM TypeCorrect == Spec => []TypeOK
<1>1. IInv => TypeOK
  BY DEF FlagsOK, DataOK, TypeOK
<1>2. QED
  BY SpecIInv, <1>1, PTL

\* VendSafe confirms at most one purchase for each buy dialog it answered.
THEOREM OneConfirmEach == Spec => []ConfirmsWhatItAnswered
<1>1. IInv => ConfirmsWhatItAnswered
  OBVIOUS
<1>2. QED
  BY SpecIInv, <1>1, PTL

\* A dialog the player does not get to see has an answer on its way to the server,
\* or is a confirm dialog within VendFast's second, or after one at which VendFast
\* threw: otherwise neither extension takes one it cannot answer.
THEOREM NoneSwallowed == Spec => WithheldIsAnswered
<1> DEFINE Kept == Consumed /\ Head(down).kind # "bubble" /\ screen' # Head(down)
                     => Len(up') > Len(up) \/ TakenForDuplicate
<1>1. \A first, second \in Seq(Message) :
        IInv /\ Sends(first, second) => Len(up') = Len(up) + Len(first) + Len(second)
  BY DEF Sends, DataOK
<1>2. IInv /\ [Next]_vars => [Kept]_vars
  <2> SUFFICES ASSUME IInv, Next, Consumed, Head(down).kind # "bubble", screen' # Head(down)
               PROVE  Len(up') > Len(up) \/ TakenForDuplicate
    BY DEF Kept
  <2>1. Len(up) \in Nat /\ Len(<<>>) = 0
    BY DEF DataOK
  <2>2. ASSUME down # <<>>, NEW by \in {"VendFast", "VendSafe"},
               NEW kind \in {"request", "verify"}, NEW d \in Dialog
        PROVE  Writes(by, kind, d, "all") \in Seq(Message) /\ Len(Writes(by, kind, d, "all")) = 1
    BY WritesMessage DEF Writes
  <2>3. CASE BuyDialog
    <3> DEFINE first == IF FastTakesBuy THEN Writes("VendFast", "request", Head(down), "all")
                        ELSE <<>>
               second == IF SafeTakesBuy THEN Writes("VendSafe", "request", Head(down), "all")
                         ELSE <<>>
    <3>1. down # <<>> /\ Head(down) \in Dialog
      BY <2>3, TakeFirst DEF BuyDialog, Arrives, DataOK
    <3>2. first \in Seq(Message) /\ second \in Seq(Message)
      BY <2>2, <3>1, EmptyIsSeq
    <3>3. Len(first) \in Nat /\ Len(second) \in Nat
      BY <3>2
    <3>4. FastTakesBuy \/ SafeTakesBuy
      BY <2>3 DEF BuyDialog
    <3>5. Len(first) >= 1 \/ Len(second) >= 1
      BY <2>2, <3>1, <3>4
    <3>6. Sends(first, second)
      BY <2>3 DEF BuyDialog
    <3>7. Len(up') = Len(up) + Len(first) + Len(second)
      BY <1>1, <3>2, <3>6
    <3> HIDE DEF first, second
    <3> QED
      BY <2>1, <3>3, <3>5, <3>7
  <2>4. CASE ConfirmDialog
    <3> DEFINE first == IF FastConfirms THEN Writes("VendFast", "verify", Head(down), "all")
                        ELSE <<>>
               second == IF SafeConfirms THEN Writes("VendSafe", "verify", SafeReads, "all")
                         ELSE <<>>
    <3>1. down # <<>> /\ Head(down) \in Dialog
      BY <2>4, TakeFirst DEF ConfirmDialog, Arrives, DataOK
    <3>2. SafeConfirms => SafeReads \in Dialog
      BY <3>1 DEF SafeConfirms, SafeReads, DataOK
    <3>3. first \in Seq(Message) /\ second \in Seq(Message)
      BY <2>2, <3>1, <3>2, EmptyIsSeq
    <3>4. Len(first) \in Nat /\ Len(second) \in Nat
      BY <3>3
    <3>5. FastConfirms \/ SafeConfirms \/ TakenForDuplicate
      BY <2>4, Zenon DEF ConfirmDialog, Arrives, FastIgnores, FlagsOK, TakenForDuplicate
    <3>6. /\ FastConfirms => Len(first) = 1
          /\ SafeConfirms => Len(second) = 1
      BY <2>2, <3>1, <3>2
    <3>7. Sends(first, second)
      BY <2>4 DEF ConfirmDialog
    <3>8. Len(up') = Len(up) + Len(first) + Len(second)
      BY <1>1, <3>3, <3>7
    <3> HIDE DEF first, second
    <3>9. CASE FastConfirms
      BY <2>1, <3>4, <3>6, <3>8, <3>9
    <3>10. CASE SafeConfirms
      BY <2>1, <3>4, <3>6, <3>8, <3>10
    <3> QED
      BY <3>5, <3>9, <3>10
  <2>5. CASE Bubble
    BY <2>5 DEF Bubble, Arrives
  <2>6. ASSUME ~BuyDialog, ~ConfirmDialog, ~Bubble
        PROVE  FALSE
    <3>1. CASE down' = down
      BY <3>1 DEF Consumed, DataOK
    <3>2. ASSUME NEW kind, NEW form, Shows(kind, form)
          PROVE  Len(down') = Len(down) + 1
      BY <3>2 DEF Shows, DataOK
    <3>3. down' = down \/ \E kind, form : Shows(kind, form)
      BY <2>6 DEF Next, Extensions, Others, ConfirmingEnds, ToggleSafe, ToggleFast, OpenMachine,
         Answer, ServeOpen, ServeRequest, RefuseRequest, ServeVerify, PriceChanges, wires, memory
    <3> QED
      BY <3>1, <3>2, <3>3 DEF Consumed, DataOK
  <2> QED
    BY <2>3, <2>4, <2>5, <2>6
<1> QED
  BY SpecIInv, <1>2, PTL DEF Spec, WithheldIsAnswered, Kept

-----------------------------------------------------------------------------
\* One message, or none.
LEMMA AtMostOne ==
  ASSUME NEW c \in BOOLEAN, NEW d, c => d \in Dialog,
         NEW by \in {"player", "VendFast", "VendSafe"},
         NEW kind \in {"request", "verify"}, NEW count \in {"all", "one"}
  PROVE  LET m == IF c THEN Writes(by, kind, d, count) ELSE <<>>
         IN  m \in Seq(Message) /\ Len(m) <= 1
<1> DEFINE w == Writes(by, kind, d, count)
<1>1. c => w \in Seq(Message)
  BY WritesMessage
<1>2. Len(w) <= 1
  BY DEF Writes
<1>3. Len(<<>>) <= 1
  OBVIOUS
<1> HIDE DEF w
<1>4. /\ (IF c THEN w ELSE <<>>) \in Seq(Message)
      /\ Len(IF c THEN w ELSE <<>>) <= 1
  BY <1>1, <1>2, <1>3, EmptyIsSeq, Zenon
<1> USE DEF w
<1>5. QED
  BY <1>4, Zenon

LEMMA SendsAtMostOne ==
  ASSUME NEW m \in Seq(Message), Len(m) <= 1, up \in Seq(Message),
         Sends(<<>>, m) \/ Sends(m, <<>>)
  PROVE  Len(up') <= Len(up) + 1
<1>1. Len(up') = Len(up) + Len(m)
  BY DEF Sends
<1>2. QED
  BY <1>1

\* Without VendFast's buy mode a dialog is answered once: what is answered twice
\* is answered by both extensions, and VendFast's mode switches both of them on.
THEOREM SafeAloneAnswersOnce == ASSUME FastBuy = FALSE PROVE Spec => AnsweredOnce
<1> DEFINE One == Len(up') <= Len(up) + 1
<1>3. Init => ~fast
  BY DEF Init
<1>4. ~fast /\ [Next]_vars => ~fast'
  BY DEF Next, Extensions, Others, BuyDialog, ConfirmDialog, Bubble, ConfirmingEnds,
     ToggleSafe, ToggleFast, OpenMachine, Answer, ServeOpen, ServeRequest, RefuseRequest,
     ServeVerify, PriceChanges, modes, vars
<1>5. IInv /\ ~fast /\ [Next]_vars => [One]_vars
  <2> SUFFICES ASSUME IInv, ~fast, Next PROVE One
    OBVIOUS
  <2>1. up \in Seq(Message) /\ Len(up) \in Nat
    BY DEF DataOK
  <2>2. CASE BuyDialog
    <3> DEFINE m == IF SafeTakesBuy THEN Writes("VendSafe", "request", Head(down), "all")
                    ELSE <<>>
    <3>1. Head(down) \in Dialog /\ SafeTakesBuy \in BOOLEAN
      BY <2>2, TakeFirst DEF BuyDialog, Arrives, DataOK, Dialog, FlagsOK, SafeTakesBuy, SafeActive
    <3>2. Sends(<<>>, m)
      BY <2>2, Zenon DEF BuyDialog, FastTakesBuy
    <3> HIDE DEF m
    <3>3. m \in Seq(Message) /\ Len(m) <= 1
      BY <3>1, AtMostOne DEF m
    <3> QED
      BY <2>1, <3>2, <3>3, SendsAtMostOne
  <2>3. CASE ConfirmDialog
    <3> DEFINE m == IF SafeConfirms THEN Writes("VendSafe", "verify", SafeReads, "all") ELSE <<>>
    <3>1. (SafeConfirms => SafeReads \in Dialog) /\ SafeConfirms \in BOOLEAN
      BY <2>3, TakeFirst DEF ConfirmDialog, Arrives, SafeConfirms, SafeReads, DataOK
    <3>2. Sends(<<>>, m)
      BY <2>3, Zenon DEF ConfirmDialog, FastConfirms
    <3> HIDE DEF m
    <3>3. m \in Seq(Message) /\ Len(m) <= 1
      BY <3>1, AtMostOne DEF m
    <3> QED
      BY <2>1, <3>2, <3>3, SendsAtMostOne
  <2>4. CASE Bubble
    <3> DEFINE m == IF SafeActive /\ last # Nothing
                    THEN Writes("VendSafe", "request", last, "one") ELSE <<>>
    <3>1. /\ (SafeActive /\ last # Nothing) \in BOOLEAN
          /\ SafeActive /\ last # Nothing => last \in Dialog
      BY DEF DataOK
    <3>2. Sends(m, <<>>)
      BY <2>4 DEF Bubble
    <3> HIDE DEF m
    <3>3. m \in Seq(Message) /\ Len(m) <= 1
      BY <3>1, AtMostOne DEF m
    <3> QED
      BY <2>1, <3>2, <3>3, SendsAtMostOne
  <2>5. CASE Answer
    <3> DEFINE kind == IF screen.kind = "buy" THEN "request" ELSE "verify"
               m == Writes("player", kind, screen, "all")
    <3>1. screen \in Dialog /\ kind \in {"request", "verify"}
      BY <2>5 DEF Answer, DataOK
    <3>2. up' = up \/ Sends(m, <<>>)
      BY <2>5 DEF Answer
    <3> HIDE DEF m, kind
    <3>3. m \in Seq(Message) /\ Len(m) <= 1
      BY <3>1, AtMostOne DEF m
    <3> QED
      BY <2>1, <3>2, <3>3, SendsAtMostOne
  <2>6. CASE OpenMachine
    <3>1. PICK m : up' = Append(up, m)
      BY <2>6 DEF OpenMachine
    <3> QED
      BY <2>1, <3>1
  <2>7. CASE ServeOpen \/ ServeRequest \/ RefuseRequest \/ ServeVerify
    <3>1. up # <<>> /\ up' = Tail(up)
      BY <2>7 DEF ServeOpen, ServeRequest, RefuseRequest, ServeVerify, Serves
    <3> QED
      BY <2>1, <3>1
  <2>8. CASE ConfirmingEnds \/ ToggleSafe \/ ToggleFast \/ PriceChanges
    <3>1. up' = up
      BY <2>8 DEF ConfirmingEnds, ToggleSafe, ToggleFast, PriceChanges, wires
    <3> QED
      BY <2>1, <3>1
  <2>9. QED
    BY <2>2, <2>3, <2>4, <2>5, <2>6, <2>7, <2>8, Zenon DEF Next, Extensions, Others
<1>6. QED
  BY SpecIInv, <1>3, <1>4, <1>5, PTL DEF Spec, AnsweredOnce, One
=============================================================================
