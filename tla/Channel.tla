------------------------------- MODULE Channel -------------------------------
(***************************************************************************)
(* What a reliable channel promises, without saying how: the packets put   *)
(* in come out once each and in the order they were put in.                *)
(***************************************************************************)
EXTENDS Naturals, Sequences

VARIABLES
  sent,  \* how many packets were put in; they are numbered from 1
  got    \* the packets that came out

cvars == <<sent, got>>

Init == sent = 0 /\ got = <<>>

Put == sent' = sent + 1 /\ UNCHANGED got

ComeOut ==
  /\ Len(got) < sent
  /\ got' = Append(got, Len(got) + 1)
  /\ UNCHANGED sent

Next == Put \/ ComeOut

Spec == Init /\ [][Next]_cvars
=============================================================================
