------------------------------ MODULE MCNatsBus ------------------------------
(* Two subscriptions, in one process or in two; m1 is refused by w1. *)
EXTENDS NatsBus

CONSTANTS w1, w2, m1, m2

TwoWorkers == {w1, w2}
TwoMessages == {m1, m2}
AllOfThem == [w \in TwoWorkers |-> TwoMessages]
SecondOnly == [AllOfThem EXCEPT ![w2] = {m2}]
RejectFirst == [w \in TwoWorkers |-> {m1}]
=============================================================================
