---------------------------- MODULE GateContract ----------------------------
(***************************************************************************)
(* What an approval gate promises: it gives one verdict per session, an    *)
(* answer that was offered to this session while the gate was there to     *)
(* hear it, or, without one, a refusal.                                    *)
(***************************************************************************)
CONSTANT Sessions

VARIABLES
  offered,  \* offered[s]: answers given to s while its gate was listening
  verdict   \* verdict[s]: what the gate has decided

Init ==
  /\ offered = [s \in Sessions |-> {}]
  /\ verdict = [s \in Sessions |-> "pending"]

Offer(s) ==
  /\ \E v \in {"granted", "denied"} : offered' = [offered EXCEPT ![s] = @ \union {v}]
  /\ UNCHANGED verdict

Resolve(s) ==
  /\ verdict[s] = "pending"
  /\ \E v \in offered[s] \union {"timeout"} : verdict' = [verdict EXCEPT ![s] = v]
  /\ UNCHANGED offered

Next == \E s \in Sessions : Offer(s) \/ Resolve(s)

Spec == Init /\ [][Next]_<<offered, verdict>>
=============================================================================
