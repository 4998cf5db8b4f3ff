---------------------------- MODULE ApprovalGate ----------------------------
(***************************************************************************)
(* The approval gate over the in-memory bus: runAgent from the agent's     *)
(* output on, waitForApproval, and those who answer: the API's handlers,   *)
(* the Slack event loop and Discord's callbacks, who all publish on the    *)
(* session's subjects and call the gate's handlers themselves.             *)
(*                                                                         *)
(* A handler sends to respCh, which holds one answer: a sender blocks on a *)
(* full channel and panics when the channel is closed.                     *)
(***************************************************************************)
EXTENDS MemoryBus, AgentOutput

CONSTANTS
  Sessions,
  Answerers,   \* goroutines that answer; sessions publish, too
  Front,       \* Front[q]: "api", "slack" or "discord"
  Adapter,     \* Adapter[s]: the session's agent adapter
  Outputs      \* Outputs[s]: what the session's agent may print

Topic(s, v) == <<"foreman", "approval", s, v>>
Answers == {"granted", "denied"}
GateHandlers == Sessions \X Answers

ASSUME GateAssumption ==
  /\ Sessions \subseteq STRING \ {"*", ">"}
  /\ Publishers = Sessions \union Answerers /\ Sessions \intersect Answerers = {}
  /\ Front \in [Answerers -> {"api", "slack", "discord"}]
  /\ GateHandlers \subseteq Handlers
  /\ Exclusive = {Topic(s, v) : s \in Sessions, v \in Answers}
  /\ Exclusive \union {Topic(s, "request") : s \in Sessions} \subseteq SubjectNames

VARIABLES
  output,   \* the agent's output
  gate,     \* where the session's goroutine is
  respCh,   \* the channel: "empty", an answer, or "closed"
  verdict,  \* what waitForApproval has decided
  offered,  \* history: answers published while the gate had subscribed to them
  ended,    \* answerers whose goroutine has ended in a panic
  crashed   \* the process has

busVars == <<subs, state, pat, id, todo>>
gateVars == <<busVars, output, gate, respCh, verdict, offered, ended, crashed>>

Places == {"start", "requested", "half", "waiting", "resolved", "denyCancelled",
           "bothCancelled", "left", "unneeded"}

GateInit ==
  /\ Init
  /\ output \in {o \in [Sessions -> UNION {Outputs[s] : s \in Sessions}] :
                   \A s \in Sessions : o[s] \in Outputs[s]}
  /\ gate = [s \in Sessions |-> "start"]
  /\ respCh = [s \in Sessions |-> "empty"]
  /\ verdict = [s \in Sessions |-> "pending"]
  /\ offered = [s \in Sessions |-> {}]
  /\ ended = {}
  /\ crashed = FALSE

Goto(s, from, to) ==
  /\ gate[s] = from
  /\ gate' = [gate EXCEPT ![s] = to]
  /\ UNCHANGED <<output, offered, ended, crashed>>

-----------------------------------------------------------------------------
(* The session. *)

(* No policy matches: on to COMPLETED. *)
NoMatch(s) ==
  /\ Goto(s, "start", "unneeded")
  /\ checkPolicies(Adapter[s], output[s]) = {}
  /\ UNCHANGED <<busVars, respCh, verdict>>

(* publishApprovalRequest, before anybody listens for an answer. *)
RequestApproval(s) ==
  /\ Goto(s, "start", "requested")
  /\ checkPolicies(Adapter[s], output[s]) # {}
  /\ Publish(s, Topic(s, "request"))
  /\ UNCHANGED <<respCh, verdict>>

SubscribeGranted(s) ==
  /\ Goto(s, "requested", "half")
  /\ todo[s] = {}
  /\ Subscribe(<<s, "granted">>, Topic(s, "granted"))
  /\ UNCHANGED <<respCh, verdict>>

(* Slip: the second subscription is to the first one's subject. *)
SubscribeGrantedAgain(s) ==
  /\ Goto(s, "half", "waiting")
  /\ Subscribe(<<s, "denied">>, Topic(s, "granted"))
  /\ UNCHANGED <<respCh, verdict>>

(* A memory bus accepts every subscription: no early return. *)
SubscribeDenied(s) ==
  /\ Goto(s, "half", "waiting")
  /\ Subscribe(<<s, "denied">>, Topic(s, "denied"))
  /\ UNCHANGED <<respCh, verdict>>

Receive(s) ==
  /\ Goto(s, "waiting", "resolved")
  /\ respCh[s] \in Answers
  /\ verdict' = [verdict EXCEPT ![s] = respCh[s]]
  /\ respCh' = [respCh EXCEPT ![s] = "empty"]
  /\ UNCHANGED busVars

(* time.After or ctx.Done; select may prefer it to an answer in respCh. *)
TimesOut(s) ==
  /\ Goto(s, "waiting", "resolved")
  /\ verdict' = [verdict EXCEPT ![s] = "timeout"]
  /\ UNCHANGED <<busVars, respCh>>

(* The deferred calls, last one first. *)
CancelDenied(s) ==
  /\ Goto(s, "resolved", "denyCancelled")
  /\ Cancel(<<s, "denied">>)
  /\ UNCHANGED <<respCh, verdict>>

(* Slip: defer grantedCancel is missing. *)
CancelGrantedForgotten(s) ==
  /\ Goto(s, "denyCancelled", "bothCancelled")
  /\ UNCHANGED <<busVars, respCh, verdict>>

CancelGranted(s) ==
  /\ Goto(s, "denyCancelled", "bothCancelled")
  /\ Cancel(<<s, "granted">>)
  /\ UNCHANGED <<respCh, verdict>>

(* Slip: the channel is left to the garbage collector. *)
NoClose(s) ==
  /\ Goto(s, "bothCancelled", "left")
  /\ UNCHANGED <<busVars, respCh, verdict>>

CloseRespCh(s) ==
  /\ Goto(s, "bothCancelled", "left")
  /\ respCh' = [respCh EXCEPT ![s] = "closed"]
  /\ UNCHANGED <<busVars, verdict>>

Gate(s) ==
  \/ NoMatch(s) \/ RequestApproval(s) \/ SubscribeGranted(s) \/ SubscribeDenied(s)
  \/ Receive(s) \/ TimesOut(s)
  \/ CancelDenied(s) \/ CancelGranted(s) \/ CloseRespCh(s)

-----------------------------------------------------------------------------
(* Those who answer, and the handlers they call. *)

(***************************************************************************)
(* ApproveSession, DenySession and the plugins' buttons: no look at the    *)
(* session, an answer is accepted at any time and as often as it is given. *)
(***************************************************************************)
Answer(q, s, v) ==
  /\ q \notin ended
  /\ Publish(q, Topic(s, v))
  /\ offered' = [offered EXCEPT ![s] =
                   IF state[<<s, v>>] = "subscribed" THEN @ \union {v} ELSE @]
  /\ UNCHANGED <<output, gate, respCh, verdict, ended, crashed>>

(* Slip: both handlers send Approved. *)
SendApproved(q, s, v) ==
  /\ respCh[s] = "empty"
  /\ respCh' = [respCh EXCEPT ![s] = "granted"]
  /\ CallHandler(q, <<s, v>>)
  /\ UNCHANGED <<output, gate, verdict, offered, ended, crashed>>

(* The gate's handler, if the channel has room. *)
Send(q, s, v) ==
  /\ respCh[s] = "empty"
  /\ respCh' = [respCh EXCEPT ![s] = v]
  /\ CallHandler(q, <<s, v>>)
  /\ UNCHANGED <<output, gate, verdict, offered, ended, crashed>>

(***************************************************************************)
(* A send on the closed channel, also one that was blocked when it closed. *)
(* net/http recovers; Slack's loop recovers and ends; nothing recovers in  *)
(* Discord's callback.                                                     *)
(***************************************************************************)
SendPanics(q, s, v) ==
  /\ <<s, v>> \in todo[q]
  /\ respCh[s] = "closed"
  /\ HandlerPanics(q)
  /\ ended' = IF Front[q] = "slack" THEN ended \union {q} ELSE ended
  /\ crashed' = (Front[q] = "discord")
  /\ UNCHANGED <<output, gate, respCh, verdict, offered>>

(* A handler of somebody else's subscription. *)
CallOther(q) ==
  /\ \E h \in todo[q] \ GateHandlers : CallHandler(q, h)
  /\ UNCHANGED <<output, gate, respCh, verdict, offered, ended, crashed>>

Publisher(q) ==
  \/ CallOther(q)
  \/ \E h \in todo[q] \intersect GateHandlers : Send(q, h[1], h[2]) \/ SendPanics(q, h[1], h[2])

Others(h) ==
  /\ Cancel(h) \/ \E p \in Patterns \ Exclusive : Subscribe(h, p)
  /\ UNCHANGED <<output, gate, respCh, verdict, offered, ended, crashed>>

GateNext ==
  \/ /\ ~crashed
     /\ \/ \E s \in Sessions : Gate(s)
        \/ \E q \in Publishers : Publisher(q)
        \/ \E q \in Answerers, s \in Sessions, v \in Answers : Answer(q, s, v)
        \/ \E h \in Handlers \ GateHandlers : Others(h)
  \/ crashed /\ UNCHANGED gateVars

GateSpec == GateInit /\ [][GateNext]_gateVars

(* Goroutines that can go on do, timers expire, and handlers return. *)
FairGateSpec ==
  /\ GateSpec
  /\ \A s \in Sessions : WF_gateVars(~crashed /\ Gate(s))
  /\ \A q \in Publishers : WF_gateVars(~crashed /\ Publisher(q))

-----------------------------------------------------------------------------
(* Properties. *)

(***************************************************************************)
(* The gate and its neighbours use the bus as MemoryBus assumes: a session *)
(* never has two subscriptions to one of its subjects.                     *)
(***************************************************************************)
BusSpec == Spec

(***************************************************************************)
(* waitForApproval implements GateContract: its verdict is an answer that  *)
(* was given to its own session after it had subscribed, or a timeout, and *)
(* is never changed, whatever else is published and whoever else listens.  *)
(***************************************************************************)
Contract ==
  INSTANCE GateContract WITH
    Sessions <- Sessions, offered <- offered, verdict <- verdict

ContractSpec == Contract!Spec

(***************************************************************************)
(* Once respCh is closed, the bus has no handler left that sends to it:    *)
(* only a Publish that began before the gate was left can still panic.     *)
(***************************************************************************)
ClosedIsUnreachable ==
  \A s \in Sessions : respCh[s] = "closed" =>
    \A p \in Patterns, v \in Answers : <<s, v>> \notin In(subs[p])

(* The session goes on to COMPLETED. *)
Passed(s) == gate[s] = "unneeded" \/ (gate[s] = "left" /\ verdict[s] = "granted")

(***************************************************************************)
(* internal/policy: a session whose output holds a tool call that a policy *)
(* restricts, in a line that decodes and on fields the adapter keeps, gets *)
(* past the gate only with a granted answer.                               *)
(***************************************************************************)
RestrictedNeedsGrant ==
  \A s \in Sessions :
    (\E i \in DOMAIN output[s], j \in DOMAIN Policies :
        /\ Restricted(output[s][i], Policies[j])
        /\ Sees(Adapter[s], output[s][i], Policies[j]))
      => (Passed(s) => "granted" \in offered[s])

(***************************************************************************)
(* Whoever answers comes back: a sender that finds respCh full is woken by *)
(* the gate that reads it or closes it.                                    *)
(***************************************************************************)
AnswersReturn ==
  \A q \in Answerers : todo[q] # {} ~> todo[q] = {} \/ crashed
=============================================================================
