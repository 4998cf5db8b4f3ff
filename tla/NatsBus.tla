------------------------------- MODULE NatsBus -------------------------------
(***************************************************************************)
(* NATSBus of internal/eventbus: Publish stores events in a JetStream      *)
(* stream, each Subscribe creates a durable consumer and a goroutine that  *)
(* fetches one event at a time, calls the handler and acknowledges.        *)
(*                                                                         *)
(* JetStream is external and modelled from its configuration: the stream   *)
(* is kept across restarts, a consumer hands out every matching event of   *)
(* the stream (DeliverAllPolicy), new ones in order, and hands out again   *)
(* what was refused or not acknowledged in time, up to MaxDeliver times.   *)
(* Any acknowledgement may be lost.                                        *)
(***************************************************************************)
EXTENDS Naturals, Sequences, FiniteSets

CONSTANTS
  Messages,       \* events, each with an ID of its own
  Workers,        \* calls of Subscribe; each names its consumer by the time
  Wanted,         \* Wanted[w]: the events whose subject matches w's filter
  Rejects,        \* Rejects[w]: those whose payload w's handler never accepts
  MaxDeliver, MaxAckPending,
  None

ASSUME NatsAssumption ==
  /\ Wanted \in [Workers -> SUBSET Messages]
  /\ Rejects \in [Workers -> SUBSET Messages]
  /\ MaxDeliver \in Nat \ {0}
  /\ MaxAckPending \in Nat \ {0}
  /\ None \notin Messages

VARIABLES
  open,       \* the connection has not been closed by Close
  stream,     \* the events stored, in order
  tried,      \* events for which Publish was called
  at,         \* where each subscription's goroutine is
  cur,        \* the event it works on
  cancelled,  \* subscriptions whose context is done
  sent,       \* sent[w][m]: how often the consumer has handed out m
  waiting,    \* waiting[w]: handed out, neither acknowledged nor refused
  acked,      \* acked[w]: acknowledged
  done        \* done[w]: events whose handler has returned nil (history)

vars == <<open, stream, tried, at, cur, cancelled, sent, waiting, acked, done>>
consumerVars == <<sent, waiting, acked>>

Places == {"new", "fetching", "handling", "acking", "naking", "stopped", "gone"}

Stored == {stream[k] : k \in DOMAIN stream}

Init ==
  /\ open = TRUE
  /\ stream = <<>>
  /\ tried = {}
  /\ at = [w \in Workers |-> "new"]
  /\ cur = [w \in Workers |-> None]
  /\ cancelled = {}
  /\ sent = [w \in Workers |-> [m \in Messages |-> 0]]
  /\ waiting = [w \in Workers |-> {}]
  /\ acked = [w \in Workers |-> {}]
  /\ done = [w \in Workers |-> {}]

Goto(w, place) == at' = [at EXCEPT ![w] = place]

(***************************************************************************)
(* js.Publish: the event is stored, or not.  The caller gets an error if   *)
(* not, and also if only the answer was lost.  Nobody publishes an event   *)
(* again, so the deduplication by ID has nothing to do.                    *)
(***************************************************************************)
Publish(m) ==
  /\ m \notin tried
  /\ tried' = tried \union {m}
  /\ \/ open /\ stream' = Append(stream, m)
     \/ UNCHANGED stream
  /\ UNCHANGED <<open, at, cur, cancelled, consumerVars, done>>

(* A consumer of its own, and the goroutine that serves it. *)
Subscribe(w) ==
  /\ at[w] = "new"
  /\ open
  /\ Goto(w, "fetching")
  /\ UNCHANGED <<open, stream, tried, cur, cancelled, consumerVars, done>>

(* New events come in the order of the stream, others when they are due. *)
InTurn(w, m) ==
  \/ sent[w][m] > 0
  \/ \E k \in DOMAIN stream :
       /\ stream[k] = m
       /\ \A j \in 1..(k - 1) : stream[j] \in Wanted[w] => sent[w][stream[j]] > 0

Due(w) == (Stored \intersect Wanted[w]) \ (waiting[w] \union acked[w])

(***************************************************************************)
(* consumer.Fetch(1).  Nothing here looks at the context: a cancelled      *)
(* subscription goes on fetching and handling.                             *)
(***************************************************************************)
Fetch(w) ==
  /\ at[w] = "fetching"
  /\ open
  /\ Cardinality(waiting[w]) < MaxAckPending
  /\ \E m \in Due(w) :
       /\ InTurn(w, m)
       /\ sent[w][m] < MaxDeliver
       /\ sent' = [sent EXCEPT ![w][m] = @ + 1]
       /\ waiting' = [waiting EXCEPT ![w] = @ \union {m}]
       /\ cur' = [cur EXCEPT ![w] = m]
  /\ Goto(w, "handling")
  /\ UNCHANGED <<open, stream, tried, cancelled, acked, done>>

(* Fetch returns an error: here, and only here, ctx.Done ends the loop. *)
FetchFails(w) ==
  /\ at[w] = "fetching"
  /\ w \in cancelled
  /\ Goto(w, "stopped")
  /\ UNCHANGED <<open, stream, tried, cur, cancelled, consumerVars, done>>

HandlerReturns(w) ==
  /\ at[w] = "handling"
  /\ cur[w] \notin Rejects[w]
  /\ done' = [done EXCEPT ![w] = @ \union {cur[w]}]
  /\ Goto(w, "acking")
  /\ UNCHANGED <<open, stream, tried, cur, cancelled, consumerVars>>

(* Slip: the error is logged and the event acknowledged all the same. *)
HandlerFailsAcked(w) ==
  /\ at[w] = "handling"
  /\ Goto(w, "acking")
  /\ UNCHANGED <<open, stream, tried, cur, cancelled, consumerVars, done>>

(* Slip: the goroutine calls the handler again instead of handing the event back. *)
HandlerFailsAgain(w) ==
  /\ at[w] = "handling"
  /\ UNCHANGED vars

(* The event cannot be decoded, or its handler returns an error. *)
HandlerFails(w) ==
  /\ at[w] = "handling"
  /\ Goto(w, "naking")
  /\ UNCHANGED <<open, stream, tried, cur, cancelled, consumerVars, done>>

(* msg.Ack; an error is only logged. *)
Ack(w) ==
  /\ at[w] = "acking"
  /\ \/ /\ open
        /\ acked' = [acked EXCEPT ![w] = @ \union {cur[w]}]
        /\ waiting' = [waiting EXCEPT ![w] = @ \ {cur[w]}]
     \/ UNCHANGED <<acked, waiting>>
  /\ cur' = [cur EXCEPT ![w] = None]
  /\ Goto(w, "fetching")
  /\ UNCHANGED <<open, stream, tried, cancelled, sent, done>>

(* msg.Nak asks for the event to come again at once. *)
Nak(w) ==
  /\ at[w] = "naking"
  /\ \/ open /\ waiting' = [waiting EXCEPT ![w] = @ \ {cur[w]}]
     \/ UNCHANGED waiting
  /\ cur' = [cur EXCEPT ![w] = None]
  /\ Goto(w, "fetching")
  /\ UNCHANGED <<open, stream, tried, cancelled, sent, acked, done>>

(* The server has waited AckWait for an answer about m. *)
AckWaitExpires(w, m) ==
  /\ m \in waiting[w]
  /\ waiting' = [waiting EXCEPT ![w] = @ \ {m}]
  /\ UNCHANGED <<open, stream, tried, at, cur, cancelled, sent, acked, done>>

(* The function Subscribe returned, or the caller's own context. *)
Cancel(w) ==
  /\ at[w] \notin {"new", "stopped", "gone"}
  /\ w \notin cancelled
  /\ cancelled' = cancelled \union {w}
  /\ UNCHANGED <<open, stream, tried, at, cur, consumerVars, done>>

Close ==
  /\ open
  /\ open' = FALSE
  /\ UNCHANGED <<stream, tried, at, cur, cancelled, consumerVars, done>>

(* The process ends, in order or not, and another one connects. *)
Restart ==
  /\ ~open \/ \E w \in Workers : at[w] \notin {"new", "gone"}
  /\ open' = TRUE
  /\ at' = [w \in Workers |-> IF at[w] = "new" THEN "new" ELSE "gone"]
  /\ cancelled' = {}
  /\ UNCHANGED <<stream, tried, cur, consumerVars, done>>

(* Every event was published and every subscription is of an old process. *)
Idle ==
  /\ tried = Messages
  /\ \A w \in Workers : at[w] = "gone"
  /\ UNCHANGED vars

Worker(w) ==
  Fetch(w) \/ HandlerReturns(w) \/ HandlerFails(w) \/ Ack(w) \/ Nak(w)

Server(w) == \E m \in Messages : AckWaitExpires(w, m)

Next ==
  \/ \E m \in Messages : Publish(m)
  \/ \E w \in Workers : Subscribe(w) \/ Worker(w) \/ FetchFails(w) \/ Cancel(w) \/ Server(w)
  \/ Close \/ Restart \/ Idle

Spec == Init /\ [][Next]_vars

(* Goroutines go on, handlers return and the server's timers expire. *)
FairSpec ==
  /\ Spec
  /\ \A w \in Workers : WF_vars(Worker(w)) /\ WF_vars(Server(w))

-----------------------------------------------------------------------------
(* Properties. *)

TypeOK ==
  /\ open \in BOOLEAN
  /\ stream \in Seq(Messages)
  /\ tried \subseteq Messages
  /\ at \in [Workers -> Places]
  /\ cur \in [Workers -> Messages \union {None}]
  /\ cancelled \subseteq Workers
  /\ sent \in [Workers -> [Messages -> 0..MaxDeliver]]
  /\ waiting \in [Workers -> SUBSET Messages]
  /\ acked \in [Workers -> SUBSET Messages]
  /\ done \in [Workers -> SUBSET Messages]

(* Deliveries are used up, and the last one has been dealt with. *)
Exhausted(w) ==
  {m \in Messages : sent[w][m] = MaxDeliver /\ m \notin waiting[w] /\ cur[w] # m}

(* What will not be handed out again. *)
Settled == [w \in Workers |-> acked[w] \union Exhausted(w)]

(***************************************************************************)
(* The bus keeps the promise of Delivery for every subscription, also for  *)
(* events stored before it and across restarts: an event comes back until  *)
(* its handler has succeeded or MaxDeliver attempts are used up, and never *)
(* after that, whichever acknowledgements are lost.                        *)
(***************************************************************************)
Promise ==
  INSTANCE Delivery WITH
    stored <- Stored,
    tries <- sent,
    handled <- done,
    settled <- Settled

DeliverySpec == Promise!Spec

(***************************************************************************)
(* An event that a live subscription wants is handled, or has failed       *)
(* MaxDeliver times; one that always fails does not keep the others from   *)
(* being handled.                                                          *)
(***************************************************************************)
EveryEventSettles ==
  \A w \in Workers, m \in Messages :
    m \in Stored \intersect Wanted[w] /\ at[w] \notin {"new", "stopped", "gone"}
      ~> \/ m \in done[w] \union Exhausted(w)
         \/ at[w] \in {"stopped", "gone"} \/ ~open
=============================================================================
