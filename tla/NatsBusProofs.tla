---------------------------- MODULE NatsBusProofs ----------------------------
(***************************************************************************)
(* For any events, subscriptions and limits: NatsBus implements Delivery,  *)
(* hands out new events in the order of the stream, acknowledges only what *)
(* was handled, and never gets stuck behind an event that fails.           *)
(***************************************************************************)
EXTENDS NatsBus, FiniteSetTheorems, WellFoundedInduction, TLAPS

(* The goroutine's event was handed out to it and is not acknowledged. *)
Current(w) ==
  /\ at[w] \in {"new", "fetching"} => cur[w] = None
  /\ at[w] \in {"handling", "acking", "naking"} => cur[w] # None
  /\ at[w] = "acking" => cur[w] \in done[w]
  /\ cur[w] # None => cur[w] \notin acked[w] /\ sent[w][cur[w]] > 0

IInv ==
  /\ TypeOK
  /\ Stored \subseteq tried
  /\ \A w \in Workers : Current(w)

IsSettled(w, m) ==
  m \in acked[w] \/ (sent[w][m] = MaxDeliver /\ m \notin waiting[w] /\ cur[w] # m)

-----------------------------------------------------------------------------
(* An appended event is the only new one. *)
LEMMA AppendStored ==
  ASSUME NEW s \in Seq(Messages), NEW m \in Messages
  PROVE  {Append(s, m)[k] : k \in DOMAIN Append(s, m)} = {s[k] : k \in DOMAIN s} \union {m}
<1> DEFINE longer == Append(s, m)
<1>1. /\ DOMAIN longer = 1..(Len(s) + 1)
      /\ longer[Len(s) + 1] = m
      /\ \A k \in 1..Len(s) : longer[k] = s[k]
  OBVIOUS
<1>2. DOMAIN s = 1..Len(s) /\ Len(s) \in Nat
  OBVIOUS
<1> HIDE DEF longer
<1>3. {longer[k] : k \in DOMAIN longer} \subseteq {s[k] : k \in DOMAIN s} \union {m}
  BY <1>1, <1>2
<1>4. {s[k] : k \in DOMAIN s} \subseteq {longer[k] : k \in DOMAIN longer}
  BY <1>1, <1>2
<1>5. m \in {longer[k] : k \in DOMAIN longer}
  BY <1>1, <1>2
<1> QED BY <1>3, <1>4, <1>5 DEF longer

(* Stored events are events. *)
LEMMA StoredTyped == TypeOK => Stored \subseteq Messages
BY DEF TypeOK, Stored

(* A step of one goroutine leaves the others' invariant alone. *)
LEMMA OthersUnmoved ==
  ASSUME NEW w \in Workers, NEW v \in Workers, v # w, Current(v),
         at'[v] = at[v], cur'[v] = cur[v], done'[v] = done[v],
         acked'[v] = acked[v], sent'[v] = sent[v]
  PROVE  Current(v)'
BY DEF Current

(* What one delivery changes. *)
LEMMA FetchFacts ==
  ASSUME IInv, NEW w \in Workers, Fetch(w)
  PROVE  \E m \in Messages :
           /\ m \in (Stored \intersect Wanted[w]) \ acked[w]
           /\ sent[w][m] < MaxDeliver
           /\ sent' = [sent EXCEPT ![w][m] = sent[w][m] + 1]
           /\ sent' \in [Workers -> [Messages -> 0..MaxDeliver]]
           /\ sent'[w][m] = sent[w][m] + 1
           /\ \A x \in Messages : x # m => sent'[w][x] = sent[w][x]
           /\ \A v \in Workers : v # w => sent'[v] = sent[v]
           /\ waiting' = [waiting EXCEPT ![w] = waiting[w] \union {m}]
           /\ cur' = [cur EXCEPT ![w] = m]
<1> USE NatsAssumption DEF IInv, TypeOK
<1>1. PICK m \in Due(w) :
        /\ sent[w][m] < MaxDeliver
        /\ sent' = [sent EXCEPT ![w][m] = @ + 1]
        /\ waiting' = [waiting EXCEPT ![w] = @ \union {m}]
        /\ cur' = [cur EXCEPT ![w] = m]
  BY DEF Fetch
<1>2. m \in Messages /\ m \in (Stored \intersect Wanted[w]) \ acked[w]
  BY <1>1, StoredTyped DEF Due
<1>3. sent[w] \in [Messages -> 0..MaxDeliver] /\ sent[w][m] + 1 \in 0..MaxDeliver
  BY <1>1, <1>2
<1>4. /\ sent' \in [Workers -> [Messages -> 0..MaxDeliver]]
      /\ sent'[w][m] = sent[w][m] + 1
      /\ \A x \in Messages : x # m => sent'[w][x] = sent[w][x]
      /\ \A v \in Workers : v # w => sent'[v] = sent[v]
  BY <1>1, <1>2, <1>3
<1> QED BY <1>1, <1>2, <1>4

(* Every step keeps the invariant. *)
LEMMA InvariantStep == IInv /\ [Next]_vars => IInv'
<1> SUFFICES ASSUME IInv, [Next]_vars PROVE IInv'
  OBVIOUS
<1> USE NatsAssumption DEF IInv
<1>1. ASSUME NEW m \in Messages, Publish(m) PROVE IInv'
  <2>1. stream' \in Seq(Messages) /\ Stored' \subseteq Stored \union {m}
    <3>1. CASE stream' = Append(stream, m)
      BY <3>1, AppendStored DEF TypeOK, Stored
    <3>2. CASE stream' = stream
      BY <3>2 DEF TypeOK, Stored
    <3> QED BY <1>1, <3>1, <3>2 DEF Publish
  <2>2. tried' = tried \union {m} /\ UNCHANGED <<open, at, cur, cancelled, sent, waiting, acked, done>>
    BY <1>1 DEF Publish, consumerVars
  <2> QED BY <2>1, <2>2 DEF TypeOK, Current
<1>2. ASSUME NEW w \in Workers, Subscribe(w) \/ FetchFails(w) \/ HandlerFails(w) PROVE IInv'
  <2>1. \E place \in Places :
          /\ at' = [at EXCEPT ![w] = place]
          /\ place \in {"fetching", "stopped"} => cur[w] = None
          /\ place \in {"naking"} => cur[w] # None
          /\ place \in {"fetching", "stopped", "naking"}
    BY <1>2 DEF Subscribe, FetchFails, HandlerFails, Goto, Places, Current, TypeOK
  <2>2. UNCHANGED <<open, stream, tried, cur, cancelled, sent, waiting, acked, done>>
    BY <1>2 DEF Subscribe, FetchFails, HandlerFails, consumerVars
  <2>3. TypeOK'
    BY <2>1, <2>2 DEF TypeOK
  <2>4. \A v \in Workers : Current(v)'
    BY <2>1, <2>2 DEF Current, TypeOK
  <2> QED BY <2>2, <2>3, <2>4 DEF Stored
<1>3. ASSUME NEW w \in Workers, Fetch(w) PROVE IInv'
  <2>1. PICK m \in Messages :
           /\ m \in (Stored \intersect Wanted[w]) \ acked[w]
           /\ sent[w][m] < MaxDeliver
           /\ sent' \in [Workers -> [Messages -> 0..MaxDeliver]]
           /\ sent'[w][m] = sent[w][m] + 1
           /\ \A v \in Workers : v # w => sent'[v] = sent[v]
           /\ waiting' = [waiting EXCEPT ![w] = waiting[w] \union {m}]
           /\ cur' = [cur EXCEPT ![w] = m]
    BY <1>3, FetchFacts
  <2>2. at' = [at EXCEPT ![w] = "handling"] /\ UNCHANGED <<open, stream, tried, cancelled, acked, done>>
    BY <1>3 DEF Fetch, Goto
  <2>3. TypeOK'
    BY <2>1, <2>2 DEF TypeOK, Places
  <2>4. Current(w)'
    <3>1. at'[w] = "handling" /\ cur'[w] = m /\ acked'[w] = acked[w] /\ sent'[w][m] > 0
      BY <2>1, <2>2 DEF TypeOK
    <3> QED BY <2>1, <3>1 DEF Current
  <2>5. \A v \in Workers : v # w => Current(v)'
    BY <2>1, <2>2, OthersUnmoved DEF TypeOK
  <2> QED BY <2>2, <2>3, <2>4, <2>5 DEF Stored
<1>4. ASSUME NEW w \in Workers, HandlerReturns(w) PROVE IInv'
  <2>1. cur[w] \in Messages
    BY <1>4 DEF HandlerReturns, Current, TypeOK
  <2>2. /\ done' = [done EXCEPT ![w] = done[w] \union {cur[w]}]
        /\ at' = [at EXCEPT ![w] = "acking"]
        /\ UNCHANGED <<open, stream, tried, cur, cancelled, sent, waiting, acked>>
    BY <1>4 DEF HandlerReturns, Goto, consumerVars
  <2>3. TypeOK'
    BY <2>1, <2>2 DEF TypeOK, Places
  <2>4. Current(w)'
    BY <2>1, <2>2 DEF TypeOK, Current
  <2>5. \A v \in Workers : v # w => Current(v)'
    BY <2>2, OthersUnmoved DEF TypeOK
  <2> QED BY <2>2, <2>3, <2>4, <2>5 DEF Stored
<1>5. ASSUME NEW w \in Workers, Ack(w) \/ Nak(w) PROVE IInv'
  <2>1. cur[w] \in Messages
    BY <1>5 DEF Ack, Nak, Current, TypeOK
  <2>2. /\ cur' = [cur EXCEPT ![w] = None]
        /\ at' = [at EXCEPT ![w] = "fetching"]
        /\ UNCHANGED <<open, stream, tried, cancelled, sent, done>>
    BY <1>5 DEF Ack, Nak, Goto
  <2>3. acked' = acked \/ acked' = [acked EXCEPT ![w] = acked[w] \union {cur[w]}]
    BY <1>5 DEF Ack, Nak
  <2>4. waiting' = waiting \/ waiting' = [waiting EXCEPT ![w] = waiting[w] \ {cur[w]}]
    BY <1>5 DEF Ack, Nak
  <2>5. acked' \in [Workers -> SUBSET Messages] /\ waiting' \in [Workers -> SUBSET Messages]
    <3>1. acked' \in [Workers -> SUBSET Messages]
      <4>1. acked \in [Workers -> SUBSET Messages] /\ acked[w] \union {cur[w]} \in SUBSET Messages
        BY <2>1 DEF TypeOK
      <4> QED BY <2>3, <4>1
    <3>2. waiting' \in [Workers -> SUBSET Messages]
      <4>1. waiting \in [Workers -> SUBSET Messages] /\ waiting[w] \ {cur[w]} \in SUBSET Messages
        BY DEF TypeOK
      <4> QED BY <2>4, <4>1
    <3> QED BY <3>1, <3>2
  <2>6. TypeOK'
    BY <2>2, <2>5 DEF TypeOK, Places
  <2>7. Current(w)'
    BY <2>2 DEF TypeOK, Current
  <2>8. \A v \in Workers : v # w => Current(v)'
    BY <2>2, <2>3, OthersUnmoved DEF TypeOK
  <2> QED BY <2>2, <2>6, <2>7, <2>8 DEF Stored
<1>6. ASSUME NEW w \in Workers, NEW m \in Messages, AckWaitExpires(w, m) PROVE IInv'
  <2>1. TypeOK'
    BY <1>6 DEF AckWaitExpires, TypeOK
  <2> QED BY <1>6, <2>1 DEF AckWaitExpires, Current, Stored
<1>7. ASSUME NEW w \in Workers, Cancel(w) PROVE IInv'
  <2>1. TypeOK'
    BY <1>7 DEF Cancel, TypeOK, consumerVars
  <2> QED BY <1>7, <2>1 DEF Cancel, Current, Stored, consumerVars
<1>8. ASSUME Close PROVE IInv'
  <2>1. TypeOK'
    BY <1>8 DEF Close, TypeOK, consumerVars
  <2> QED BY <1>8, <2>1 DEF Close, Current, Stored, consumerVars
<1>9. ASSUME Restart PROVE IInv'
  <2>1. /\ at' = [w \in Workers |-> IF at[w] = "new" THEN "new" ELSE "gone"]
        /\ UNCHANGED <<stream, tried, cur, sent, waiting, acked, done>>
        /\ open' = TRUE /\ cancelled' = {}
    BY <1>9 DEF Restart, consumerVars
  <2>2. TypeOK'
    BY <2>1 DEF TypeOK, Places
  <2>3. \A w \in Workers : Current(w)'
    BY <2>1 DEF Current, TypeOK
  <2> QED BY <2>1, <2>2, <2>3 DEF Stored
<1>10. ASSUME UNCHANGED vars PROVE IInv'
  BY <1>10 DEF vars, consumerVars, TypeOK, Current, Stored
<1> QED BY <1>1, <1>2, <1>3, <1>4, <1>5, <1>6, <1>7, <1>8, <1>9, <1>10
        DEF Next, Worker, Server, Idle

(* Types, and the goroutine's event, in every reachable state. *)
THEOREM InvariantHolds == Spec => []IInv
<1>1. Init => IInv
  <2> SUFFICES ASSUME Init PROVE IInv
    OBVIOUS
  <2>1. TypeOK
    BY NatsAssumption DEF Init, TypeOK, Places
  <2>2. Stored = {}
    BY DEF Init, Stored
  <2> QED BY <2>1, <2>2 DEF Init, IInv, Current
<1> QED BY <1>1, InvariantStep, PTL DEF Spec

(* No event is handed out more than MaxDeliver times to a subscription. *)
THEOREM TypeCorrect == Spec => []TypeOK
<1>1. IInv => TypeOK
  BY DEF IInv
<1> QED BY <1>1, InvariantHolds, PTL

(* Settled, event by event. *)
LEMMA SettledMember ==
  ASSUME TypeOK, NEW w \in Workers
  PROVE  Settled[w] = {m \in Messages : IsSettled(w, m)}
BY DEF TypeOK, Settled, Exhausted, IsSettled

(* No event is settled by a step that leaves IsSettled alone. *)
LEMMA NothingSettles ==
  ASSUME TypeOK, TypeOK', \A v \in Workers, x \in Messages : IsSettled(v, x)' <=> IsSettled(v, x)
  PROVE  Settled' = Settled
<1>1. \A v \in Workers : Settled[v] = {m \in Messages : IsSettled(v, m)}
  BY SettledMember
<1>2. \A v \in Workers : Settled'[v] = {m \in Messages : IsSettled(v, m)'}
  BY DEF TypeOK, Settled, Exhausted, IsSettled
<1>3. \A v \in Workers : Settled'[v] = Settled[v]
  BY <1>1, <1>2
<1> QED BY <1>3 DEF Settled

(* One event is. *)
LEMMA OneSettles ==
  ASSUME TypeOK, TypeOK', NEW w \in Workers, NEW m \in Messages, IsSettled(w, m)',
         \A v \in Workers, x \in Messages :
            v # w \/ x # m => (IsSettled(v, x)' <=> IsSettled(v, x))
  PROVE  Settled' = [Settled EXCEPT ![w] = @ \union {m}]
<1>1. \A v \in Workers : Settled[v] = {x \in Messages : IsSettled(v, x)}
  BY SettledMember
<1>2. \A v \in Workers : Settled'[v] = {x \in Messages : IsSettled(v, x)'}
  BY DEF TypeOK, Settled, Exhausted, IsSettled
<1>3. \A v \in Workers : v # w => Settled'[v] = Settled[v]
  BY <1>1, <1>2
<1>4. Settled'[w] = Settled[w] \union {m}
  <2>1. Settled[w] = {x \in Messages : IsSettled(w, x)}
    BY <1>1
  <2>2. Settled'[w] = {x \in Messages : IsSettled(w, x)'}
    BY <1>2
  <2>3. \A x \in Messages : x # m => (IsSettled(w, x)' <=> IsSettled(w, x))
    OBVIOUS
  <2> QED BY <2>1, <2>2, <2>3
<1>5. /\ Settled = [v \in Workers |-> Settled[v]]
      /\ Settled' = [v \in Workers |-> Settled'[v]]
  BY DEF Settled
<1> QED BY <1>3, <1>4, <1>5

(***************************************************************************)
(* The goroutine lets go of an event, or the server does: afterwards the   *)
(* event is settled, if its handler has succeeded and that was heard of,   *)
(* or if it was the last attempt; or nothing has changed.                  *)
(***************************************************************************)
LEMMA LetGo ==
  ASSUME IInv, IInv', NEW w \in Workers, NEW m \in Messages,
         UNCHANGED <<sent, done, stream>>,
         \A v \in Workers : v # w => UNCHANGED <<acked[v], waiting[v], cur[v]>>,
         \A x \in Messages : x # m => /\ x \in acked'[w] <=> x \in acked[w]
                                      /\ x \in waiting'[w] <=> x \in waiting[w]
                                      /\ cur'[w] = x <=> cur[w] = x,
         m \in acked[w] => m \in acked'[w],
         m \notin waiting[w] => m \notin waiting'[w],
         cur'[w] = m => cur[w] = m,
         m \in acked'[w] => m \in acked[w] \/ m \in done[w]
  PROVE  [Promise!Next]_(Promise!vars)
<1> USE DEF IInv
<1>1. \A v \in Workers, x \in Messages :
        v # w \/ x # m => (IsSettled(v, x)' <=> IsSettled(v, x))
  BY DEF IsSettled
<1>2. UNCHANGED <<Stored, sent, done>>
  BY DEF Stored
<1>3. CASE IsSettled(w, m)' /\ ~IsSettled(w, m)
  <2>1. Settled' = [Settled EXCEPT ![w] = @ \union {m}]
    BY <1>1, <1>3, OneSettles
  <2>2. m \in done[w] \/ sent[w][m] = MaxDeliver
    BY <1>3 DEF IsSettled
  <2>3. Promise!Settle(w, m)
    BY <1>2, <2>1, <2>2 DEF Promise!Settle
  <2> QED BY <2>3 DEF Promise!Next
<1>4. CASE ~(IsSettled(w, m)' /\ ~IsSettled(w, m))
  <2>1. IsSettled(w, m)' <=> IsSettled(w, m)
    BY <1>4 DEF IsSettled
  <2>2. Settled' = Settled
    BY <1>1, <2>1, NothingSettles
  <2> QED BY <1>2, <2>2 DEF Promise!vars
<1> QED BY <1>3, <1>4

(* A step that hands out nothing and settles nothing. *)
LEMMA Quiet ==
  ASSUME IInv, IInv', UNCHANGED <<Stored, sent, done, acked, waiting, cur>>
  PROVE  UNCHANGED Promise!vars
<1>1. Settled' = Settled
  BY NothingSettles DEF IInv, IsSettled
<1> QED BY <1>1 DEF Promise!vars

(* Every step of the bus is one that the promise allows. *)
LEMMA Refines == IInv /\ IInv' /\ [Next]_vars => [Promise!Next]_(Promise!vars)
<1> SUFFICES ASSUME IInv, IInv', [Next]_vars PROVE [Promise!Next]_(Promise!vars)
  OBVIOUS
<1> USE NatsAssumption
<1>1. ASSUME NEW m \in Messages, Publish(m) PROVE [Promise!Next]_(Promise!vars)
  <2>1. UNCHANGED <<sent, done, acked, waiting, cur>>
    BY <1>1 DEF Publish, consumerVars
  <2>2. CASE stream' = stream
    BY <2>1, <2>2, Quiet DEF Stored
  <2>3. CASE stream' = Append(stream, m)
    <3>1. Stored' = Stored \union {m} /\ m \notin Stored
      <4>1. stream \in Seq(Messages)
        BY DEF IInv, TypeOK
      <4>2. Stored' = Stored \union {m}
        BY <2>3, <4>1, AppendStored DEF Stored
      <4>3. m \notin Stored
        BY <1>1 DEF IInv, Publish
      <4> QED BY <4>2, <4>3
    <3>2. Settled' = Settled
      BY <2>1, NothingSettles DEF IInv, IsSettled
    <3>3. Promise!Store(m)
      BY <2>1, <3>1, <3>2 DEF Promise!Store
    <3> QED BY <3>3 DEF Promise!Next
  <2> QED BY <1>1, <2>2, <2>3 DEF Publish
<1>2. ASSUME NEW w \in Workers, Fetch(w) PROVE [Promise!Next]_(Promise!vars)
  <2>1. PICK m \in Messages :
           /\ m \in (Stored \intersect Wanted[w]) \ acked[w]
           /\ sent[w][m] < MaxDeliver
           /\ sent' = [sent EXCEPT ![w][m] = sent[w][m] + 1]
           /\ \A x \in Messages : x # m => sent'[w][x] = sent[w][x]
           /\ \A v \in Workers : v # w => sent'[v] = sent[v]
           /\ waiting' = [waiting EXCEPT ![w] = waiting[w] \union {m}]
           /\ cur' = [cur EXCEPT ![w] = m]
    BY <1>2, FetchFacts
  <2>2. UNCHANGED <<stream, done, acked>> /\ cur[w] = None
    BY <1>2 DEF Fetch, IInv, Current
  <2>3. /\ waiting'[w] = waiting[w] \union {m} /\ cur'[w] = m
        /\ \A v \in Workers : v # w => waiting'[v] = waiting[v] /\ cur'[v] = cur[v]
    BY <2>1 DEF IInv, TypeOK
  <2>4. ~IsSettled(w, m)
    BY <2>1 DEF IsSettled, IInv, TypeOK
  <2>5. ~IsSettled(w, m)'
    BY <2>1, <2>2, <2>3 DEF IsSettled
  <2>6. \A x \in Messages : x # m => (IsSettled(w, x)' <=> IsSettled(w, x))
    BY <2>1, <2>2, <2>3 DEF IsSettled
  <2>7. \A v \in Workers, x \in Messages : v # w => (IsSettled(v, x)' <=> IsSettled(v, x))
    BY <2>1, <2>2, <2>3 DEF IsSettled
  <2>8. Settled' = Settled
    BY <2>4, <2>5, <2>6, <2>7, NothingSettles DEF IInv
  <2>9. m \notin Settled[w]
    BY <2>4, SettledMember DEF IInv
  <2>10. Promise!Attempt(w, m)
    BY <2>1, <2>2, <2>8, <2>9 DEF Promise!Attempt, Stored
  <2> QED BY <2>10 DEF Promise!Next
<1>3. ASSUME NEW w \in Workers, HandlerReturns(w) PROVE [Promise!Next]_(Promise!vars)
  <2>1. /\ cur[w] \in Messages /\ cur[w] \notin acked[w] /\ sent[w][cur[w]] > 0
        /\ done' = [done EXCEPT ![w] = @ \union {cur[w]}]
        /\ UNCHANGED <<stream, cur, sent, waiting, acked>>
    BY <1>3 DEF HandlerReturns, consumerVars, IInv, Current, TypeOK
  <2>2. Settled' = Settled
    BY <2>1, NothingSettles DEF IInv, IsSettled
  <2>3. cur[w] \notin Settled[w]
    BY <2>1, SettledMember DEF IInv, IsSettled
  <2>4. Promise!Handle(w, cur[w])
    BY <2>1, <2>2, <2>3 DEF Promise!Handle, Stored
  <2> QED BY <2>1, <2>4 DEF Promise!Next
<1>4. ASSUME NEW w \in Workers, Ack(w) \/ Nak(w) PROVE [Promise!Next]_(Promise!vars)
  <2>1. /\ cur[w] \in Messages
        /\ cur' = [cur EXCEPT ![w] = None]
        /\ UNCHANGED <<sent, done, stream>>
    BY <1>4 DEF Ack, Nak, IInv, Current, TypeOK
  <2>2. /\ \A v \in Workers : v # w => acked'[v] = acked[v]
        /\ \/ acked'[w] = acked[w]
           \/ acked'[w] = acked[w] \union {cur[w]} /\ cur[w] \in done[w]
    BY <1>4 DEF Ack, Nak, IInv, TypeOK, Current
  <2>3. /\ \A v \in Workers : v # w => waiting'[v] = waiting[v]
        /\ waiting'[w] = waiting[w] \/ waiting'[w] = waiting[w] \ {cur[w]}
    BY <1>4 DEF Ack, Nak, IInv, TypeOK
  <2>4. cur'[w] = None /\ \A v \in Workers : v # w => cur'[v] = cur[v]
    BY <2>1 DEF IInv, TypeOK
  <2> QED BY <2>1, <2>2, <2>3, <2>4, LetGo
<1>5. ASSUME NEW w \in Workers, NEW m \in Messages, AckWaitExpires(w, m)
      PROVE  [Promise!Next]_(Promise!vars)
  <2>1. UNCHANGED <<sent, done, stream, acked, cur>>
    BY <1>5 DEF AckWaitExpires
  <2>2. /\ \A v \in Workers : v # w => waiting'[v] = waiting[v]
        /\ waiting'[w] = waiting[w] \ {m}
    BY <1>5 DEF AckWaitExpires, IInv, TypeOK
  <2> QED BY <2>1, <2>2, LetGo
<1>6. ASSUME NEW w \in Workers, Subscribe(w) \/ FetchFails(w) \/ HandlerFails(w) \/ Cancel(w)
      PROVE  [Promise!Next]_(Promise!vars)
  <2>1. UNCHANGED <<stream, sent, done, acked, waiting, cur>>
    BY <1>6 DEF Subscribe, FetchFails, HandlerFails, Cancel, consumerVars
  <2> QED BY <2>1, Quiet DEF Stored
<1>7. ASSUME Close \/ Restart \/ UNCHANGED vars PROVE [Promise!Next]_(Promise!vars)
  <2>1. UNCHANGED <<stream, sent, done, acked, waiting, cur>>
    BY <1>7 DEF Close, Restart, vars, consumerVars
  <2> QED BY <2>1, Quiet DEF Stored
<1> QED BY <1>1, <1>2, <1>3, <1>4, <1>5, <1>6, <1>7 DEF Next, Worker, Server, Idle

(* The durable bus implements the promise of Delivery. *)
THEOREM DeliverySpecHolds == Spec => DeliverySpec
<1>1. Init => Promise!Init
  <2> SUFFICES ASSUME Init PROVE Promise!Init
    OBVIOUS
  <2>1. Stored = {}
    BY DEF Init, Stored
  <2>2. Settled = [w \in Workers |-> {}]
    BY NatsAssumption DEF Init, Settled, Exhausted
  <2> QED BY <2>1, <2>2 DEF Init, Promise!Init
<1> QED BY <1>1, Refines, InvariantHolds, PTL DEF Spec, DeliverySpec, Promise!Spec

-----------------------------------------------------------------------------
(* What an acknowledgement means. *)

(***************************************************************************)
(* An event is acknowledged only after its handler has returned nil for    *)
(* it, so one the handler never accepts is never acknowledged: it comes    *)
(* back until its deliveries are used up, also after a lost Ack or Nak, an *)
(* expired AckWait, a restart.                                             *)
(***************************************************************************)
AckedWasHandled ==
  \A w \in Workers : acked[w] \subseteq done[w] /\ done[w] \intersect Rejects[w] = {}

(* Only HandlerReturns adds to done, only Ack to acked. *)
LEMMA AckedStep == IInv /\ AckedWasHandled /\ [Next]_vars => AckedWasHandled'
<1> SUFFICES ASSUME IInv, AckedWasHandled, [Next]_vars PROVE AckedWasHandled'
  OBVIOUS
<1> USE DEF IInv, TypeOK
<1>1. ASSUME NEW w \in Workers, HandlerReturns(w) PROVE AckedWasHandled'
  <2>1. /\ acked' = acked /\ cur[w] \notin Rejects[w]
        /\ \A v \in Workers : done'[v] = IF v = w THEN done[v] \union {cur[w]} ELSE done[v]
    BY <1>1 DEF HandlerReturns, consumerVars
  <2> QED BY <2>1 DEF AckedWasHandled
<1>2. ASSUME NEW w \in Workers, Ack(w) PROVE AckedWasHandled'
  <2>1. done' = done /\ cur[w] \in done[w]
    BY <1>2 DEF Ack, Current
  <2>2. \A v \in Workers : acked'[v] \subseteq IF v = w THEN acked[v] \union {cur[w]} ELSE acked[v]
    BY <1>2 DEF Ack
  <2> QED BY <2>1, <2>2 DEF AckedWasHandled
<1>3. ASSUME \/ \E m \in Messages : Publish(m)
             \/ \E w \in Workers : \/ Subscribe(w) \/ Fetch(w) \/ FetchFails(w) \/ HandlerFails(w)
                                   \/ Nak(w) \/ Cancel(w) \/ Server(w)
             \/ Close \/ Restart \/ UNCHANGED vars
      PROVE  acked' = acked /\ done' = done
  BY <1>3 DEF Publish, Subscribe, Fetch, FetchFails, HandlerFails, Nak, Cancel, Server,
    AckWaitExpires, Close, Restart, vars, consumerVars
<1> QED BY <1>1, <1>2, <1>3 DEF Next, Worker, Idle, AckedWasHandled

(* An acknowledged event was handled. *)
THEOREM AckedWasHandledHolds == Spec => []AckedWasHandled
<1>1. Init => AckedWasHandled
  BY DEF Init, AckedWasHandled
<1> QED BY <1>1, AckedStep, InvariantHolds, PTL DEF Spec

-----------------------------------------------------------------------------
(* The order of deliveries. *)

(* No event is stored twice. *)
Distinct == \A j, k \in DOMAIN stream : stream[j] = stream[k] => j = k

(***************************************************************************)
(* A handler is called only with stored events of its own subject, and new *)
(* ones reach it in the order in which they were published: an event has   *)
(* been handed out only after all its predecessors of that subject were,   *)
(* whatever failed, was repeated, or was restarted in between.             *)
(***************************************************************************)
FirstDeliveriesInOrder ==
  \A w \in Workers :
    /\ \A m \in Messages : sent[w][m] > 0 => m \in Stored \intersect Wanted[w]
    /\ \A k \in DOMAIN stream : sent[w][stream[k]] > 0 =>
         \A j \in 1..(k - 1) : stream[j] \in Wanted[w] => sent[w][stream[j]] > 0

(* What Publish appends was never handed out; Fetch takes the next in turn. *)
LEMMA OrderStep ==
  IInv /\ Distinct /\ FirstDeliveriesInOrder /\ [Next]_vars => (Distinct /\ FirstDeliveriesInOrder)'
<1> SUFFICES ASSUME IInv, Distinct, FirstDeliveriesInOrder, [Next]_vars
             PROVE  (Distinct /\ FirstDeliveriesInOrder)'
  OBVIOUS
<1>a. stream \in Seq(Messages) /\ DOMAIN stream = 1..Len(stream) /\ Len(stream) \in Nat
  BY DEF IInv, TypeOK
<1>b. \A k \in DOMAIN stream : stream[k] \in Messages /\ stream[k] \in Stored
  BY <1>a DEF Stored
<1>c. sent \in [Workers -> [Messages -> 0..MaxDeliver]] /\ MaxDeliver \in Nat
  BY NatsAssumption DEF IInv, TypeOK
<1>1. ASSUME NEW m \in Messages, Publish(m), stream' = Append(stream, m)
      PROVE  (Distinct /\ FirstDeliveriesInOrder)'
  <2>1. sent' = sent /\ m \notin Stored
    BY <1>1 DEF Publish, consumerVars, IInv
  <2>2. /\ DOMAIN stream' = 1..(Len(stream) + 1)
        /\ stream'[Len(stream) + 1] = m
        /\ \A k \in 1..Len(stream) : stream'[k] = stream[k]
    BY <1>1, <1>a
  <2>3. Stored \subseteq Stored'
    BY <1>1, <1>a, AppendStored DEF Stored
  <2>4. Distinct'
    BY <1>a, <1>b, <2>1, <2>2 DEF Distinct
  <2>5. \A w \in Workers : ~(sent[w][m] > 0)
    BY <2>1 DEF FirstDeliveriesInOrder
  <2>6. ASSUME NEW w \in Workers, NEW k \in DOMAIN stream', sent'[w][stream'[k]] > 0,
               NEW j \in 1..(k - 1), stream'[j] \in Wanted[w]
        PROVE  sent'[w][stream'[j]] > 0
    <3>1. k \in 1..Len(stream) /\ j \in 1..Len(stream)
      BY <1>a, <2>1, <2>2, <2>5, <2>6
    <3> QED BY <1>a, <2>1, <2>2, <2>6, <3>1 DEF FirstDeliveriesInOrder
  <2>7. \A w \in Workers : \A x \in Messages : sent'[w][x] > 0 => x \in Stored' \intersect Wanted[w]
    BY <2>1, <2>3 DEF FirstDeliveriesInOrder
  <2> QED BY <2>4, <2>6, <2>7 DEF FirstDeliveriesInOrder
<1>2. ASSUME NEW w \in Workers, Fetch(w) PROVE (Distinct /\ FirstDeliveriesInOrder)'
  <2>1. PICK m \in Due(w) :
          /\ InTurn(w, m)
          /\ sent[w][m] < MaxDeliver
          /\ sent' = [sent EXCEPT ![w][m] = @ + 1]
    BY <1>2 DEF Fetch
  <2>2. m \in Messages /\ m \in Stored \intersect Wanted[w] /\ stream' = stream
    BY <1>2, <2>1, StoredTyped DEF Due, Fetch, IInv
  <2>3. /\ sent'[w][m] > 0
        /\ \A x \in Messages : x # m => sent'[w][x] = sent[w][x]
        /\ \A v \in Workers : v # w => sent'[v] = sent[v]
    <3>1. sent[w] \in [Messages -> 0..MaxDeliver] /\ sent[w][m] \in 0..MaxDeliver
      BY <1>c, <2>2
    <3>2. sent'[w] = [sent[w] EXCEPT ![m] = sent[w][m] + 1]
      BY <1>c, <2>1
    <3>3. \A v \in Workers : v # w => sent'[v] = sent[v]
      BY <1>c, <2>1
    <3> QED BY <3>1, <3>2, <3>3, <2>2
  <2>4. \A v \in Workers : \A x \in Messages : sent[v][x] > 0 => sent'[v][x] > 0
    BY <2>3
  <2>5. \A v \in Workers : \A x \in Messages : sent'[v][x] > 0 => x \in Stored' \intersect Wanted[v]
    BY <2>2, <2>3 DEF FirstDeliveriesInOrder, Stored
  <2>6. ASSUME NEW v \in Workers, NEW k \in DOMAIN stream, sent'[v][stream[k]] > 0,
               NEW j \in 1..(k - 1), stream[j] \in Wanted[v]
        PROVE  sent'[v][stream[j]] > 0
    <3>a. j \in DOMAIN stream /\ stream[j] \in Messages /\ stream[k] \in Messages
      BY <1>a, <1>b, <2>6
    <3>1. CASE sent[v][stream[k]] > 0
      BY <2>4, <2>6, <3>1, <3>a DEF FirstDeliveriesInOrder
    <3>2. CASE ~(sent[v][stream[k]] > 0)
      <4>1. v = w /\ stream[k] = m
        BY <2>3, <2>6, <3>2, <3>a
      <4>2. PICK i \in DOMAIN stream :
              /\ stream[i] = m
              /\ \A l \in 1..(i - 1) : stream[l] \in Wanted[w] => sent[w][stream[l]] > 0
        BY <2>1, <3>2, <4>1 DEF InTurn
      <4>3. i = k
        BY <4>1, <4>2 DEF Distinct
      <4> QED BY <2>4, <2>6, <3>a, <4>1, <4>2, <4>3
    <3> QED BY <3>1, <3>2
  <2> QED BY <2>2, <2>5, <2>6 DEF FirstDeliveriesInOrder, Distinct
<1>3. CASE stream' = stream /\ sent' = sent
  BY <1>3 DEF FirstDeliveriesInOrder, Distinct, Stored
<1>4. ASSUME NEW w \in Workers,
             \/ Subscribe(w) \/ FetchFails(w) \/ HandlerReturns(w) \/ HandlerFails(w)
             \/ Ack(w) \/ Nak(w) \/ Cancel(w) \/ Server(w)
      PROVE  stream' = stream /\ sent' = sent
  BY <1>4 DEF Subscribe, FetchFails, HandlerReturns, HandlerFails, Ack, Nak, Cancel, Server,
    AckWaitExpires, consumerVars
<1>5. ASSUME NEW m \in Messages, Publish(m), stream' # Append(stream, m)
      PROVE  stream' = stream /\ sent' = sent
  BY <1>5 DEF Publish, consumerVars
<1>6. CASE Close \/ Restart \/ UNCHANGED vars
  BY <1>3, <1>6 DEF Close, Restart, vars, consumerVars
<1> QED BY <1>1, <1>2, <1>3, <1>4, <1>5, <1>6 DEF Next, Worker, Idle

(* New events reach every subscription in the order of the stream. *)
THEOREM FirstDeliveriesInOrderHolds == Spec => []FirstDeliveriesInOrder
<1>1. Init => Distinct /\ FirstDeliveriesInOrder
  BY DEF Init, Distinct, FirstDeliveriesInOrder
<1> QED BY <1>1, OrderStep, InvariantHolds, PTL DEF Spec

-----------------------------------------------------------------------------
(* Why the consumer does not get stuck. *)

(* Every non-empty set of natural numbers has a least element. *)
LEMMA LeastElement ==
  ASSUME NEW T \in SUBSET Nat, T # {}
  PROVE  \E x \in T : \A y \in T : ~(y < x)
<1> DEFINE R == OpToRel(<, Nat)
<1>1. IsWellFoundedOn(R, Nat)
  BY NatLessThanWellFounded
<1>2. \A x, y \in Nat : y < x => <<y, x>> \in R
  BY DEF OpToRel
<1> HIDE DEF R
<1>3. PICK x \in T : \A y \in T : ~(<<y, x>> \in R)
  BY <1>1, WFMin
<1> QED BY <1>2, <1>3, Zenon

(* What was acknowledged was handed out. *)
AckedWasSent ==
  \A w \in Workers : \A m \in acked[w] : sent[w][m] > 0

(* Ack confirms the current event, and the counters only grow. *)
LEMMA AckedSentStep == IInv /\ AckedWasSent /\ [Next]_vars => AckedWasSent'
<1> SUFFICES ASSUME IInv, AckedWasSent, [Next]_vars PROVE AckedWasSent'
  OBVIOUS
<1> USE NatsAssumption DEF IInv, TypeOK
<1>1. ASSUME NEW w \in Workers, Fetch(w) PROVE AckedWasSent'
  <2>1. acked' = acked
    BY <1>1 DEF Fetch
  <2>2. PICK m \in Messages :
          /\ sent[w][m] < MaxDeliver
          /\ sent'[w][m] = sent[w][m] + 1
          /\ \A x \in Messages : x # m => sent'[w][x] = sent[w][x]
          /\ \A v \in Workers : v # w => sent'[v] = sent[v]
    BY <1>1, FetchFacts
  <2>3. sent[w][m] \in Nat /\ sent'[w][m] > 0
    BY <2>2
  <2>4. \A v \in Workers : \A x \in Messages : sent[v][x] > 0 => sent'[v][x] > 0
    BY <2>2, <2>3, Zenon
  <2> QED BY <2>1, <2>4 DEF AckedWasSent
<1>2. ASSUME NEW w \in Workers, Ack(w) PROVE AckedWasSent'
  <2>1. sent' = sent /\ sent[w][cur[w]] > 0
    BY <1>2 DEF Ack, Current
  <2>2. \A v \in Workers : acked'[v] \subseteq IF v = w THEN acked[v] \union {cur[w]} ELSE acked[v]
    BY <1>2 DEF Ack
  <2> QED BY <2>1, <2>2 DEF AckedWasSent
<1>3. ASSUME \/ \E m \in Messages : Publish(m)
             \/ \E w \in Workers : \/ Subscribe(w) \/ HandlerReturns(w) \/ FetchFails(w)
                                   \/ HandlerFails(w) \/ Nak(w) \/ Cancel(w) \/ Server(w)
             \/ Close \/ Restart \/ UNCHANGED vars
      PROVE  acked' = acked /\ sent' = sent
  BY <1>3 DEF Publish, Subscribe, HandlerReturns, FetchFails, HandlerFails, Nak, Cancel, Server,
    AckWaitExpires, Close, Restart, vars, consumerVars
<1> QED BY <1>1, <1>2, <1>3 DEF Next, Worker, Idle, AckedWasSent

(***************************************************************************)
(* The heart of EveryEventSettles.  A subscription with no event in hand   *)
(* and none unanswered, which wants a stored event that has deliveries     *)
(* left, is given one by its next Fetch: events that were refused, used    *)
(* their deliveries up, or are held back by the order of the stream never  *)
(* leave the consumer with something to hand out and nothing it may.       *)
(***************************************************************************)
NeverStuck ==
  \A w \in Workers :
    waiting[w] = {} /\ (\E m \in Due(w) : sent[w][m] < MaxDeliver) =>
      /\ Cardinality(waiting[w]) < MaxAckPending
      /\ \E m \in Due(w) : InTurn(w, m) /\ sent[w][m] < MaxDeliver

(* The first wanted event of the stream that was not handed out is in turn. *)
THEOREM NeverStuckHolds == Spec => []NeverStuck
<1>1. Init => AckedWasSent
  BY DEF Init, AckedWasSent
<1>2. IInv /\ AckedWasSent => NeverStuck
  <2> SUFFICES ASSUME IInv, AckedWasSent, NEW w \in Workers, waiting[w] = {},
                      NEW m \in Due(w), sent[w][m] < MaxDeliver
               PROVE  /\ Cardinality(waiting[w]) < MaxAckPending
                      /\ \E x \in Due(w) : InTurn(w, x) /\ sent[w][x] < MaxDeliver
    BY DEF NeverStuck
  <2>1. Cardinality(waiting[w]) < MaxAckPending
    BY FS_EmptySet, NatsAssumption
  <2>2. CASE sent[w][m] > 0
    BY <2>1, <2>2 DEF InTurn
  <2>3. CASE ~(sent[w][m] > 0)
    <3>1. stream \in Seq(Messages) /\ DOMAIN stream = 1..Len(stream) /\ Len(stream) \in Nat
      BY DEF IInv, TypeOK
    <3>2. \A k \in DOMAIN stream :
            stream[k] \in Messages /\ stream[k] \in Stored /\ sent[w][stream[k]] \in 0..MaxDeliver
      BY <3>1 DEF Stored, IInv, TypeOK
    <3> DEFINE Unsent == {k \in DOMAIN stream : stream[k] \in Wanted[w]
                                                /\ ~(sent[w][stream[k]] > 0)}
    <3>3. Unsent # {}
      BY <2>3 DEF Due, Stored
    <3>4. Unsent \in SUBSET Nat
      BY <3>1
    <3> HIDE DEF Unsent
    <3>5. PICK k \in Unsent : \A j \in Unsent : ~(j < k)
      BY <3>3, <3>4, LeastElement
    <3>6. /\ k \in DOMAIN stream /\ stream[k] \in Wanted[w]
          /\ ~(sent[w][stream[k]] > 0)
      BY <3>5 DEF Unsent
    <3>7. \A j \in 1..(k - 1) : stream[j] \in Wanted[w] => sent[w][stream[j]] > 0
      BY <3>1, <3>5, <3>6 DEF Unsent
    <3>8. InTurn(w, stream[k])
      BY <3>6, <3>7 DEF InTurn
    <3>9. stream[k] \in Due(w)
      BY <3>2, <3>6 DEF Due, AckedWasSent
    <3>10. sent[w][stream[k]] < MaxDeliver
      BY <3>2, <3>6, NatsAssumption
    <3> QED BY <2>1, <3>8, <3>9, <3>10
  <2> QED BY <2>2, <2>3
<1> QED BY <1>1, <1>2, AckedSentStep, InvariantHolds, PTL DEF Spec
=============================================================================
