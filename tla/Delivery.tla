------------------------------ MODULE Delivery ------------------------------
(***************************************************************************)
(* What the durable bus promises a subscriber: an event that was stored is *)
(* handed to its handler, in at most MaxDeliver attempts, until the        *)
(* handler has succeeded once; then, or when the attempts are used up, the *)
(* event is settled and never comes back.  At least once, never exactly    *)
(* once: a handler may succeed again before the event is settled.          *)
(***************************************************************************)
EXTENDS Naturals

CONSTANTS
  Messages, Workers,
  Wanted,     \* Wanted[w]: the events whose subject w subscribed to
  MaxDeliver

VARIABLES
  stored,   \* events the bus has accepted
  tries,    \* tries[w][m]: attempts to have w handle m
  handled,  \* handled[w]: events w's handler has returned nil for
  settled   \* settled[w]: events that will not be delivered to w again

vars == <<stored, tries, handled, settled>>

Init ==
  /\ stored = {}
  /\ tries = [w \in Workers |-> [m \in Messages |-> 0]]
  /\ handled = [w \in Workers |-> {}]
  /\ settled = [w \in Workers |-> {}]

Store(m) ==
  /\ m \notin stored
  /\ stored' = stored \union {m}
  /\ UNCHANGED <<tries, handled, settled>>

Attempt(w, m) ==
  /\ m \in (stored \intersect Wanted[w]) \ settled[w]
  /\ tries[w][m] < MaxDeliver
  /\ tries' = [tries EXCEPT ![w][m] = @ + 1]
  /\ UNCHANGED <<stored, handled, settled>>

Handle(w, m) ==
  /\ tries[w][m] > 0
  /\ m \notin settled[w]
  /\ handled' = [handled EXCEPT ![w] = @ \union {m}]
  /\ UNCHANGED <<stored, tries, settled>>

Settle(w, m) ==
  /\ m \in handled[w] \/ tries[w][m] = MaxDeliver
  /\ settled' = [settled EXCEPT ![w] = @ \union {m}]
  /\ UNCHANGED <<stored, tries, handled>>

Next ==
  \E m \in Messages :
    Store(m) \/ \E w \in Workers : Attempt(w, m) \/ Handle(w, m) \/ Settle(w, m)

Spec == Init /\ [][Next]_vars
=============================================================================
