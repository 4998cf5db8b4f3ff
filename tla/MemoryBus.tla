------------------------------ MODULE MemoryBus ------------------------------
(***************************************************************************)
(* MemoryBus of internal/eventbus: handlers in a slice per pattern,        *)
(* appended by Subscribe, removed by the index they got then, and called   *)
(* by Publish after it has copied the matching ones and released the lock. *)
(* A handler is in at most one slice and there at most once, so a copy is  *)
(* the set of handlers still to be called.                                 *)
(***************************************************************************)
EXTENDS Subjects

CONSTANTS
  Patterns, SubjectNames,
  Handlers,    \* subscriptions: each is made once and cancelled at most once
  Publishers,  \* goroutines that publish, one event after the other
  Exclusive    \* patterns with at most one subscription at a time

ASSUME MemoryBusAssumption ==
  /\ Patterns \subseteq Seq(STRING) \ {<<>>}
  /\ SubjectNames \subseteq Seq(STRING) \ {<<>>}
  /\ Exclusive \subseteq Patterns

VARIABLES
  subs,     \* subs[p]: the slice of handlers of pattern p
  state,    \* a handler is "new", "subscribed" or "cancelled"
  pat, id,  \* what its cancel function has captured
  todo      \* handlers a publisher has copied and not called yet

vars == <<subs, state, pat, id, todo>>

Subscribed(p) == {h \in Handlers : state[h] = "subscribed" /\ pat[h] = p}

In(slice) == {slice[k] : k \in DOMAIN slice}

(* The slice without its element at the 0-based index n. *)
Without(slice, n) == SubSeq(slice, 1, n) \o SubSeq(slice, n + 2, Len(slice))

Init ==
  /\ subs = [p \in Patterns |-> <<>>]
  /\ state = [h \in Handlers |-> "new"]
  /\ pat = [h \in Handlers |-> <<>>]
  /\ id = [h \in Handlers |-> 0]
  /\ todo = [q \in Publishers |-> {}]

Subscribe(h, p) ==
  /\ state[h] = "new"
  /\ state' = [state EXCEPT ![h] = "subscribed"]
  /\ pat' = [pat EXCEPT ![h] = p]
  /\ id' = [id EXCEPT ![h] = Len(subs[p])]
  /\ subs' = [subs EXCEPT ![p] = Append(@, h)]
  /\ UNCHANGED todo

(* The function that Subscribe returned. *)
Cancel(h) ==
  /\ state[h] = "subscribed"
  /\ state' = [state EXCEPT ![h] = "cancelled"]
  /\ subs' = IF id[h] < Len(subs[pat[h]])
               THEN [subs EXCEPT ![pat[h]] = Without(@, id[h])] ELSE subs
  /\ UNCHANGED <<pat, id, todo>>

(* The patterns that a subject matches. *)
Reached == [subject \in SubjectNames |-> {p \in Patterns : matchSubject(p, subject)}]

(* Copy the handlers of all matching patterns under the read lock. *)
Publish(q, subject) ==
  /\ todo[q] = {}
  /\ todo' = [todo EXCEPT ![q] = UNION {In(subs[p]) : p \in Reached[subject]}]
  /\ UNCHANGED <<subs, state, pat, id>>

(* Call one of them, without the lock; its error is only logged. *)
CallHandler(q, h) ==
  /\ h \in todo[q]
  /\ todo' = [todo EXCEPT ![q] = @ \ {h}]
  /\ UNCHANGED <<subs, state, pat, id>>

(* A handler panics: Publish does not recover, the rest is not called. *)
HandlerPanics(q) ==
  /\ todo[q] # {}
  /\ todo' = [todo EXCEPT ![q] = {}]
  /\ UNCHANGED <<subs, state, pat, id>>

(* Users keep exclusive patterns exclusive; ApprovalGate shows that it does. *)
Next ==
  \/ \E h \in Handlers :
       \/ Cancel(h)
       \/ \E p \in Patterns : (p \in Exclusive => Subscribed(p) = {}) /\ Subscribe(h, p)
  \/ \E q \in Publishers :
       \/ HandlerPanics(q)
       \/ \E h \in todo[q] : CallHandler(q, h)
       \/ \E subject \in SubjectNames : Publish(q, subject)

Spec == Init /\ [][Next]_vars

-----------------------------------------------------------------------------
(* Properties. *)

(***************************************************************************)
(* For a pattern with one subscription at a time, the index captured by    *)
(* Subscribe is the right one: the slice holds exactly the subscribed      *)
(* handler, whatever happened to earlier subscriptions of the pattern.     *)
(***************************************************************************)
ExclusiveIsExact ==
  \A p \in Exclusive : In(subs[p]) = Subscribed(p)

Cancelled(p) == {h \in Handlers : state[h] = "cancelled" /\ pat[h] = p}

(***************************************************************************)
(* How far subscriptions may share a pattern: the first cancellation hits  *)
(* its own handler, at whatever index and however many subscribe before    *)
(* and after it.  The second may hit somebody else's or nobody's, since    *)
(* the first has shifted the indexes that were captured earlier.           *)
(***************************************************************************)
FirstCancelIsExact ==
  \A p \in Patterns, g \in Handlers :
    Cancelled(p) \subseteq {g} => In(subs[p]) = Subscribed(p)

(***************************************************************************)
(* A Publish reaches every handler that is subscribed to a matching        *)
(* exclusive pattern, and no cancelled one: a handler called after its     *)
(* cancellation was copied before it.                                      *)
(***************************************************************************)
PublishReachesSubscribed ==
  [][\A q \in Publishers, subject \in SubjectNames :
       Publish(q, subject) =>
         \A p \in Exclusive : matchSubject(p, subject) =>
            /\ Subscribed(p) \subseteq todo'[q]
            /\ \A h \in todo'[q] : pat[h] = p => state[h] = "subscribed"]_vars
=============================================================================
