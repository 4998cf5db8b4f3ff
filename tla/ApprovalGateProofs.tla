------------------------- MODULE ApprovalGateProofs -------------------------
(***************************************************************************)
(* First the bus, for any patterns, handlers and publishers: where a       *)
(* pattern has one subscription at a time, removal by index is exact.      *)
(* Then the approval gate over it: it uses the bus that way, keeps its     *)
(* contract, and is out of reach once its channel is closed.               *)
(***************************************************************************)
EXTENDS ApprovalGate, TLAPS

TypeOK ==
  /\ subs \in [Patterns -> Seq(Handlers)]
  /\ state \in [Handlers -> {"new", "subscribed", "cancelled"}]
  /\ pat \in [Handlers -> Patterns \union {<<>>}]
  /\ id \in [Handlers -> Nat]
  /\ todo \in [Publishers -> SUBSET Handlers]

(* A subscribed handler has a pattern; a handler is only in its pattern's slice. *)
OwnSlice ==
  /\ \A h \in Handlers : state[h] = "subscribed" => pat[h] \in Patterns
  /\ \A p \in Patterns : \A h \in In(subs[p]) : state[h] # "new" /\ pat[h] = p

(* An exclusive pattern: nothing, or its one subscription at index 0. *)
AtMostOne(p) ==
  \/ subs[p] = <<>> /\ Subscribed(p) = {}
  \/ \E h \in Handlers : subs[p] = <<h>> /\ Subscribed(p) = {h} /\ id[h] = 0

IInv == TypeOK /\ OwnSlice /\ \A p \in Exclusive : AtMostOne(p)

-----------------------------------------------------------------------------
(* Removing an element adds none. *)
LEMMA WithoutIn ==
  ASSUME NEW slice \in Seq(Handlers), NEW n \in Nat, n < Len(slice)
  PROVE  Without(slice, n) \in Seq(Handlers) /\ In(Without(slice, n)) \subseteq In(slice)
<1> DEFINE a == SubSeq(slice, 1, n)
           b == SubSeq(slice, n + 2, Len(slice))
<1>1. a \in Seq(Handlers) /\ Len(a) = n /\ \A k \in 1..n : a[k] = slice[k]
  OBVIOUS
<1>2. /\ b \in Seq(Handlers) /\ Len(b) = Len(slice) - n - 1
      /\ \A k \in 1..Len(b) : b[k] = slice[k + n + 1]
  OBVIOUS
<1> HIDE DEF a, b
<1>3. /\ a \o b \in Seq(Handlers)
      /\ Len(a \o b) = Len(slice) - 1
      /\ \A k \in 1..Len(a \o b) : (a \o b)[k] = IF k <= n THEN a[k] ELSE b[k - n]
  BY <1>1, <1>2
<1>4. \A k \in 1..Len(a \o b) : (a \o b)[k] = slice[k] \/ (a \o b)[k] = slice[k + 1]
  BY <1>1, <1>2, <1>3
<1>5. \A k \in 1..Len(a \o b) : k \in 1..Len(slice) /\ k + 1 \in 1..Len(slice)
  BY <1>3
<1>6. Without(slice, n) = a \o b
  BY DEF Without, a, b
<1>7. \A k \in DOMAIN (a \o b) : (a \o b)[k] \in In(slice)
  <2>1. DOMAIN (a \o b) = 1..Len(a \o b) /\ DOMAIN slice = 1..Len(slice)
    BY <1>3
  <2>2. \A k \in 1..Len(slice) : slice[k] \in In(slice)
    BY <2>1 DEF In
  <2> QED BY <1>4, <1>5, <2>1, <2>2
<1> QED BY <1>3, <1>6, <1>7 DEF In

(* Removing the only element leaves nothing. *)
LEMMA WithoutOnly ==
  ASSUME NEW h \in Handlers
  PROVE  Without(<<h>>, 0) = <<>> /\ Len(<<h>>) = 1 /\ In(<<h>>) = {h}
BY DEF Without, In

(* An appended handler is the only new element. *)
LEMMA AppendIn ==
  ASSUME NEW slice \in Seq(Handlers), NEW h \in Handlers
  PROVE  In(Append(slice, h)) = In(slice) \union {h}
<1> DEFINE longer == Append(slice, h)
<1>1. /\ DOMAIN longer = 1..(Len(slice) + 1)
      /\ longer[Len(slice) + 1] = h
      /\ \A k \in 1..Len(slice) : longer[k] = slice[k]
  OBVIOUS
<1>2. DOMAIN slice = 1..Len(slice) /\ Len(slice) \in Nat
  OBVIOUS
<1> HIDE DEF longer
<1>3. In(longer) \subseteq In(slice) \union {h}
  BY <1>1, <1>2 DEF In
<1>4. In(slice) \subseteq In(longer) /\ h \in In(longer)
  BY <1>1, <1>2 DEF In
<1> QED BY <1>3, <1>4 DEF longer

(* Every step keeps the invariant. *)
LEMMA InvariantStep == IInv /\ [Next]_vars => IInv'
<1> SUFFICES ASSUME IInv, [Next]_vars PROVE IInv'
  OBVIOUS
<1> USE MemoryBusAssumption DEF IInv, TypeOK
<1>1. ASSUME NEW h \in Handlers, NEW p \in Patterns, Subscribe(h, p),
             p \in Exclusive => Subscribed(p) = {}
      PROVE  IInv'
  <2>1. TypeOK'
    BY <1>1 DEF Subscribe
  <2>2. OwnSlice'
    <3>1. \A r \in Patterns : In(subs'[r]) = IF r = p THEN In(subs[p]) \union {h} ELSE In(subs[r])
      BY <1>1, AppendIn DEF Subscribe
    <3>2. \A g \in Handlers : g # h => state'[g] = state[g] /\ pat'[g] = pat[g]
      BY <1>1 DEF Subscribe
    <3>3. state'[h] = "subscribed" /\ pat'[h] = p
      BY <1>1 DEF Subscribe
    <3>4. \A r \in Patterns : In(subs[r]) \subseteq Handlers /\ h \notin In(subs[r])
      BY <1>1 DEF Subscribe, OwnSlice, In
    <3>5. \A g \in Handlers : state'[g] = "subscribed" => pat'[g] \in Patterns
      BY <3>2, <3>3 DEF OwnSlice
    <3>6. ASSUME NEW r \in Patterns, NEW g \in In(subs'[r])
          PROVE  state'[g] # "new" /\ pat'[g] = r
      <4>1. CASE r = p /\ g = h
        BY <3>3, <4>1
      <4>2. CASE g \in In(subs[r])
        BY <3>2, <3>4, <4>2 DEF OwnSlice
      <4> QED BY <3>1, <3>6, <4>1, <4>2
    <3> QED BY <3>5, <3>6 DEF OwnSlice
  <2>3. ASSUME NEW r \in Exclusive PROVE AtMostOne(r)'
    <3>1. CASE r = p
      <4>1. subs[p] = <<>> /\ Subscribed(p) = {}
        BY <1>1, <3>1 DEF AtMostOne
      <4>2. subs'[p] = <<h>> /\ id'[h] = 0
        BY <1>1, <4>1 DEF Subscribe
      <4>3. Subscribed(p)' = {h}
        BY <1>1, <4>1 DEF Subscribe, Subscribed
      <4> QED BY <3>1, <4>2, <4>3 DEF AtMostOne
    <3>2. CASE r # p
      <4>1. subs'[r] = subs[r] /\ \A g \in Handlers : g # h => id'[g] = id[g]
        BY <1>1, <3>2 DEF Subscribe
      <4>2. Subscribed(r)' = Subscribed(r) /\ h \notin Subscribed(r)
        BY <1>1, <3>2 DEF Subscribe, Subscribed
      <4> QED BY <4>1, <4>2 DEF AtMostOne
    <3> QED BY <3>1, <3>2
  <2> QED BY <2>1, <2>2, <2>3
<1>2. ASSUME NEW h \in Handlers, Cancel(h) PROVE IInv'
  <2>p. pat[h] \in Patterns /\ subs[pat[h]] \in Seq(Handlers) /\ id[h] \in Nat
    BY <1>2 DEF Cancel, OwnSlice
  <2>1. \A r \in Patterns : subs'[r] \in Seq(Handlers) /\ In(subs'[r]) \subseteq In(subs[r])
    BY <1>2, <2>p, WithoutIn DEF Cancel
  <2>2. TypeOK'
    BY <1>2, <2>p, <2>1 DEF Cancel
  <2>3. OwnSlice'
    <3>1. \A r \in Patterns : In(subs[r]) \subseteq Handlers
      BY DEF In
    <3>2. \A g \in Handlers : pat'[g] = pat[g] /\ (state[g] # "new" => state'[g] # "new")
                             /\ (state'[g] = "subscribed" => state[g] = "subscribed")
      BY <1>2 DEF Cancel
    <3> QED BY <2>1, <3>1, <3>2 DEF OwnSlice
  <2>4. ASSUME NEW r \in Exclusive PROVE AtMostOne(r)'
    <3>1. CASE r = pat[h]
      <4>1. subs[r] = <<h>> /\ Subscribed(r) = {h} /\ id[h] = 0
        BY <1>2, <3>1 DEF Cancel, AtMostOne, Subscribed
      <4>2. subs'[r] = <<>>
        BY <1>2, <2>p, <3>1, <4>1, WithoutOnly DEF Cancel
      <4>3. Subscribed(r)' = {}
        BY <1>2, <4>1 DEF Cancel, Subscribed
      <4> QED BY <4>2, <4>3 DEF AtMostOne
    <3>2. CASE r # pat[h]
      <4>1. subs'[r] = subs[r]
        BY <1>2, <2>p, <3>2 DEF Cancel
      <4>2. Subscribed(r)' = Subscribed(r)
        BY <1>2, <3>2 DEF Cancel, Subscribed
      <4> QED BY <1>2, <4>1, <4>2 DEF AtMostOne, Cancel
    <3> QED BY <3>1, <3>2
  <2> QED BY <2>2, <2>3, <2>4
<1>3. ASSUME NEW q \in Publishers, NEW subject \in SubjectNames, Publish(q, subject)
      PROVE  IInv'
  <2>1. UNION {In(subs[p]) : p \in Reached[subject]} \subseteq Handlers
    BY DEF In, Reached
  <2>2. TypeOK'
    BY <1>3, <2>1 DEF Publish
  <2> QED BY <1>3, <2>2 DEF Publish, OwnSlice, AtMostOne, Subscribed
<1>4. ASSUME NEW q \in Publishers, NEW h \in todo[q], CallHandler(q, h) PROVE IInv'
  BY <1>4 DEF CallHandler, OwnSlice, AtMostOne, Subscribed
<1>6. ASSUME NEW q \in Publishers, HandlerPanics(q) PROVE IInv'
  BY <1>6 DEF HandlerPanics, OwnSlice, AtMostOne, Subscribed
<1>5. ASSUME UNCHANGED vars PROVE IInv'
  BY <1>5 DEF vars, OwnSlice, AtMostOne, Subscribed
<1> QED BY <1>1, <1>2, <1>3, <1>4, <1>5, <1>6 DEF Next

(* The invariant holds in every reachable state. *)
THEOREM InvariantHolds == Spec => []IInv
<1>1. Init => IInv
  BY MemoryBusAssumption
     DEF Init, IInv, TypeOK, OwnSlice, AtMostOne, Subscribed, In
<1> QED BY <1>1, InvariantStep, PTL DEF Spec

(* The slice of an exclusive pattern is its subscription. *)
LEMMA Exact == IInv => ExclusiveIsExact
<1> SUFFICES ASSUME IInv, NEW p \in Exclusive PROVE In(subs[p]) = Subscribed(p)
  BY DEF ExclusiveIsExact
<1>1. In(<<>>) = {}
  BY DEF In
<1> QED BY <1>1, WithoutOnly DEF IInv, AtMostOne

(* Removal by index is exact for patterns with one subscription at a time. *)
THEOREM ExclusiveIsExactHolds == Spec => []ExclusiveIsExact
BY InvariantHolds, Exact, PTL

(* A Publish reaches the subscribed handlers of these patterns and no others. *)
THEOREM PublishReachesSubscribedHolds == Spec => PublishReachesSubscribed
<1> DEFINE Reaching(q, subject) ==
      Publish(q, subject) =>
         \A p \in Exclusive : matchSubject(p, subject) =>
            /\ Subscribed(p) \subseteq todo'[q]
            /\ \A h \in todo'[q] : pat[h] = p => state[h] = "subscribed"
<1>1. ASSUME IInv, NEW q \in Publishers, NEW subject \in SubjectNames
      PROVE  Reaching(q, subject)
  <2> SUFFICES ASSUME Publish(q, subject), NEW p \in Exclusive, matchSubject(p, subject)
               PROVE  /\ Subscribed(p) \subseteq todo'[q]
                      /\ \A h \in todo'[q] : pat[h] = p => state[h] = "subscribed"
    OBVIOUS
  <2>1. todo'[q] = UNION {In(subs[r]) : r \in {r \in Patterns : matchSubject(r, subject)}}
    BY <1>1 DEF IInv, TypeOK, Publish, Reached
  <2>2. In(subs[p]) = Subscribed(p) /\ p \in Patterns
    BY <1>1, Exact, MemoryBusAssumption DEF ExclusiveIsExact
  <2>3. \A r \in Patterns : \A h \in In(subs[r]) : pat[h] = r
    BY <1>1 DEF IInv, OwnSlice
  <2> QED BY <2>1, <2>2, <2>3 DEF Subscribed
<1>2. IInv => [\A q \in Publishers, subject \in SubjectNames : Reaching(q, subject)]_vars
  BY <1>1
<1> QED BY <1>2, InvariantHolds, PTL DEF PublishReachesSubscribed

-----------------------------------------------------------------------------
(* Patterns that several subscriptions share. *)

Distinct(slice) ==
  \A i, j \in 1..Len(slice) : slice[i] = slice[j] => i = j

(* Until the first cancellation every captured index is right. *)
ShareInv(p) ==
  /\ Distinct(subs[p])
  /\ Cancelled(p) = {} =>
       \A h \in Subscribed(p) : id[h] < Len(subs[p]) /\ subs[p][id[h] + 1] = h
  /\ \A g \in Handlers : Cancelled(p) \subseteq {g} => In(subs[p]) = Subscribed(p)

(* Removing an element leaves the others, in their order. *)
LEMMA WithoutRest ==
  ASSUME NEW slice \in Seq(Handlers), NEW n \in Nat, n < Len(slice), Distinct(slice)
  PROVE  /\ Distinct(Without(slice, n))
         /\ In(Without(slice, n)) = In(slice) \ {slice[n + 1]}
<1> DEFINE rest == Without(slice, n)
<1>1. /\ Len(rest) = Len(slice) - 1
      /\ \A k \in 1..Len(rest) : rest[k] = IF k <= n THEN slice[k] ELSE slice[k + 1]
      /\ rest \in Seq(Handlers)
  <2> DEFINE a == SubSeq(slice, 1, n)
             b == SubSeq(slice, n + 2, Len(slice))
  <2>1. a \in Seq(Handlers) /\ Len(a) = n /\ \A k \in 1..n : a[k] = slice[k]
    OBVIOUS
  <2>2. /\ b \in Seq(Handlers) /\ Len(b) = Len(slice) - n - 1
        /\ \A k \in 1..Len(b) : b[k] = slice[k + n + 1]
    OBVIOUS
  <2>3. rest = a \o b
    BY DEF Without
  <2> HIDE DEF a, b, rest
  <2>4. /\ a \o b \in Seq(Handlers)
        /\ Len(a \o b) = Len(slice) - 1
        /\ \A k \in 1..Len(a \o b) : (a \o b)[k] = IF k <= n THEN a[k] ELSE b[k - n]
    BY <2>1, <2>2
  <2>5. ASSUME NEW k \in 1..(Len(slice) - 1)
        PROVE  (a \o b)[k] = IF k <= n THEN slice[k] ELSE slice[k + 1]
    <3>1. CASE k <= n
      BY <2>1, <2>4, <3>1
    <3>2. CASE ~(k <= n)
      <4>1. k - n \in 1..Len(b) /\ (k - n) + n + 1 = k + 1
        BY <2>2, <3>2
      <4> QED BY <2>2, <2>4, <3>2, <4>1
    <3> QED BY <3>1, <3>2
  <2> QED BY <2>3, <2>4, <2>5
<1> HIDE DEF rest
<1>2. Distinct(rest)
  BY <1>1 DEF Distinct
<1>3. DOMAIN rest = 1..Len(rest) /\ DOMAIN slice = 1..Len(slice)
  BY <1>1
<1>4. In(rest) \subseteq In(slice) \ {slice[n + 1]}
  <2> SUFFICES ASSUME NEW k \in 1..Len(rest) PROVE rest[k] \in In(slice) \ {slice[n + 1]}
    BY <1>3 DEF In
  <2>1. PICK m \in 1..Len(slice) : rest[k] = slice[m] /\ m # n + 1
    <3>1. CASE k <= n
      BY <1>1, <3>1
    <3>2. CASE ~(k <= n)
      BY <1>1, <3>2
    <3> QED BY <3>1, <3>2
  <2>2. slice[m] # slice[n + 1]
    BY <2>1 DEF Distinct
  <2> QED BY <1>3, <2>1, <2>2 DEF In
<1>5. In(slice) \ {slice[n + 1]} \subseteq In(rest)
  <2> SUFFICES ASSUME NEW m \in 1..Len(slice), slice[m] # slice[n + 1]
               PROVE  slice[m] \in In(rest)
    BY <1>3 DEF In
  <2>1. CASE m <= n
    <3>1. m \in 1..Len(rest) /\ rest[m] = slice[m]
      BY <1>1, <2>1
    <3> QED BY <1>3, <3>1 DEF In
  <2>2. CASE m > n
    <3>1. m > n + 1
      BY <2>2
    <3>2. m - 1 \in 1..Len(rest) /\ ~(m - 1 <= n) /\ (m - 1) + 1 = m
      BY <1>1, <3>1
    <3>3. rest[m - 1] = slice[m]
      BY <1>1, <3>2
    <3> QED BY <1>3, <3>2, <3>3 DEF In
  <2> QED BY <2>1, <2>2
<1> QED BY <1>2, <1>4, <1>5 DEF rest

(* Every step keeps the shared slices in order. *)
LEMMA ShareStep ==
  IInv /\ (\A p \in Patterns : ShareInv(p)) /\ [Next]_vars => (\A p \in Patterns : ShareInv(p))'
<1> SUFFICES ASSUME IInv, \A p \in Patterns : ShareInv(p), [Next]_vars, NEW r \in Patterns
             PROVE  ShareInv(r)'
  OBVIOUS
<1> USE DEF IInv, TypeOK
<1>1. ASSUME NEW h \in Handlers, NEW p \in Patterns, Subscribe(h, p) PROVE ShareInv(r)'
  <2>1. CASE r # p
    <3>1. /\ subs'[r] = subs[r] /\ Cancelled(r)' = Cancelled(r) /\ Subscribed(r)' = Subscribed(r)
          /\ \A g \in Subscribed(r) : id'[g] = id[g]
      BY <1>1, <2>1 DEF Subscribe, Cancelled, Subscribed
    <3> QED BY <3>1 DEF ShareInv
  <2>2. CASE r = p
    <3> DEFINE slice == subs[p]
    <3>1. /\ subs'[p] = Append(slice, h) /\ slice \in Seq(Handlers) /\ id'[h] = Len(slice)
          /\ \A g \in Handlers : g # h => id'[g] = id[g]
      BY <1>1 DEF Subscribe
    <3>2. h \notin In(slice) /\ h \notin Subscribed(p)
      BY <1>1 DEF Subscribe, OwnSlice, Subscribed
    <3>3. Cancelled(p)' = Cancelled(p) /\ Subscribed(p)' = Subscribed(p) \union {h}
      BY <1>1 DEF Subscribe, Cancelled, Subscribed
    <3>4. /\ Len(subs'[p]) = Len(slice) + 1 /\ Len(slice) \in Nat
          /\ subs'[p][Len(slice) + 1] = h
          /\ \A k \in 1..Len(slice) : subs'[p][k] = slice[k]
      BY <3>1
    <3>5. \A k \in 1..Len(slice) : slice[k] # h
      BY <3>1, <3>2 DEF In
    <3>6. Distinct(slice) /\ In(subs'[p]) = In(slice) \union {h}
      BY <3>1, AppendIn DEF ShareInv
    <3> HIDE DEF slice
    <3>7. Distinct(subs'[p])
      <4> SUFFICES ASSUME NEW i \in 1..(Len(slice) + 1), NEW j \in 1..(Len(slice) + 1),
                          subs'[p][i] = subs'[p][j]
                   PROVE  i = j
        BY <3>4 DEF Distinct
      <4>1. CASE i \in 1..Len(slice) /\ j \in 1..Len(slice)
        <5>1. slice[i] = slice[j]
          BY <3>4, <4>1
        <5> QED BY <3>6, <4>1, <5>1 DEF Distinct
      <4>2. CASE i = Len(slice) + 1 /\ j \in 1..Len(slice)
        <5>1. subs'[p][i] = h
          BY <3>4, <4>2
        <5>2. subs'[p][j] = slice[j] /\ slice[j] # h
          BY <3>4, <3>5, <4>2
        <5> QED BY <5>1, <5>2
      <4>3. CASE j = Len(slice) + 1 /\ i \in 1..Len(slice)
        <5>1. subs'[p][j] = h
          BY <3>4, <4>3
        <5>2. subs'[p][i] = slice[i] /\ slice[i] # h
          BY <3>4, <3>5, <4>3
        <5> QED BY <5>1, <5>2
      <4>4. CASE i = Len(slice) + 1 /\ j = Len(slice) + 1
        BY <4>4
      <4>5. Len(slice) \in Nat
        BY <3>4
      <4> QED BY <4>1, <4>2, <4>3, <4>4, <4>5
    <3>8. ASSUME Cancelled(p) = {}, NEW g \in Subscribed(p) \union {h}
          PROVE  id'[g] < Len(subs'[p]) /\ subs'[p][id'[g] + 1] = g
      <4>1. CASE g = h
        BY <3>1, <3>4, <4>1
      <4>2. CASE g # h
        <5>1. g \in Handlers /\ id'[g] = id[g] /\ id[g] \in Nat
          BY <3>1, <3>8, <4>2 DEF Subscribed
        <5>2. id[g] < Len(slice) /\ slice[id[g] + 1] = g
          BY <3>8, <4>2 DEF ShareInv, slice
        <5>3. id[g] + 1 \in 1..Len(slice)
          BY <3>4, <5>1, <5>2
        <5>4. subs'[p][id[g] + 1] = g
          BY <3>4, <5>2, <5>3
        <5>5. id[g] < Len(subs'[p])
          BY <3>4, <5>1, <5>2
        <5> QED BY <5>1, <5>4, <5>5
      <4> QED BY <4>1, <4>2
    <3>9. \A g \in Handlers : Cancelled(p) \subseteq {g} => In(slice) = Subscribed(p)
      BY DEF ShareInv, slice
    <3> QED BY <2>2, <3>3, <3>6, <3>7, <3>8, <3>9 DEF ShareInv
  <2> QED BY <2>1, <2>2
<1>2. ASSUME NEW h \in Handlers, Cancel(h) PROVE ShareInv(r)'
  <2>p. pat[h] \in Patterns /\ subs[pat[h]] \in Seq(Handlers) /\ id[h] \in Nat
    BY <1>2 DEF Cancel, OwnSlice
  <2>1. CASE r # pat[h]
    <3>1. /\ subs'[r] = subs[r] /\ id' = id
          /\ Cancelled(r)' = Cancelled(r) /\ Subscribed(r)' = Subscribed(r)
      BY <1>2, <2>p, <2>1 DEF Cancel, Cancelled, Subscribed
    <3> QED BY <3>1 DEF ShareInv
  <2>2. CASE r = pat[h]
    <3>1. /\ Cancelled(r)' = Cancelled(r) \union {h}
          /\ Subscribed(r)' = Subscribed(r) \ {h}
          /\ h \in Subscribed(r) /\ h \notin Cancelled(r)
      BY <1>2, <2>2 DEF Cancel, Cancelled, Subscribed
    <3>2. subs'[r] = IF id[h] < Len(subs[r]) THEN Without(subs[r], id[h]) ELSE subs[r]
      BY <1>2, <2>p, <2>2 DEF Cancel
    <3>3. Distinct(subs'[r])
      BY <2>p, <2>2, <3>2, WithoutRest DEF ShareInv
    <3>4. ASSUME NEW g \in Handlers, Cancelled(r)' \subseteq {g}
          PROVE  In(subs'[r]) = Subscribed(r)'
      <4>1. Cancelled(r) = {}
        BY <3>1, <3>4
      <4>2. id[h] < Len(subs[r]) /\ subs[r][id[h] + 1] = h
        BY <3>1, <4>1 DEF ShareInv
      <4>3. In(subs[r]) = Subscribed(r)
        BY <4>1 DEF ShareInv
      <4>4. In(Without(subs[r], id[h])) = In(subs[r]) \ {h}
        BY <2>p, <2>2, <4>2, WithoutRest DEF ShareInv
      <4> QED BY <3>1, <3>2, <4>2, <4>3, <4>4
    <3>5. Cancelled(r)' # {}
      BY <3>1
    <3> QED BY <3>3, <3>4, <3>5 DEF ShareInv
  <2> QED BY <2>1, <2>2
<1>3. ASSUME UNCHANGED <<subs, state, pat, id>> PROVE ShareInv(r)'
  BY <1>3 DEF ShareInv, Cancelled, Subscribed
<1>4. ASSUME NEW q \in Publishers,
             \/ HandlerPanics(q)
             \/ \E h \in todo[q] : CallHandler(q, h)
             \/ \E subject \in SubjectNames : Publish(q, subject)
      PROVE  UNCHANGED <<subs, state, pat, id>>
  BY <1>4 DEF HandlerPanics, CallHandler, Publish
<1>5. CASE UNCHANGED vars
  BY <1>3, <1>5 DEF vars
<1> QED BY <1>1, <1>2, <1>3, <1>4, <1>5 DEF Next

(***************************************************************************)
(* A pattern of MemoryBus that any number of subscriptions share is in     *)
(* order until its second cancellation.                                    *)
(***************************************************************************)
THEOREM FirstCancelIsExactHolds == Spec => []FirstCancelIsExact
<1>1. Init => \A p \in Patterns : ShareInv(p)
  BY DEF Init, ShareInv, Distinct, Cancelled, Subscribed, In
<1>2. (\A p \in Patterns : ShareInv(p)) => FirstCancelIsExact
  BY DEF ShareInv, FirstCancelIsExact
<1> QED BY <1>1, <1>2, ShareStep, InvariantHolds, PTL DEF Spec

-----------------------------------------------------------------------------
(* The gate. *)

GateTypeOK ==
  /\ gate \in [Sessions -> Places]
  /\ respCh \in [Sessions -> Answers \union {"empty", "closed"}]
  /\ verdict \in [Sessions -> Answers \union {"pending", "timeout"}]
  /\ offered \in [Sessions -> SUBSET Answers]

(* Where the goroutine is tells which of its subscriptions there are. *)
Handler(s, v, st) == state[<<s, v>>] = st

Positions ==
  \A s \in Sessions :
    /\ gate[s] \in {"start", "requested", "unneeded"} =>
         Handler(s, "granted", "new") /\ Handler(s, "denied", "new")
    /\ gate[s] = "half" => Handler(s, "granted", "subscribed") /\ Handler(s, "denied", "new")
    /\ gate[s] \in {"waiting", "resolved"} =>
         Handler(s, "granted", "subscribed") /\ Handler(s, "denied", "subscribed")
    /\ gate[s] = "denyCancelled" =>
         Handler(s, "granted", "subscribed") /\ Handler(s, "denied", "cancelled")
    /\ gate[s] \in {"bothCancelled", "left"} =>
         Handler(s, "granted", "cancelled") /\ Handler(s, "denied", "cancelled")

(* An answer's subject is used by its own handler and no other. *)
OwnTopic ==
  /\ \A s \in Sessions, v \in Answers :
       state[<<s, v>>] # "new" => pat[<<s, v>>] = Topic(s, v)
  /\ \A h \in Handlers : state[h] # "new" /\ pat[h] \in Exclusive => h \in GateHandlers

(* Answers on their way, in the channel or decided on were offered. *)
OnlyOffered ==
  /\ \A q \in Publishers, s \in Sessions, v \in Answers :
       <<s, v>> \in todo[q] => v \in offered[s]
  /\ \A s \in Sessions : respCh[s] \in Answers => respCh[s] \in offered[s]
  /\ \A s \in Sessions : verdict[s] \in Answers => verdict[s] \in offered[s]

Decided ==
  \A s \in Sessions :
    /\ gate[s] \in {"start", "requested", "half", "waiting"} => verdict[s] = "pending"
    /\ respCh[s] = "closed" => gate[s] = "left"

Unneeded ==
  \A s \in Sessions : gate[s] = "unneeded" => checkPolicies(Adapter[s], output[s]) = {}

GInv == IInv /\ GateTypeOK /\ Positions /\ OwnTopic /\ OnlyOffered /\ Decided /\ Unneeded

(* Subjects of different sessions or answers do not match. *)
LEMMA TopicMatch ==
  ASSUME NEW s \in Sessions, NEW t \in Sessions,
         NEW v \in Answers \union {"request"}, NEW u \in Answers,
         matchSubject(Topic(t, u), Topic(s, v))
  PROVE  t = s /\ u = v
<1> DEFINE p == Topic(t, u)
           x == Topic(s, v)
<1>1. /\ Len(p) = 4 /\ p[1] = "foreman" /\ p[2] = "approval" /\ p[3] = t /\ p[4] = u
      /\ Len(x) = 4 /\ x[1] = "foreman" /\ x[2] = "approval" /\ x[3] = s /\ x[4] = v
  BY DEF Topic
<1>2. \A i \in 1..4 : p[i] # ">" /\ p[i] # "*"
  BY <1>1, GateAssumption DEF Answers
<1>3. CASE p = x
  BY <1>1, <1>3
<1>4. CASE p # x
  <2>1. PICK n \in Literal(p) : \A i \in 1..n : TokenMatches(p, x, i)
    BY <1>4 DEF matchSubject
  <2>2. n = 4
    BY <2>1, <1>1, <1>2 DEF Literal
  <2>3. p[3] = x[3] /\ p[4] = x[4]
    BY <2>1, <2>2, <1>2 DEF TokenMatches
  <2> QED BY <2>3, <1>1
<1> QED BY <1>3, <1>4

(* Topics tell sessions and answers apart. *)
LEMMA TopicInjective ==
  ASSUME NEW s \in Sessions, NEW t \in Sessions, NEW v \in Answers, NEW u \in Answers,
         Topic(s, v) = Topic(t, u)
  PROVE  s = t /\ v = u
BY DEF Topic

(* Every subject of a gate is an exclusive pattern, every gate handler a handler. *)
LEMMA GateNames ==
  ASSUME NEW s \in Sessions, NEW v \in Answers
  PROVE  /\ Topic(s, v) \in Exclusive /\ Topic(s, v) \in Patterns
         /\ Topic(s, v) \in SubjectNames /\ Topic(s, "request") \in SubjectNames
         /\ <<s, v>> \in Handlers /\ <<s, v>> \in GateHandlers /\ s \in Publishers
BY GateAssumption, MemoryBusAssumption DEF GateHandlers

(* A gate handler in a slice is subscribed, and the slice is its own. *)
LEMMA InSlice ==
  ASSUME GInv, NEW s \in Sessions, NEW v \in Answers, NEW p \in Patterns,
         <<s, v>> \in In(subs[p])
  PROVE  p = Topic(s, v) /\ state[<<s, v>>] = "subscribed"
<1>1. state[<<s, v>>] # "new" /\ pat[<<s, v>>] = p
  BY DEF GInv, IInv, OwnSlice
<1>2. p = Topic(s, v)
  BY <1>1 DEF GInv, OwnTopic
<1>3. In(subs[p]) = Subscribed(p)
  BY <1>2, GateNames, Exact DEF GInv, ExclusiveIsExact
<1> QED BY <1>2, <1>3 DEF Subscribed

(* A gate that has not subscribed finds its subject free. *)
LEMMA SubjectIsFree ==
  ASSUME GInv, NEW s \in Sessions, NEW v \in Answers, state[<<s, v>>] = "new"
  PROVE  Subscribed(Topic(s, v)) = {}
<1> SUFFICES ASSUME NEW h \in Subscribed(Topic(s, v)) PROVE FALSE
  OBVIOUS
<1>1. h \in Handlers /\ state[h] = "subscribed" /\ pat[h] = Topic(s, v)
  BY DEF Subscribed
<1>2. h \in GateHandlers
  BY <1>1, GateNames DEF GInv, OwnTopic
<1>3. PICK t \in Sessions, u \in Answers : h = <<t, u>>
  BY <1>2 DEF GateHandlers
<1>4. Topic(t, u) = Topic(s, v)
  BY <1>1, <1>3 DEF GInv, OwnTopic
<1> QED BY <1>1, <1>3, <1>4, TopicInjective

(* A Publish copies of the gates' handlers only the one that it is for. *)
LEMMA Copied ==
  ASSUME GInv, NEW q \in Publishers, NEW s \in Sessions, NEW v \in Answers \union {"request"},
         Publish(q, Topic(s, v)), Topic(s, v) \in SubjectNames,
         NEW t \in Sessions, NEW u \in Answers, <<t, u>> \in todo'[q]
  PROVE  t = s /\ u = v /\ state[<<t, u>>] = "subscribed"
<1>1. PICK p \in Patterns : matchSubject(p, Topic(s, v)) /\ <<t, u>> \in In(subs[p])
  BY DEF GInv, IInv, TypeOK, Publish, Reached
<1>2. p = Topic(t, u) /\ state[<<t, u>>] = "subscribed"
  BY <1>1, InSlice
<1> QED BY <1>1, <1>2, TopicMatch

(* A request reaches no gate. *)
LEMMA RequestCopiesNone ==
  ASSUME GInv, NEW s \in Sessions, Publish(s, Topic(s, "request"))
  PROVE  \A t \in Sessions, u \in Answers : <<t, u>> \notin todo'[s]
<1> SUFFICES ASSUME NEW t \in Sessions, NEW u \in Answers, <<t, u>> \in todo'[s] PROVE FALSE
  OBVIOUS
<1>1. s \in Publishers /\ Topic(s, "request") \in SubjectNames
  BY GateNames
<1>2. "request" \in Answers \union {"request"}
  OBVIOUS
<1>3. u = "request"
  BY <1>1, <1>2, Copied
<1> QED BY <1>3 DEF Answers

(* Every step of the gate and its neighbours is a step of the bus. *)
LEMMA GateUsesBus == GInv /\ [GateNext]_gateVars => [Next]_vars
<1> SUFFICES ASSUME GInv, [GateNext]_gateVars PROVE [Next]_vars
  OBVIOUS
<1>1. ASSUME NEW s \in Sessions, Gate(s) PROVE [Next]_vars
  <2>1. CASE RequestApproval(s)
    BY <2>1, GateNames DEF RequestApproval, Next, Answers
  <2>2. CASE SubscribeGranted(s)
    <3>1. Subscribe(<<s, "granted">>, Topic(s, "granted")) /\ state[<<s, "granted">>] = "new"
      BY <2>2 DEF SubscribeGranted, Subscribe
    <3> QED BY <3>1, GateNames, SubjectIsFree DEF Next, Answers
  <2>3. CASE SubscribeDenied(s)
    <3>1. Subscribe(<<s, "denied">>, Topic(s, "denied")) /\ state[<<s, "denied">>] = "new"
      BY <2>3 DEF SubscribeDenied, Subscribe
    <3> QED BY <3>1, GateNames, SubjectIsFree DEF Next, Answers
  <2>4. CASE CancelDenied(s) \/ CancelGranted(s)
    BY <2>4, GateNames DEF CancelDenied, CancelGranted, Next, Answers
  <2>5. CASE NoMatch(s) \/ Receive(s) \/ TimesOut(s) \/ CloseRespCh(s)
    BY <2>5 DEF NoMatch, Receive, TimesOut, CloseRespCh, busVars, vars
  <2> QED BY <1>1, <2>1, <2>2, <2>3, <2>4, <2>5 DEF Gate
<1>2. ASSUME NEW q \in Publishers, Publisher(q) PROVE [Next]_vars
  <2>1. ASSUME NEW h \in todo[q], CallHandler(q, h) PROVE Next
    BY <2>1 DEF Next
  <2>2. ASSUME HandlerPanics(q) PROVE Next
    BY <2>2 DEF Next
  <2>3. CASE CallOther(q)
    BY <2>1, <2>3 DEF CallOther
  <2>4. CASE \E h \in todo[q] \intersect GateHandlers :
               Send(q, h[1], h[2]) \/ SendPanics(q, h[1], h[2])
    <3>1. PICK h \in todo[q] \intersect GateHandlers :
            Send(q, h[1], h[2]) \/ SendPanics(q, h[1], h[2])
      BY <2>4
    <3>2. h = <<h[1], h[2]>>
      BY <3>1 DEF GateHandlers
    <3> QED BY <2>1, <2>2, <3>1, <3>2 DEF Send, SendPanics
  <2> QED BY <1>2, <2>3, <2>4 DEF Publisher
<1>3. ASSUME NEW q \in Answerers, NEW s \in Sessions, NEW v \in Answers, Answer(q, s, v)
      PROVE  [Next]_vars
  BY <1>3, GateNames, GateAssumption DEF Answer, Next
<1>4. ASSUME NEW h \in Handlers \ GateHandlers, Others(h) PROVE [Next]_vars
  <2>1. ASSUME NEW r \in Patterns \ Exclusive, Subscribe(h, r) PROVE Next
    BY <2>1 DEF Next
  <2>2. ASSUME Cancel(h) PROVE Next
    BY <2>2 DEF Next
  <2> QED BY <1>4, <2>1, <2>2 DEF Others
<1>5. ASSUME UNCHANGED gateVars PROVE [Next]_vars
  BY <1>5 DEF gateVars, busVars, vars
<1> QED BY <1>1, <1>2, <1>3, <1>4, <1>5 DEF GateNext

(* A step of the session's goroutine. *)
LEMMA GateStep ==
  ASSUME GInv, NEW s \in Sessions, Gate(s), IInv'
  PROVE  GInv'
<1> USE DEF GInv, Answers
<1>1. CASE NoMatch(s)
  <2>1. GateTypeOK'
    BY <1>1 DEF NoMatch, Goto, busVars, GateTypeOK, Places
  <2>2. Positions'
    BY <1>1, GateNames DEF NoMatch, Goto, busVars, Positions, Handler, GateTypeOK
  <2>3. OwnTopic'
    BY <1>1, GateNames DEF NoMatch, Goto, busVars, OwnTopic
  <2>4. OnlyOffered'
    BY <1>1 DEF NoMatch, Goto, busVars, OnlyOffered, GateTypeOK
  <2>5. Decided'
    BY <1>1 DEF NoMatch, Goto, busVars, Decided, GateTypeOK
  <2>6. Unneeded'
    BY <1>1 DEF NoMatch, Goto, busVars, Unneeded, GateTypeOK
  <2> QED BY <2>1, <2>2, <2>3, <2>4, <2>5, <2>6
<1>2. CASE RequestApproval(s)
  <2>1. GateTypeOK'
    BY <1>2 DEF RequestApproval, Goto, Publish, GateTypeOK, Places
  <2>2. Positions'
    BY <1>2, GateNames DEF RequestApproval, Goto, Publish, Positions, Handler, GateTypeOK
  <2>3. OwnTopic'
    BY <1>2, GateNames DEF RequestApproval, Goto, Publish, OwnTopic, IInv, TypeOK
  <2>4. OnlyOffered'
    <3>1. \A t \in Sessions, u \in Answers : <<t, u>> \notin todo'[s]
      BY <1>2, RequestCopiesNone DEF RequestApproval
    <3>2. \A q \in Publishers : q # s => todo'[q] = todo[q]
      BY <1>2 DEF RequestApproval, Publish, IInv, TypeOK
    <3> QED BY <1>2, <3>1, <3>2 DEF RequestApproval, Goto, OnlyOffered, GateTypeOK
  <2>5. Decided'
    BY <1>2 DEF RequestApproval, Goto, Publish, Decided, GateTypeOK
  <2>6. Unneeded'
    BY <1>2 DEF RequestApproval, Goto, Publish, Unneeded, GateTypeOK
  <2> QED BY <2>1, <2>2, <2>3, <2>4, <2>5, <2>6
<1>3. CASE SubscribeGranted(s)
  <2>1. GateTypeOK'
    BY <1>3 DEF SubscribeGranted, Goto, Subscribe, GateTypeOK, Places
  <2>2. Positions'
    <3>1. \A h \in Handlers : state'[h] = IF h = <<s, "granted">> THEN "subscribed" ELSE state[h]
      BY <1>3 DEF SubscribeGranted, Subscribe, IInv, TypeOK
    <3>2. \A t \in Sessions, u \in Answers :
            state'[<<t, u>>] = IF t = s /\ u = "granted" THEN "subscribed" ELSE state[<<t, u>>]
      BY <3>1, GateNames
    <3>3. gate[s] = "requested" /\ gate'[s] = "half" /\ \A t \in Sessions : t # s => gate'[t] = gate[t]
      BY <1>3 DEF SubscribeGranted, Goto, GateTypeOK
    <3>4. state'[<<s, "granted">>] = "subscribed" /\ state'[<<s, "denied">>] = state[<<s, "denied">>]
      BY <3>2
    <3>5. \A t \in Sessions : t # s => /\ state'[<<t, "granted">>] = state[<<t, "granted">>]
                                     /\ state'[<<t, "denied">>] = state[<<t, "denied">>]
      BY <3>2
    <3> QED BY <3>3, <3>4, <3>5 DEF Positions, Handler
  <2>3. OwnTopic'
    BY <1>3, GateNames DEF SubscribeGranted, Goto, Subscribe, OwnTopic, IInv, TypeOK
  <2>4. OnlyOffered'
    BY <1>3 DEF SubscribeGranted, Goto, Subscribe, OnlyOffered, GateTypeOK
  <2>5. Decided'
    BY <1>3 DEF SubscribeGranted, Goto, Subscribe, Decided, GateTypeOK
  <2>6. Unneeded'
    BY <1>3 DEF SubscribeGranted, Goto, Subscribe, Unneeded, GateTypeOK
  <2> QED BY <2>1, <2>2, <2>3, <2>4, <2>5, <2>6
<1>4. CASE SubscribeDenied(s)
  <2>1. GateTypeOK'
    BY <1>4 DEF SubscribeDenied, Goto, Subscribe, GateTypeOK, Places
  <2>2. Positions'
    <3>1. \A h \in Handlers : state'[h] = IF h = <<s, "denied">> THEN "subscribed" ELSE state[h]
      BY <1>4 DEF SubscribeDenied, Subscribe, IInv, TypeOK
    <3>2. \A t \in Sessions, u \in Answers :
            state'[<<t, u>>] = IF t = s /\ u = "denied" THEN "subscribed" ELSE state[<<t, u>>]
      BY <3>1, GateNames
    <3>3. gate[s] = "half" /\ gate'[s] = "waiting" /\ \A t \in Sessions : t # s => gate'[t] = gate[t]
      BY <1>4 DEF SubscribeDenied, Goto, GateTypeOK
    <3>4. state'[<<s, "denied">>] = "subscribed" /\ state'[<<s, "granted">>] = state[<<s, "granted">>]
      BY <3>2
    <3>5. \A t \in Sessions : t # s => /\ state'[<<t, "granted">>] = state[<<t, "granted">>]
                                     /\ state'[<<t, "denied">>] = state[<<t, "denied">>]
      BY <3>2
    <3> QED BY <3>3, <3>4, <3>5 DEF Positions, Handler
  <2>3. OwnTopic'
    BY <1>4, GateNames DEF SubscribeDenied, Goto, Subscribe, OwnTopic, IInv, TypeOK
  <2>4. OnlyOffered'
    BY <1>4 DEF SubscribeDenied, Goto, Subscribe, OnlyOffered, GateTypeOK
  <2>5. Decided'
    BY <1>4 DEF SubscribeDenied, Goto, Subscribe, Decided, GateTypeOK
  <2>6. Unneeded'
    BY <1>4 DEF SubscribeDenied, Goto, Subscribe, Unneeded, GateTypeOK
  <2> QED BY <2>1, <2>2, <2>3, <2>4, <2>5, <2>6
<1>5. CASE Receive(s)
  <2>1. GateTypeOK'
    BY <1>5 DEF Receive, Goto, busVars, GateTypeOK, Places
  <2>2. Positions'
    BY <1>5, GateNames DEF Receive, Goto, busVars, Positions, Handler, GateTypeOK
  <2>3. OwnTopic'
    BY <1>5, GateNames DEF Receive, Goto, busVars, OwnTopic
  <2>4. OnlyOffered'
    BY <1>5 DEF Receive, Goto, busVars, OnlyOffered, GateTypeOK
  <2>5. Decided'
    BY <1>5 DEF Receive, Goto, busVars, Decided, GateTypeOK
  <2>6. Unneeded'
    BY <1>5 DEF Receive, Goto, busVars, Unneeded, GateTypeOK
  <2> QED BY <2>1, <2>2, <2>3, <2>4, <2>5, <2>6
<1>6. CASE TimesOut(s)
  <2>1. GateTypeOK'
    BY <1>6 DEF TimesOut, Goto, busVars, GateTypeOK, Places
  <2>2. Positions'
    BY <1>6, GateNames DEF TimesOut, Goto, busVars, Positions, Handler, GateTypeOK
  <2>3. OwnTopic'
    BY <1>6, GateNames DEF TimesOut, Goto, busVars, OwnTopic
  <2>4. OnlyOffered'
    BY <1>6 DEF TimesOut, Goto, busVars, OnlyOffered, GateTypeOK
  <2>5. Decided'
    BY <1>6 DEF TimesOut, Goto, busVars, Decided, GateTypeOK
  <2>6. Unneeded'
    BY <1>6 DEF TimesOut, Goto, busVars, Unneeded, GateTypeOK
  <2> QED BY <2>1, <2>2, <2>3, <2>4, <2>5, <2>6
<1>7. CASE CancelDenied(s)
  <2>1. GateTypeOK'
    BY <1>7 DEF CancelDenied, Goto, Cancel, GateTypeOK, Places
  <2>2. Positions'
    <3>1. \A h \in Handlers : state'[h] = IF h = <<s, "denied">> THEN "cancelled" ELSE state[h]
      BY <1>7 DEF CancelDenied, Cancel, IInv, TypeOK
    <3>2. \A t \in Sessions, u \in Answers :
            state'[<<t, u>>] = IF t = s /\ u = "denied" THEN "cancelled" ELSE state[<<t, u>>]
      BY <3>1, GateNames
    <3>3. gate[s] = "resolved" /\ gate'[s] = "denyCancelled" /\ \A t \in Sessions : t # s => gate'[t] = gate[t]
      BY <1>7 DEF CancelDenied, Goto, GateTypeOK
    <3>4. state'[<<s, "denied">>] = "cancelled" /\ state'[<<s, "granted">>] = state[<<s, "granted">>]
      BY <3>2
    <3>5. \A t \in Sessions : t # s => /\ state'[<<t, "granted">>] = state[<<t, "granted">>]
                                     /\ state'[<<t, "denied">>] = state[<<t, "denied">>]
      BY <3>2
    <3> QED BY <3>3, <3>4, <3>5 DEF Positions, Handler
  <2>3. OwnTopic'
    BY <1>7, GateNames DEF CancelDenied, Goto, Cancel, OwnTopic, IInv, TypeOK
  <2>4. OnlyOffered'
    BY <1>7 DEF CancelDenied, Goto, Cancel, OnlyOffered, GateTypeOK
  <2>5. Decided'
    BY <1>7 DEF CancelDenied, Goto, Cancel, Decided, GateTypeOK
  <2>6. Unneeded'
    BY <1>7 DEF CancelDenied, Goto, Cancel, Unneeded, GateTypeOK
  <2> QED BY <2>1, <2>2, <2>3, <2>4, <2>5, <2>6
<1>8. CASE CancelGranted(s)
  <2>1. GateTypeOK'
    BY <1>8 DEF CancelGranted, Goto, Cancel, GateTypeOK, Places
  <2>2. Positions'
    <3>1. \A h \in Handlers : state'[h] = IF h = <<s, "granted">> THEN "cancelled" ELSE state[h]
      BY <1>8 DEF CancelGranted, Cancel, IInv, TypeOK
    <3>2. \A t \in Sessions, u \in Answers :
            state'[<<t, u>>] = IF t = s /\ u = "granted" THEN "cancelled" ELSE state[<<t, u>>]
      BY <3>1, GateNames
    <3>3. gate[s] = "denyCancelled" /\ gate'[s] = "bothCancelled" /\ \A t \in Sessions : t # s => gate'[t] = gate[t]
      BY <1>8 DEF CancelGranted, Goto, GateTypeOK
    <3>4. state'[<<s, "granted">>] = "cancelled" /\ state'[<<s, "denied">>] = state[<<s, "denied">>]
      BY <3>2
    <3>5. \A t \in Sessions : t # s => /\ state'[<<t, "granted">>] = state[<<t, "granted">>]
                                     /\ state'[<<t, "denied">>] = state[<<t, "denied">>]
      BY <3>2
    <3> QED BY <3>3, <3>4, <3>5 DEF Positions, Handler
  <2>3. OwnTopic'
    BY <1>8, GateNames DEF CancelGranted, Goto, Cancel, OwnTopic, IInv, TypeOK
  <2>4. OnlyOffered'
    BY <1>8 DEF CancelGranted, Goto, Cancel, OnlyOffered, GateTypeOK
  <2>5. Decided'
    BY <1>8 DEF CancelGranted, Goto, Cancel, Decided, GateTypeOK
  <2>6. Unneeded'
    BY <1>8 DEF CancelGranted, Goto, Cancel, Unneeded, GateTypeOK
  <2> QED BY <2>1, <2>2, <2>3, <2>4, <2>5, <2>6
<1>9. CASE CloseRespCh(s)
  <2>1. GateTypeOK'
    BY <1>9 DEF CloseRespCh, Goto, busVars, GateTypeOK, Places
  <2>2. Positions'
    BY <1>9, GateNames DEF CloseRespCh, Goto, busVars, Positions, Handler, GateTypeOK
  <2>3. OwnTopic'
    BY <1>9, GateNames DEF CloseRespCh, Goto, busVars, OwnTopic
  <2>4. OnlyOffered'
    BY <1>9 DEF CloseRespCh, Goto, busVars, OnlyOffered, GateTypeOK
  <2>5. Decided'
    BY <1>9 DEF CloseRespCh, Goto, busVars, Decided, GateTypeOK
  <2>6. Unneeded'
    BY <1>9 DEF CloseRespCh, Goto, busVars, Unneeded, GateTypeOK
  <2> QED BY <2>1, <2>2, <2>3, <2>4, <2>5, <2>6
<1> QED BY <1>1, <1>2, <1>3, <1>4, <1>5, <1>6, <1>7, <1>8, <1>9 DEF Gate

(* A step of somebody who publishes. *)
LEMMA PublisherStep ==
  ASSUME GInv, NEW q \in Publishers, Publisher(q), IInv'
  PROVE  GInv'
<1> USE DEF GInv
<1>1. CASE CallOther(q)
  <2>1. todo' \in [Publishers -> SUBSET Handlers] /\ \A r \in Publishers : todo'[r] \subseteq todo[r]
    BY <1>1 DEF CallOther, CallHandler, IInv, TypeOK
  <2>2. UNCHANGED <<state, pat, output, gate, respCh, verdict, offered>>
    BY <1>1 DEF CallOther, CallHandler
  <2> QED BY <2>1, <2>2 DEF GateTypeOK, Positions, Handler, OwnTopic, OnlyOffered, Decided, Unneeded
<1>2. ASSUME NEW s \in Sessions, NEW v \in Answers, <<s, v>> \in todo[q], Send(q, s, v) PROVE GInv'
  <2>1. \A r \in Publishers : todo'[r] \subseteq todo[r]
    BY <1>2 DEF Send, CallHandler, IInv, TypeOK
  <2>2. UNCHANGED <<state, pat, output, gate, verdict, offered>>
    BY <1>2 DEF Send, CallHandler
  <2>3. v \in offered[s] /\ v # "closed"
    BY <1>2 DEF OnlyOffered, Answers
  <2>4. \A t \in Sessions : respCh'[t] = IF t = s THEN v ELSE respCh[t]
    BY <1>2 DEF Send, GateTypeOK
  <2>5. GateTypeOK'
    BY <1>2, <2>2 DEF Send, GateTypeOK
  <2>6. OnlyOffered'
    BY <2>1, <2>2, <2>3, <2>4 DEF OnlyOffered
  <2>7. Decided'
    BY <2>2, <2>3, <2>4 DEF Decided
  <2> QED BY <2>2, <2>5, <2>6, <2>7 DEF Positions, Handler, OwnTopic, Unneeded
<1>3. ASSUME NEW s \in Sessions, NEW v \in Answers, SendPanics(q, s, v) PROVE GInv'
  <2>1. \A r \in Publishers : todo'[r] \subseteq todo[r]
    BY <1>3 DEF SendPanics, HandlerPanics, IInv, TypeOK
  <2>2. UNCHANGED <<state, pat, output, gate, respCh, verdict, offered>>
    BY <1>3 DEF SendPanics, HandlerPanics
  <2> QED BY <2>1, <2>2 DEF GateTypeOK, Positions, Handler, OwnTopic, OnlyOffered, Decided, Unneeded
<1>4. CASE \E h \in todo[q] \intersect GateHandlers :
             Send(q, h[1], h[2]) \/ SendPanics(q, h[1], h[2])
  <2>1. PICK h \in todo[q] \intersect GateHandlers :
          Send(q, h[1], h[2]) \/ SendPanics(q, h[1], h[2])
    BY <1>4
  <2>2. h = <<h[1], h[2]>> /\ h[1] \in Sessions /\ h[2] \in Answers
    BY <2>1 DEF GateHandlers
  <2> QED BY <1>2, <1>3, <2>1, <2>2
<1> QED BY <1>1, <1>4 DEF Publisher

(* An answer, and the subscriptions of others. *)
LEMMA OutsideStep ==
  ASSUME GInv, IInv',
         \/ \E q \in Answerers, s \in Sessions, v \in Answers : Answer(q, s, v)
         \/ \E h \in Handlers \ GateHandlers : Others(h)
         \/ UNCHANGED gateVars
  PROVE  GInv'
<1> USE DEF GInv
<1>1. ASSUME NEW q \in Answerers, NEW s \in Sessions, NEW v \in Answers, Answer(q, s, v)
      PROVE  GInv'
  <2>1. UNCHANGED <<state, pat, output, gate, respCh, verdict>>
    BY <1>1 DEF Answer, Publish
  <2>2. offered' = [offered EXCEPT ![s] =
                      IF state[<<s, v>>] = "subscribed" THEN @ \union {v} ELSE @]
    BY <1>1 DEF Answer
  <2>3. GateTypeOK'
    BY <2>1, <2>2 DEF GateTypeOK
  <2>4. \A t \in Sessions : offered[t] \subseteq offered'[t]
    BY <2>2 DEF GateTypeOK
  <2>5. q \in Publishers /\ Publish(q, Topic(s, v)) /\ Topic(s, v) \in SubjectNames
    BY <1>1, GateNames, GateAssumption DEF Answer
  <2>6. \A t \in Sessions, u \in Answers : <<t, u>> \in todo'[q] => u \in offered'[t]
    <3> SUFFICES ASSUME NEW t \in Sessions, NEW u \in Answers, <<t, u>> \in todo'[q]
                 PROVE  u \in offered'[t]
      OBVIOUS
    <3>1. t = s /\ u = v /\ state[<<t, u>>] = "subscribed"
      BY <2>5, Copied
    <3> QED BY <2>2, <3>1 DEF GateTypeOK
  <2>7. \A r \in Publishers : r # q => todo'[r] = todo[r]
    BY <2>5 DEF Publish, IInv, TypeOK
  <2>8. OnlyOffered'
    BY <2>1, <2>4, <2>6, <2>7 DEF OnlyOffered
  <2> QED BY <2>1, <2>3, <2>8 DEF Positions, Handler, OwnTopic, Decided, Unneeded
<1>2. ASSUME NEW h \in Handlers \ GateHandlers, Others(h) PROVE GInv'
  <2>1. UNCHANGED <<todo, output, gate, respCh, verdict, offered>>
    BY <1>2 DEF Others, Cancel, Subscribe
  <2>2. \A g \in Handlers : g # h => state'[g] = state[g] /\ pat'[g] = pat[g]
    BY <1>2 DEF Others, Cancel, Subscribe, IInv, TypeOK
  <2>3. \A s \in Sessions, v \in Answers :
          state'[<<s, v>>] = state[<<s, v>>] /\ pat'[<<s, v>>] = pat[<<s, v>>]
    BY <2>2, GateNames
  <2>4. Positions'
    BY <2>1, <2>3 DEF Positions, Handler, Answers
  <2>5. state'[h] # "new" => pat'[h] \notin Exclusive
    <3>1. CASE Cancel(h)
      BY <3>1 DEF Cancel, OwnTopic, IInv, TypeOK
    <3>2. CASE \E p \in Patterns \ Exclusive : Subscribe(h, p)
      BY <3>2 DEF Subscribe, IInv, TypeOK
    <3> QED BY <1>2, <3>1, <3>2 DEF Others
  <2>6. OwnTopic'
    BY <2>2, <2>3, <2>5 DEF OwnTopic
  <2> QED BY <2>1, <2>4, <2>6 DEF GateTypeOK, OnlyOffered, Decided, Unneeded
<1>3. ASSUME UNCHANGED gateVars PROVE GInv'
  BY <1>3 DEF gateVars, busVars, GateTypeOK, Positions, Handler, OwnTopic, OnlyOffered, Decided, Unneeded
<1> QED BY <1>1, <1>2, <1>3

(* The invariant of the gate over the bus. *)
THEOREM GateInvariantHolds == GateSpec => []GInv
<1>1. GateInit => GInv
  <2> SUFFICES ASSUME GateInit PROVE GInv
    OBVIOUS
  <2>1. IInv
    BY MemoryBusAssumption
       DEF GateInit, Init, IInv, TypeOK, OwnSlice, AtMostOne, Subscribed, In
  <2>2. GateTypeOK
    BY DEF GateInit, GateTypeOK, Places
  <2>3. Positions
    BY GateNames DEF GateInit, Init, Positions, Handler, Answers
  <2>4. OwnTopic
    BY GateNames DEF GateInit, Init, OwnTopic
  <2>5. OnlyOffered /\ Decided /\ Unneeded
    BY DEF GateInit, Init, OnlyOffered, Decided, Unneeded, Answers
  <2> QED BY <2>1, <2>2, <2>3, <2>4, <2>5 DEF GInv
<1>2. GInv /\ [GateNext]_gateVars => GInv'
  <2> SUFFICES ASSUME GInv, [GateNext]_gateVars PROVE GInv'
    OBVIOUS
  <2>1. IInv'
    BY GateUsesBus, InvariantStep DEF GInv
  <2> QED BY <2>1, GateStep, PublisherStep, OutsideStep DEF GateNext
<1> QED BY <1>1, <1>2, PTL DEF GateSpec

(* The gate, the answerers and the others use the bus as it expects. *)
THEOREM BusSpecHolds == GateSpec => BusSpec
<1>1. GateInit => Init
  BY DEF GateInit
<1> QED BY <1>1, GateUsesBus, GateInvariantHolds, PTL DEF GateSpec, BusSpec, Spec

(* And what is published reaches the gate that listens, and only that one. *)
THEOREM GatePublishReachesSubscribed == GateSpec => PublishReachesSubscribed
BY BusSpecHolds, PublishReachesSubscribedHolds, PTL DEF BusSpec

(* Nothing on the bus sends to a closed channel. *)
THEOREM ClosedIsUnreachableHolds == GateSpec => []ClosedIsUnreachable
<1>1. GInv => ClosedIsUnreachable
  <2> SUFFICES ASSUME GInv, NEW s \in Sessions, respCh[s] = "closed",
                      NEW p \in Patterns, NEW v \in Answers, <<s, v>> \in In(subs[p])
               PROVE  FALSE
    BY DEF ClosedIsUnreachable
  <2>1. state[<<s, v>>] = "subscribed"
    BY InSlice
  <2>2. gate[s] = "left"
    BY DEF GInv, Decided
  <2>3. state[<<s, v>>] = "cancelled"
    BY <2>2 DEF GInv, Positions, Handler, Answers
  <2> QED BY <2>1, <2>3
<1> QED BY <1>1, GateInvariantHolds, PTL

(* waitForApproval implements the abstract gate. *)
THEOREM ContractSpecHolds == GateSpec => ContractSpec
<1>1. GateInit => Contract!Init
  BY DEF GateInit, Contract!Init
<1>2. GInv /\ [GateNext]_gateVars => [Contract!Next]_<<offered, verdict>>
  <2> SUFFICES ASSUME GInv, [GateNext]_gateVars,
                      ~ UNCHANGED <<offered, verdict>>
               PROVE  Contract!Next
    OBVIOUS
  <2>1. ASSUME NEW s \in Sessions, Receive(s) PROVE Contract!Next
    <3>1. respCh[s] \in offered[s] /\ verdict[s] = "pending"
      BY <2>1 DEF Receive, Goto, GInv, OnlyOffered, Decided
    <3>2. Contract!Resolve(s)
      BY <2>1, <3>1 DEF Receive, Goto, Contract!Resolve
    <3> QED BY <3>2 DEF Contract!Next
  <2>2. ASSUME NEW s \in Sessions, TimesOut(s) PROVE Contract!Next
    <3>1. Contract!Resolve(s)
      BY <2>2 DEF TimesOut, Goto, GInv, Decided, Contract!Resolve
    <3> QED BY <3>1 DEF Contract!Next
  <2>3. ASSUME NEW q \in Answerers, NEW s \in Sessions, NEW v \in Answers, Answer(q, s, v)
        PROVE  Contract!Next
    <3>1. verdict' = verdict /\ offered' # offered
      BY <2>3 DEF Answer
    <3>2. offered' = [offered EXCEPT ![s] = @ \union {v}]
      BY <2>3, <3>1 DEF Answer, GInv, GateTypeOK
    <3>3. Contract!Offer(s)
      BY <3>1, <3>2 DEF Contract!Offer, Answers
    <3> QED BY <3>3 DEF Contract!Next
  <2>4. ASSUME NEW s \in Sessions, Gate(s) PROVE Receive(s) \/ TimesOut(s)
    BY <2>4 DEF Gate, NoMatch, RequestApproval, SubscribeGranted, SubscribeDenied,
                CancelDenied, CancelGranted, CloseRespCh, Goto
  <2>5. ASSUME NEW q \in Publishers, Publisher(q) PROVE FALSE
    BY <2>5 DEF Publisher, CallOther, Send, SendPanics
  <2>6. ASSUME NEW h \in Handlers \ GateHandlers, Others(h) PROVE FALSE
    BY <2>6 DEF Others
  <2>7. ~ UNCHANGED gateVars
    BY DEF gateVars
  <2> QED BY <2>1, <2>2, <2>3, <2>4, <2>5, <2>6, <2>7 DEF GateNext
<1> QED BY <1>1, <1>2, GateInvariantHolds, PTL DEF GateSpec, ContractSpec, Contract!Spec

(* The pipeline from a line to a match loses no restricted tool call. *)
LEMMA RestrictedIsMatched ==
  ASSUME NEW adapter, NEW out, NEW i \in DOMAIN out, NEW j \in DOMAIN Policies,
         Restricted(out[i], Policies[j]), Sees(adapter, out[i], Policies[j])
  PROVE  <<i, j>> \in checkPolicies(adapter, out)
<1> DEFINE line == out[i]
           policy == Policies[j]
           call == extractToolUse(ParseEvent(adapter, line))
<1>1. /\ line.type = "tool_use" /\ line.tool # ""
      /\ policy.action = "require_approval"
      /\ policy.tool \in {"", "*"} \/ line.tool \in Glob[policy.tool]
      /\ DOMAIN policy.inputs \subseteq DOMAIN line.state
      /\ \A field \in DOMAIN policy.inputs : line.state[field] \in policy.inputs[field]
  BY DEF Restricted
<1>2. PICK f : /\ call = [tool |-> line.tool, inputs |-> f]
               /\ DOMAIN policy.inputs \subseteq DOMAIN f
               /\ \A field \in DOMAIN policy.inputs : f[field] = line.state[field]
  <2>1. CASE adapter = "opencode"
    <3>1. "OpenCodeEvent" \in line.fits /\ DOMAIN policy.inputs \subseteq DOMAIN Kept(line.state)
      BY <2>1 DEF Sees
    <3>2. \A x \in DOMAIN Kept(line.state) : Kept(line.state)[x] = line.state[x]
      BY DEF Kept, Only
    <3>3. call = [tool |-> line.tool, inputs |-> Kept(line.state)]
      BY <1>1, <2>1, <3>1 DEF ParseEvent, parseOpenCode, parseExec, extractToolUse
    <3> QED BY <3>1, <3>2, <3>3
  <2>2. CASE adapter # "opencode"
    <3>1. call = [tool |-> line.tool, inputs |-> line.state]
      BY <1>1, <2>2 DEF ParseEvent, parseOpenCode, parseExec, extractToolUse, Sees
    <3> QED BY <1>1, <3>1
  <2> QED BY <2>1, <2>2
<1>3. call.tool = line.tool /\ call.inputs = f
  BY <1>2
<1> HIDE DEF call, line, policy
<1>4. Matches(policy, call)
  BY <1>1, <1>2, <1>3 DEF Matches, toolGlob
<1>5. call.tool # "" /\ policy.action = "require_approval"
  BY <1>1, <1>3
<1> QED BY <1>4, <1>5 DEF checkPolicies, call, line, policy

(* A restricted tool call needs a grant. *)
THEOREM RestrictedNeedsGrantHolds == GateSpec => []RestrictedNeedsGrant
<1>1. GInv => RestrictedNeedsGrant
  <2> SUFFICES ASSUME GInv, NEW s \in Sessions,
                      NEW i \in DOMAIN output[s], NEW j \in DOMAIN Policies,
                      Restricted(output[s][i], Policies[j]),
                      Sees(Adapter[s], output[s][i], Policies[j]), Passed(s)
               PROVE  "granted" \in offered[s]
    BY DEF RestrictedNeedsGrant
  <2>1. gate[s] # "unneeded"
    BY RestrictedIsMatched DEF GInv, Unneeded
  <2>2. verdict[s] = "granted"
    BY <2>1 DEF Passed
  <2> QED BY <2>2 DEF GInv, OnlyOffered, Answers
<1> QED BY <1>1, GateInvariantHolds, PTL

(* A match found in an output is a restricted call whose inputs were kept. *)
LEMMA MatchedIsRestricted ==
  ASSUME NEW adapter, NEW out, NEW i \in DOMAIN out, NEW j \in DOMAIN Policies,
         <<i, j>> \in checkPolicies(adapter, out)
  PROVE  Restricted(out[i], Policies[j]) /\ Sees(adapter, out[i], Policies[j])
<1> DEFINE line == out[i]
           policy == Policies[j]
           event == ParseEvent(adapter, line)
           call == extractToolUse(event)
<1>1. call.tool # "" /\ policy.action = "require_approval" /\ Matches(policy, call)
  BY DEF checkPolicies
<1>2. /\ "raw" \in event.fits /\ event.type = "tool_use" /\ event.tool # ""
      /\ call = [tool |-> event.tool, inputs |-> event.state]
  BY <1>1 DEF extractToolUse, NoCall
<1>3. /\ line.type = "tool_use" /\ event.tool = line.tool
      /\ IF adapter = "opencode" THEN "OpenCodeEvent" \in line.fits ELSE "raw" \in line.fits
  <2>1. CASE adapter = "opencode"
    BY <1>2, <2>1 DEF ParseEvent, parseOpenCode, Text
  <2>2. CASE adapter # "opencode"
    BY <1>2, <2>2 DEF ParseEvent, parseExec, Text
  <2> QED BY <2>1, <2>2
<1>4. event.state = IF adapter = "opencode" THEN Kept(line.state) ELSE line.state
  BY <1>3 DEF ParseEvent, parseOpenCode, parseExec
<1>5. /\ DOMAIN Kept(line.state) \subseteq DOMAIN line.state
      /\ \A x \in DOMAIN Kept(line.state) : Kept(line.state)[x] = line.state[x]
  BY DEF Kept, Only
<1> HIDE DEF call, event, line, policy
<1>6. call.tool = line.tool /\ call.inputs = event.state
  BY <1>2, <1>3
<1>7. /\ policy.tool \in {"", "*"} \/ line.tool \in Glob[policy.tool]
      /\ \A field \in DOMAIN policy.inputs :
           field \in DOMAIN event.state /\ event.state[field] \in policy.inputs[field]
  BY <1>1, <1>6 DEF Matches, toolGlob
<1>8. /\ DOMAIN policy.inputs \subseteq DOMAIN line.state
      /\ \A field \in DOMAIN policy.inputs : line.state[field] \in policy.inputs[field]
      /\ adapter = "opencode" => DOMAIN policy.inputs \subseteq DOMAIN Kept(line.state)
  BY <1>4, <1>5, <1>7
<1>9. line.tool # ""
  BY <1>1, <1>6
<1> QED BY <1>1, <1>3, <1>7, <1>8, <1>9 DEF Restricted, Sees, line, policy

(***************************************************************************)
(* From a line of output to a match, for every output, every adapter and   *)
(* every list of policies: the parser, extractToolUse and the policies     *)
(* find exactly the tool calls that a policy restricts on fields which the *)
(* adapter keeps, none more and none less.                                 *)
(***************************************************************************)
THEOREM PipelineIsExact ==
  \A adapter, out :
    checkPolicies(adapter, out) =
      {ij \in (DOMAIN out) \X (DOMAIN Policies) :
         /\ Restricted(out[ij[1]], Policies[ij[2]])
         /\ Sees(adapter, out[ij[1]], Policies[ij[2]])}
<1> SUFFICES ASSUME NEW adapter, NEW out, NEW ij \in (DOMAIN out) \X (DOMAIN Policies)
             PROVE  ij \in checkPolicies(adapter, out) <=>
                      /\ Restricted(out[ij[1]], Policies[ij[2]])
                      /\ Sees(adapter, out[ij[1]], Policies[ij[2]])
  <2>1. \A adapter, out : checkPolicies(adapter, out) \subseteq (DOMAIN out) \X (DOMAIN Policies)
    BY DEF checkPolicies
  <2> QED BY <2>1
<1>1. PICK i \in DOMAIN out, j \in DOMAIN Policies : ij = <<i, j>>
  OBVIOUS
<1>2. ij[1] = i /\ ij[2] = j
  BY <1>1
<1> QED BY <1>1, <1>2, RestrictedIsMatched, MatchedIsRestricted

-----------------------------------------------------------------------------
(* Who waits for whom. *)

(* Answers under way, and the channel they go to. *)
WayInv ==
  /\ \A q \in Publishers, s \in Sessions, v \in Answers :
       <<s, v>> \in todo[q] => q \notin Sessions /\ state[<<s, v>>] # "new"
  /\ \A s \in Sessions : gate[s] = "left" => respCh[s] = "closed"
  /\ \A s \in Sessions :
       gate[s] \notin {"start", "unneeded"} => checkPolicies(Adapter[s], output[s]) # {}

(* Every step of the gate and its neighbours keeps it. *)
LEMMA WayStep == GInv /\ WayInv /\ [GateNext]_gateVars => WayInv'
<1> SUFFICES ASSUME GInv, WayInv, [GateNext]_gateVars PROVE WayInv'
  OBVIOUS
<1> USE DEF GInv, IInv, TypeOK, GateTypeOK
<1>1. ASSUME NEW s \in Sessions, Gate(s) PROVE WayInv'
  <2>a. output' = output /\ gate' = [gate EXCEPT ![s] = gate'[s]]
    BY <1>1 DEF Gate, NoMatch, RequestApproval, SubscribeGranted, SubscribeDenied, Receive,
      TimesOut, CancelDenied, CancelGranted, CloseRespCh, Goto
  <2>b. /\ gate[s] = "start" => gate'[s] = "unneeded" \/ checkPolicies(Adapter[s], output[s]) # {}
        /\ gate[s] # "unneeded"
    BY <1>1 DEF Gate, NoMatch, RequestApproval, SubscribeGranted, SubscribeDenied, Receive,
      TimesOut, CancelDenied, CancelGranted, CloseRespCh, Goto
  <2>1. \A t \in Sessions :
          gate'[t] \notin {"start", "unneeded"} => checkPolicies(Adapter[t], output'[t]) # {}
    BY <2>a, <2>b DEF WayInv
  <2>2. \A t \in Sessions : gate'[t] = "left" => respCh'[t] = "closed"
    <3>1. CASE CloseRespCh(s)
      BY <2>a, <3>1 DEF CloseRespCh, WayInv
    <3>2. CASE ~CloseRespCh(s)
      <4>1. gate'[s] # "left" /\ \A t \in Sessions : t # s => respCh'[t] = respCh[t]
        BY <1>1, <3>2 DEF Gate, NoMatch, RequestApproval, SubscribeGranted, SubscribeDenied,
          Receive, TimesOut, CancelDenied, CancelGranted, Goto
      <4> QED BY <2>a, <4>1 DEF WayInv
    <3> QED BY <3>1, <3>2
  <2>3. \A h \in Handlers : state[h] # "new" => state'[h] # "new"
    BY <1>1 DEF Gate, NoMatch, RequestApproval, SubscribeGranted, SubscribeDenied, Receive,
      TimesOut, CancelDenied, CancelGranted, CloseRespCh, Subscribe, Cancel, Publish, busVars
  <2>4. \A q \in Publishers, t \in Sessions, v \in Answers :
          <<t, v>> \in todo'[q] => <<t, v>> \in todo[q]
    <3>1. CASE RequestApproval(s)
      <4>1. \A t \in Sessions, v \in Answers : <<t, v>> \notin todo'[s]
        BY <3>1, RequestCopiesNone DEF RequestApproval
      <4>2. \A q \in Publishers : q # s => todo'[q] = todo[q]
        BY <3>1 DEF RequestApproval, Publish
      <4> QED BY <4>1, <4>2
    <3>2. CASE ~RequestApproval(s)
      <4>1. todo' = todo
        BY <1>1, <3>2 DEF Gate, NoMatch, SubscribeGranted, SubscribeDenied, Receive,
          TimesOut, CancelDenied, CancelGranted, CloseRespCh, Subscribe, Cancel, busVars
      <4> QED BY <4>1
    <3> QED BY <3>1, <3>2
  <2> QED BY <2>1, <2>2, <2>3, <2>4, GateNames DEF WayInv
<1>2. ASSUME NEW q \in Publishers, Publisher(q) PROVE WayInv'
  <2>1. \A r \in Publishers : todo'[r] \subseteq todo[r]
    <3>1. ASSUME NEW h, CallHandler(q, h) PROVE \A r \in Publishers : todo'[r] \subseteq todo[r]
      BY <3>1 DEF CallHandler
    <3>2. ASSUME HandlerPanics(q) PROVE \A r \in Publishers : todo'[r] \subseteq todo[r]
      BY <3>2 DEF HandlerPanics
    <3> QED BY <1>2, <3>1, <3>2 DEF Publisher, CallOther, Send, SendPanics
  <2>2. UNCHANGED <<state, output, gate>>
    BY <1>2 DEF Publisher, CallOther, Send, SendPanics, CallHandler, HandlerPanics
  <2>3. \A t \in Sessions : respCh[t] = "closed" => respCh'[t] = "closed"
    BY <1>2 DEF Publisher, CallOther, Send, SendPanics
  <2> QED BY <2>1, <2>2, <2>3 DEF WayInv
<1>3. ASSUME NEW q \in Answerers, NEW s \in Sessions, NEW v \in Answers, Answer(q, s, v)
      PROVE  WayInv'
  <2>1. UNCHANGED <<state, output, gate, respCh>>
    BY <1>3 DEF Answer, Publish
  <2>2. q \in Publishers /\ q \notin Sessions /\ Publish(q, Topic(s, v)) /\ Topic(s, v) \in SubjectNames
    BY <1>3, GateNames, GateAssumption DEF Answer
  <2>3. \A t \in Sessions, u \in Answers : <<t, u>> \in todo'[q] => state[<<t, u>>] # "new"
    BY <2>2, Copied
  <2>4. \A r \in Publishers : r # q => todo'[r] = todo[r]
    BY <2>2 DEF Publish
  <2> QED BY <2>1, <2>2, <2>3, <2>4 DEF WayInv
<1>4. ASSUME NEW h \in Handlers \ GateHandlers, Others(h) PROVE WayInv'
  <2>1. UNCHANGED <<todo, output, gate, respCh>>
    BY <1>4 DEF Others, Cancel, Subscribe
  <2>2. \A g \in Handlers : state[g] # "new" => state'[g] # "new"
    BY <1>4 DEF Others, Cancel, Subscribe
  <2> QED BY <2>1, <2>2, GateNames DEF WayInv
<1>5. CASE UNCHANGED gateVars
  BY <1>5 DEF gateVars, busVars, WayInv
<1> QED BY <1>1, <1>2, <1>3, <1>4, <1>5 DEF GateNext

(* It holds in every reachable state. *)
LEMMA WayInvHolds == GateSpec => []WayInv
<1>1. GateInit => WayInv
  BY DEF GateInit, Init, WayInv
<1> QED BY <1>1, WayStep, GateInvariantHolds, PTL DEF GateSpec

(***************************************************************************)
(* No circle of waiting: a Publish that is blocked on a full respCh waits  *)
(* for a gate that has yet to read or to close it, and the gate's own      *)
(* Publish never has a gate's handler to call, so no gate waits for a      *)
(* channel, its own or another's.                                          *)
(***************************************************************************)
SenderIsReleased ==
  \A q \in Publishers, s \in Sessions, v \in Answers :
    <<s, v>> \in todo[q] =>
      /\ q \notin Sessions
      /\ respCh[s] \notin {"empty", "closed"} =>
           gate[s] \in {"half", "waiting", "resolved", "denyCancelled", "bothCancelled"}

(* A blocked sender has a gate that will release it. *)
THEOREM SenderIsReleasedHolds == GateSpec => []SenderIsReleased
<1>1. GInv /\ WayInv => SenderIsReleased
  <2> SUFFICES ASSUME GInv, WayInv, NEW q \in Publishers, NEW s \in Sessions, NEW v \in Answers,
                      <<s, v>> \in todo[q]
               PROVE  /\ q \notin Sessions
                      /\ respCh[s] # "closed" =>
                           gate[s] \in {"half", "waiting", "resolved", "denyCancelled", "bothCancelled"}
    BY DEF SenderIsReleased
  <2>1. q \notin Sessions /\ state[<<s, v>>] # "new" /\ (gate[s] = "left" => respCh[s] = "closed")
    BY DEF WayInv
  <2>2. gate[s] \notin {"start", "requested", "unneeded"}
    BY <2>1 DEF GInv, Positions, Handler, Answers
  <2> QED BY <2>1, <2>2 DEF GInv, GateTypeOK, Places
<1> QED BY <1>1, GateInvariantHolds, WayInvHolds, PTL

(* How far the gate is from being left. *)
Distance(place) ==
  CASE place = "start"         -> 7
    [] place = "requested"     -> 6
    [] place = "half"          -> 5
    [] place = "waiting"       -> 4
    [] place = "resolved"      -> 3
    [] place = "denyCancelled" -> 2
    [] place = "bothCancelled" -> 1
    [] place \in {"left", "unneeded"} -> 0

(***************************************************************************)
(* Nothing goes round: each step of a session's gate takes it nearer to    *)
(* its end, nobody else moves it, each call of a handler or panic shortens *)
(* the Publish it is part of, and nothing is added to a Publish under way. *)
(* With the fairness of FairGateSpec this is why AnswersReturn.            *)
(***************************************************************************)
GateGoesForward ==
  [][/\ \A s \in Sessions :
          /\ Gate(s) => Distance(gate[s]) > Distance(gate'[s])
          /\ gate'[s] = gate[s] \/ Gate(s)
     /\ \A q \in Publishers :
          /\ Publisher(q) => todo'[q] \subseteq todo[q] /\ todo'[q] # todo[q]
          /\ todo[q] # {} => todo'[q] \subseteq todo[q]]_gateVars

(* The distances, place by place. *)
LEMMA Distances ==
  /\ Distance("start") = 7 /\ Distance("requested") = 6 /\ Distance("half") = 5
  /\ Distance("waiting") = 4 /\ Distance("resolved") = 3 /\ Distance("denyCancelled") = 2
  /\ Distance("bothCancelled") = 1 /\ Distance("left") = 0 /\ Distance("unneeded") = 0
BY DEF Distance

(* The gate and those who answer make progress with each of their steps. *)
THEOREM GateGoesForwardHolds == GateSpec => GateGoesForward
<1>1. ASSUME GInv, NEW s \in Sessions, Gate(s)
      PROVE  /\ Distance(gate[s]) > Distance(gate'[s])
             /\ \A t \in Sessions : t # s => gate'[t] = gate[t]
  BY <1>1, Distances DEF GInv, GateTypeOK, Gate, NoMatch, RequestApproval, SubscribeGranted,
    SubscribeDenied, Receive, TimesOut, CancelDenied, CancelGranted, CloseRespCh, Goto
<1>2. ASSUME GInv, NEW q \in Publishers, Publisher(q)
      PROVE  /\ todo'[q] \subseteq todo[q] /\ todo'[q] # todo[q]
             /\ \A r \in Publishers : r # q => todo'[r] = todo[r]
             /\ gate' = gate
  BY <1>2 DEF GInv, IInv, TypeOK, Publisher, CallOther, Send, SendPanics, CallHandler, HandlerPanics
<1>3. ASSUME GInv, NEW s \in Sessions, Gate(s), NEW q \in Publishers, todo[q] # {}
      PROVE  todo'[q] = todo[q]
  BY <1>3 DEF GInv, IInv, TypeOK, Gate, NoMatch, RequestApproval, SubscribeGranted,
    SubscribeDenied, Receive, TimesOut, CancelDenied, CancelGranted, CloseRespCh, Publish,
    Subscribe, Cancel, busVars
<1>4. ASSUME GInv, NEW p \in Answerers, NEW s \in Sessions, NEW v \in Answers, Answer(p, s, v)
      PROVE  gate' = gate /\ \A q \in Publishers : todo[q] # {} => todo'[q] = todo[q]
  BY <1>4 DEF GInv, IInv, TypeOK, Answer, Publish
<1>5. ASSUME NEW h \in Handlers \ GateHandlers, Others(h) PROVE gate' = gate /\ todo' = todo
  BY <1>5 DEF Others, Cancel, Subscribe
<1>6. ASSUME UNCHANGED gateVars PROVE gate' = gate /\ todo' = todo
  BY <1>6 DEF gateVars, busVars
<1>7. GInv /\ [GateNext]_gateVars =>
        [/\ \A s \in Sessions :
              /\ Gate(s) => Distance(gate[s]) > Distance(gate'[s])
              /\ gate'[s] = gate[s] \/ Gate(s)
         /\ \A q \in Publishers :
              /\ Publisher(q) => todo'[q] \subseteq todo[q] /\ todo'[q] # todo[q]
              /\ todo[q] # {} => todo'[q] \subseteq todo[q]]_gateVars
  <2> SUFFICES ASSUME GInv, [GateNext]_gateVars
               PROVE  /\ \A s \in Sessions : gate'[s] = gate[s] \/ Gate(s)
                      /\ \A q \in Publishers : todo[q] # {} => todo'[q] \subseteq todo[q]
    BY <1>1, <1>2
  <2> QED BY <1>1, <1>2, <1>3, <1>4, <1>5, <1>6 DEF GateNext
<1> QED BY <1>7, GateInvariantHolds, PTL DEF GateSpec, GateGoesForward

(***************************************************************************)
(* Nobody is asked for nothing: a session whose gate was opened printed a  *)
(* tool call that one of the policies restricts.                           *)
(***************************************************************************)
AskedForReason ==
  \A s \in Sessions :
    gate[s] \notin {"start", "unneeded"} =>
      \E i \in DOMAIN output[s], j \in DOMAIN Policies : Restricted(output[s][i], Policies[j])

(* An approval is requested only for a restricted tool call. *)
THEOREM AskedForReasonHolds == GateSpec => []AskedForReason
<1>1. WayInv => AskedForReason
  <2> SUFFICES ASSUME WayInv, NEW s \in Sessions, gate[s] \notin {"start", "unneeded"}
               PROVE  \E i \in DOMAIN output[s], j \in DOMAIN Policies :
                        Restricted(output[s][i], Policies[j])
    BY DEF AskedForReason
  <2>1. PICK ij \in checkPolicies(Adapter[s], output[s]) : TRUE
    BY DEF WayInv
  <2>a. ij \in (DOMAIN output[s]) \X (DOMAIN Policies)
    BY <2>1 DEF checkPolicies
  <2>2. PICK i \in DOMAIN output[s], j \in DOMAIN Policies : ij = <<i, j>>
    BY <2>a
  <2> QED BY <2>1, <2>2, MatchedIsRestricted
<1> QED BY <1>1, WayInvHolds, PTL
=============================================================================
