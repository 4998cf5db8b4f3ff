----------------------------- MODULE ChatProofs -----------------------------
(***************************************************************************)
(* Proofs about Chat, for any requests and channels.  An interaction is    *)
(* stored once and leaves the map with whoever takes it, so it is in at    *)
(* most one place: the map or the hands of one answer (PlaceInv).          *)
(***************************************************************************)
EXTENDS Chat, Naturals, TLAPS

(* Places before the interaction is stored. *)
Early == {"new", "deferred", "dropped"}

(* Places before SendMessage has looked into the map. *)
Untaken == Places \ {"sending", "replied"}

(* Places of a stored command whose own answer has not looked. *)
Waiting == Untaken \ Early

PendingInv ==
  \A ch \in Channels : pending[ch] \in Slash =>
    Channel[pending[ch]] = ch /\ at[pending[ch]] \notin Early

TakenInv ==
  \A r \in Requests :
    /\ at[r] \in Untaken => taken[r] = None
    /\ taken[r] \in Slash =>
         /\ Channel[taken[r]] = Channel[r]
         /\ at[taken[r]] \notin Early
         /\ pending[Channel[r]] # taken[r]

(* Only slash commands have interactions to store. *)
DeferInv == \A r \in Requests : at[r] \in {"deferred", "stored"} => r \in Slash

PlaceInv == \A q, r \in Requests : taken[q] = taken[r] /\ taken[r] \in Slash => q = r

ReplyInv ==
  \A r \in Requests :
    /\ at[r] # "replied" => reply[r] = None
    /\ reply[r] \in Slash => reply[r] = taken[r]
    /\ reply[r] = "channel" => taken[r] = None

(* A command alone in its channel finds its own interaction. *)
AloneInv ==
  \A r \in Slash : Alone(r) =>
    /\ at[r] \in Waiting => pending[Channel[r]] = r
    /\ at[r] \in {"sending", "replied"} => taken[r] = r

IInv ==
  /\ TypeOK
  /\ DeferInv
  /\ PendingInv
  /\ TakenInv
  /\ PlaceInv
  /\ ReplyInv
  /\ AloneInv

(***************************************************************************)
(* A step of one request that leaves map and answers alone and does not    *)
(* cross a boundary the invariant speaks of.                               *)
(***************************************************************************)
LEMMA QuietStep ==
  ASSUME IInv, TypeOK', DeferInv', NEW r \in Requests, NEW place \in Places, Goto(r, place),
         UNCHANGED <<pending, taken, reply>>,
         \/ at[r] \in Early /\ place \in Early
         \/ at[r] \in Waiting /\ place \in Waiting
         \/ r \notin Slash /\ at[r] \in Untaken /\ place \in Untaken
  PROVE  IInv'
PROOF
  <1> USE ChatAssumption DEF IInv, TypeOK, Places, Early, Untaken, Waiting, Goto
  <1>1. PendingInv'
    BY DEF PendingInv
  <1>2. TakenInv'
    BY DEF TakenInv
  <1>3. PlaceInv'
    BY DEF PlaceInv
  <1>4. ReplyInv'
    BY DEF ReplyInv
  <1>5. AloneInv'
    BY DEF AloneInv, Alone
  <1> QED
    BY <1>1, <1>2, <1>3, <1>4, <1>5

(* An interaction comes into the map, for the first time. *)
LEMMA StoreInteractionStep ==
  ASSUME IInv, NEW r \in Requests, StoreInteraction(r)
  PROVE  IInv'
PROOF
  <1> USE ChatAssumption
      DEF IInv, TypeOK, Places, Over, Early, Untaken, Waiting, Goto, StoreInteraction
  <1>1. TypeOK'
    BY DEF DeferInv
  <1>7. DeferInv'
    BY DEF DeferInv
  <1>2. PendingInv'
    BY DEF PendingInv
  <1>3. TakenInv'
    BY DEF TakenInv, PendingInv
  <1>4. PlaceInv'
    BY DEF PlaceInv, TakenInv, PendingInv
  <1>5. ReplyInv'
    BY DEF ReplyInv, TakenInv
  <1>6. AloneInv'
    <2>1. r \in Slash /\ at' = [at EXCEPT ![r] = "stored"] /\ taken' = taken
      BY DEF DeferInv
    <2>2. pending' = [pending EXCEPT ![Channel[r]] = r] /\ Channel[r] \in Channels
      BY <2>1
    <2>3. ASSUME NEW q \in Slash \ {r}, Alone(q)'
          PROVE  Channel[q] # Channel[r] /\ Alone(q)
      BY <2>1, <2>3 DEF Alone
    <2>4. at'[r] = "stored" /\ pending'[Channel[r]] = r
      BY <2>1, <2>2
    <2>5. \A q \in Slash \ {r} : at'[q] = at[q]
      BY <2>1
    <2>6. \A q \in Slash \ {r} :
            Channel[q] # Channel[r] => pending'[Channel[q]] = pending[Channel[q]]
      BY <2>2
    <2> QED
      BY <2>1, <2>3, <2>4, <2>5, <2>6 DEF AloneInv
  <1> QED
    BY <1>1, <1>2, <1>3, <1>4, <1>5, <1>6, <1>7

(* An answer takes what the map has for its channel. *)
LEMMA TakeInteractionStep ==
  ASSUME IInv, NEW r \in Requests, TakeInteraction(r)
  PROVE  IInv'
PROOF
  <1> USE ChatAssumption
      DEF IInv, TypeOK, Places, Over, Early, Untaken, Waiting, Goto, TakeInteraction
  <1>1. TypeOK'
    BY DEF DeferInv
  <1>7. DeferInv'
    BY DEF DeferInv
  <1>2. PendingInv'
    BY DEF PendingInv
  <1> DEFINE ch == Channel[r]
             x == pending[ch]
  <1>8. /\ ch \in Channels
        /\ taken' = [taken EXCEPT ![r] = x]
        /\ pending' = [pending EXCEPT ![ch] = None]
        /\ at' = [at EXCEPT ![r] = "sending"]
    OBVIOUS
  <1>9. x \in Slash => Channel[x] = ch /\ at[x] \notin Early /\ x # None
    BY <1>8 DEF PendingInv
  <1>10. \A q \in Requests : taken[q] \in Slash => taken[q] # x
    BY <1>9 DEF TakenInv
  <1>3. TakenInv'
    <2>1. \A q \in Requests : at'[q] \notin Early <=> at[q] \notin Early
      OBVIOUS
    <2>2. \A q \in Requests \ {r} : taken'[q] = taken[q] /\ at'[q] = at[q]
      OBVIOUS
    <2>3. \A q \in Requests : taken[q] \in Slash => pending'[Channel[q]] # taken[q]
      BY <1>8 DEF TakenInv
    <2>4. taken'[r] = x /\ at'[r] \notin Untaken /\ pending'[ch] = None
      BY <1>8
    <2> QED
      BY <1>9, <2>1, <2>2, <2>3, <2>4 DEF TakenInv
  <1>4. PlaceInv'
    BY <1>8, <1>10 DEF PlaceInv
  <1>5. ReplyInv'
    BY DEF ReplyInv, TakenInv
  <1>6. AloneInv'
    BY DEF AloneInv, Alone, TakenInv, PendingInv
  <1> QED
    BY <1>1, <1>2, <1>3, <1>4, <1>5, <1>6, <1>7

(* An answer is sent or its error dropped. *)
LEMMA SendStep ==
  ASSUME IInv, NEW r \in Requests, Send(r)
  PROVE  IInv'
PROOF
  <1> USE ChatAssumption
      DEF IInv, TypeOK, Places, Over, Early, Untaken, Waiting, Goto, Send
  <1>1. TypeOK'
    BY DEF DeferInv
  <1>7. DeferInv'
    BY DEF DeferInv
  <1>2. PendingInv'
    BY DEF PendingInv
  <1>3. TakenInv'
    BY DEF TakenInv, PendingInv
  <1>4. PlaceInv'
    BY DEF PlaceInv, TakenInv, PendingInv
  <1>5. ReplyInv'
    BY DEF ReplyInv, TakenInv
  <1>6. AloneInv'
    BY DEF AloneInv, Alone, TakenInv, PendingInv
  <1> QED
    BY <1>1, <1>2, <1>3, <1>4, <1>5, <1>6, <1>7

(* An answer is posted to a Slack channel: no interaction is involved. *)
LEMMA PostMessageStep ==
  ASSUME IInv, NEW r \in Requests, PostMessage(r)
  PROVE  IInv'
PROOF
  <1> USE ChatAssumption
      DEF IInv, TypeOK, Places, Over, Early, Untaken, Waiting, Goto, PostMessage
  <1>1. TypeOK'
    OBVIOUS
  <1>2. DeferInv' /\ PendingInv'
    BY DEF DeferInv, PendingInv
  <1>3. TakenInv'
    BY DEF TakenInv
  <1>4. PlaceInv'
    BY DEF PlaceInv
  <1>5. ReplyInv'
    BY DEF ReplyInv, TakenInv
  <1>6. AloneInv'
    BY DEF AloneInv, Alone, TakenInv
  <1> QED
    BY <1>1, <1>2, <1>3, <1>4, <1>5, <1>6

(* Next preserves the invariant, and so does stuttering. *)
LEMMA NextStep ==
  ASSUME IInv, [Next]_vars
  PROVE  IInv'
PROOF
  <1> USE ChatAssumption
  <1>1. CASE Listen \/ LoopEnds \/ Idle \/ UNCHANGED vars
    <2>1. at' = at /\ session' = session /\ done' = done /\ pending' = pending
          /\ taken' = taken /\ reply' = reply
      BY <1>1 DEF Listen, LoopEnds, Idle, vars
    <2>2. listening' \subseteq {"discord", "slack"}
      BY <1>1 DEF Listen, LoopEnds, Idle, vars, IInv, TypeOK
    <2>6. reading' \in BOOLEAN
      BY <1>1, Zenon DEF Listen, LoopEnds, Idle, vars, IInv, TypeOK
    <2>3. TypeOK'
      BY <2>1, <2>2, <2>6 DEF IInv, TypeOK
    <2>4. DeferInv' /\ PendingInv' /\ TakenInv' /\ PlaceInv' /\ ReplyInv'
      BY <2>1 DEF IInv, DeferInv, PendingInv, TakenInv, PlaceInv, ReplyInv
    <2>5. AloneInv'
      BY <2>1 DEF IInv, AloneInv, Alone
    <2> QED
      BY <2>3, <2>4, <2>5 DEF IInv
  <1>2. CASE \E r \in Requests : SessionEnds(r)
    <2> PICK r \in Requests : SessionEnds(r)
      BY <1>2
    <2>1. UNCHANGED <<reading, listening, at, pending, taken, reply>>
      BY DEF SessionEnds
    <2>2. session' \in [Requests -> {"none", "running"} \union Over]
      BY DEF SessionEnds, IInv, TypeOK, Over
    <2>3. done' \in [Requests -> BOOLEAN]
      BY Zenon DEF SessionEnds, IInv, TypeOK
    <2> QED
      BY <2>1, <2>2, <2>3 DEF IInv, TypeOK, DeferInv, PendingInv, TakenInv, PlaceInv,
         ReplyInv, AloneInv, Alone
  <1>3. CASE \E r \in Requests :
               StoreInteraction(r) \/ TakeInteraction(r) \/ Send(r) \/ PostMessage(r)
    BY <1>3, StoreInteractionStep, TakeInteractionStep, SendStep, PostMessageStep
  <1>4. CASE \E r \in Requests : Defer(r)
    <2> PICK r \in Requests : Defer(r)
      BY <1>4
    <2>1. TypeOK' /\ DeferInv'
      BY DEF Defer, Goto, IInv, TypeOK, DeferInv, Places
    <2> QED
      BY <2>1, QuietStep DEF Defer, Early, Places
  <1>5. CASE \E r \in Requests : publishUserMessage(r) \/ handleEvent(r)
    <2> PICK r \in Requests : publishUserMessage(r) \/ handleEvent(r)
      BY <1>5
    <2>1. UNCHANGED <<reading, listening, session, done, pending, taken, reply>>
      BY DEF publishUserMessage, handleEvent, Publish
    <2>2. at[r] \in Untaken /\ (r \in Slash => at[r] \in Waiting)
      BY DEF publishUserMessage, handleEvent, Received, Ready, Untaken, Waiting, Early, Places
    <2>3. {"submitting", "lost"} \subseteq Waiting /\ Waiting \subseteq Untaken
      BY DEF Waiting, Untaken, Early, Places
    <2>4. PICK place \in {"submitting", "lost"} : Goto(r, place)
      BY DEF publishUserMessage, handleEvent, Publish
    <2>5. TypeOK' /\ DeferInv'
      BY <2>1, <2>4 DEF Goto, IInv, TypeOK, DeferInv, Places
    <2> QED
      BY <2>1, <2>2, <2>3, <2>4, <2>5, QuietStep DEF Places
  <1>6. CASE \E r \in Requests : SubmitTask(r) \/ SubmitFails(r) \/ Subscribe(r) \/ ReceiveDone(r)
    <2> PICK r \in Requests : SubmitTask(r) \/ SubmitFails(r) \/ Subscribe(r) \/ ReceiveDone(r)
      BY <1>6
    <2>1. PICK place \in Waiting \ {"stored"} : Goto(r, place)
      BY DEF SubmitTask, SubmitFails, Subscribe, ReceiveDone, Waiting, Untaken, Early, Places
    <2>2. at[r] \in Waiting /\ UNCHANGED <<reading, listening, pending, taken, reply>>
      BY DEF SubmitTask, SubmitFails, Subscribe, ReceiveDone, Waiting, Untaken, Early, Places
    <2>3. session' \in [Requests -> {"none", "running"} \union Over]
      BY DEF SubmitTask, SubmitFails, Subscribe, ReceiveDone, IInv, TypeOK
    <2>4. done' \in [Requests -> BOOLEAN]
      BY Zenon DEF SubmitTask, SubmitFails, Subscribe, ReceiveDone, IInv, TypeOK
    <2>5. TypeOK' /\ DeferInv'
      BY <2>1, <2>2, <2>3, <2>4 DEF Goto, IInv, TypeOK, DeferInv, Waiting, Untaken, Early, Places
    <2> QED
      BY <2>1, <2>2, <2>5, QuietStep DEF Waiting, Untaken
  <1> QED
    BY <1>1, <1>2, <1>3, <1>4, <1>5, <1>6 DEF Next, Plugin, Handler

(* The inductive invariant holds in every state. *)
THEOREM InvariantHolds == Spec => []IInv
PROOF
  <1>1. Init => IInv
    <2> SUFFICES ASSUME Init PROVE IInv
      OBVIOUS
    <2> USE ChatAssumption DEF Init
    <2>1. done \in [Requests -> BOOLEAN]
      BY Zenon
    <2>2. TypeOK
      BY <2>1 DEF TypeOK, Places, Over
    <2>3. DeferInv /\ PendingInv
      BY DEF DeferInv, PendingInv
    <2>4. TakenInv /\ PlaceInv /\ ReplyInv
      BY DEF TakenInv, PlaceInv, ReplyInv
    <2>5. AloneInv
      BY DEF AloneInv, Waiting, Untaken, Early
    <2> QED
      BY <2>2, <2>3, <2>4, <2>5 DEF IInv
  <1>2. IInv /\ [Next]_vars => IInv'
    BY NextStep
  <1> QED
    BY <1>1, <1>2, PTL DEF Spec

(* Every variable keeps its type: the map's keys stay the channels. *)
THEOREM TypeCorrect == Spec => []TypeOK
PROOF
  <1>1. IInv => TypeOK
    BY DEF IInv
  <1> QED
    BY <1>1, InvariantHolds, PTL

(* No two answers replace one placeholder. *)
THEOREM OneAnswerPerPlaceholderHolds == Spec => []OneAnswerPerPlaceholder
PROOF
  <1>1. IInv => OneAnswerPerPlaceholder
    BY DEF IInv, OneAnswerPerPlaceholder, PlaceInv, ReplyInv
  <1> QED
    BY <1>1, InvariantHolds, PTL

(* Answers stay in their channel, and a lone command's answer in its place. *)
THEOREM AnswerInPlaceHolds == Spec => []AnswerInPlace
PROOF
  <1>1. ASSUME IInv
        PROVE  AnswerInPlace
    <2> USE ChatAssumption, <1>1 DEF IInv
    <2>1. \A r \in Slash : reply[r] \in Slash => Channel[reply[r]] = Channel[r]
      BY DEF ReplyInv, TakenInv
    <2>2. ASSUME NEW r \in Slash, Alone(r), reply[r] # None
          PROVE  reply[r] = r
      <3>1. at[r] = "replied"
        BY <2>2 DEF ReplyInv
      <3>2. taken[r] = r
        BY <2>2, <3>1 DEF AloneInv
      <3> QED
        BY <2>2, <3>2 DEF ReplyInv, TypeOK
    <2> QED
      BY <2>1, <2>2 DEF AnswerInPlace
  <1> QED
    BY <1>1, InvariantHolds, PTL

-----------------------------------------------------------------------------
(* Places of a request without a session, and of one whose answer is due. *)
Without == {"new", "deferred", "stored", "submitting", "dropped", "lost", "refused"}
Answering == {"replying", "sending", "replied"}

(* What the place of a request says of its session and of its done channel. *)
EndInv ==
  \A r \in Requests :
    /\ session[r] = "none" <=> at[r] \in Without
    /\ done[r] => session[r] \in Over /\ at[r] \in {"halfWatching", "watching"}
    /\ at[r] \in Answering => session[r] \in Over

(* What a step can do to the place, the session and the channel of request r. *)
Moves(r) ==
  \/ /\ at[r] \in Without /\ at'[r] \in Without
     /\ session'[r] = session[r] /\ done'[r] = done[r]
  \/ /\ at[r] = "submitting" /\ at'[r] = "submitted"
     /\ session'[r] = "running" /\ done'[r] = done[r]
  \/ /\ \/ at[r] = "submitted" /\ at'[r] = "collecting"
        \/ at[r] = "collecting" /\ at'[r] = "halfWatching"
        \/ at[r] = "halfWatching" /\ at'[r] = "watching"
     /\ session'[r] = session[r] /\ done'[r] = done[r]
  \/ /\ at'[r] = at[r] /\ session[r] = "running" /\ session'[r] \in Over
     /\ done'[r] => done[r] \/ at[r] \in {"halfWatching", "watching"}
     /\ at[r] = "watching" => done'[r]
  \/ /\ at[r] = "watching" /\ at'[r] = "replying" /\ done[r] /\ ~done'[r]
     /\ session'[r] = session[r]
  \/ /\ at[r] \in {"replying", "sending"} /\ at'[r] \in {"sending", "replied"}
     /\ at'[r] # at[r]
     /\ session'[r] = session[r] /\ done'[r] = done[r]
  \/ /\ at'[r] = at[r] /\ session'[r] = session[r] /\ done'[r] = done[r]

(* Every step is one of these for every request. *)
LEMMA RequestMoves ==
  ASSUME TypeOK, [Next]_vars, NEW q \in Requests
  PROVE  Moves(q)
PROOF
  <1> USE DEF TypeOK, Goto
  <1>1. ASSUME NEW r \in Requests, Plugin(r)
        PROVE  Moves(q)
    <2>1. session' = session /\ done' = done
      BY <1>1 DEF Plugin, Defer, StoreInteraction, publishUserMessage, handleEvent, Publish
    <2>2. PICK place \in Without : at' = [at EXCEPT ![r] = place]
      BY <1>1 DEF Plugin, Defer, StoreInteraction, publishUserMessage, handleEvent, Publish, Without
    <2>3. at[r] \in Without
      BY <1>1 DEF Plugin, Defer, StoreInteraction, publishUserMessage, handleEvent, Received,
         Ready, Without
    <2> QED
      BY <2>1, <2>2, <2>3 DEF Moves
  <1>2. ASSUME NEW r \in Requests, SubmitTask(r) \/ SubmitFails(r) \/ Subscribe(r)
        PROVE  Moves(q)
    <2>1. done' = done
      BY <1>2 DEF SubmitTask, SubmitFails, Subscribe
    <2>2. CASE SubmitTask(r)
      BY <2>1, <2>2 DEF SubmitTask, Moves
    <2>3. CASE SubmitFails(r)
      BY <2>1, <2>3 DEF SubmitFails, Moves, Without
    <2>4. CASE Subscribe(r)
      BY <2>1, <2>4 DEF Subscribe, Moves
    <2> QED
      BY <1>2, <2>2, <2>3, <2>4
  <1>3. ASSUME NEW r \in Requests, TakeInteraction(r) \/ Send(r) \/ PostMessage(r)
        PROVE  Moves(q)
    BY <1>3 DEF TakeInteraction, Send, PostMessage, Moves
  <1>4. ASSUME NEW r \in Requests, ReceiveDone(r)
        PROVE  Moves(q)
    <2>1. done[r] /\ ~done'[r] /\ (q # r => done'[q] = done[q])
      BY <1>4, Zenon DEF ReceiveDone
    <2>2. at[r] = "watching" /\ at' = [at EXCEPT ![r] = "replying"] /\ session' = session
      BY <1>4 DEF ReceiveDone
    <2> QED
      BY <2>1, <2>2 DEF Moves
  <1>5. ASSUME NEW r \in Requests, SessionEnds(r)
        PROVE  Moves(q)
    <2>1. PICK end \in Over :
            /\ session' = [session EXCEPT ![r] = end]
            /\ done' = [done EXCEPT ![r] = @ \/ at[r] \in Subscribed(end)]
      BY <1>5 DEF SessionEnds
    <2>2. (done'[r] <=> done[r] \/ at[r] \in Subscribed(end)) /\ (q # r => done'[q] = done[q])
      BY <2>1, Zenon
    <2>3. session[r] = "running" /\ at' = at
      BY <1>5 DEF SessionEnds
    <2> QED
      BY <2>1, <2>2, <2>3 DEF Moves, Subscribed
  <1>6. CASE Listen \/ LoopEnds \/ Idle \/ UNCHANGED vars
    BY <1>6 DEF Listen, LoopEnds, Idle, vars, Moves
  <1> QED
    BY <1>1, <1>2, <1>3, <1>4, <1>5, <1>6 DEF Next, Handler

(* The place of a request keeps saying that. *)
LEMMA EndStep == TypeOK /\ EndInv /\ [Next]_vars => EndInv'
PROOF
  <1> SUFFICES ASSUME TypeOK, EndInv, [Next]_vars, NEW r \in Requests
               PROVE  /\ session'[r] = "none" <=> at'[r] \in Without
                      /\ done'[r] => /\ session'[r] \in Over
                                     /\ at'[r] \in {"halfWatching", "watching"}
                      /\ at'[r] \in Answering => session'[r] \in Over
    BY DEF EndInv
  <1> QED
    BY RequestMoves DEF EndInv, Moves, Without, Answering, Over

(* It holds in every state. *)
LEMMA EndInvHolds == Spec => []EndInv
PROOF
  <1>1. Init => EndInv
    BY DEF Init, EndInv, Without, Answering
  <1> QED
    BY <1>1, EndStep, TypeCorrect, PTL DEF Spec

-----------------------------------------------------------------------------
(* The handler waits and the end of the session is to come or in its channel. *)
Heard(r) == at[r] = "watching" /\ (session[r] = "running" \/ done[r])

(* The session ended before the handler for that end was subscribed. *)
Unheard(r) ==
  /\ at[r] \in {"submitted", "collecting", "halfWatching", "watching"}
  /\ session[r] \in Over
  /\ ~done[r]

(***************************************************************************)
(* Nothing in between: a handler that is subscribed in time is not robbed  *)
(* of the event before it receives it, and one that is late waits for      *)
(* ever.  Whether a request is answered is decided when its session ends.  *)
(***************************************************************************)
EndIsDecisive ==
  [][\A r \in Requests :
       /\ at[r] = "watching" => Heard(r) \/ Unheard(r)
       /\ Heard(r) => Heard(r)' \/ at'[r] = "replying"
       /\ Unheard(r) => Unheard(r)']_vars

(* For every request, however many there are and however they interleave. *)
THEOREM EndIsDecisiveHolds == Spec => EndIsDecisive
PROOF
  <1>1. TypeOK /\ EndInv /\ [Next]_vars =>
          [\A r \in Requests :
             /\ at[r] = "watching" => Heard(r) \/ Unheard(r)
             /\ Heard(r) => Heard(r)' \/ at'[r] = "replying"
             /\ Unheard(r) => Unheard(r)']_vars
    <2> SUFFICES ASSUME TypeOK, EndInv, [Next]_vars, NEW r \in Requests
                 PROVE  /\ at[r] = "watching" => Heard(r) \/ Unheard(r)
                        /\ Heard(r) => Heard(r)' \/ at'[r] = "replying"
                        /\ Unheard(r) => Unheard(r)'
      OBVIOUS
    <2>1. at[r] = "watching" => Heard(r) \/ Unheard(r)
      BY DEF TypeOK, EndInv, Without, Heard, Unheard
    <2>2. Heard(r) => Heard(r)' \/ at'[r] = "replying"
      BY RequestMoves DEF EndInv, Heard, Moves, Without, Over
    <2>3. Unheard(r) => Unheard(r)'
      BY RequestMoves DEF EndInv, Unheard, Moves, Without, Over
    <2> QED
      BY <2>1, <2>2, <2>3
  <1> QED
    BY <1>1, TypeCorrect, EndInvHolds, PTL DEF Spec, EndIsDecisive

(***************************************************************************)
(* An answer is given once, and it is the answer of a session that is over *)
(* and whose end the handler has received.                                 *)
(***************************************************************************)
AnswerIsFinal ==
  [][\A r \in Requests :
       /\ reply'[r] # reply[r] => reply[r] = None /\ session[r] \in Over
       /\ at'[r] \in Answering /\ at[r] \notin Answering => done[r]
       /\ session[r] \in Over => session'[r] = session[r]]_vars

(* For every request, however many there are and however they interleave. *)
THEOREM AnswerIsFinalHolds == Spec => AnswerIsFinal
PROOF
  <1>1. IInv /\ EndInv /\ [Next]_vars =>
          [\A r \in Requests :
             /\ reply'[r] # reply[r] => reply[r] = None /\ session[r] \in Over
             /\ at'[r] \in Answering /\ at[r] \notin Answering => done[r]
             /\ session[r] \in Over => session'[r] = session[r]]_vars
    <2> SUFFICES ASSUME IInv, EndInv, [Next]_vars, NEW r \in Requests
                 PROVE  /\ reply'[r] # reply[r] => reply[r] = None /\ session[r] \in Over
                        /\ at'[r] \in Answering /\ at[r] \notin Answering => done[r]
                        /\ session[r] \in Over => session'[r] = session[r]
      OBVIOUS
    <2>1. reply'[r] # reply[r] => at[r] \in {"replying", "sending"}
      BY DEF Next, Listen, LoopEnds, Plugin, Defer, StoreInteraction, publishUserMessage, handleEvent,
         Publish, Handler, SubmitTask, SubmitFails, Subscribe, ReceiveDone, TakeInteraction,
         Send, PostMessage, SessionEnds, Idle, vars, IInv, TypeOK
    <2>2. reply'[r] # reply[r] => reply[r] = None /\ session[r] \in Over
      BY <2>1 DEF IInv, ReplyInv, EndInv, Answering
    <2>3. Moves(r)
      BY RequestMoves DEF IInv
    <2>4. at'[r] \in Answering /\ at[r] \notin Answering => done[r]
      BY <2>3 DEF Moves, Answering, Without
    <2>5. session[r] \in Over => session'[r] = session[r]
      BY <2>3 DEF Moves, EndInv, Without, Over
    <2> QED
      BY <2>2, <2>4, <2>5
  <1> QED
    BY <1>1, InvariantHolds, EndInvHolds, PTL DEF Spec, AnswerIsFinal

-----------------------------------------------------------------------------
(* How far the handling of a request has come. *)
Progress(place) ==
  CASE place = "new" -> 0
    [] place = "deferred" -> 1
    [] place = "stored" -> 2
    [] place = "submitting" -> 3
    [] place = "submitted" -> 4
    [] place = "collecting" -> 5
    [] place = "halfWatching" -> 6
    [] place = "watching" -> 7
    [] place = "replying" -> 8
    [] place = "sending" -> 9
    [] OTHER -> 10

(***************************************************************************)
(* The safety half of WatchedIsReported and ServedOnceListening: every     *)
(* step of a request's handling brings it nearer to its end, so there are  *)
(* at most ten; a plugin once listened to is listened to for good, and a   *)
(* request it has not published by then is never published to nobody       *)
(* (though Slack's loop may end before it publishes it at all).            *)
(***************************************************************************)
HandlingGoesForward ==
  [][\A r \in Requests :
       /\ at'[r] = at[r] \/ Progress(at'[r]) \in (Progress(at[r]) + 1)..10
       /\ Plugin(r) \/ Handler(r) => at'[r] # at[r]
       /\ From(r) \in listening =>
            From(r) \in listening' /\ (at'[r] = "lost" => at[r] = "lost")]_vars

(* For every request, however many there are and however they interleave. *)
THEOREM HandlingGoesForwardHolds == Spec => HandlingGoesForward
PROOF
  <1> DEFINE Forward(r) ==
        /\ at'[r] = at[r] \/ Progress(at'[r]) \in (Progress(at[r]) + 1)..10
        /\ From(r) \in listening =>
             From(r) \in listening' /\ (at'[r] = "lost" => at[r] = "lost")
  <1>1. ASSUME TypeOK, NEW r \in Requests, Plugin(r) \/ Handler(r)
        PROVE  at'[r] # at[r] /\ \A q \in Requests : Forward(q)
    <2> USE <1>1 DEF TypeOK, Goto
    <2>0. listening' = listening
      BY DEF Plugin, Defer, StoreInteraction, publishUserMessage, handleEvent, Publish,
         Handler, SubmitTask, SubmitFails, Subscribe, ReceiveDone, TakeInteraction, Send,
         PostMessage
    <2>1. \A q \in Requests \ {r} : at'[q] = at[q]
      BY DEF Plugin, Defer, StoreInteraction, publishUserMessage, handleEvent, Publish,
         Handler, SubmitTask, SubmitFails, Subscribe, ReceiveDone, TakeInteraction, Send,
         PostMessage
    <2>2. CASE Defer(r) \/ StoreInteraction(r)
      BY <2>0, <2>1, <2>2 DEF Defer, StoreInteraction, Progress
    <2>3. CASE publishUserMessage(r) \/ handleEvent(r)
      <3>1. at[r] \in {"new", "stored"}
        BY <2>3 DEF publishUserMessage, handleEvent, Received, Ready
      <3>2. at'[r] = IF From(r) \in listening THEN "submitting" ELSE "lost"
        BY <2>3 DEF publishUserMessage, handleEvent, Publish
      <3> QED
        BY <2>0, <2>1, <3>1, <3>2 DEF Progress
    <2>4. CASE Handler(r)
      <3>1. /\ at[r] \in {"submitting", "submitted", "collecting", "halfWatching",
                          "watching", "replying", "sending"}
            /\ at'[r] # "lost" /\ at'[r] # at[r]
        BY <2>4 DEF Handler, SubmitTask, SubmitFails, Subscribe, ReceiveDone,
           TakeInteraction, Send, PostMessage
      <3>2. Progress(at'[r]) \in (Progress(at[r]) + 1)..10
        BY <2>4 DEF Handler, SubmitTask, SubmitFails, Subscribe, ReceiveDone,
           TakeInteraction, Send, PostMessage, Progress
      <3> QED
        BY <2>0, <2>1, <3>1, <3>2
    <2> QED
      BY <2>2, <2>3, <2>4 DEF Plugin
  <1>2. ASSUME \/ Listen \/ LoopEnds \/ Idle \/ UNCHANGED vars
               \/ \E r \in Requests : SessionEnds(r)
        PROVE  at' = at /\ listening \subseteq listening'
    BY <1>2 DEF Listen, LoopEnds, Idle, vars, SessionEnds
  <1>3. TypeOK /\ [Next]_vars =>
          [\A r \in Requests :
             /\ at'[r] = at[r] \/ Progress(at'[r]) \in (Progress(at[r]) + 1)..10
             /\ Plugin(r) \/ Handler(r) => at'[r] # at[r]
             /\ From(r) \in listening =>
                  From(r) \in listening' /\ (at'[r] = "lost" => at[r] = "lost")]_vars
    BY <1>1, <1>2 DEF Next
  <1> QED
    BY <1>3, TypeCorrect, PTL DEF Spec, HandlingGoesForward
=============================================================================
