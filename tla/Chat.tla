-------------------------------- MODULE Chat --------------------------------
(***************************************************************************)
(* A request made in Slack or Discord and the way of its answer back: the  *)
(* plugin publishes a user message, Bootstrap's handler submits a task     *)
(* and, once SubmitTask has returned, subscribes to the session's events,  *)
(* waits for its end and sends the collected output to the channel.        *)
(* Discord shows a placeholder for a slash command and keeps its           *)
(* interaction in a map keyed by channel, so that the answer can replace   *)
(* it.                                                                     *)
(*                                                                         *)
(* The session itself is the coordinator's (Coordinator); here it only     *)
(* runs and ends.  The bus is the in-process one: an event reaches the     *)
(* handlers subscribed at that moment.                                     *)
(***************************************************************************)
CONSTANTS
  Requests,
  Slash,      \* Discord slash commands
  Slack,      \* Slack commands, mentions and messages; the others are Discord messages
  Channels,
  Channel,    \* the channel each request was made in
  None

(***************************************************************************)
(* Slash commands come from channels of a guild: registerSlashCommands     *)
(* creates them there and the handler reads i.Member.  The other Discord   *)
(* requests are direct messages.                                           *)
(***************************************************************************)
ASSUME ChatAssumption ==
  /\ Slash \subseteq Requests /\ Slack \subseteq Requests \ Slash
  /\ Channel \in [Requests -> Channels]
  /\ \A s \in Slash, r \in Requests \ Slash : Channel[s] # Channel[r]
  /\ {None, "channel"} \intersect Requests = {}
  /\ None # "channel"

VARIABLES
  reading,    \* Slack's run goroutine still reads the events of the socket
  listening,  \* plugins whose messages Bootstrap has subscribed to
  at,         \* where the handling of each request is
  session,    \* "none", "running" or how it ended
  done,       \* done[r]: the channel of capacity 1 holds its value
  pending,    \* pendingInteractions
  taken,      \* taken[r]: the interaction SendMessage took for r's answer
  reply       \* reply[r]: the placeholder r's answer replaced, or "channel"

vars == <<reading, listening, at, session, done, pending, taken, reply>>

Places == {"new", "deferred", "stored", "submitting", "submitted", "collecting",
           "halfWatching", "watching", "replying", "sending",
           "replied", "dropped", "lost", "refused"}

Over == {"completed", "failed"}

Init ==
  /\ reading = TRUE
  /\ listening = {}
  /\ at = [r \in Requests |-> "new"]
  /\ session = [r \in Requests |-> "none"]
  /\ done = [r \in Requests |-> FALSE]
  /\ pending = [ch \in Channels |-> None]
  /\ taken = [r \in Requests |-> None]
  /\ reply = [r \in Requests |-> None]

From(r) == IF r \in Slack THEN "slack" ELSE "discord"

Goto(r, place) == at' = [at EXCEPT ![r] = place]

-----------------------------------------------------------------------------
(***************************************************************************)
(* Bootstrap starts the plugins first and subscribes to them afterwards,   *)
(* Discord before Slack.                                                   *)
(***************************************************************************)
Listen ==
  /\ \/ listening = {} /\ listening' = {"discord"}
     \/ listening = {"discord"} /\ listening' = {"discord", "slack"}
  /\ UNCHANGED <<reading, at, session, done, pending, taken, reply>>

(***************************************************************************)
(* A slash command is acknowledged with the placeholder; if that fails the *)
(* handler gives up.                                                       *)
(***************************************************************************)
Defer(r) ==
  /\ r \in Slash
  /\ at[r] = "new"
  /\ \E place \in {"deferred", "dropped"} : Goto(r, place)
  /\ UNCHANGED <<reading, listening, session, done, pending, taken, reply>>

(* The interaction is stored for its channel, whatever was there. *)
StoreInteraction(r) ==
  /\ at[r] = "deferred"
  /\ pending' = [pending EXCEPT ![Channel[r]] = r]
  /\ Goto(r, "stored")
  /\ UNCHANGED <<reading, listening, session, done, taken, reply>>

(* Slip: a slash command is published although it is not stored. *)
ReadyEarly(r) == IF r \in Slash THEN at[r] \in {"deferred", "stored"} ELSE at[r] = "new"

(* The Discord message may be published: a command once it is stored. *)
Ready(r) == IF r \in Slash THEN at[r] = "stored" ELSE at[r] = "new"

(* Slip: whatever the plugin, the message goes to Slack's subject. *)
PublishToSlack(r) ==
  /\ Goto(r, IF "slack" \in listening THEN "submitting" ELSE "lost")
  /\ UNCHANGED <<reading, listening, session, done, pending, taken, reply>>

(***************************************************************************)
(* The bus calls Bootstrap's handler, which starts a goroutine for the     *)
(* request; if nobody has subscribed the message is gone.                  *)
(***************************************************************************)
Publish(r) ==
  /\ Goto(r, IF From(r) \in listening THEN "submitting" ELSE "lost")
  /\ UNCHANGED <<reading, listening, session, done, pending, taken, reply>>

publishUserMessage(r) ==
  /\ r \notin Slack
  /\ Ready(r)
  /\ Publish(r)

(* Slack's loop reads a command or an event from the socket. *)
Received(r) == r \in Slack /\ reading /\ at[r] = "new"

(* Every kind of Slack request is published at once. *)
handleEvent(r) == Received(r) /\ Publish(r)

(***************************************************************************)
(* An approval pressed late makes Publish panic in handleInteractive       *)
(* (ApprovalGate); recoverPanic is deferred outside the loop, so run       *)
(* returns and nobody reads Slack's events again.  The gate may be that of *)
(* any session, so this may come at any time.                              *)
(***************************************************************************)
LoopEnds ==
  /\ reading
  /\ reading' = FALSE
  /\ UNCHANGED <<listening, at, session, done, pending, taken, reply>>

-----------------------------------------------------------------------------
(* The goroutine of Bootstrap's handler. *)

SubmitTask(r) ==
  /\ at[r] = "submitting"
  /\ session' = [session EXCEPT ![r] = "running"]
  /\ Goto(r, "submitted")
  /\ UNCHANGED <<reading, listening, done, pending, taken, reply>>

(* SubmitTask reports an error, which is logged; there is no answer. *)
SubmitFails(r) ==
  /\ at[r] = "submitting"
  /\ Goto(r, "refused")
  /\ UNCHANGED <<reading, listening, session, done, pending, taken, reply>>

(* Three subscriptions, one after the other: output, completed, failed. *)
Subscribe(r) ==
  /\ \/ at[r] = "submitted" /\ Goto(r, "collecting")
     \/ at[r] = "collecting" /\ Goto(r, "halfWatching")
     \/ at[r] = "halfWatching" /\ Goto(r, "watching")
  /\ UNCHANGED <<reading, listening, session, done, pending, taken, reply>>

(* Slip: nobody listens to the failure of a session. *)
SubscribedCompleted(end) ==
  IF end = "completed" THEN {"halfWatching", "watching"} ELSE {}

(* Places at which the handler for this end of a session is subscribed. *)
Subscribed(end) ==
  IF end = "completed" THEN {"halfWatching", "watching"} ELSE {"watching"}

(* The session ends and its event reaches whoever is subscribed. *)
SessionEnds(r) ==
  /\ session[r] = "running"
  /\ \E end \in Over :
       /\ session' = [session EXCEPT ![r] = end]
       /\ done' = [done EXCEPT ![r] = @ \/ at[r] \in Subscribed(end)]
  /\ UNCHANGED <<reading, listening, at, pending, taken, reply>>

(* <-done *)
ReceiveDone(r) ==
  /\ at[r] = "watching"
  /\ done[r]
  /\ done' = [done EXCEPT ![r] = FALSE]
  /\ Goto(r, "replying")
  /\ UNCHANGED <<reading, listening, session, pending, taken, reply>>

(* Slip: the interaction stays in the map. *)
TakeInteractionKeeps(r) ==
  /\ r \notin Slack
  /\ at[r] = "replying"
  /\ taken' = [taken EXCEPT ![r] = pending[Channel[r]]]
  /\ Goto(r, "sending")
  /\ UNCHANGED <<reading, listening, session, done, pending, reply>>

(* Discord's SendMessage takes the channel's interaction out of the map. *)
TakeInteraction(r) ==
  /\ r \notin Slack
  /\ at[r] = "replying"
  /\ taken' = [taken EXCEPT ![r] = pending[Channel[r]]]
  /\ pending' = [pending EXCEPT ![Channel[r]] = None]
  /\ Goto(r, "sending")
  /\ UNCHANGED <<reading, listening, session, done, reply>>

(* It edits the placeholder or posts to the channel; errors are dropped. *)
Send(r) ==
  /\ at[r] = "sending"
  /\ \/ reply' = [reply EXCEPT ![r] = IF taken[r] = None THEN "channel" ELSE taken[r]]
     \/ UNCHANGED reply
  /\ Goto(r, "replied")
  /\ UNCHANGED <<reading, listening, session, done, pending, taken>>

(* Slack's SendMessage posts to the channel; its error is dropped too. *)
PostMessage(r) ==
  /\ r \in Slack
  /\ at[r] = "replying"
  /\ \/ reply' = [reply EXCEPT ![r] = "channel"]
     \/ UNCHANGED reply
  /\ Goto(r, "replied")
  /\ UNCHANGED <<reading, listening, session, done, pending, taken>>

-----------------------------------------------------------------------------
Plugin(r) == Defer(r) \/ StoreInteraction(r) \/ publishUserMessage(r) \/ handleEvent(r)

Handler(r) ==
  \/ SubmitTask(r) \/ SubmitFails(r) \/ Subscribe(r)
  \/ ReceiveDone(r) \/ TakeInteraction(r) \/ Send(r) \/ PostMessage(r)

(* The session ended before its handler was subscribed. *)
Missed(r) == at[r] = "watching" /\ session[r] \in Over /\ ~done[r]

(* Nobody reads the request. *)
Unread(r) == r \in Slack /\ ~reading /\ at[r] = "new"

(***************************************************************************)
(* Every request has been dealt with, waits for an event that is past, or  *)
(* was made in Slack after the loop had ended.                             *)
(***************************************************************************)
Idle ==
  /\ listening = {"discord", "slack"}
  /\ \A r \in Requests : at[r] \in {"replied", "dropped", "lost", "refused"} \/ Missed(r) \/ Unread(r)
  /\ UNCHANGED vars

Next ==
  \/ Listen
  \/ LoopEnds
  \/ \E r \in Requests : Plugin(r) \/ Handler(r) \/ SessionEnds(r)
  \/ Idle

Spec == Init /\ [][Next]_vars

(***************************************************************************)
(* Goroutines go on, and sessions end (EverySessionSettles in              *)
(* Coordinator).  Nothing makes Slack's loop end, and while it runs it     *)
(* reads: Received, hence Plugin of a Slack request, needs it.             *)
(***************************************************************************)
FairSpec ==
  /\ Spec
  /\ WF_vars(Listen)
  /\ \A r \in Requests : WF_vars(Plugin(r)) /\ WF_vars(Handler(r)) /\ WF_vars(SessionEnds(r))

-----------------------------------------------------------------------------
TypeOK ==
  /\ reading \in BOOLEAN
  /\ listening \subseteq {"discord", "slack"}
  /\ at \in [Requests -> Places]
  /\ session \in [Requests -> {"none", "running"} \union Over]
  /\ done \in [Requests -> BOOLEAN]
  /\ pending \in [Channels -> Slash \union {None}]
  /\ taken \in [Requests -> Slash \union {None}]
  /\ reply \in [Requests -> Slash \union {None, "channel"}]

(***************************************************************************)
(* No placeholder is replaced by two answers, however answers and further  *)
(* commands in the channel interleave.                                     *)
(***************************************************************************)
OneAnswerPerPlaceholder ==
  \A q, r \in Requests : reply[q] = reply[r] /\ reply[r] \in Slash => q = r

(* No other command of r's channel has stored its interaction. *)
Alone(r) ==
  \A q \in Slash \ {r} :
    Channel[q] = Channel[r] => at[q] \in {"new", "deferred", "dropped"}

(***************************************************************************)
(* An answer replaces only the placeholder of a command from its own       *)
(* channel, and that of a command alone in its channel replaces its own:   *)
(* the interaction is in the map before the message is published.          *)
(***************************************************************************)
AnswerInPlace ==
  \A r \in Slash :
    /\ reply[r] \in Slash => Channel[reply[r]] = Channel[r]
    /\ Alone(r) => reply[r] \in {None, r}

(***************************************************************************)
(* If the handler is subscribed in time, the answer is sent: an event that *)
(* comes before the goroutine waits stays in the channel's buffer.         *)
(***************************************************************************)
WatchedIsReported ==
  \A r \in Requests :
    at[r] = "watching" /\ session[r] = "running" ~> at[r] = "replied"

(***************************************************************************)
(* Messages are lost in the gap of start-up or with Slack's loop, and in   *)
(* no other way: a request that has not been published when its plugin is  *)
(* subscribed to gets a session, or an error of Discord or of SubmitTask,  *)
(* unless Slack's loop ends before it has read it.                         *)
(***************************************************************************)
ServedOnceListening ==
  \A r \in Requests :
    at[r] \in {"new", "deferred", "stored"} /\ From(r) \in listening
      ~> session[r] # "none" \/ at[r] \in {"dropped", "refused"} \/ Unread(r)

(***************************************************************************)
(* builder.go:211, "send the result back to the plugin when the session    *)
(* completes or fails": a session that ends before the subscriptions is    *)
(* never reported.                                                         *)
(***************************************************************************)
EndedIsReported ==
  \A r \in Requests : session[r] \in Over ~> at[r] = "replied"
=============================================================================
