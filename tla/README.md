# Foreman in TLA+

Foreman runs coding agents for people who ask for work through an HTTP API, Slack
or Discord.  A task becomes a *session*; the coordinator gives it a container, runs
the agent in it, watches its heartbeat, retries after crashes, may stop at an
approval gate, and ends with the session COMPLETED or FAILED.  Session state lives
in a map of the control plane and in PostgreSQL; everything is announced on an
event bus.  This directory models that core, checks it with TLC on small instances
and proves its safety properties with TLAPS for every instance.

## 1. The system and its parts

| Part (source under `src/`) | State it keeps | Operations | Talks to |
|---|---|---|---|
| coordinator (`internal/coordinator`) | `active`, `accepting`, `sessionAttempts`, `sessionHeartbeats`; per run: container, `crashCh`, contexts, `respCh` | SubmitTask, ResumeSession, runAgent, monitorHeartbeat, handleCrash, waitForApproval, ApproveSession, DenySession, StopAccepting, Drain, ReapOrphanedContainers | control plane, sandbox, bus, MCP hub, adapters, policies |
| control plane (`internal/controlplane`) | `sessions` map, one mutex per session | CreateSession, Transition, SaveCheckpoint, Recover, Audit | state store, bus |
| state store (`internal/statestore`) | tables sessions, checkpoints, audit_log | INSERT/UPDATE/SELECT, each atomic | PostgreSQL |
| event bus (`internal/eventbus`) | memory: handlers by pattern; NATS: a JetStream stream and consumers | Publish, Subscribe, cancel, Close | everyone |
| process (`cmd/foreman`, `internal/core`) | the process context | Bootstrap (recovery loop, chat handler, HTTP handlers), Shutdown | everything |
| sandbox (`internal/sandbox`) | container map | Provision, Execute, file calls, Heartbeat, Stats, SubscribeEvents, Destroy | Docker |
| plugins (`internal/plugins`) | Discord: pending interactions by channel | handlers of commands, messages and buttons, SendMessage | bus, Slack, Discord |
| policies and adapters (`internal/policy`, `internal/adapter`) | configuration | ParseEvent, Matches | coordinator |
| MCP hub, identity, GitHub App, API server, config | configuration; token caches | see `PROJECT.json` | |

What is hard here:

* *Interleaving.* Each session has a caller, a runAgent goroutine, returned
  runAgent goroutines whose deferred function has not run yet, a monitor and
  people who answer approval requests; `c.mu` is held only for single map accesses.
* *Partial failure.* `Transition` reports an error after it has changed status and
  row when the event cannot be published; a failed UPDATE is only logged; a failed
  Destroy is only logged.
* *Crash and restart.* Between any two statements; only rows and containers survive.
* *Late subscriptions.* The in-process bus keeps nothing: who subscribes after an
  event was published never hears of it.
* *Races of timeouts.* A heartbeat loss against Execute's own return, a cancelled
  context against the back-off timer, an approval against its timeout and against
  the subscription that should receive it, a second approval against the channel
  the gate closes when it leaves.
* *Redelivery.* JetStream hands an event out until it is acknowledged: acknowledgements
  get lost, handlers fail every time, processes die while they hold an event.
* *Decoding.* A policy judges what is left of a tool call after the adapter and the
  coordinator have decoded it.

The hazards are listed line by line in `PROJECT.json`.

## 2. Modules

| Module | Models |
|---|---|
| `SessionStates` | statuses, `validTransitions`, the guard of Transition, and `Reaches`, its closure |
| `SessionContract` | abstract: what a watcher of one status may rely on |
| `Coordinator` | the coordinator's processes and the shutdown sequence |
| `CoordinatorProofs` | its inductive invariant and theorems |
| `ControlPlane` | control plane and store, statement by statement, with crashes |
| `ControlPlaneProofs` | its inductive invariant and theorems |
| `Subjects` | subjects and patterns as token sequences; `matchSubject` and NATS matching as formulas |
| `SubjectMatch`, `SubjectMatchProofs` | the loop of matchSubject, step by step, and that it computes the formula |
| `MemoryBus` | the in-process bus: subscriptions removed by index, the copy Publish takes, a handler that panics |
| `AgentOutput` | from a line of agent output to a policy match: adapters, extractToolUse, policies |
| `GateContract` | abstract: an approval gate gives one verdict, an answer it was offered or a timeout |
| `ApprovalGate`, `ApprovalGateProofs` | waitForApproval with `respCh` over `MemoryBus`, and those who answer; theorems of gate and bus |
| `Delivery` | abstract: at-least-once delivery with a bounded number of attempts |
| `NatsBus`, `NatsBusProofs` | the NATS bus: Subscribe's goroutine against an external JetStream |
| `Bootstrap`, `BootstrapProofs` | what a restart does with rows and containers: Recover, the reaper, the recovery loop, while new tasks arrive |
| `Sandbox`, `SandboxProofs` | DockerSandbox: its map against the daemon's containers, request by request |
| `Chat`, `ChatProofs` | a chat request and the way of its answer: plugins and Bootstrap's handler |
| `MCCoordinator`, `MCControlPlane`, `MCSubjectMatch`, `MCApprovalGate`, `MCNatsBus`, `MCBootstrap`, `MCSandbox`, `MCChat` | instances for TLC |

`SessionStates` is shared by `Coordinator`, `ControlPlane` and `Bootstrap`.
Refinements are stated with `INSTANCE ... WITH`: `ApprovalGate` implements
`GateContract`, `NatsBus` implements `Delivery` (both checked and proved), and the rows
of `ControlPlane` and of `Bootstrap` implement `SessionContract` (proved, for a store that
does not fail).  `ApprovalGate` composes the gate and its answerers with `MemoryBus`, whose
actions it calls, and is shown to implement `MemoryBus`'s own specification (`BusSpec`).
`Bootstrap` composes the durable rows
with the coordinator's work on a session cut down to what a crash can tell apart.

Operators whose comment starts with *Slip* are wrong variants of the operator
below them, each a mistake the code could contain.  No specification uses them;
putting one in place of its original must break the property named with it in
`PROJECT.json`.

### Coordinator

`sub[s]` is where the SubmitTask (or ResumeSession) call of a session is:

    none -SubmitTask-> created -startTask-> admitted -Allocate-> allocated -Launch-> launched
    recovered -ResumeSession-> allocated                  any check or error -> rejected

`startTask` is the critical section with the two checks and ends where the code
releases `c.mu`; `Launch` is the later critical section that registers the session.
`run[s]` is where the current runAgent is:

    setup -Provision-> provisioned -StartAgent-> executing -ExecuteReturns-> ok | nonzero | error
    ok -AgentSucceeds-> finishing | gating
    gating -RequestApproval-> requested -> halfOpen -> waiting -ApprovalGranted-> approved -LeaveApproval-> finishing
    finishing -Complete-> none
    ok | nonzero | error -CrashDetected-> crashed -handleCrash-> backoff -Retry-> setup

Every other exit is an action that ends in `Return`.  `exiting[s]` counts returned
goroutines whose deferred `delete(c.active, ...)` is still to come; `Retry` starts
the new goroutine and leaves the old one there, so the delete may hit any point of
the new run.  A step is the code up to the next lock, blocking call, channel
operation or subscription that another process can see.  `boxes` and `leaks` count
existing containers and failed Destroy calls; `verdict`, `cause` and `unsent` are
history variables that only properties read.

Abstractions: what the agent prints and whether a policy matches is a free choice
(`AgentSucceeds`); adapter lookup, verification, configuration and token issue can
each only fail the session (`PrepareFails`); audit entries, checkpoints and log
lines change no state the coordinator reads; time is replaced by the freedom to
time out.  `StopMonitor` ends a monitor at the select that looks at `crashCh` for
the last time, since nothing the monitor does later is observed.  The bus is the
in-process one.  `ProcessCtx` are the sessions whose context SIGTERM cancels
(resumed and chat sessions; the HTTP handler passes `context.Background()`).

`phase` is the shutdown: serving, signalled, draining, then drained or expired by what
`Drain` reports, then exited.  `Exit` is the rest of `App.Shutdown` and the return of
`main`: it comes whatever Drain has reported, and after it nothing moves (`Alive`), so a
goroutine that Drain did not wait for, or waited for in vain, ends wherever it was.

### ControlPlane

`at[c]` is the statement a caller has reached: inserted, created (CreateSession);
changed, stored (Transition, with `lock[s]` held); saved, referenced
(SaveCheckpoint).  Each SQL statement is an operator of its own (`InsertSession`,
`UpdateSessionStatus`, ...).  `status` and `ref` are the map, `row`, `rowRef`, `ckpts` the
tables, `lastEvent` the last status published.  `Crash` empties everything but the
tables; `Recover` loads the unfinished rows, without events and without checkpoint
references, as the code does.  `lost` records that an UPDATE failed and was
logged.  A Transition is only called on a session whose CreateSession has
returned: the coordinator's calls are in that order and session IDs are known to
nobody earlier.  SaveCheckpoint needs no lock at its insert: the code takes and
releases the read lock before it.

### The in-process bus

`SubjectMatch` runs matchSubject on one pattern and one subject, both sequences of
tokens (`strings.Split` on the dots): `pc` and `i` are the loop's position, each
return statement is an action.  `MemoryBus` keeps `subs`, the slices of the
map, `pat` and `id`, what each cancel function captured, and `todo`, the handlers
a Publish copied under the read lock and has still to call, in any order, since Go
iterates over the map.  `Reached` are the patterns a subject matches, computed once.
`Exclusive` patterns have one subscription at a time: those that
name a session, which only one waitForApproval uses; `MemoryBus` assumes this of its
users and `ApprovalGate` is shown to keep it.

### ApprovalGate

`gate[s]` is where runAgent is after the agent has ended:

    start -NoMatch-> unneeded
    start -RequestApproval-> requested -SubscribeGranted-> half -SubscribeDenied-> waiting
    waiting -Receive | TimesOut-> resolved -CancelDenied-> denyCancelled
            -CancelGranted-> bothCancelled -CloseRespCh-> left         (deferred calls)

Whether a policy matches is computed by `checkPolicies` of `AgentOutput` from the lines
the agent printed.  A line is a record of its type, its tool and its state field by
field; `parseOpenCode` keeps what the Go types keep, that is, the state's `output` if
it is not empty.  A line's `fits` are the Go types json.Unmarshal can decode it into:
for opencode a field of another type (an `output` that is an object) is an error, and
the whole line becomes text.  Globs and regexes are given by what they match.

Whoever answers calls the gate's handlers itself, in its own Publish: `Send` needs room
in the channel (capacity 1) and otherwise blocks; `SendPanics` is the send on the closed
channel, also of a sender that was blocked when it closed.  What a panic does depends on
the goroutine: net/http recovers, Slack's loop recovers outside its loop and ends
(`ended`), nothing recovers in Discord's callback (`crashed`).  `offered` is history.
Transitions, containers and shutdown around the gate are in `Coordinator`, which has the
gate without its channel.

### NatsBus

`at[w]` is where the goroutine of subscription w is: fetching, handling, acking, naking,
stopped, or gone with its process.  JetStream is external and follows from the
consumer's configuration: `stream` survives everything, `sent`, `waiting` and `acked`
are the consumer's, new events come in order (`InTurn`), refused or expired ones whenever
they are due.  `Ack` and `Nak` may be lost; `AckWaitExpires` may come while the handler
is still working.  FetchFails looks at the context, Fetch does not, as in the code.
`Rejects[w]` are events whose payload w's handler never accepts, such as a
`schemas.UserMessage` that a JSON round trip has turned into a map (builder.go:186).
`Restart` is a crash or an orderly end followed by a new connection: the old
subscriptions are gone, their consumers stay, and new subscriptions make new ones.

### Bootstrap

`row`, `fresh` (updated_at is recent), `beat` (so is the last heartbeat) and `owner`
(which session a container was created for) survive `Crash`; `phase`, `todo`, `cur`
(Bootstrap's position), `status` (the map), `job`, `box`, `active` (the coordinator)
do not.  Start-up is `Recover`, `ReapOrphanedContainers`, then one action per branch
of the loop body (`FailIncomplete`, `FailStale`, `ResumeSession`, `CancelApproval`,
`LeaveCreated`), then `Up`; `SubmitTask` is possible as soon as the API server runs,
that is, during the loop.  `job[s]` cuts a run where a crash leaves another row or
another container behind; `Coordinator` has the same code in full.  A Transition is
one step, because a crash before its UPDATE looks like a crash before it.  Crashes
and retries are unbounded.  `stray` (containers whose removal failed) and `unsent`
(sessions abandoned by a failed publish) are history.

### Sandbox

A container is what Docker's ID tells apart: a name and the Provision that made it
(`Box`).  `containers` is the code's map from names to containers, `state` what Docker has,
`pc[c]` the request a call is at: image, created, started, ready, undo (Provision); exec,
attach, waiting, closing, inspect (Execute); request (WriteFile, ReadFile,
UploadCheckpoint, Heartbeat, Stats); open, logs, read, emit (SubscribeEvents); remove,
unmap (Destroy).  Docker is external: each request succeeds, is refused, or is cut off by
the call's context just after Docker has acted (the `...CutOff` actions); a
container may stop or be removed by somebody else at any time.  Names are the
current time, so two calls of one clock tick may get the same name.  Docker refuses a
name only while a container has it (`Holders`): a Provision that is still pulling its
image creates a second container of that name after a Destroy has removed the first.
`Register` and `Unmap` go by the name, the requests by the ID, ContainerLogs by the name,
as in the code.  The goroutine of SubscribeEvents looks at its context between two chunks
(`PollContext`) and in the select of every line of a chunk (`Emit`, `StopEvents`); a closed
channel keeps its buffered events.  `lost` and `outside` record containers left in doubt.

### Chat

`at[r]` is where the handling of a request is:

    new -Defer-> deferred -StoreInteraction-> stored      (Discord slash commands)
    new | stored -publish-> submitting | lost
    submitting -SubmitTask-> submitted -Subscribe (three times)-> watching
    watching -ReceiveDone-> replying -TakeInteraction-> sending -Send-> replied
                            replying -PostMessage-> replied                (Slack)

`reading` says that Slack's event loop runs: a late approval answer that panics
(`ApprovalGate`) ends it for good (`LoopEnds`), and what is asked in Slack afterwards is
read by nobody (`Unread`).  In Discord's callback the same panic ends the process, and
with it everything this module speaks of.
`listening` are the plugins Bootstrap has subscribed to, `done` the buffered
channel, `pending` Discord's map, `taken` what SendMessage took from it and `reply`
the placeholder an answer replaced.  The session only runs and ends, which it does
by `EverySessionSettles` of `Coordinator`.  The text of requests and answers is left
out.

## 3. What TLC checks

| Run | Instance | Shows |
|---|---|---|
| `coordinator` | one recovered session with the process context, one submitted; 1 slot, 1 retry, 2 missed heartbeats; bus faults, shutdown to the end of the process, fair goroutines | nine invariants, `TerminalStartsNothing`, `DrainedMeansOver`, `EverySessionSettles` |
| `control_plane` | 2 sessions, 2 callers, 1 checkpoint, store and bus faults, any number of crashes | map, row, events and checkpoint references stay related |
| `capacity` | 2 submitted sessions, 1 slot, no faults | violated: more agents run than max_concurrent |
| `subject_match` | all patterns and subjects of up to three tokens | the loop is its formula; it decides as NATS does where `>` has a token to match |
| `approval_gate` | 2 sessions with different adapters and 2 outputs each, a Slack loop and a Discord callback, one other subscription | `GateContract` and `MemoryBus` are implemented, restricted calls need a grant, late answers cannot reach a closed channel through the bus, every answerer comes back |
| `nats_bus` | 2 subscriptions, 2 events, one of them always refused; 2 deliveries, 1 unacknowledged event | `Delivery` is implemented; `EveryEventSettles` |
| `bootstrap` | 2 sessions, 2 container names, 1 slot, store, bus and Docker faults, any number of crashes, fair start-up and goroutines | nothing half done stays unattended, no container is forgotten, nothing finished is revived, and `HalfDoneResolves` |
| `recovery_heartbeat` | 1 session, no faults | violated: a session with a recent heartbeat is failed |
| `reaper` | 1 session, no faults | violated: the container of an active session is destroyed |
| `sandbox` | 2 callers on 1 name, channel of capacity 1, chunks of up to 2 lines, every request refused or cut off at will | map and daemon stay related, a cancelled call returns |
| `chat` | 2 slash commands in one channel, 1 Slack request, Slack's loop ending at any time | which placeholder an answer replaces; `WatchedIsReported`, `ServedOnceListening` |
| `chat_reply` | 1 direct message | violated: a session that ends before the subscriptions is never reported |

Bounds.  Sessions interact only through `active`, the admission checks and
shutdown, so two of them, one recovered and one submitted, meet in every
combination; one slot makes each refuse the other.  One retry gives first run,
retry and exhaustion; two heartbeats distinguish a miss from a loss.  `SandboxFaults` is
off in this run, which would otherwise be too large: a Destroy still fails where a
session's own context has ended, and the proofs cover every other failure.  In the
control plane two callers compete for one session and two sessions show that
mutexes are per session; crashes are unbounded and states stay finite because the
table is acyclic up to APPROVAL/RUNNING.  `ReachesIsClosure` in `MCControlPlane`
makes TLC compare the written-out `Reaches` with the closure of the table.  At a
restart one slot makes new tasks and recovered sessions compete, and two container
names let a resumed session's new container coexist with its old one.  Two
callers, each making any number of calls, are what two Destroys, a Destroy and a
Provision, or two Provisions of one name need to race; one name has then two containers
after each other; calls on different names share nothing.  Two lines in a chunk make one
that is sent after the context has ended and one that is not.  Two commands in one Discord channel are what the
map's single slot needs to be overwritten; other channels are independent.
At the gate two answerers are what it takes to fill `respCh` and to be blocked or late
at the same time; the API's handlers differ from Slack and Discord only in that a panic
has no consequence, so they are left to the proofs.  The session's outputs are chosen so
that a call is matched by its tool alone, matched by an input, not matched because the
input is empty, hidden behind other lines, and lost because the line does not decode.  On the NATS bus one unacknowledged event
and two deliveries make a lost acknowledgement, a redelivery and exhaustion happen in
every order; the second subscription wants one of the events only, so that order and
filter disagree, and may belong to the same process or to the next one.

Fairness (`FairSpec`): while there is a process, a goroutine that can take a step takes
one (weak fairness of `runAgent`, `ReleaseSlot` and `InterruptAgent`, each with `Alive`);
the process may end at any time once Drain has returned, and `EverySessionSettles` says
so.  Execute is called with a
timeout, waitForApproval selects on `time.After`, the back-off on a timer, so each
of these waits does end.  Nothing is assumed of people, of heartbeats, of SIGTERM, of
how long Drain waits or of callers that have not started their task.  In `Bootstrap` start-up goes on and a
dead process is started again (`restart: unless-stopped` in
deploy/docker-compose.yml); `HalfDoneResolves` speaks only of behaviours in which the
process finally stays up, since nothing bounds crashes.  In `Sandbox` a goroutine
whose request has been answered, refused or cancelled goes on; nothing is assumed
of the agent's process, of its log or of whoever receives events.  In `Chat` goroutines
go on and sessions end; Slack's loop reads as long as it runs, and whether it ends is
free.  At the gate goroutines go on (waitForApproval selects on `time.After`,
so its wait ends); nothing is assumed of who answers.  In `NatsBus` the goroutines of
subscriptions go on, handlers return and the server's AckWait expires; nothing is
assumed of publishers, and `EveryEventSettles` gives up when the connection is closed or
the process ends.

Deadlock is checked everywhere.  The idle steps are `Exited` (Coordinator: there is no
process any more), `Idle` of Sandbox (nobody calls), `Idle` of Chat (every request has been
dealt with, waits for an event that is past, or was made in Slack after its loop had
ended), `Idle` of NatsBus (everything was published and no
subscription of a living process is left) and the crashed process of `ApprovalGate`.

The violations:

* `capacity`: two submissions pass the test of `len(c.active)` before either is
  registered; docs/TODO.md says only max_concurrent run.
* `recovery_heartbeat`: start-up takes the age of a RUNNING session from updated_at,
  which heartbeats do not touch; the comment in builder.go speaks of the heartbeat.
* `reaper`: ReapOrphanedContainers says it skips containers of active sessions
  (coordinator.go:804-805, 827) and looks the container's name up in a set of session IDs,
  so it skips none.  `NoOrphanContainer` holds because of that: a resumed session gets a new
  container, and one that was spared would be nobody's.
* `chat_reply`: the chat handler subscribes to a session's end after SubmitTask has
  started it; an end in between is never reported and the goroutine waits for ever.

Met while modelling and visible in the models, without a run of their own: a retry
after a crash has no entry in `active`, and neither has a task that is admitted but not
yet registered, so Drain does not wait for them and returns 0, which its comment gives as
"all sessions completed" (coordinator.go:163-165); Drain gives up after 30 seconds and the
process ends under whatever still runs, so "verify Foreman waits for running task to
finish before exiting, verify session reaches terminal state" (docs/TODO.md:126) is true of
a first run shorter than that; a context
cancelled during the back-off leaves a RUNNING session without goroutine; an answer
given between the approval request and the subscription is lost; `a.>` matches `a`;
a resume refused for capacity leaves its session RUNNING; of two commands in one
Discord channel the answer of one may replace the placeholder of the other; two
subscriptions of one pattern, cancelled in the order they were made, leave the second
one registered, because removal is by the index of the time of subscription; a durable
NATS consumer is named by the time and starts at the first event of the stream, so a
restart does not resume where the last process had acknowledged
(docs/reference/event-bus.md:268); a chat message sent over NATS is refused by its own
handler, whose type assertion a JSON round trip defeats; a policy on an input field
other than `output` never applies to opencode, whose events keep no other field; an
tool call in a line that opencode's event type cannot hold is taken for text and no policy
sees it; an
answer that comes after the gate has been left ends Slack's loop, or, from Discord, the
process, if it was on its way when the gate unsubscribed; a Provision that shares its
name with a container being destroyed can lose its entry to that Destroy's delete, so that
nobody can destroy the new container; docs/diagrams/session-state-machine.puml:19 has an
edge "FAILED --> ALLOCATING : retry from checkpoint" and states PENDING, BLOCKED and
CANCELLED, none of which the code has: a retry stays in RUNNING and FAILED is final
(`validTransitions`, and `TerminalStartsNothing` for containers).

`NoSlotLeak`, `FirstRunIsCounted`, `DrainedMeansOver` and `NoAbandonedSession` say exactly
what remains true around these: no slot is lost, only retries go uncounted, Drain's 0
speaks for every launched session that has not crashed, and a session is abandoned only by
a failed publish or by the end of its context after a crash that could be retried.  In the
same way `RestrictedNeedsGrant` speaks of lines that decode and of the fields an adapter
keeps, `ClosedIsUnreachable` of answers that begin after the gate, `ContainerIsKnown` of
containers that share their name with no other, and `ServedOnceListening` of requests
after start-up and while Slack's loop runs.

## 4. What is proved

All theorems hold for every set of sessions and callers and every value of the
limits and fault switches allowed by `CoordinatorAssumption` (finite `Sessions`,
positive limits, recovered sessions have the process context),
`ControlPlaneAssumption` (`None` is no caller and no session),
`BootstrapAssumption` (no session ID is a container name), `SandboxAssumption` and
`ChatAssumption` (slash commands and direct messages have different channels),
`GateAssumption` (session IDs are tokens other than wildcards, the gate's subjects are
the exclusive patterns) and `NatsAssumption` (positive limits).

*Coordinator.*  `IInv` is a table of what holds of one session at each point of its
caller and its goroutine: which statuses are possible (`StatusInv`), that exactly
one container beyond the leaked ones exists between Provision and cleanup
(`BoxInv`), that the slot is held until the first deferred delete (`SlotInv`), that
`crashCh` holds the error from before the cancellation until the select
(`HeartbeatInv`), the retry count (`RetryInv`) and the gate (`GateInv`).  None of the
properties is inductive alone: `NoSandboxLeak` needs to know that cleanup is reached
with a container, `NoAbandonedSession` that the failing transition starts in a
status that allows it, and so `StatusInv` and `CoordinatorEdges`.  From it follow
all nine invariants; `TerminalStartsNothing` because only Provision creates
containers (`ContainerStep`) and is never reached in a terminal session; and
`DrainedMeansOver`, since a run that has not crashed is in `active` (`SlotInv`) and only the
shutdown moves `phase` (`OnlyShutdownMovesPhase`).

Further theorems say what the model-checked findings leave open.  `FailedHasCauseHolds`
and, assuming `~BusFaults`, `OnlyTheBusRefuses`: the table refuses no transition the
coordinator asks for, so the logged-only errors of `failSession` and the early returns
of `runAgent` come from the bus alone.  `CapacityWithoutOverlap` has the two hypotheses
that the `capacity` run violates in turn, admissions that do not overlap
(`SerialAdmission`) and no retry (`NoRetries`): with both, max_concurrent holds, by an
invariant on the cardinality of `active` that reserves room for whoever is admitted.
`CapacityWithoutMonitor` drops the second where `HeartbeatInterval = 0`.
`CrashIsExactHolds` is the arithmetic of `maxFailures`, `RejectedIsFrozenHolds` what a
rejected task leaves behind.  `WorkIsBoundedHolds` gives `runAgent` a ranking: the
attempts left, weighted, and the position.

*ControlPlane.*  `IInv` says what a caller knows at each statement (`CallInv`: the
holder of the mutex finds the status it assigned, and the row at most one edge
behind), that a session has one creator (`SoleCreator`) and how map, row and event
are related (`SessionInv`).  `StoreInStep`, `PublishedIsDurable` and
`CheckpointRefsExist` are parts of it; `DurableForward` (`RowStep`) and
`TerminalEventIsFinal` (`EventStep`) are consequences for steps, the latter because
a terminal status reaches nothing else; `EventsForwardHolds` extends it to every event.
`RowsImplementContract` (assuming `~StoreFaults`) maps `SessionContract`'s status to
the row: the mutex keeps the next Transition out until the row is written, so rows
follow the table edge by edge although the map is lost in every crash.
`RefsAreOwnHolds` rests on fresh checkpoint IDs.  `ReachesIsLeastClosure` proves, by
transitivity along the table, what `ReachesIsClosure` has TLC compute.

*Bus.*  `LoopIsFormulaHolds` is a loop invariant (all tokens before `i` matched and
no `>` among them) for patterns and subjects of any length; `AgreesWithNatsHolds`
compares the two formulas, `BeyondNatsHolds` says where they differ: a subject that stops
in front of the final `>`.  `ReturnsSoonHolds` counts the loop's steps.  `ExclusiveIsExactHolds` needs that the slice of an
exclusive pattern is empty or holds the one subscribed handler at the captured index;
`PublishReachesSubscribedHolds` follows for the copy and carries over to the composition through `BusSpecHolds`: every step of the gate is a
step of the bus, because a session subscribes to each of its subjects once, from one
place.  Handlers that share a pattern are the case the code does not use:
`FirstCancelIsExactHolds` shows, by an invariant on the whole slice (`ShareInv`: no handler
twice, and before the first cancellation each at its captured index), that the first
cancellation is exact for any number of them.  The second need not be, so this is as far
as the index carries.

*Approval gate.*  `GInv` says, for each place of the gate, which of its two handlers is
subscribed (`Positions`) and to which subject (`OwnTopic`), that an answer in `respCh`, or
a handler of the gate in somebody's `todo`, was offered to this session (`OnlyOffered`),
that there is no verdict before the gate is left and `respCh` is closed only in `left`
(`Decided`).  The verdict is then always an offered one, which is the step that
`ContractSpecHolds` needs, and nothing but the gate changes it.  `RestrictedNeedsGrantHolds`
adds a lemma on `AgentOutput`: a restricted call whose inputs the adapter keeps is found
by `checkPolicies`, so the session cannot be `unneeded`.  `PipelineIsExact` is the
equation behind it, for every output, adapter and list of policies, and
`AskedForReasonHolds` its converse for the gate.  `SenderIsReleasedHolds` excludes a
circle of waiting, `GateGoesForwardHolds` ranks the gate's places and the handlers a
Publish still has to call.

*NATS.*  `IInv` relates the goroutine to the consumer (`Current`): the event in hand has
been handed out and is not acknowledged, and one that is being acknowledged has been
handled; nothing is stored that was not published.
With the mapping `settled = acked or exhausted`, each step is one of Delivery's or a
stutter; the delicate ones are `Ack`, `Nak` and `AckWaitExpires`, where an event is
settled at the moment its last delivery has been dealt with.  `AckedWasHandledHolds` and
`FirstDeliveriesInOrderHolds` (no event is stored twice, so an index is an event) say
what an acknowledgement and the order mean.  `NeverStuckHolds` takes the first wanted
event of the stream that was not handed out, which exists because a set of numbers has
a least one (`LeastElement`, from the well-foundedness of `<`) and which is in turn.

*Bootstrap.*  `IInv` joins what the position of a job says of the map (`JobInv`), that
a run has a container exactly between Provision and clean-up (`BoxInv`), that a
finished row is finished or absent in the map (`RowInv`), that the loop finds its
sessions untouched (`LoopInv`) and that half-done sessions without a job are still
the loop's (`AttendedInv`); `PhaseInv` says when these are vacuous.
`HalfDoneIsAttended` follows because the loop is empty when Bootstrap is up;
`NoOrphanContainer` is part of the invariant; `TerminalNotRevived` needs `RowInv`: a
run in progress has a live status, so its row is not terminal.  Every step writes rows
and map by one Transition at most (`StepWrites`); so the map is at or after the row, and
rows only move forward, with any UPDATE lost (`RowsOnlyForwardHolds`), and refine
`SessionContract` if none is (`RowsImplementContract`, assuming `~StoreFaults`).
`RequestsAreLegalHolds` reads off the invariant that no Transition is refused.
`HalfDoneGoesForwardHolds` ranks the steps to the end of a half-done status.

*Sandbox.*  The argument is `SoleInv`: requests go by Docker's ID, so while a Provision is
busy with a container no other call works on it, whoever shares its name.  `BornInv` (nobody
knows a container before it is created) and `BusyInv` make that inductive, `UnmapInv` ties
a Destroy's last step to a removal that happened.  Nothing assumes that a name is new.
`CancelledIsQuickHolds` ranks the steps of a call whose context is done: the requests that
need the context are out of its way, and SubscribeEvents has at most the chunk it is
reading and its lines, `MaxLines + 2` steps, since the loop looks at the context before it
reads another.

*Chat.*  An interaction is in one place: the map, or the hands of one answer
(`PendingInv`, `TakenInv`, `PlaceInv`).  `AloneInv` follows a command that is alone in
its channel from the map to its answer.  `EndInv` says what the place of a request tells
of its session and of `done`; from it follow `AnswerIsFinalHolds` and
`EndIsDecisiveHolds`, which shows for any number of requests what the `chat_reply` run
finds: a session that ends before the subscription is never reported, and no later end
is missed.
`HandlingGoesForwardHolds` counts the steps.

The type invariants are proved with these (`TypeCorrect`), so TLC checks only the
coordinator's; likewise `PublishReachesSubscribed`, `ExclusiveIsExact` and
`FirstCancelIsExact` are theorems without a run of their own.

Only model-checked are the liveness properties, since they rest on fairness, which is out
of the prover's reach.  What makes them true apart from fairness is proved: a number that
each step of the actors in question decreases and nobody else increases, or that the
actor is never without a step.

| Liveness property | Proved part |
|---|---|
| `EverySessionSettles` | `WorkIsBoundedHolds` |
| `HalfDoneResolves` | `HalfDoneGoesForwardHolds`, `RequestsAreLegalHolds` |
| `CancelledReturns` | `CancelledIsQuickHolds` |
| `WatchedIsReported` | `EndIsDecisiveHolds`, `HandlingGoesForwardHolds` |
| `ServedOnceListening` | `HandlingGoesForwardHolds` |
| `AnswersReturn` | `GateGoesForwardHolds`, `SenderIsReleasedHolds` |
| `EveryEventSettles` | `NeverStuckHolds` |

Theorems with a hypothesis beyond the constants' assumptions are `OnlyTheBusRefuses`
(`~BusFaults`), the two `RowsImplementContract` (`~StoreFaults`),
`CapacityWithoutOverlap` and `CapacityWithoutMonitor`; each
hypothesis is a configuration of the model or a restriction of its schedules.  The
properties of these and the other theorems without a run are defined in the proof
modules, beside their proofs.

## 5. Not modelled

* Identity: signing and checking tokens is cryptography; the one call the coordinator
  makes can only fail (`PrepareFails`).
* GitHub App: the running program never asks for an installation token, and the webhook
  is built without a store (builder.go:312), so nothing of it changes state.
* MCP hub and configuration: read once, then only read.
* The memory-only mode of the control plane (no store): `ControlPlane` is the
  configuration that has crashes to survive.
* Text of events and messages, audit log, layout of chat messages, platform SDKs,
  migrations, contents of files and statistics of containers, monitorResources.
* Stream limits of JetStream (14 days) and its deduplication window, which nothing uses:
  no event is published twice under one ID.

What could follow: the coordinator over the NATS bus, where answers are redelivered to a
gate that is gone; a second store-less instance of `ControlPlane`.
