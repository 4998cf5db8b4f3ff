----------------------------- MODULE Coordinator -----------------------------
(***************************************************************************)
(* internal/coordinator: how a submitted task becomes a running agent and  *)
(* how that run ends.  The processes are, per session,                     *)
(*   - the caller of SubmitTask or ResumeSession (sub),                    *)
(*   - the runAgent goroutine (run), and its already returned predecessors *)
(*     whose deferred delete of active[s] has not run yet (exiting),       *)
(*   - the monitorHeartbeat goroutine of the current run (mon),            *)
(*   - the humans who call ApproveSession and DenySession,                 *)
(* and the shutdown sequence of the process.  A step of the model is the   *)
(* code between two points where another process can observe or change     *)
(* something: a lock, a blocking call, a channel, a subscription.          *)
(*                                                                         *)
(* Sessions have distinct IDs; the state store refuses a second            *)
(* CreateSession with the same ID.  The event bus is the in-process one:   *)
(* an event published while nobody is subscribed is gone.                  *)
(***************************************************************************)
EXTENDS SessionStates, Naturals, FiniteSets

CONSTANTS
  Sessions,           \* session IDs
  Recovered,          \* sessions found RUNNING in the store at start-up
  ProcessCtx,         \* sessions whose context is cancelled by SIGTERM
  MaxConcurrent,      \* maxConcurrent
  MaxRetries,         \* maxRetries
  HeartbeatInterval,  \* heartbeatInterval, 0 = no monitor
  HeartbeatTimeout,   \* heartbeatTimeout
  BusFaults,          \* Publish and Subscribe may return an error
  SandboxFaults       \* Destroy may return an error

ASSUME CoordinatorAssumption ==
  /\ Recovered \subseteq ProcessCtx
  /\ ProcessCtx \subseteq Sessions
  /\ IsFiniteSet(Sessions)
  /\ MaxConcurrent \in Nat \ {0}
  /\ MaxRetries \in Nat \ {0}
  /\ HeartbeatInterval \in Nat
  /\ HeartbeatTimeout \in Nat \ {0}
  /\ BusFaults \in BOOLEAN
  /\ SandboxFaults \in BOOLEAN

VARIABLES
  accepting,    \* accepting
  phase,        \* how far Shutdown has got
  active,       \* domain of the active map
  status,       \* Status of each session in the control plane's map
  sub,          \* where the SubmitTask or ResumeSession call of a session is
  run,          \* where the runAgent goroutine of a session is
  exiting,      \* returned runAgent calls whose deferred delete is pending
  boxes,        \* containers that exist for a session
  leaks,        \* Destroy calls of a session that failed
  attempts,     \* sessionAttempts
  mon,          \* the heartbeat monitor of the current run
  misses,       \* its consecutiveFailures
  crashCh,      \* a crash error waits in crashCh
  interrupted,  \* the monitor has cancelled heartbeatCtx
  answers,      \* approval answers published while the session was in APPROVAL
  respCh,       \* content of waitForApproval's respCh
  verdict,      \* history: what the approval gate decided in this run
  cause,        \* history: why failSession was called
  unsent        \* history: Transition moved the session and then reported an error

ctlVars  == <<accepting, phase>>
boxVars  == <<boxes, leaks>>
hbVars   == <<mon, misses, crashCh, interrupted>>
gateVars == <<answers, respCh, verdict>>
endVars  == <<cause, unsent>>
vars == <<ctlVars, active, status, sub, run, exiting, boxVars, attempts, hbVars,
          gateVars, endVars>>

SubStates == {"none", "created", "admitted", "allocated", "launched",
              "rejected", "recovered"}

(* The post-select states: crashCh has been looked at for the last time. *)
AfterAgent == {"gating", "requested", "halfOpen", "waiting", "approved", "finishing"}

HasReturned == {"ok", "nonzero", "error"}

RunStates == {"none", "setup", "provisioned", "executing", "crashed", "backoff"}
               \union HasReturned \union AfterAgent

Causes == {"none", "tools", "prepare", "verify", "execute", "exit", "approval", "exhausted"}

(* monitorHeartbeat's bound on consecutive failures. *)
maxFailures ==
  IF HeartbeatTimeout \div HeartbeatInterval < 1
    THEN 3
    ELSE HeartbeatTimeout \div HeartbeatInterval

(* The context the session's goroutine was started with is cancelled. *)
CtxDone(s) == s \in ProcessCtx /\ phase # "serving"

-----------------------------------------------------------------------------
Init ==
  /\ accepting = TRUE
  /\ phase = "serving"
  /\ active = {}
  /\ status = [s \in Sessions |-> IF s \in Recovered THEN "RUNNING" ELSE Absent]
  /\ sub = [s \in Sessions |-> IF s \in Recovered THEN "recovered" ELSE "none"]
  /\ run = [s \in Sessions |-> "none"]
  /\ exiting = [s \in Sessions |-> 0]
  /\ boxes = [s \in Sessions |-> 0]
  /\ leaks = [s \in Sessions |-> 0]
  /\ attempts = [s \in Sessions |-> 0]
  /\ mon = [s \in Sessions |-> "off"]
  /\ misses = [s \in Sessions |-> 0]
  /\ crashCh = [s \in Sessions |-> FALSE]
  /\ interrupted = [s \in Sessions |-> FALSE]
  /\ answers = [s \in Sessions |-> {}]
  /\ respCh = [s \in Sessions |-> "empty"]
  /\ verdict = [s \in Sessions |-> "unneeded"]
  /\ cause = [s \in Sessions |-> "none"]
  /\ unsent = [s \in Sessions |-> FALSE]

-----------------------------------------------------------------------------
(* ControlPlane.Transition that returns nil. *)
Transition(s, to) ==
  /\ Allowed(status[s], to)
  /\ status' = [status EXCEPT ![s] = to]
  /\ UNCHANGED unsent

(***************************************************************************)
(* ControlPlane.Transition that returns an error: the edge does not exist, *)
(* or the status was changed and the event could not be published.         *)
(***************************************************************************)
TransitionErr(s, to) ==
  /\ Allowed(status[s], to) => BusFaults
  /\ status' = IF Allowed(status[s], to) THEN [status EXCEPT ![s] = to] ELSE status
  /\ unsent' = [unsent EXCEPT ![s] = @ \/ Allowed(status[s], to)]

(* failSession: the result of the transition to FAILED is only logged. *)
failSession(s, why) ==
  /\ status' = IF Allowed(status[s], "FAILED")
                 THEN [status EXCEPT ![s] = "FAILED"] ELSE status
  /\ cause' = [cause EXCEPT ![s] = why]
  /\ UNCHANGED unsent

(* cleanupSandbox: Destroy uses the session's context; an error is logged. *)
cleanupSandbox(s) ==
  \/ /\ ~CtxDone(s)
     /\ boxes' = [boxes EXCEPT ![s] = @ - 1]
     /\ UNCHANGED leaks
  \/ /\ CtxDone(s) \/ SandboxFaults
     /\ leaks' = [leaks EXCEPT ![s] = @ + 1]
     /\ UNCHANGED boxes

(* The monitor is gone, and with it its counter and its channel. *)
StopMonitor(s) ==
  /\ mon' = [mon EXCEPT ![s] = "off"]
  /\ misses' = [misses EXCEPT ![s] = 0]
  /\ crashCh' = [crashCh EXCEPT ![s] = FALSE]

(* Slip: an early return placed before the defer. *)
ReturnBeforeDefer(s) ==
  /\ run' = [run EXCEPT ![s] = "none"]
  /\ StopMonitor(s)
  /\ UNCHANGED exiting

(***************************************************************************)
(* runAgent returns: heartbeatCancel ends the monitor; the delete of       *)
(* active[s] is still to come, in ReleaseSlot.                             *)
(***************************************************************************)
Return(s) ==
  /\ run' = [run EXCEPT ![s] = "none"]
  /\ exiting' = [exiting EXCEPT ![s] = @ + 1]
  /\ StopMonitor(s)

Goto(s, pc) ==
  /\ run' = [run EXCEPT ![s] = pc]
  /\ UNCHANGED exiting

-----------------------------------------------------------------------------
(* SubmitTask, startTask and ResumeSession. *)

(***************************************************************************)
(* SubmitTask's CreateSession.  The store may refuse the insert (no        *)
(* session), the session may be created, or created and then reported as   *)
(* an error because session.created could not be published.                *)
(***************************************************************************)
SubmitTask(s) ==
  /\ sub[s] = "none"
  /\ \/ /\ sub' = [sub EXCEPT ![s] = "rejected"]
        /\ UNCHANGED <<status, unsent>>
     \/ /\ sub' = [sub EXCEPT ![s] = "created"]
        /\ status' = [status EXCEPT ![s] = "CREATED"]
        /\ UNCHANGED unsent
     \/ /\ BusFaults
        /\ sub' = [sub EXCEPT ![s] = "rejected"]
        /\ status' = [status EXCEPT ![s] = "CREATED"]
        /\ unsent' = [unsent EXCEPT ![s] = TRUE]
  /\ UNCHANGED <<ctlVars, active, run, exiting, boxVars, attempts, hbVars, gateVars, cause>>

(* The accepting and capacity checks under c.mu, which is then released. *)
HasRoom == accepting /\ Cardinality(active) < MaxConcurrent

startTask(s) ==
  /\ sub[s] = "created"
  /\ sub' = [sub EXCEPT ![s] = IF HasRoom THEN "admitted" ELSE "rejected"]
  /\ UNCHANGED <<ctlVars, active, status, run, exiting, boxVars, attempts, hbVars,
                 gateVars, endVars>>

Allocate(s) ==
  /\ sub[s] = "admitted"
  /\ \/ /\ Transition(s, "ALLOCATING")
        /\ sub' = [sub EXCEPT ![s] = "allocated"]
     \/ /\ TransitionErr(s, "ALLOCATING")
        /\ sub' = [sub EXCEPT ![s] = "rejected"]
  /\ UNCHANGED <<ctlVars, active, run, exiting, boxVars, attempts, hbVars, gateVars, cause>>

(***************************************************************************)
(* ResumeSession's checks; the start-up loop resumes one session at a      *)
(* time, and only logs a refusal.                                          *)
(***************************************************************************)
ResumeSession(s) ==
  /\ sub[s] = "recovered"
  /\ \A t \in Recovered : sub[t] # "allocated"
  /\ sub' = [sub EXCEPT ![s] = IF HasRoom THEN "allocated" ELSE "rejected"]
  /\ UNCHANGED <<ctlVars, active, status, run, exiting, boxVars, attempts, hbVars,
                 gateVars, endVars>>

(* Slip: the goroutine is started without its entry in active. *)
LaunchUnregistered(s) ==
  /\ sub[s] = "allocated"
  /\ sub' = [sub EXCEPT ![s] = "launched"]
  /\ Goto(s, "setup")
  /\ UNCHANGED <<ctlVars, active, status, boxVars, attempts, hbVars, gateVars, endVars>>

(* Tools resolved: register in active, start the goroutine. *)
Launch(s) ==
  /\ sub[s] = "allocated"
  /\ sub' = [sub EXCEPT ![s] = "launched"]
  /\ active' = active \union {s}
  /\ Goto(s, "setup")
  /\ UNCHANGED <<ctlVars, status, boxVars, attempts, hbVars, gateVars, endVars>>

ToolsUnavailable(s) ==
  /\ sub[s] = "allocated"
  /\ sub' = [sub EXCEPT ![s] = "rejected"]
  /\ failSession(s, "tools")
  /\ UNCHANGED <<ctlVars, active, run, exiting, boxVars, attempts, hbVars, gateVars>>

-----------------------------------------------------------------------------
(* runAgent. *)

(* No adapter, verification, configuration, token or container: give up. *)
PrepareFails(s) ==
  /\ run[s] = "setup"
  /\ failSession(s, "prepare")
  /\ Return(s)
  /\ UNCHANGED <<ctlVars, active, sub, boxVars, attempts, interrupted, gateVars>>

Provision(s) ==
  /\ run[s] = "setup"
  /\ ~CtxDone(s)
  /\ boxes' = [boxes EXCEPT ![s] = @ + 1]
  /\ Goto(s, "provisioned")
  /\ UNCHANGED <<ctlVars, active, status, sub, leaks, attempts, hbVars, gateVars, endVars>>

(* Slip: no return after a failed verification. *)
SandboxVerifyFailsThrough(s) ==
  /\ run[s] = "provisioned"
  /\ cleanupSandbox(s)
  /\ failSession(s, "verify")
  /\ UNCHANGED <<ctlVars, active, sub, run, exiting, attempts, hbVars, gateVars>>

SandboxVerifyFails(s) ==
  /\ run[s] = "provisioned"
  /\ cleanupSandbox(s)
  /\ failSession(s, "verify")
  /\ Return(s)
  /\ UNCHANGED <<ctlVars, active, sub, attempts, interrupted, gateVars>>

(* Slip: the "already RUNNING" test skips the transition for everyone. *)
StartAgentUnmoved(s) ==
  /\ run[s] = "provisioned"
  /\ Goto(s, "executing")
  /\ UNCHANGED <<ctlVars, active, status, sub, boxVars, attempts, hbVars, gateVars, endVars>>

(***************************************************************************)
(* To RUNNING unless already there (resumed or retried), baseline          *)
(* checkpoint, monitor, Execute.                                           *)
(***************************************************************************)
StartAgent(s) ==
  /\ run[s] = "provisioned"
  /\ \/ status[s] = "RUNNING" /\ UNCHANGED <<status, unsent>>
     \/ status[s] # "RUNNING" /\ Transition(s, "RUNNING")
  /\ Goto(s, "executing")
  /\ mon' = [mon EXCEPT ![s] = IF HeartbeatInterval > 0 THEN "watching" ELSE "off"]
  /\ misses' = [misses EXCEPT ![s] = 0]
  /\ crashCh' = [crashCh EXCEPT ![s] = FALSE]
  /\ interrupted' = [interrupted EXCEPT ![s] = FALSE]
  /\ verdict' = [verdict EXCEPT ![s] = "unneeded"]
  /\ UNCHANGED <<ctlVars, active, sub, boxVars, attempts, answers, respCh, cause>>

(* Slip: the early return forgets the container. *)
TransitionRefusedUncleaned(s, pc, to) ==
  /\ run[s] = pc
  /\ status[s] # to
  /\ TransitionErr(s, to)
  /\ Return(s)
  /\ UNCHANGED <<ctlVars, active, sub, boxVars, attempts, interrupted,
                 gateVars, cause>>

(* A failed transition ends the run with a log line only. *)
TransitionRefused(s, pc, to) ==
  /\ run[s] = pc
  /\ status[s] # to
  /\ TransitionErr(s, to)
  /\ cleanupSandbox(s)
  /\ Return(s)
  /\ UNCHANGED <<ctlVars, active, sub, attempts, interrupted, gateVars, cause>>

(***************************************************************************)
(* Execute returns: a result, or an error (timeout, cancelled context,     *)
(* Docker).  A cancellation may come too late to spoil the result.         *)
(***************************************************************************)
ExecuteReturns(s) ==
  /\ run[s] = "executing"
  /\ \E how \in HasReturned : Goto(s, how)
  /\ UNCHANGED <<ctlVars, active, status, sub, boxVars, attempts, hbVars, gateVars, endVars>>

(* The select on crashCh finds an error, whatever Execute returned. *)
CrashDetected(s) ==
  /\ run[s] \in HasReturned
  /\ crashCh[s]
  /\ StopMonitor(s)
  /\ Goto(s, "crashed")
  /\ UNCHANGED <<ctlVars, active, status, sub, boxVars, attempts, interrupted,
                 gateVars, endVars>>

(* Slip: the error is logged, the session is not failed. *)
AgentFailsSilently(s) ==
  /\ run[s] \in {"error", "nonzero"}
  /\ ~crashCh[s]
  /\ cleanupSandbox(s)
  /\ Return(s)
  /\ UNCHANGED <<ctlVars, active, status, sub, attempts, interrupted,
                 gateVars, endVars>>

(* execErr, or a non-zero exit code. *)
AgentFails(s) ==
  /\ run[s] \in {"error", "nonzero"}
  /\ ~crashCh[s]
  /\ failSession(s, IF run[s] = "error" THEN "execute" ELSE "exit")
  /\ cleanupSandbox(s)
  /\ Return(s)
  /\ UNCHANGED <<ctlVars, active, sub, attempts, interrupted, gateVars>>

(***************************************************************************)
(* Output parsed and published, tool calls matched against the policies.   *)
(* Nothing the monitor does after this select has an effect: stop it here. *)
(***************************************************************************)
AgentSucceeds(s) ==
  /\ run[s] = "ok"
  /\ ~crashCh[s]
  /\ \/ Goto(s, "finishing") /\ UNCHANGED verdict
     \/ Goto(s, "gating") /\ verdict' = [verdict EXCEPT ![s] = "pending"]
  /\ StopMonitor(s)
  /\ UNCHANGED <<ctlVars, active, status, sub, boxVars, attempts, interrupted, answers, respCh, endVars>>

(* APPROVAL, then publishApprovalRequest, whose error is only logged. *)
RequestApproval(s) ==
  /\ run[s] = "gating"
  /\ Transition(s, "APPROVAL")
  /\ Goto(s, "requested")
  /\ UNCHANGED <<ctlVars, active, sub, boxVars, attempts, hbVars, gateVars, cause>>

(* waitForApproval subscribes to granted, then to denied. *)
SubscribeAnswers(s) ==
  /\ \/ run[s] = "requested" /\ Goto(s, "halfOpen")
     \/ run[s] = "halfOpen" /\ Goto(s, "waiting")
  /\ UNCHANGED <<ctlVars, active, status, sub, boxVars, attempts, hbVars, gateVars, endVars>>

(* waitForApproval returns an error: the session fails. *)
GateRefuses(s, v) ==
  /\ verdict' = [verdict EXCEPT ![s] = v]
  /\ failSession(s, "approval")
  /\ cleanupSandbox(s)
  /\ Return(s)
  /\ UNCHANGED <<ctlVars, active, sub, attempts, interrupted, answers, respCh>>

SubscribeFails(s) ==
  /\ run[s] \in {"requested", "halfOpen"}
  /\ BusFaults
  /\ GateRefuses(s, "unsubscribed")

ApprovalDenied(s) ==
  /\ run[s] = "waiting"
  /\ respCh[s] = "denied"
  /\ GateRefuses(s, "denied")

(* Slip: the timeout returns nil. *)
ApprovalTimesOutOpen(s) ==
  /\ run[s] = "waiting"
  /\ verdict' = [verdict EXCEPT ![s] = "timeout"]
  /\ Goto(s, "approved")
  /\ UNCHANGED <<ctlVars, active, status, sub, boxVars, attempts, hbVars, answers,
                 respCh, endVars>>

(* time.After, or the context; select may prefer it to a waiting answer. *)
ApprovalTimesOut(s) ==
  /\ run[s] = "waiting"
  /\ GateRefuses(s, "timeout")

ApprovalGranted(s) ==
  /\ run[s] = "waiting"
  /\ respCh[s] = "granted"
  /\ verdict' = [verdict EXCEPT ![s] = "granted"]
  /\ Goto(s, "approved")
  /\ UNCHANGED <<ctlVars, active, status, sub, boxVars, attempts, hbVars, answers,
                 respCh, endVars>>

LeaveApproval(s) ==
  /\ run[s] = "approved"
  /\ Transition(s, "RUNNING")
  /\ Goto(s, "finishing")
  /\ UNCHANGED <<ctlVars, active, sub, boxVars, attempts, hbVars, gateVars, cause>>

(* An error of this transition is only logged. *)
Complete(s) ==
  /\ run[s] = "finishing"
  /\ status' = IF Allowed(status[s], "COMPLETED")
                 THEN [status EXCEPT ![s] = "COMPLETED"] ELSE status
  /\ cleanupSandbox(s)
  /\ Return(s)
  /\ UNCHANGED <<ctlVars, active, sub, attempts, interrupted, gateVars, endVars>>

(* Slip: >= for >, one retry too few. *)
handleCrashEarly(s) ==
  /\ run[s] = "crashed"
  /\ attempts' = [attempts EXCEPT ![s] = @ + 1]
  /\ cleanupSandbox(s)
  /\ IF attempts[s] + 1 >= MaxRetries
       THEN failSession(s, "exhausted") /\ Return(s)
       ELSE Goto(s, "backoff") /\ UNCHANGED <<status, endVars, mon, misses, crashCh>>
  /\ UNCHANGED <<ctlVars, active, sub, interrupted, gateVars>>

(* Slip: no return after the session was failed. *)
handleCrashThrough(s) ==
  /\ run[s] = "crashed"
  /\ attempts' = [attempts EXCEPT ![s] = @ + 1]
  /\ cleanupSandbox(s)
  /\ IF attempts[s] + 1 > MaxRetries
       THEN failSession(s, "exhausted")
       ELSE UNCHANGED <<status, endVars>>
  /\ Goto(s, "backoff")
  /\ UNCHANGED <<ctlVars, active, sub, hbVars, gateVars>>

(* Slip: the attempt is not counted. *)
handleCrashUncounted(s) ==
  /\ run[s] = "crashed"
  /\ cleanupSandbox(s)
  /\ IF attempts[s] + 1 > MaxRetries
       THEN failSession(s, "exhausted") /\ Return(s)
       ELSE Goto(s, "backoff") /\ UNCHANGED <<status, endVars, mon, misses, crashCh>>
  /\ UNCHANGED <<ctlVars, active, sub, attempts, interrupted, gateVars>>

(* handleCrash up to the back-off. *)
handleCrash(s) ==
  /\ run[s] = "crashed"
  /\ attempts' = [attempts EXCEPT ![s] = @ + 1]
  /\ cleanupSandbox(s)
  /\ IF attempts[s] + 1 > MaxRetries
       THEN failSession(s, "exhausted") /\ Return(s)
       ELSE Goto(s, "backoff") /\ UNCHANGED <<status, endVars, mon, misses, crashCh>>
  /\ UNCHANGED <<ctlVars, active, sub, interrupted, gateVars>>

(***************************************************************************)
(* The back-off is over: a new goroutine starts runAgent, this one returns *)
(* and its deferred delete removes the session from active.                *)
(***************************************************************************)
Retry(s) ==
  /\ run[s] = "backoff"
  /\ run' = [run EXCEPT ![s] = "setup"]
  /\ exiting' = [exiting EXCEPT ![s] = @ + 1]
  /\ UNCHANGED <<ctlVars, active, status, sub, boxVars, attempts, hbVars, gateVars, endVars>>

(* ctx.Done wins over the back-off timer: return false, nothing else. *)
RetryCancelled(s) ==
  /\ run[s] = "backoff"
  /\ CtxDone(s)
  /\ Return(s)
  /\ UNCHANGED <<ctlVars, active, status, sub, boxVars, attempts, interrupted, gateVars, endVars>>

(* The deferred delete(c.active, sessionID) of a returned runAgent. *)
ReleaseSlot(s) ==
  /\ exiting[s] > 0
  /\ exiting' = [exiting EXCEPT ![s] = @ - 1]
  /\ active' = active \ {s}
  /\ UNCHANGED <<ctlVars, status, sub, run, boxVars, attempts, hbVars, gateVars, endVars>>

-----------------------------------------------------------------------------
(* monitorHeartbeat, while its run can still notice. *)

Heartbeat(s) ==
  /\ mon[s] = "watching"
  /\ misses[s] > 0
  /\ misses' = [misses EXCEPT ![s] = 0]
  /\ UNCHANGED <<ctlVars, active, status, sub, run, exiting, boxVars, attempts, mon,
                 crashCh, interrupted, gateVars, endVars>>

(* Slip: crashCh has no buffer, so the non-blocking send drops the error. *)
HeartbeatMissedUnbuffered(s) ==
  /\ mon[s] = "watching"
  /\ misses' = [misses EXCEPT ![s] = @ + 1]
  /\ mon' = [mon EXCEPT ![s] = IF misses[s] + 1 >= maxFailures THEN "signalled" ELSE @]
  /\ UNCHANGED <<ctlVars, active, status, sub, run, exiting, boxVars, attempts, crashCh,
                 interrupted, gateVars, endVars>>

(* A failed Heartbeat: count it, or send the error to crashCh. *)
HeartbeatMissed(s) ==
  /\ mon[s] = "watching"
  /\ misses' = [misses EXCEPT ![s] = @ + 1]
  /\ IF misses[s] + 1 >= maxFailures
       THEN /\ crashCh' = [crashCh EXCEPT ![s] = TRUE]
            /\ mon' = [mon EXCEPT ![s] = "signalled"]
       ELSE UNCHANGED <<crashCh, mon>>
  /\ UNCHANGED <<ctlVars, active, status, sub, run, exiting, boxVars, attempts,
                 interrupted, gateVars, endVars>>

(* heartbeatCancel, after the send. *)
InterruptAgent(s) ==
  /\ mon[s] = "signalled"
  /\ interrupted' = [interrupted EXCEPT ![s] = TRUE]
  /\ mon' = [mon EXCEPT ![s] = "off"]
  /\ UNCHANGED <<ctlVars, active, status, sub, run, exiting, boxVars, attempts, misses,
                 crashCh, gateVars, endVars>>

-----------------------------------------------------------------------------
(***************************************************************************)
(* ApproveSession, DenySession and the buttons of a chat message publish;  *)
(* a handler that is subscribed puts the answer in respCh if that is       *)
(* empty.  A later answer blocks its publisher and decides nothing.        *)
(* Answers nobody was asked for reach no handler either, so only those to  *)
(* a session in APPROVAL are steps.                                        *)
(***************************************************************************)
Listening(s, answer) ==
  run[s] \in (IF answer = "granted" THEN {"halfOpen", "waiting"} ELSE {"waiting"})

PublishAnswer(s, answer) ==
  /\ status[s] = "APPROVAL"
  /\ answer \notin answers[s]
  /\ answers' = [answers EXCEPT ![s] = @ \union {answer}]
  /\ respCh' = IF Listening(s, answer) /\ respCh[s] = "empty"
                 THEN [respCh EXCEPT ![s] = answer] ELSE respCh
  /\ UNCHANGED <<ctlVars, active, status, sub, run, exiting, boxVars, attempts, hbVars,
                 verdict, endVars>>

ApproveSession(s) == PublishAnswer(s, "granted")

DenySession(s) == PublishAnswer(s, "denied")

-----------------------------------------------------------------------------
(* SIGTERM cancels the process context, Shutdown follows. *)

Sigterm ==
  /\ phase = "serving"
  /\ phase' = "signalled"
  /\ UNCHANGED <<accepting, active, status, sub, run, exiting, boxVars, attempts,
                 hbVars, gateVars, endVars>>

StopAccepting ==
  /\ phase = "signalled"
  /\ phase' = "draining"
  /\ accepting' = FALSE
  /\ UNCHANGED <<active, status, sub, run, exiting, boxVars, attempts, hbVars,
                 gateVars, endVars>>

(* Drain returns 0, or the number of sessions left when its time is up. *)
Drain ==
  /\ phase = "draining"
  /\ phase' = IF active = {} THEN "drained" ELSE "expired"
  /\ UNCHANGED <<accepting, active, status, sub, run, exiting, boxVars, attempts,
                 hbVars, gateVars, endVars>>

(***************************************************************************)
(* Plugins and API are stopped, store and bus closed, and main returns,    *)
(* whatever Drain has reported: a goroutine that still runs ends with the  *)
(* process, in the middle of what it was doing.                            *)
(***************************************************************************)
Exit ==
  /\ phase \in {"drained", "expired"}
  /\ phase' = "exited"
  /\ UNCHANGED <<accepting, active, status, sub, run, exiting, boxVars, attempts,
                 hbVars, gateVars, endVars>>

-----------------------------------------------------------------------------
Caller(s) ==
  \/ SubmitTask(s) \/ startTask(s) \/ Allocate(s)
  \/ ResumeSession(s) \/ Launch(s) \/ ToolsUnavailable(s)

runAgent(s) ==
  \/ PrepareFails(s) \/ Provision(s) \/ SandboxVerifyFails(s)
  \/ StartAgent(s) \/ TransitionRefused(s, "provisioned", "RUNNING")
  \/ ExecuteReturns(s) \/ CrashDetected(s) \/ AgentFails(s) \/ AgentSucceeds(s)
  \/ RequestApproval(s) \/ TransitionRefused(s, "gating", "APPROVAL")
  \/ SubscribeAnswers(s) \/ SubscribeFails(s)
  \/ ApprovalDenied(s) \/ ApprovalTimesOut(s) \/ ApprovalGranted(s)
  \/ LeaveApproval(s) \/ TransitionRefused(s, "approved", "RUNNING")
  \/ Complete(s) \/ handleCrash(s) \/ Retry(s) \/ RetryCancelled(s)

monitorHeartbeat(s) == Heartbeat(s) \/ HeartbeatMissed(s) \/ InterruptAgent(s)

Human(s) == ApproveSession(s) \/ DenySession(s)

Shutdown == Sigterm \/ StopAccepting \/ Drain \/ Exit

(* The process is there to run its goroutines. *)
Alive == phase # "exited"

Working ==
  /\ Alive
  /\ \E s \in Sessions :
       Caller(s) \/ runAgent(s) \/ ReleaseSlot(s) \/ monitorHeartbeat(s) \/ Human(s)

Exited == ~Alive /\ UNCHANGED vars

Next == Working \/ Shutdown \/ Exited

Spec == Init /\ [][Next]_vars

(***************************************************************************)
(* Goroutines that can run do run, as long as there is a process: Execute  *)
(* and waitForApproval are bounded by timeouts, the back-off by a timer.   *)
(* Nothing is assumed of humans, of heartbeats (they may fail or not), of  *)
(* SIGTERM, of how long Drain waits, or of new submissions.                *)
(***************************************************************************)
Fairness ==
  \A s \in Sessions :
    /\ WF_vars(Alive /\ runAgent(s))
    /\ WF_vars(Alive /\ ReleaseSlot(s))
    /\ WF_vars(Alive /\ InterruptAgent(s))

FairSpec == Spec /\ Fairness

-----------------------------------------------------------------------------
(* Properties. *)

(* Every variable keeps its type; in particular no container is destroyed  *)
(* twice and no slot released twice (boxes and exiting stay natural).      *)
TypeOK ==
  /\ accepting \in BOOLEAN
  /\ phase \in {"serving", "signalled", "draining", "drained", "expired", "exited"}
  /\ active \subseteq Sessions
  /\ status \in [Sessions -> SessionStatus \union {Absent}]
  /\ sub \in [Sessions -> SubStates]
  /\ run \in [Sessions -> RunStates]
  /\ exiting \in [Sessions -> Nat]
  /\ boxes \in [Sessions -> Nat]
  /\ leaks \in [Sessions -> Nat]
  /\ attempts \in [Sessions -> Nat]
  /\ mon \in [Sessions -> {"off", "watching", "signalled"}]
  /\ misses \in [Sessions -> Nat]
  /\ crashCh \in [Sessions -> BOOLEAN]
  /\ interrupted \in [Sessions -> BOOLEAN]
  /\ answers \in [Sessions -> SUBSET {"granted", "denied"}]
  /\ respCh \in [Sessions -> {"empty", "granted", "denied"}]
  /\ verdict \in [Sessions -> {"unneeded", "pending", "granted", "denied", "timeout",
                              "unsubscribed"}]
  /\ cause \in [Sessions -> Causes]
  /\ unsent \in [Sessions -> BOOLEAN]

(***************************************************************************)
(* The agent's command runs only in a session that is RUNNING and in a     *)
(* container of its own that still exists: on the first run, on a resumed  *)
(* one and on every retry, however callers, monitors and SIGTERM interleave.*)
(***************************************************************************)
AgentOnlyWhileRunning ==
  \A s \in Sessions :
    run[s] = "executing" => status[s] = "RUNNING" /\ boxes[s] = leaks[s] + 1

(***************************************************************************)
(* An interruption by the heartbeat monitor always ends in handleCrash: a  *)
(* run that monitorHeartbeat cancelled is never taken for an agent that    *)
(* failed by itself, succeeded, or went to the approval gate.              *)
(***************************************************************************)
HeartbeatLossIsCrash ==
  \A s \in Sessions :
    interrupted[s] =>
      /\ run[s] \notin AfterAgent
      /\ status[s] # "COMPLETED"
      /\ cause[s] \notin {"execute", "exit", "approval"}

(***************************************************************************)
(* A session fails for exhausted retries exactly after the first run and   *)
(* maxRetries retries have crashed, and never counts further.              *)
(***************************************************************************)
RetryBudget ==
  \A s \in Sessions :
    /\ attempts[s] <= MaxRetries + 1
    /\ attempts[s] = MaxRetries + 1 <=> cause[s] = "exhausted"
    /\ run[s] = "backoff" => attempts[s] \in 1..MaxRetries

(***************************************************************************)
(* Whatever way runAgent returned, the containers it leaves behind are     *)
(* those whose Destroy call failed; and a running one holds at most one.   *)
(***************************************************************************)
NoSandboxLeak ==
  \A s \in Sessions :
    /\ boxes[s] <= leaks[s] + 1
    /\ run[s] \in {"none", "setup", "backoff"} => boxes[s] = leaks[s]

(***************************************************************************)
(* A slot of the active map is never lost: whoever is in it has a runAgent *)
(* that is running or about to execute its deferred delete.                *)
(***************************************************************************)
NoSlotLeak ==
  \A s \in active : run[s] # "none" \/ exiting[s] > 0

(***************************************************************************)
(* Admission and Drain count a session as long as its first run lasts; the *)
(* only goroutines they overlook are the retries after a crash.            *)
(***************************************************************************)
FirstRunIsCounted ==
  \A s \in Sessions : run[s] # "none" /\ attempts[s] = 0 => s \in active

(***************************************************************************)
(* A task whose tool calls matched an approval policy completes only after *)
(* a human granted it while the session was in APPROVAL.                   *)
(***************************************************************************)
CompletionNeedsApproval ==
  \A s \in Sessions :
    status[s] = "COMPLETED" =>
      \/ verdict[s] = "unneeded"
      \/ verdict[s] = "granted" /\ "granted" \in answers[s]

(* The session's context ended while it was waiting to retry a crash. *)
RetryCutShort(s) == CtxDone(s) /\ attempts[s] \in 1..MaxRetries

(***************************************************************************)
(* runAgent never returns leaving its session unfinished, except in the    *)
(* two ways the code has: a Transition whose event could not be published, *)
(* and a session that has crashed, has retries left and whose context has  *)
(* ended.  An ended context alone, at any other step, is no excuse.        *)
(***************************************************************************)
NoAbandonedSession ==
  \A s \in Sessions :
    sub[s] = "launched" /\ run[s] = "none" =>
      status[s] \in Terminal \/ unsent[s] \/ RetryCutShort(s)

(***************************************************************************)
(* What Drain's 0 means, which its comment gives as "all sessions          *)
(* completed": at that moment every session whose run had been started is  *)
(* over, or has crashed before, since a retry is in no map Drain counts.   *)
(***************************************************************************)
DrainedMeansOver ==
  [][\A s \in Sessions :
       phase = "draining" /\ phase' = "drained" /\ sub[s] = "launched" =>
         \/ attempts[s] > 0
         \/ run[s] = "none" /\ (status[s] \in Terminal \/ unsent[s])]_vars

(***************************************************************************)
(* Once a session is COMPLETED or FAILED no container is created for it:   *)
(* no retry survives the failure that ended its session.                   *)
(***************************************************************************)
TerminalStartsNothing ==
  [][\A s \in Sessions : status[s] \in Terminal => boxes'[s] <= boxes[s]]_vars

(***************************************************************************)
(* Every launched task ends: its goroutine returns, its slot is free and   *)
(* its session is terminal or one of those NoAbandonedSession excepts; or  *)
(* the process ends first.  It can: Drain gives up after its 30 seconds,   *)
(* and counts neither a retry nor a task admitted but not yet registered.  *)
(* So docs/TODO.md:126, "verify Foreman waits for running task to finish   *)
(* before exiting, verify session reaches terminal state", is true of a    *)
(* first run that takes less than 30 seconds and of nothing longer.        *)
(***************************************************************************)
Settled(s) ==
  /\ run[s] = "none"
  /\ exiting[s] = 0
  /\ s \notin active
  /\ status[s] \in Terminal \/ unsent[s] \/ RetryCutShort(s)

EverySessionSettles ==
  \A s \in Sessions : (sub[s] = "launched") ~> (Settled(s) \/ phase = "exited")

-----------------------------------------------------------------------------
(* What the repository says of this code and the code does not do. *)

(***************************************************************************)
(* docs/TODO.md, "Multiple concurrent tasks": of more than max_concurrent  *)
(* submissions only max_concurrent run.  startTask releases c.mu between   *)
(* the capacity check and the registration in active.                      *)
(***************************************************************************)
OnlyMaxConcurrentRun ==
  Cardinality({s \in Sessions : run[s] # "none"}) <= MaxConcurrent
=============================================================================
