-------------------------- MODULE CoordinatorProofs --------------------------
(***************************************************************************)
(* The safety properties of Coordinator, proved for every set of sessions  *)
(* and every value of the limits and fault switches.  They rest on one     *)
(* inductive invariant, a table of what holds of a session at each point   *)
(* of its caller and of its runAgent goroutine.                            *)
(***************************************************************************)
EXTENDS Coordinator, FiniteSetTheorems, TLAPS

Watched == {"executing"} \union HasReturned

(* Before launch there is no goroutine, no container, no attempt. *)
SubInv(s) ==
  /\ run[s] # "none" => sub[s] = "launched"
  /\ sub[s] # "launched" => /\ run[s] = "none" /\ exiting[s] = 0 /\ s \notin active
                            /\ attempts[s] = 0 /\ boxes[s] = 0 /\ leaks[s] = 0
                            /\ cause[s] \in {"none", "tools"}
                            /\ status[s] # "COMPLETED"
                            /\ ~interrupted[s]
                            /\ verdict[s] = "unneeded"
  /\ sub[s] \notin {"launched", "rejected"} => cause[s] = "none"
  /\ sub[s] = "none" => status[s] = Absent
  /\ sub[s] \in {"created", "admitted"} => status[s] = "CREATED"
  /\ sub[s] = "allocated" => status[s] \in {"ALLOCATING", "RUNNING"}
  /\ sub[s] = "recovered" => status[s] = "RUNNING"

(* The status at each point of runAgent. *)
StatusInv(s) ==
  /\ run[s] \in {"setup", "provisioned"} => status[s] \in {"ALLOCATING", "RUNNING"}
  /\ run[s] \in Watched \union {"crashed", "backoff", "gating", "finishing"}
       => status[s] = "RUNNING"
  /\ run[s] \in {"requested", "halfOpen", "waiting", "approved"}
       => status[s] = "APPROVAL"

(* The containers at each point of runAgent. *)
BoxInv(s) ==
  IF run[s] \in {"none", "setup", "backoff"}
    THEN boxes[s] = leaks[s]
    ELSE boxes[s] = leaks[s] + 1

SlotInv(s) ==
  /\ s \in active => run[s] # "none" \/ exiting[s] > 0
  /\ run[s] # "none" /\ attempts[s] = 0 => s \in active /\ exiting[s] = 0

(***************************************************************************)
(* The error is in crashCh before heartbeatCancel is called and is only    *)
(* taken out by the select that leads to handleCrash.                      *)
(***************************************************************************)
HeartbeatInv(s) ==
  /\ mon[s] # "off" => run[s] \in Watched
  /\ mon[s] = "signalled" => crashCh[s]
  /\ interrupted[s] /\ run[s] \in Watched => crashCh[s]
  /\ interrupted[s] => run[s] \notin AfterAgent
  /\ interrupted[s] => status[s] # "COMPLETED"
  /\ interrupted[s] => cause[s] \notin {"execute", "exit", "approval"}

RetryInv(s) ==
  /\ run[s] # "none" => attempts[s] <= MaxRetries /\ cause[s] = "none"
  /\ run[s] = "backoff" => attempts[s] >= 1
  /\ attempts[s] <= MaxRetries + 1
  /\ attempts[s] = MaxRetries + 1 <=> cause[s] = "exhausted"

(* A grant is recorded in respCh only if it was published. *)
GateInv(s) ==
  /\ respCh[s] = "granted" => "granted" \in answers[s]
  /\ run[s] \in Watched => verdict[s] = "unneeded"
  /\ run[s] = "approved" => verdict[s] = "granted" /\ "granted" \in answers[s]
  /\ run[s] = "finishing" \/ status[s] = "COMPLETED" =>
       verdict[s] = "unneeded" \/ (verdict[s] = "granted" /\ "granted" \in answers[s])

EndInv(s) ==
  sub[s] = "launched" /\ run[s] = "none" =>
    status[s] \in Terminal \/ unsent[s] \/ RetryCutShort(s)

SessionInv(s) ==
  /\ SubInv(s) /\ StatusInv(s) /\ BoxInv(s) /\ SlotInv(s)
  /\ HeartbeatInv(s) /\ RetryInv(s) /\ GateInv(s) /\ EndInv(s)

IInv == TypeOK /\ \A s \in Sessions : SessionInv(s)

-----------------------------------------------------------------------------
(* The edges of the transition table that the coordinator takes. *)
LEMMA CoordinatorEdges ==
  /\ Allowed("CREATED", "ALLOCATING")
  /\ Allowed("ALLOCATING", "RUNNING") /\ Allowed("APPROVAL", "RUNNING")
  /\ Allowed("RUNNING", "APPROVAL") /\ Allowed("RUNNING", "COMPLETED")
  /\ Allowed("ALLOCATING", "FAILED") /\ Allowed("RUNNING", "FAILED")
  /\ Allowed("APPROVAL", "FAILED")
BY DEF Allowed, validTransitions, SessionStatus, Live, Terminal

(* The invariant holds initially. *)
LEMMA InitIInv == Init => IInv
<1> SUFFICES ASSUME Init PROVE IInv
  OBVIOUS
<1> USE CoordinatorAssumption DEF Init
<1>1. TypeOK
  BY DEF TypeOK, SubStates, RunStates, Causes, SessionStatus, Live, Terminal, Absent
<1>2. ASSUME NEW s \in Sessions PROVE SessionInv(s)
  BY DEF SessionInv, SubInv, StatusInv, BoxInv, SlotInv, HeartbeatInv, RetryInv,
         GateInv, EndInv, Watched, HasReturned, AfterAgent, Absent
<1> QED BY <1>1, <1>2 DEF IInv

(***************************************************************************)
(* Every step keeps the types.  BoxInv is what keeps boxes a natural       *)
(* number: cleanupSandbox is only reached with a container to destroy.     *)
(***************************************************************************)
LEMMA TypeStep == IInv /\ [Next]_vars => TypeOK'
<1> SUFFICES ASSUME IInv, [Next]_vars PROVE TypeOK'
  OBVIOUS
<1> USE CoordinatorAssumption
    DEF IInv, TypeOK, SubStates, RunStates, HasReturned, AfterAgent, Causes,
        SessionStatus, Live, Terminal, Absent, ctlVars, boxVars, hbVars, gateVars, endVars

<1>1. ASSUME NEW s \in Sessions, SubmitTask(s) PROVE TypeOK'
  <2>1. unsent' \in [Sessions -> BOOLEAN]
    BY <1>1 DEF SubmitTask
  <2>2. sub' \in [Sessions -> SubStates]
    BY <1>1 DEF SubmitTask
  <2>3. status' \in [Sessions -> SessionStatus \union {Absent}]
    BY <1>1 DEF SubmitTask
  <2> QED BY <1>1, <2>1, <2>2, <2>3 DEF SubmitTask
<1>2. ASSUME NEW s \in Sessions, startTask(s) PROVE TypeOK'
  BY <1>2 DEF startTask
<1>3. ASSUME NEW s \in Sessions, Allocate(s) PROVE TypeOK'
  BY <1>3 DEF Allocate, Transition, TransitionErr
<1>4. ASSUME NEW s \in Sessions, ResumeSession(s) PROVE TypeOK'
  BY <1>4 DEF ResumeSession
<1>5. ASSUME NEW s \in Sessions, Launch(s) PROVE TypeOK'
  BY <1>5 DEF Launch, Goto
<1>6. ASSUME NEW s \in Sessions, ToolsUnavailable(s) PROVE TypeOK'
  BY <1>6 DEF ToolsUnavailable, failSession
<1>7. ASSUME NEW s \in Sessions, PrepareFails(s) PROVE TypeOK'
  BY <1>7 DEF PrepareFails, failSession, Return, StopMonitor
<1>8. ASSUME NEW s \in Sessions, Provision(s) PROVE TypeOK'
  BY <1>8 DEF SessionInv, BoxInv, Provision, Goto
<1>9. ASSUME NEW s \in Sessions, SandboxVerifyFails(s) PROVE TypeOK'
  BY <1>9 DEF SessionInv, BoxInv, SandboxVerifyFails, cleanupSandbox, failSession,
    Return, StopMonitor
<1>10. ASSUME NEW s \in Sessions, StartAgent(s) PROVE TypeOK'
  BY <1>10 DEF StartAgent, Transition, Goto
<1>11. ASSUME NEW s \in Sessions, TransitionRefused(s, "provisioned", "RUNNING") PROVE TypeOK'
  BY <1>11 DEF SessionInv, BoxInv, TransitionRefused, TransitionErr, cleanupSandbox,
    Return, StopMonitor
<1>12. ASSUME NEW s \in Sessions, TransitionRefused(s, "gating", "APPROVAL") PROVE TypeOK'
  BY <1>12 DEF SessionInv, BoxInv, TransitionRefused, TransitionErr, cleanupSandbox,
    Return, StopMonitor
<1>13. ASSUME NEW s \in Sessions, TransitionRefused(s, "approved", "RUNNING") PROVE TypeOK'
  BY <1>13 DEF SessionInv, BoxInv, TransitionRefused, TransitionErr, cleanupSandbox,
    Return, StopMonitor
<1>14. ASSUME NEW s \in Sessions, ExecuteReturns(s) PROVE TypeOK'
  BY <1>14 DEF ExecuteReturns, Goto
<1>15. ASSUME NEW s \in Sessions, CrashDetected(s) PROVE TypeOK'
  BY <1>15 DEF CrashDetected, Goto, StopMonitor
<1>16. ASSUME NEW s \in Sessions, AgentFails(s) PROVE TypeOK'
  BY <1>16 DEF SessionInv, BoxInv, AgentFails, failSession, cleanupSandbox, Return,
    StopMonitor
<1>17. ASSUME NEW s \in Sessions, AgentSucceeds(s) PROVE TypeOK'
  BY <1>17 DEF AgentSucceeds, Goto, StopMonitor
<1>18. ASSUME NEW s \in Sessions, RequestApproval(s) PROVE TypeOK'
  BY <1>18 DEF RequestApproval, Transition, Goto
<1>19. ASSUME NEW s \in Sessions, SubscribeAnswers(s) PROVE TypeOK'
  BY <1>19 DEF SubscribeAnswers, Goto
<1>20. ASSUME NEW s \in Sessions, SubscribeFails(s) PROVE TypeOK'
  BY <1>20 DEF SessionInv, BoxInv, SubscribeFails, GateRefuses, failSession,
    cleanupSandbox, Return, StopMonitor
<1>21. ASSUME NEW s \in Sessions, ApprovalDenied(s) PROVE TypeOK'
  BY <1>21 DEF SessionInv, BoxInv, ApprovalDenied, GateRefuses, failSession,
    cleanupSandbox, Return, StopMonitor
<1>22. ASSUME NEW s \in Sessions, ApprovalTimesOut(s) PROVE TypeOK'
  BY <1>22 DEF SessionInv, BoxInv, ApprovalTimesOut, GateRefuses, failSession,
    cleanupSandbox, Return, StopMonitor
<1>23. ASSUME NEW s \in Sessions, ApprovalGranted(s) PROVE TypeOK'
  BY <1>23 DEF ApprovalGranted, Goto
<1>24. ASSUME NEW s \in Sessions, LeaveApproval(s) PROVE TypeOK'
  BY <1>24 DEF LeaveApproval, Transition, Goto
<1>25. ASSUME NEW s \in Sessions, Complete(s) PROVE TypeOK'
  BY <1>25 DEF SessionInv, BoxInv, Complete, cleanupSandbox, Return, StopMonitor
<1>26. ASSUME NEW s \in Sessions, handleCrash(s) PROVE TypeOK'
  <2>1. attempts' \in [Sessions -> Nat]
    BY <1>26 DEF handleCrash
  <2>2. boxes' \in [Sessions -> Nat] /\ leaks' \in [Sessions -> Nat]
    BY <1>26 DEF SessionInv, BoxInv, handleCrash, cleanupSandbox
  <2>3. CASE attempts[s] + 1 > MaxRetries
    <3>1. /\ status' \in [Sessions -> SessionStatus \union {Absent}]
          /\ cause' \in [Sessions -> Causes]
      BY <1>26, <2>3 DEF handleCrash, failSession
    <3>2. /\ run' \in [Sessions -> RunStates]
          /\ exiting' \in [Sessions -> Nat]
      BY <1>26, <2>3 DEF handleCrash, Return
    <3>3. /\ mon' \in [Sessions -> {"off", "watching", "signalled"}]
          /\ misses' \in [Sessions -> Nat]
      BY <1>26, <2>3 DEF handleCrash, Return, StopMonitor
    <3>4. crashCh' = [crashCh EXCEPT ![s] = FALSE]
      BY <1>26, <2>3 DEF handleCrash, Return, StopMonitor
    <3>5. crashCh' \in [Sessions -> BOOLEAN]
      BY <3>4
    <3> QED BY <1>26, <2>1, <2>2, <2>3, <3>1, <3>2, <3>3, <3>5 DEF handleCrash, failSession
  <2>4. CASE ~(attempts[s] + 1 > MaxRetries)
    BY <1>26, <2>1, <2>2, <2>4 DEF handleCrash, Goto
  <2> QED BY <2>3, <2>4
<1>27. ASSUME NEW s \in Sessions, Retry(s) PROVE TypeOK'
  BY <1>27 DEF Retry
<1>28. ASSUME NEW s \in Sessions, RetryCancelled(s) PROVE TypeOK'
  BY <1>28 DEF RetryCancelled, Return, StopMonitor
<1>29. ASSUME NEW s \in Sessions, ReleaseSlot(s) PROVE TypeOK'
  BY <1>29 DEF ReleaseSlot
<1>30. ASSUME NEW s \in Sessions, Heartbeat(s) PROVE TypeOK'
  BY <1>30 DEF Heartbeat
<1>31. ASSUME NEW s \in Sessions, HeartbeatMissed(s) PROVE TypeOK'
  <2>1. /\ misses' \in [Sessions -> Nat]
        /\ mon' \in [Sessions -> {"off", "watching", "signalled"}]
    BY <1>31 DEF HeartbeatMissed
  <2>2. crashCh' \in [Sessions -> BOOLEAN]
    BY <1>31 DEF HeartbeatMissed
  <2> QED BY <1>31, <2>1, <2>2 DEF HeartbeatMissed
<1>32. ASSUME NEW s \in Sessions, InterruptAgent(s) PROVE TypeOK'
  BY <1>32 DEF InterruptAgent
<1>33. ASSUME NEW s \in Sessions, ApproveSession(s) PROVE TypeOK'
  BY <1>33 DEF ApproveSession, PublishAnswer, Listening
<1>34. ASSUME NEW s \in Sessions, DenySession(s) PROVE TypeOK'
  BY <1>34 DEF DenySession, PublishAnswer, Listening
<1>35. CASE Sigterm
  BY <1>35 DEF Sigterm
<1>36. CASE StopAccepting
  BY <1>36 DEF StopAccepting
<1>37. CASE Drain
  BY <1>37 DEF Drain
<1>38. CASE UNCHANGED vars
  BY <1>38 DEF vars
<1>39. CASE Exit
  BY <1>39 DEF Exit
<1> QED BY <1>1, <1>2, <1>3, <1>4, <1>5, <1>6, <1>7, <1>8, <1>9, <1>10, <1>11, <1>12,
  <1>13, <1>14, <1>15, <1>16, <1>17, <1>18, <1>19, <1>20, <1>21, <1>22, <1>23, <1>24,
  <1>25, <1>26, <1>27, <1>28, <1>29, <1>30, <1>31, <1>32, <1>33, <1>34, <1>35, <1>36,
  <1>37, <1>38, <1>39
    DEF Next, Working, Exited, Caller, runAgent, monitorHeartbeat, Human, Shutdown

(***************************************************************************)
(* Every step keeps SessionInv of every session t, the one that moves and  *)
(* the others.                                                             *)
(***************************************************************************)
LEMMA SessionStep ==
  ASSUME IInv, [Next]_vars, NEW t \in Sessions
  PROVE  SessionInv(t)'
<1> USE CoordinatorAssumption, CoordinatorEdges
    DEF IInv, TypeOK, RunStates, HasReturned, AfterAgent, Terminal, Absent,
        ctlVars, boxVars, hbVars, gateVars, endVars, CtxDone, RetryCutShort, Watched, SessionInv,
        SubInv, StatusInv, BoxInv, SlotInv, HeartbeatInv, RetryInv, GateInv, EndInv
<1>1. ASSUME NEW s \in Sessions, SubmitTask(s) PROVE SessionInv(t)'
  BY <1>1 DEF SubmitTask
<1>2. ASSUME NEW s \in Sessions, startTask(s) PROVE SessionInv(t)'
  BY <1>2 DEF startTask
<1>3. ASSUME NEW s \in Sessions, Allocate(s) PROVE SessionInv(t)'
  BY <1>3 DEF Allocate, Transition, TransitionErr
<1>4. ASSUME NEW s \in Sessions, ResumeSession(s) PROVE SessionInv(t)'
  BY <1>4 DEF ResumeSession
<1>5. ASSUME NEW s \in Sessions, Launch(s) PROVE SessionInv(t)'
  BY <1>5 DEF Launch, Goto
<1>6. ASSUME NEW s \in Sessions, ToolsUnavailable(s) PROVE SessionInv(t)'
  BY <1>6 DEF ToolsUnavailable, failSession
<1>7. ASSUME NEW s \in Sessions, PrepareFails(s) PROVE SessionInv(t)'
  BY <1>7 DEF PrepareFails, failSession, Return, StopMonitor
<1>8. ASSUME NEW s \in Sessions, Provision(s) PROVE SessionInv(t)'
  BY <1>8 DEF Provision, Goto
<1>9. ASSUME NEW s \in Sessions, SandboxVerifyFails(s) PROVE SessionInv(t)'
  BY <1>9 DEF SandboxVerifyFails, cleanupSandbox, failSession, Return, StopMonitor
<1>10. ASSUME NEW s \in Sessions, StartAgent(s) PROVE SessionInv(t)'
  BY <1>10 DEF StartAgent, Transition, Goto
<1>11. ASSUME NEW s \in Sessions, TransitionRefused(s, "provisioned", "RUNNING") PROVE SessionInv(t)'
  BY <1>11 DEF TransitionRefused, TransitionErr, cleanupSandbox, Return, StopMonitor
<1>12. ASSUME NEW s \in Sessions, TransitionRefused(s, "gating", "APPROVAL") PROVE SessionInv(t)'
  BY <1>12 DEF TransitionRefused, TransitionErr, cleanupSandbox, Return, StopMonitor
<1>13. ASSUME NEW s \in Sessions, TransitionRefused(s, "approved", "RUNNING") PROVE SessionInv(t)'
  BY <1>13 DEF TransitionRefused, TransitionErr, cleanupSandbox, Return, StopMonitor
<1>14. ASSUME NEW s \in Sessions, ExecuteReturns(s) PROVE SessionInv(t)'
  BY <1>14 DEF ExecuteReturns, Goto
<1>15. ASSUME NEW s \in Sessions, CrashDetected(s) PROVE SessionInv(t)'
  BY <1>15 DEF CrashDetected, Goto, StopMonitor
<1>16. ASSUME NEW s \in Sessions, AgentFails(s) PROVE SessionInv(t)'
  BY <1>16 DEF AgentFails, failSession, cleanupSandbox, Return, StopMonitor
<1>17. ASSUME NEW s \in Sessions, AgentSucceeds(s) PROVE SessionInv(t)'
  BY <1>17 DEF AgentSucceeds, Goto, StopMonitor
<1>18. ASSUME NEW s \in Sessions, RequestApproval(s) PROVE SessionInv(t)'
  BY <1>18 DEF RequestApproval, Transition, Goto
<1>19. ASSUME NEW s \in Sessions, SubscribeAnswers(s) PROVE SessionInv(t)'
  BY <1>19 DEF SubscribeAnswers, Goto
<1>20. ASSUME NEW s \in Sessions, SubscribeFails(s) PROVE SessionInv(t)'
  BY <1>20 DEF SubscribeFails, GateRefuses, failSession, cleanupSandbox, Return,
    StopMonitor
<1>21. ASSUME NEW s \in Sessions, ApprovalDenied(s) PROVE SessionInv(t)'
  BY <1>21 DEF ApprovalDenied, GateRefuses, failSession, cleanupSandbox, Return,
    StopMonitor
<1>22. ASSUME NEW s \in Sessions, ApprovalTimesOut(s) PROVE SessionInv(t)'
  BY <1>22 DEF ApprovalTimesOut, GateRefuses, failSession, cleanupSandbox, Return,
    StopMonitor
<1>23. ASSUME NEW s \in Sessions, ApprovalGranted(s) PROVE SessionInv(t)'
  BY <1>23 DEF ApprovalGranted, Goto
<1>24. ASSUME NEW s \in Sessions, LeaveApproval(s) PROVE SessionInv(t)'
  BY <1>24 DEF LeaveApproval, Transition, Goto
<1>25. ASSUME NEW s \in Sessions, Complete(s) PROVE SessionInv(t)'
  BY <1>25 DEF Complete, cleanupSandbox, Return, StopMonitor
<1>26. ASSUME NEW s \in Sessions, handleCrash(s) PROVE SessionInv(t)'
  <2>1. CASE attempts[s] + 1 > MaxRetries
    BY <1>26, <2>1 DEF handleCrash, failSession, cleanupSandbox, Return, StopMonitor
  <2>2. CASE ~(attempts[s] + 1 > MaxRetries)
    BY <1>26, <2>2 DEF handleCrash, cleanupSandbox, Goto
  <2> QED BY <2>1, <2>2
<1>27. ASSUME NEW s \in Sessions, Retry(s) PROVE SessionInv(t)'
  BY <1>27 DEF Retry
<1>28. ASSUME NEW s \in Sessions, RetryCancelled(s) PROVE SessionInv(t)'
  BY <1>28 DEF RetryCancelled, Return, StopMonitor
<1>29. ASSUME NEW s \in Sessions, ReleaseSlot(s) PROVE SessionInv(t)'
  BY <1>29 DEF ReleaseSlot
<1>30. ASSUME NEW s \in Sessions, Heartbeat(s) PROVE SessionInv(t)'
  BY <1>30 DEF Heartbeat
<1>31. ASSUME NEW s \in Sessions, HeartbeatMissed(s) PROVE SessionInv(t)'
  BY <1>31 DEF HeartbeatMissed
<1>32. ASSUME NEW s \in Sessions, InterruptAgent(s) PROVE SessionInv(t)'
  BY <1>32 DEF InterruptAgent
<1>33. ASSUME NEW s \in Sessions, ApproveSession(s) PROVE SessionInv(t)'
  BY <1>33 DEF ApproveSession, PublishAnswer, Listening
<1>34. ASSUME NEW s \in Sessions, DenySession(s) PROVE SessionInv(t)'
  BY <1>34 DEF DenySession, PublishAnswer, Listening
<1>35. CASE Sigterm
  BY <1>35 DEF Sigterm
<1>36. CASE StopAccepting
  BY <1>36 DEF StopAccepting
<1>37. CASE Drain
  BY <1>37 DEF Drain
<1>38. CASE UNCHANGED vars
  BY <1>38 DEF vars
<1>39. CASE Exit
  BY <1>39 DEF Exit
<1> QED BY <1>1, <1>2, <1>3, <1>4, <1>5, <1>6, <1>7, <1>8, <1>9, <1>10, <1>11, <1>12,
  <1>13, <1>14, <1>15, <1>16, <1>17, <1>18, <1>19, <1>20, <1>21, <1>22, <1>23, <1>24,
  <1>25, <1>26, <1>27, <1>28, <1>29, <1>30, <1>31, <1>32, <1>33, <1>34, <1>35, <1>36,
  <1>37, <1>38, <1>39
    DEF Next, Working, Exited, Caller, runAgent, monitorHeartbeat, Human, Shutdown

(* IInv is an invariant of the specification. *)
THEOREM InvariantHolds == Spec => []IInv
<1>1. IInv /\ [Next]_vars => IInv'
  BY TypeStep, SessionStep DEF IInv
<1> QED BY InitIInv, <1>1, PTL DEF Spec

-----------------------------------------------------------------------------
(* No variable ever leaves its type. *)
THEOREM TypeCorrect == Spec => []TypeOK
<1>1. IInv => TypeOK
  BY DEF IInv
<1> QED BY InvariantHolds, <1>1, PTL

(* The agent's command runs only in a RUNNING session with its container. *)
THEOREM AgentOnlyWhileRunningHolds == Spec => []AgentOnlyWhileRunning
<1>1. IInv => AgentOnlyWhileRunning
  BY DEF IInv, SessionInv, StatusInv, BoxInv, Watched, AgentOnlyWhileRunning
<1> QED BY InvariantHolds, <1>1, PTL

(* A run the heartbeat monitor interrupted always goes to handleCrash. *)
THEOREM HeartbeatLossIsCrashHolds == Spec => []HeartbeatLossIsCrash
<1>1. IInv => HeartbeatLossIsCrash
  BY DEF IInv, SessionInv, HeartbeatInv, HeartbeatLossIsCrash
<1> QED BY InvariantHolds, <1>1, PTL

(* handleCrash gives up exactly when maxRetries retries have crashed too. *)
THEOREM RetryBudgetHolds == Spec => []RetryBudget
<1>1. IInv => RetryBudget
  BY CoordinatorAssumption DEF IInv, TypeOK, SessionInv, RetryInv, RetryBudget
<1> QED BY InvariantHolds, <1>1, PTL

(* runAgent leaves no container behind except those Destroy failed on. *)
THEOREM NoSandboxLeakHolds == Spec => []NoSandboxLeak
<1>1. IInv => NoSandboxLeak
  BY DEF IInv, TypeOK, SessionInv, BoxInv, NoSandboxLeak
<1> QED BY InvariantHolds, <1>1, PTL

(* No slot of the active map is ever lost. *)
THEOREM NoSlotLeakHolds == Spec => []NoSlotLeak
<1>1. IInv => NoSlotLeak
  BY DEF IInv, TypeOK, SessionInv, SlotInv, NoSlotLeak
<1> QED BY InvariantHolds, <1>1, PTL

(* Admission and Drain overlook no goroutine but the retries. *)
THEOREM FirstRunIsCountedHolds == Spec => []FirstRunIsCounted
<1>1. IInv => FirstRunIsCounted
  BY DEF IInv, SessionInv, SlotInv, FirstRunIsCounted
<1> QED BY InvariantHolds, <1>1, PTL

(* No gated task completes without a grant. *)
THEOREM CompletionNeedsApprovalHolds == Spec => []CompletionNeedsApproval
<1>1. IInv => CompletionNeedsApproval
  BY DEF IInv, SessionInv, GateInv, CompletionNeedsApproval
<1> QED BY InvariantHolds, <1>1, PTL

(* runAgent returns with a terminal session, except in the two named cases. *)
THEOREM NoAbandonedSessionHolds == Spec => []NoAbandonedSession
<1>1. IInv => NoAbandonedSession
  BY DEF IInv, SessionInv, EndInv, NoAbandonedSession
<1> QED BY InvariantHolds, <1>1, PTL

(* No goroutine of a session moves the shutdown forward. *)
LEMMA OnlyShutdownMovesPhase == Working => phase' = phase
<1> SUFFICES ASSUME NEW s \in Sessions,
                    \/ Caller(s) \/ runAgent(s) \/ ReleaseSlot(s)
                    \/ monitorHeartbeat(s) \/ Human(s)
             PROVE  phase' = phase
  BY DEF Working
<1> USE DEF ctlVars
<1>1. CASE Caller(s)
  BY <1>1 DEF Caller, SubmitTask, startTask, Allocate, ResumeSession, Launch,
    ToolsUnavailable
<1>2. CASE runAgent(s)
  BY <1>2 DEF runAgent, PrepareFails, Provision, SandboxVerifyFails, StartAgent,
    TransitionRefused, ExecuteReturns, CrashDetected, AgentFails, AgentSucceeds,
    RequestApproval, SubscribeAnswers, SubscribeFails, ApprovalDenied, ApprovalTimesOut,
    GateRefuses, ApprovalGranted, LeaveApproval, Complete, handleCrash, Retry,
    RetryCancelled
<1>3. CASE ReleaseSlot(s) \/ monitorHeartbeat(s) \/ Human(s)
  BY <1>3 DEF ReleaseSlot, monitorHeartbeat, Heartbeat, HeartbeatMissed, InterruptAgent,
    Human, ApproveSession, DenySession, PublishAnswer
<1> QED BY <1>1, <1>2, <1>3

(* When Drain returns 0, what has been launched is over or has crashed. *)
THEOREM DrainedMeansOverHolds == Spec => DrainedMeansOver
<1>1. ASSUME IInv, [Next]_vars, NEW s \in Sessions, phase = "draining", phase' = "drained",
             sub[s] = "launched"
      PROVE  attempts[s] > 0 \/ (run[s] = "none" /\ (status[s] \in Terminal \/ unsent[s]))
  <2>1. attempts[s] \in Nat
    BY <1>1 DEF IInv, TypeOK
  <2>2. active = {}
    <3>1. ~Working
      BY <1>1, OnlyShutdownMovesPhase
    <3> QED
      BY <1>1, <3>1
      DEF Next, Exited, Shutdown, Sigterm, StopAccepting, Drain, Exit, vars, ctlVars
  <2>3. attempts[s] = 0 => run[s] = "none"
    BY <1>1, <2>2 DEF IInv, SessionInv, SlotInv
  <2> QED BY <1>1, <2>1, <2>3 DEF IInv, SessionInv, EndInv, RetryCutShort
<1>2. IInv /\ [Next]_vars =>
        [\A s \in Sessions :
           phase = "draining" /\ phase' = "drained" /\ sub[s] = "launched" =>
             \/ attempts[s] > 0
             \/ run[s] = "none" /\ (status[s] \in Terminal \/ unsent[s])]_vars
  BY <1>1
<1> QED BY InvariantHolds, <1>2, PTL DEF Spec, DrainedMeansOver

-----------------------------------------------------------------------------
(* Only Provision adds a container. *)
LEMMA ContainerStep ==
  ASSUME IInv, [Next]_vars, NEW t \in Sessions, boxes'[t] > boxes[t]
  PROVE  Provision(t)
<1> USE DEF IInv, TypeOK, boxVars
<1>1. ASSUME NEW s \in Sessions, Caller(s) PROVE Provision(t)
  BY <1>1 DEF Caller, SubmitTask, startTask, Allocate, ResumeSession, Launch, Goto,
    ToolsUnavailable
<1>2. ASSUME NEW s \in Sessions, runAgent(s) PROVE Provision(t)
  BY <1>2 DEF runAgent, PrepareFails, Return, Provision, Goto, SandboxVerifyFails,
    cleanupSandbox, StartAgent, TransitionRefused, ExecuteReturns, CrashDetected,
    AgentFails, AgentSucceeds, RequestApproval, SubscribeAnswers, SubscribeFails,
    GateRefuses, ApprovalDenied, ApprovalTimesOut, ApprovalGranted, LeaveApproval,
    Complete, handleCrash, Retry, RetryCancelled
<1>3. ASSUME NEW s \in Sessions, ReleaseSlot(s) PROVE Provision(t)
  BY <1>3 DEF ReleaseSlot
<1>4. ASSUME NEW s \in Sessions, monitorHeartbeat(s) PROVE Provision(t)
  BY <1>4 DEF monitorHeartbeat, Heartbeat, HeartbeatMissed, InterruptAgent
<1>5. ASSUME NEW s \in Sessions, Human(s) PROVE Provision(t)
  BY <1>5 DEF Human, ApproveSession, PublishAnswer, Listening, DenySession
<1>6. CASE Shutdown \/ UNCHANGED vars
  BY <1>6 DEF Shutdown, Sigterm, StopAccepting, Drain, Exit, vars
<1> QED BY <1>1, <1>2, <1>3, <1>4, <1>5, <1>6 DEF Next, Working, Exited

(* No container is created for a session that is COMPLETED or FAILED. *)
THEOREM TerminalStartsNothingHolds == Spec => TerminalStartsNothing
<1>1. ASSUME IInv, [Next]_vars, NEW s \in Sessions, status[s] \in Terminal
      PROVE  boxes'[s] <= boxes[s]
  <2>1. ~Provision(s)
    BY <1>1 DEF IInv, SessionInv, StatusInv, Provision, Terminal
  <2>2. boxes[s] \in Nat /\ boxes'[s] \in Nat
    BY <1>1, TypeStep DEF IInv, TypeOK
  <2> QED BY <1>1, <2>1, <2>2, ContainerStep
<1>2. IInv /\ [Next]_vars =>
        [\A s \in Sessions : status[s] \in Terminal => boxes'[s] <= boxes[s]]_vars
  BY <1>1
<1> QED BY InvariantHolds, <1>2, PTL DEF Spec, TerminalStartsNothing

-----------------------------------------------------------------------------
(* FAILED and its reason. *)

(***************************************************************************)
(* failSession only logs an error of its Transition, yet none is ever      *)
(* refused by the table: a session has a recorded cause exactly if it is   *)
(* FAILED, and nothing but failSession makes it so.                        *)
(***************************************************************************)
FailedHasCause ==
  \A s \in Sessions : status[s] = "FAILED" <=> cause[s] # "none"

(* Wherever failSession is called, FAILED is one edge away. *)
LEMMA FailedStep == IInv /\ FailedHasCause /\ [Next]_vars => FailedHasCause'
<1> SUFFICES ASSUME IInv, FailedHasCause, [Next]_vars, NEW t \in Sessions
             PROVE  status'[t] = "FAILED" <=> cause'[t] # "none"
  BY DEF FailedHasCause
<1> USE CoordinatorEdges
    DEF IInv, TypeOK, FailedHasCause, SessionInv, SubInv, StatusInv, RetryInv, Watched,
        HasReturned, AfterAgent, endVars, Absent
<1> DEFINE Goal == status'[t] = "FAILED" <=> cause'[t] # "none"
<1>1. ASSUME NEW s \in Sessions, Caller(s) PROVE Goal
  <2>1. CASE ToolsUnavailable(s)
    BY <2>1 DEF ToolsUnavailable, failSession
  <2>2. CASE Allocate(s)
    BY <2>2 DEF Allocate, Transition, TransitionErr
  <2>3. CASE SubmitTask(s)
    BY <2>3 DEF SubmitTask
  <2> QED BY <1>1, <2>1, <2>2, <2>3 DEF Caller, startTask, ResumeSession, Launch
<1>2. ASSUME NEW s \in Sessions,
             PrepareFails(s) \/ SandboxVerifyFails(s) \/ AgentFails(s) \/ SubscribeFails(s)
               \/ ApprovalDenied(s) \/ ApprovalTimesOut(s)
      PROVE  Goal
  <2>1. status[s] \in {"ALLOCATING", "RUNNING", "APPROVAL"}
    BY <1>2 DEF PrepareFails, SandboxVerifyFails, AgentFails, SubscribeFails,
      ApprovalDenied, ApprovalTimesOut
  <2>2. \E why \in Causes \ {"none"} : failSession(s, why)
    BY <1>2 DEF PrepareFails, SandboxVerifyFails, AgentFails, SubscribeFails,
      ApprovalDenied, ApprovalTimesOut, GateRefuses, Causes
  <2> QED BY <2>1, <2>2 DEF failSession
<1>3. ASSUME NEW s \in Sessions, NEW pc \in {"provisioned", "gating", "approved"},
             NEW to \in {"RUNNING", "APPROVAL"}, TransitionRefused(s, pc, to)
      PROVE  Goal
  BY <1>3 DEF TransitionRefused, TransitionErr
<1>4. ASSUME NEW s \in Sessions, StartAgent(s) \/ RequestApproval(s) \/ LeaveApproval(s)
      PROVE  Goal
  BY <1>4 DEF StartAgent, RequestApproval, LeaveApproval, Transition
<1>5. ASSUME NEW s \in Sessions, Complete(s) PROVE Goal
  BY <1>5 DEF Complete
<1>6. ASSUME NEW s \in Sessions, handleCrash(s) PROVE Goal
  <2>1. CASE attempts[s] + 1 > MaxRetries
    BY <1>6, <2>1 DEF handleCrash, failSession
  <2>2. CASE ~(attempts[s] + 1 > MaxRetries)
    BY <1>6, <2>2 DEF handleCrash
  <2> QED BY <2>1, <2>2
<1>7. ASSUME NEW s \in Sessions, runAgent(s) PROVE Goal
  <2>1. CASE Provision(s) \/ ExecuteReturns(s) \/ CrashDetected(s) \/ AgentSucceeds(s)
              \/ SubscribeAnswers(s) \/ ApprovalGranted(s) \/ Retry(s) \/ RetryCancelled(s)
    BY <2>1 DEF Provision, ExecuteReturns, CrashDetected, AgentSucceeds, SubscribeAnswers,
      ApprovalGranted, Retry, RetryCancelled
  <2> QED BY <1>2, <1>3, <1>4, <1>5, <1>6, <1>7, <2>1 DEF runAgent
<1>8. ASSUME NEW s \in Sessions, ReleaseSlot(s) \/ monitorHeartbeat(s) \/ Human(s) PROVE Goal
  BY <1>8 DEF ReleaseSlot, monitorHeartbeat, Heartbeat, HeartbeatMissed, InterruptAgent,
    Human, ApproveSession, DenySession, PublishAnswer
<1>9. CASE Shutdown \/ UNCHANGED vars
  BY <1>9 DEF Shutdown, Sigterm, StopAccepting, Drain, Exit, vars
<1> QED BY <1>1, <1>7, <1>8, <1>9 DEF Next, Working, Exited

(* A cause is recorded exactly for the FAILED sessions. *)
THEOREM FailedHasCauseHolds == Spec => []FailedHasCause
<1>1. Init => FailedHasCause
  BY DEF Init, FailedHasCause, Absent
<1> QED BY <1>1, FailedStep, InvariantHolds, PTL DEF Spec

-----------------------------------------------------------------------------
(* The bus is the only one that refuses. *)

(* Without faults of the bus no Transition reports an error. *)
AllSent == ~BusFaults => \A s \in Sessions : ~unsent[s]

(* The edges that runAgent asks for exist. *)
LEMMA AllSentStep == IInv /\ AllSent /\ [Next]_vars => AllSent'
<1> SUFFICES ASSUME IInv, AllSent, [Next]_vars, ~BusFaults, NEW t \in Sessions
             PROVE  ~unsent'[t]
  BY DEF AllSent
<1> USE DEF IInv, TypeOK, AllSent, endVars
<1>1. ASSUME NEW s \in Sessions, Caller(s) PROVE ~unsent'[t]
  <2>1. CASE Allocate(s)
    BY <2>1 DEF Allocate, Transition, TransitionErr
  <2> QED BY <1>1, <2>1 DEF Caller, SubmitTask, startTask, ResumeSession, Launch,
        ToolsUnavailable, failSession
<1>2. ASSUME NEW s \in Sessions, NEW pc \in {"provisioned", "gating", "approved"},
             NEW to \in {"RUNNING", "APPROVAL"}, TransitionRefused(s, pc, to)
      PROVE  ~unsent'[t]
  BY <1>2 DEF TransitionRefused, TransitionErr
<1>3. ASSUME NEW s \in Sessions, handleCrash(s) PROVE ~unsent'[t]
  <2>1. UNCHANGED unsent
    BY <1>3 DEF handleCrash, failSession
  <2> QED BY <2>1
<1>4. ASSUME NEW s \in Sessions, runAgent(s) PROVE ~unsent'[t]
  BY <1>2, <1>3, <1>4 DEF runAgent, PrepareFails, Provision, SandboxVerifyFails, StartAgent,
    ExecuteReturns, CrashDetected, AgentFails, AgentSucceeds, RequestApproval,
    SubscribeAnswers, SubscribeFails, ApprovalDenied, ApprovalTimesOut, GateRefuses,
    ApprovalGranted, LeaveApproval, Complete, Retry, RetryCancelled, failSession, Transition
<1>5. ASSUME NEW s \in Sessions, ReleaseSlot(s) \/ monitorHeartbeat(s) \/ Human(s)
      PROVE  ~unsent'[t]
  BY <1>5 DEF ReleaseSlot, monitorHeartbeat, Heartbeat, HeartbeatMissed, InterruptAgent,
    Human, ApproveSession, DenySession, PublishAnswer
<1>6. CASE Shutdown \/ UNCHANGED vars
  BY <1>6 DEF Shutdown, Sigterm, StopAccepting, Drain, Exit, vars
<1> QED BY <1>1, <1>4, <1>5, <1>6 DEF Next, Working, Exited

(***************************************************************************)
(* While Publish works, no Transition of runAgent is ever refused (its     *)
(* early returns after a failed Transition are dead code), and a runAgent  *)
(* that has returned leaves its session COMPLETED or FAILED; only the      *)
(* cancelled context of a shutdown can cut that short.                     *)
(***************************************************************************)
NothingRefused ==
  [][\A s \in Sessions : /\ ~TransitionRefused(s, "provisioned", "RUNNING")
                         /\ ~TransitionRefused(s, "gating", "APPROVAL")
                         /\ ~TransitionRefused(s, "approved", "RUNNING")]_vars

ReturnedIsTerminal ==
  \A s \in Sessions :
    sub[s] = "launched" /\ run[s] = "none" => status[s] \in Terminal \/ RetryCutShort(s)

(* Without faults of the bus, every run that returns has ended its session. *)
THEOREM OnlyTheBusRefuses ==
  ASSUME ~BusFaults
  PROVE  Spec => NothingRefused /\ []ReturnedIsTerminal
<1>1. Spec => []AllSent
  <2>1. Init => AllSent
    BY DEF Init, AllSent
  <2> QED BY <2>1, AllSentStep, InvariantHolds, PTL DEF Spec
<1>2. IInv /\ AllSent => ReturnedIsTerminal
  BY DEF IInv, SessionInv, EndInv, AllSent, ReturnedIsTerminal
<1>3. ASSUME IInv, [Next]_vars, NEW s \in Sessions
      PROVE  /\ ~TransitionRefused(s, "provisioned", "RUNNING")
             /\ ~TransitionRefused(s, "gating", "APPROVAL")
             /\ ~TransitionRefused(s, "approved", "RUNNING")
  BY <1>3, CoordinatorEdges
     DEF IInv, SessionInv, StatusInv, TransitionRefused, TransitionErr
<1>4. IInv /\ [Next]_vars =>
        [\A s \in Sessions : /\ ~TransitionRefused(s, "provisioned", "RUNNING")
                             /\ ~TransitionRefused(s, "gating", "APPROVAL")
                             /\ ~TransitionRefused(s, "approved", "RUNNING")]_vars
  BY <1>3
<1> QED BY <1>1, <1>2, <1>4, InvariantHolds, PTL DEF Spec, NothingRefused

-----------------------------------------------------------------------------
(* What bounds the number of sessions that run. *)

(* Admitted and not yet registered in active. *)
Admitted(s) == sub[s] \in {"admitted", "allocated"}

(* Nobody passes the capacity check between another's check and registration. *)
SerialAdmission ==
  \A s, t \in Sessions : Admitted(s) /\ Admitted(t) => s = t

NoRetries == \A s \in Sessions : attempts[s] = 0

(* Whoever has been admitted still finds room when it registers. *)
RoomInv ==
  /\ Cardinality(active) <= MaxConcurrent
  /\ (\E s \in Sessions : Admitted(s)) => Cardinality(active) < MaxConcurrent

(* Only Launch and ReleaseSlot write active, only the checks admit. *)
LEMMA AdmissionStep ==
  ASSUME IInv, [Next]_vars,
         ~ \E s \in Sessions : startTask(s) \/ ResumeSession(s) \/ Launch(s) \/ ReleaseSlot(s)
  PROVE  active' = active /\ \A t \in Sessions : Admitted(t)' => Admitted(t)
<1> USE DEF IInv, TypeOK, Admitted
<1>1. ASSUME NEW s \in Sessions, SubmitTask(s) \/ Allocate(s) \/ ToolsUnavailable(s)
      PROVE  active' = active /\ \A t \in Sessions : Admitted(t)' => Admitted(t)
  BY <1>1 DEF SubmitTask, Allocate, ToolsUnavailable
<1>2. ASSUME NEW s \in Sessions, runAgent(s) \/ monitorHeartbeat(s) \/ Human(s)
      PROVE  active' = active /\ sub' = sub
  BY <1>2 DEF runAgent, PrepareFails, Provision, SandboxVerifyFails, StartAgent,
    TransitionRefused, ExecuteReturns, CrashDetected, AgentFails, AgentSucceeds,
    RequestApproval, SubscribeAnswers, SubscribeFails, ApprovalDenied, ApprovalTimesOut,
    GateRefuses, ApprovalGranted, LeaveApproval, Complete, handleCrash, Retry,
    RetryCancelled, monitorHeartbeat, Heartbeat, HeartbeatMissed, InterruptAgent, Human,
    ApproveSession, DenySession, PublishAnswer
<1>3. CASE Shutdown \/ UNCHANGED vars
  BY <1>3 DEF Shutdown, Sigterm, StopAccepting, Drain, Exit, vars
<1> QED BY <1>1, <1>2, <1>3 DEF Next, Working, Exited, Caller

(* Admission one at a time keeps the active map within its limit. *)
LEMMA RoomStep ==
  IInv /\ SerialAdmission /\ SerialAdmission' /\ RoomInv /\ [Next]_vars => RoomInv'
<1> SUFFICES ASSUME IInv, SerialAdmission, SerialAdmission', RoomInv, [Next]_vars
             PROVE  RoomInv'
  OBVIOUS
<1>f. IsFiniteSet(active) /\ Cardinality(active) \in Nat
  BY CoordinatorAssumption, FS_Subset, FS_CardinalityType DEF IInv, TypeOK
<1>1. ASSUME NEW s \in Sessions, startTask(s) \/ ResumeSession(s) PROVE RoomInv'
  <2>1. active' = active
    BY <1>1 DEF startTask, ResumeSession
  <2>2. CASE HasRoom
    BY <2>1, <2>2, <1>f, CoordinatorAssumption DEF HasRoom, RoomInv
  <2>3. CASE ~HasRoom
    <3>1. \A t \in Sessions : Admitted(t)' => Admitted(t)
      BY <1>1, <2>3 DEF startTask, ResumeSession, Admitted, IInv, TypeOK
    <3> QED BY <2>1, <3>1 DEF RoomInv
  <2> QED BY <2>2, <2>3
<1>2. ASSUME NEW s \in Sessions, Launch(s) PROVE RoomInv'
  <2>1. Admitted(s) /\ active' = active \union {s}
    BY <1>2 DEF Launch, Admitted
  <2>2. Cardinality(active) < MaxConcurrent
    BY <2>1 DEF RoomInv
  <2>3. Cardinality(active') <= MaxConcurrent
    <3>1. Cardinality(active') = IF s \in active THEN Cardinality(active) ELSE Cardinality(active) + 1
      BY <2>1, <1>f, FS_AddElement
    <3> QED BY <3>1, <2>2, <1>f, CoordinatorAssumption
  <2>4. \A t \in Sessions : ~Admitted(t)'
    BY <1>2, <2>1 DEF Launch, Admitted, SerialAdmission, IInv, TypeOK
  <2> QED BY <2>3, <2>4 DEF RoomInv
<1>3. ASSUME NEW s \in Sessions, ReleaseSlot(s) PROVE RoomInv'
  <2>1. active' = active \ {s} /\ sub' = sub
    BY <1>3 DEF ReleaseSlot
  <2>2. Cardinality(active') \in Nat /\ Cardinality(active') <= Cardinality(active)
    <3>1. Cardinality(active') = IF s \in active THEN Cardinality(active) - 1 ELSE Cardinality(active)
      BY <2>1, <1>f, FS_RemoveElement
    <3>2. IsFiniteSet(active')
      BY <2>1, <1>f, FS_RemoveElement
    <3> QED BY <3>1, <3>2, <1>f, FS_CardinalityType
  <2> QED BY <2>1, <2>2, <1>f, CoordinatorAssumption DEF RoomInv, Admitted
<1>4. CASE ~ \E s \in Sessions : startTask(s) \/ ResumeSession(s) \/ Launch(s) \/ ReleaseSlot(s)
  BY <1>4, AdmissionStep DEF RoomInv
<1> QED BY <1>1, <1>2, <1>3, <1>4

(***************************************************************************)
(* The two ways to exceed max_concurrent are the only ones: a second       *)
(* caller between startTask's capacity check and its registration, and the *)
(* retry after a crash, whose predecessor frees the slot.  Without them    *)
(* OnlyMaxConcurrentRun, which the code does not keep, would hold.         *)
(***************************************************************************)
THEOREM CapacityWithoutOverlap ==
  Spec /\ []SerialAdmission /\ []NoRetries => []OnlyMaxConcurrentRun
<1>1. Init => RoomInv
  <2> SUFFICES ASSUME Init PROVE RoomInv
    OBVIOUS
  <2>1. active = {} /\ Cardinality(active) = 0
    BY FS_EmptySet DEF Init
  <2> QED BY <2>1, CoordinatorAssumption DEF RoomInv
<1>2. Spec /\ []SerialAdmission => []RoomInv
  BY <1>1, RoomStep, InvariantHolds, PTL DEF Spec
<1>3. IInv /\ RoomInv /\ NoRetries => OnlyMaxConcurrentRun
  <2> SUFFICES ASSUME IInv, RoomInv, NoRetries PROVE OnlyMaxConcurrentRun
    OBVIOUS
  <2> DEFINE Running == {s \in Sessions : run[s] # "none"}
  <2>1. Running \subseteq active
    BY DEF IInv, SessionInv, SlotInv, NoRetries
  <2>2. IsFiniteSet(active)
    BY CoordinatorAssumption, FS_Subset DEF IInv, TypeOK
  <2>3. IsFiniteSet(Running) /\ Cardinality(Running) <= Cardinality(active)
    BY <2>1, <2>2, FS_Subset
  <2>4. Cardinality(Running) \in Nat /\ Cardinality(active) \in Nat
    BY <2>2, <2>3, FS_CardinalityType
  <2> QED BY <2>3, <2>4, CoordinatorAssumption DEF RoomInv, OnlyMaxConcurrentRun
<1> QED BY <1>2, <1>3, InvariantHolds, PTL

-----------------------------------------------------------------------------
(* What bounds the work of a task. *)

(* How far a point of runAgent is from its return. *)
Weight(pc) ==
  CASE pc = "none"        -> 0
    [] pc = "finishing"   -> 1
    [] pc = "approved"    -> 2
    [] pc = "waiting"     -> 3
    [] pc = "halfOpen"    -> 4
    [] pc = "requested"   -> 5
    [] pc = "gating"      -> 6
    [] pc = "crashed"     -> 6
    [] pc \in HasReturned -> 7
    [] pc = "executing"   -> 8
    [] pc = "provisioned" -> 9
    [] pc = "setup"       -> 10
    [] pc = "backoff"     -> 11

(* The steps a task's goroutines have left: every retry costs an attempt. *)
StepsLeft(s) ==
  IF run[s] = "none" THEN 0 ELSE 12 * (MaxRetries + 1 - attempts[s]) + Weight(run[s])

(***************************************************************************)
(* Crash, retry, approval and failure lead runAgent round no circle: each  *)
(* of its steps uses up one of at most 12 (maxRetries + 1) + 10, nothing   *)
(* but the one Launch of a session adds any, and a goroutine that is there *)
(* has some left.  With the fairness of FairSpec this is why               *)
(* EverySessionSettles.                                                    *)
(***************************************************************************)
WorkIsBounded ==
  [][\A s \in Sessions :
       /\ StepsLeft(s) \in Nat /\ (StepsLeft(s) = 0 <=> run[s] = "none")
       /\ runAgent(s) => StepsLeft(s)' < StepsLeft(s)
       /\ sub[s] = "launched" => StepsLeft(s)' <= StepsLeft(s) /\ sub'[s] = "launched"
       /\ StepsLeft(s)' <= 12 * (MaxRetries + 1) + 10]_vars

(* The weights, point by point. *)
LEMMA Weights ==
  /\ Weight("none") = 0 /\ Weight("finishing") = 1 /\ Weight("approved") = 2
  /\ Weight("waiting") = 3 /\ Weight("halfOpen") = 4 /\ Weight("requested") = 5
  /\ Weight("gating") = 6 /\ Weight("crashed") = 6
  /\ Weight("ok") = 7 /\ Weight("nonzero") = 7 /\ Weight("error") = 7
  /\ Weight("executing") = 8 /\ Weight("provisioned") = 9 /\ Weight("setup") = 10
  /\ Weight("backoff") = 11
BY DEF Weight, HasReturned

(* In every state the steps left are a number, zero exactly without a run. *)
StepsType ==
  \A s \in Sessions :
    /\ attempts[s] \in Nat /\ run[s] \in RunStates
    /\ run[s] # "none" => attempts[s] <= MaxRetries
    /\ StepsLeft(s) \in Nat
    /\ StepsLeft(s) = 0 <=> run[s] = "none"

(* RetryInv keeps the difference natural. *)
LEMMA StepsLeftType == IInv => StepsType
<1> SUFFICES ASSUME IInv, NEW s \in Sessions
             PROVE  /\ attempts[s] \in Nat /\ run[s] \in RunStates
                    /\ run[s] # "none" => attempts[s] <= MaxRetries
                    /\ StepsLeft(s) \in Nat
                    /\ StepsLeft(s) = 0 <=> run[s] = "none"
  BY DEF StepsType
<1>1. attempts[s] \in Nat /\ run[s] \in RunStates
  BY DEF IInv, TypeOK
<1>2. run[s] # "none" => attempts[s] <= MaxRetries
  BY DEF IInv, SessionInv, RetryInv
<1>3. Weight(run[s]) \in 0..11
  BY <1>1, Weights DEF RunStates, HasReturned, AfterAgent
<1> QED BY <1>1, <1>2, <1>3, CoordinatorAssumption DEF StepsLeft

(* A step of runAgent(s) moves s forward, or back to the start on a new attempt. *)
LEMMA RunForward ==
  ASSUME IInv, NEW s \in Sessions, runAgent(s)
  PROVE  /\ run[s] # "none"
         /\ \/ run'[s] = "none"
            \/ /\ run'[s] \in RunStates /\ Weight(run'[s]) < Weight(run[s])
               /\ attempts'[s] = attempts[s]
            \/ /\ run[s] = "crashed" /\ run'[s] = "backoff"
               /\ attempts'[s] = attempts[s] + 1 /\ attempts'[s] <= MaxRetries
         /\ \A t \in Sessions \ {s} : run'[t] = run[t] /\ attempts'[t] = attempts[t]
         /\ sub' = sub
<1> USE Weights DEF IInv, TypeOK, Return, Goto
<1> DEFINE Others == \A t \in Sessions \ {s} : run'[t] = run[t] /\ attempts'[t] = attempts[t]
           Forward(pc) == run'[s] = pc /\ attempts'[s] = attempts[s]
<1>1. CASE \/ PrepareFails(s) \/ SandboxVerifyFails(s) \/ AgentFails(s) \/ Complete(s)
           \/ RetryCancelled(s)
           \/ SubscribeFails(s) \/ ApprovalDenied(s) \/ ApprovalTimesOut(s)
           \/ TransitionRefused(s, "provisioned", "RUNNING")
           \/ TransitionRefused(s, "gating", "APPROVAL")
           \/ TransitionRefused(s, "approved", "RUNNING")
  BY <1>1 DEF PrepareFails, SandboxVerifyFails, AgentFails, Complete, RetryCancelled,
    SubscribeFails, ApprovalDenied, ApprovalTimesOut, GateRefuses, TransitionRefused
<1>2. CASE Provision(s)
  BY <1>2 DEF Provision, RunStates
<1>3. CASE StartAgent(s)
  BY <1>3 DEF StartAgent, RunStates
<1>4. CASE ExecuteReturns(s)
  <2>1. PICK how \in HasReturned : run' = [run EXCEPT ![s] = how]
    BY <1>4 DEF ExecuteReturns
  <2>2. Weight(how) = 7
    BY <2>1 DEF HasReturned
  <2> QED BY <1>4, <2>1, <2>2 DEF ExecuteReturns, RunStates
<1>5. CASE CrashDetected(s)
  BY <1>5 DEF CrashDetected, RunStates, HasReturned
<1>6. CASE AgentSucceeds(s)
  BY <1>6 DEF AgentSucceeds, RunStates, AfterAgent
<1>7. CASE RequestApproval(s) \/ LeaveApproval(s) \/ ApprovalGranted(s)
  BY <1>7 DEF RequestApproval, LeaveApproval, ApprovalGranted, RunStates, AfterAgent
<1>8. CASE SubscribeAnswers(s)
  BY <1>8 DEF SubscribeAnswers, RunStates, AfterAgent
<1>9. CASE handleCrash(s)
  <2>1. attempts[s] \in Nat /\ attempts' = [attempts EXCEPT ![s] = @ + 1] /\ sub' = sub
    BY <1>9 DEF handleCrash
  <2>2. CASE attempts[s] + 1 > MaxRetries
    BY <1>9, <2>1, <2>2 DEF handleCrash
  <2>3. CASE ~(attempts[s] + 1 > MaxRetries)
    BY <1>9, <2>1, <2>3, CoordinatorAssumption DEF handleCrash
  <2> QED BY <2>2, <2>3
<1>10. CASE Retry(s)
  BY <1>10 DEF Retry, RunStates
<1> QED BY <1>1, <1>2, <1>3, <1>4, <1>5, <1>6, <1>7, <1>8, <1>9, <1>10 DEF runAgent

(* Everybody else but Launch leaves the goroutines where they are. *)
LEMMA RunUntouched ==
  ASSUME IInv, [Next]_vars,
         ~ \E s \in Sessions : runAgent(s) \/ Launch(s)
  PROVE  /\ run' = run /\ attempts' = attempts
         /\ \A s \in Sessions : sub[s] = "launched" => sub'[s] = "launched"
<1> USE DEF IInv, TypeOK
<1>1. ASSUME NEW s \in Sessions, Caller(s), ~Launch(s)
      PROVE  /\ run' = run /\ attempts' = attempts
             /\ \A t \in Sessions : sub[t] = "launched" => sub'[t] = "launched"
  BY <1>1 DEF Caller, SubmitTask, startTask, Allocate, ResumeSession, ToolsUnavailable
<1>2. ASSUME NEW s \in Sessions, ReleaseSlot(s) \/ monitorHeartbeat(s) \/ Human(s)
      PROVE  run' = run /\ attempts' = attempts /\ sub' = sub
  BY <1>2 DEF ReleaseSlot, monitorHeartbeat, Heartbeat, HeartbeatMissed, InterruptAgent,
    Human, ApproveSession, DenySession, PublishAnswer
<1>3. CASE Shutdown \/ UNCHANGED vars
  BY <1>3 DEF Shutdown, Sigterm, StopAccepting, Drain, Exit, vars
<1> QED BY <1>1, <1>2, <1>3 DEF Next, Working, Exited

(* The work of every task is bounded, whatever the limits are. *)
THEOREM WorkIsBoundedHolds == Spec => WorkIsBounded
<1> DEFINE Work(s) ==
      /\ StepsLeft(s) \in Nat /\ (StepsLeft(s) = 0 <=> run[s] = "none")
      /\ runAgent(s) => StepsLeft(s)' < StepsLeft(s)
      /\ sub[s] = "launched" => StepsLeft(s)' <= StepsLeft(s) /\ sub'[s] = "launched"
      /\ StepsLeft(s)' <= 12 * (MaxRetries + 1) + 10
<1> DEFINE Top == 12 * (MaxRetries + 1) + 10
<1>0. IInv /\ [Next]_vars => IInv'
  BY TypeStep, SessionStep DEF IInv
<1>t. IInv' => StepsType'
  BY StepsLeftType, PTL
<1>1. Init => \A s \in Sessions : StepsLeft(s) <= Top
  BY CoordinatorAssumption DEF Init, StepsLeft
<1> DEFINE Bounded == \A s \in Sessions : StepsLeft(s) <= Top
<1>2. ASSUME IInv, IInv', Bounded, [Next]_vars, NEW s \in Sessions PROVE Work(s)
  <2>1. StepsLeft(s) \in Nat /\ (StepsLeft(s) = 0 <=> run[s] = "none") /\ StepsLeft(s)' \in Nat
    BY <1>2, <1>t, StepsLeftType DEF StepsType
  <2>2. /\ attempts[s] \in Nat /\ attempts'[s] \in Nat
        /\ run[s] # "none" => attempts[s] <= MaxRetries
        /\ run'[s] # "none" => attempts'[s] <= MaxRetries
    BY <1>2, <1>t, StepsLeftType DEF StepsType
  <2>3. ASSUME runAgent(s) PROVE StepsLeft(s)' < StepsLeft(s) /\ sub' = sub
    <3>1. CASE run'[s] = "none"
      BY <1>2, <2>1, <2>3, <3>1, RunForward DEF StepsLeft
    <3>2. CASE run'[s] # "none" /\ attempts'[s] = attempts[s]
      <4>1. Weight(run'[s]) < Weight(run[s]) /\ run[s] # "none" /\ run'[s] \in RunStates
        BY <1>2, <2>2, <2>3, <3>2, RunForward
      <4>2. Weight(run'[s]) \in Nat /\ Weight(run[s]) \in Nat
        BY <1>2, <4>1, Weights DEF IInv, TypeOK, RunStates, HasReturned, AfterAgent
      <4> QED BY <1>2, <2>2, <2>3, <3>2, <4>1, <4>2, RunForward, CoordinatorAssumption DEF StepsLeft
    <3>3. CASE run[s] = "crashed" /\ run'[s] = "backoff" /\ attempts'[s] = attempts[s] + 1
      BY <1>2, <2>2, <2>3, <3>3, Weights, RunForward, CoordinatorAssumption DEF StepsLeft
    <3> QED BY <1>2, <2>3, <3>1, <3>2, <3>3, RunForward
  <2>4. ASSUME NEW t \in Sessions \ {s}, runAgent(t)
        PROVE  StepsLeft(s)' = StepsLeft(s) /\ sub' = sub
    BY <1>2, <2>4, RunForward DEF StepsLeft
  <2>5. ASSUME NEW t \in Sessions, Launch(t)
        PROVE  /\ sub[s] = "launched" => StepsLeft(s)' = StepsLeft(s) /\ sub'[s] = "launched"
               /\ StepsLeft(s)' <= Top
    <3>1. CASE t = s
      BY <1>2, <2>2, <2>5, <3>1, Weights, CoordinatorAssumption DEF Launch, Goto, StepsLeft, IInv, TypeOK
    <3>2. CASE t # s
      BY <1>2, <2>5, <3>2 DEF Launch, Goto, StepsLeft, Bounded, IInv, TypeOK
    <3> QED BY <3>1, <3>2
  <2>6. ASSUME ~ \E t \in Sessions : runAgent(t) \/ Launch(t)
        PROVE  /\ StepsLeft(s)' = StepsLeft(s)
               /\ sub[s] = "launched" => sub'[s] = "launched"
    BY <1>2, <2>6, RunUntouched DEF StepsLeft
  <2>7. StepsLeft(s)' <= Top
    BY <1>2, <2>1, <2>3, <2>4, <2>5, <2>6, CoordinatorAssumption DEF Bounded
  <2>8. sub[s] = "launched" => StepsLeft(s)' <= StepsLeft(s) /\ sub'[s] = "launched"
    BY <1>2, <2>1, <2>3, <2>4, <2>5, <2>6
  <2> QED BY <2>1, <2>3, <2>7, <2>8
<1>3. IInv /\ Bounded /\ [Next]_vars => Bounded'
  BY <1>0, <1>2
<1>4. IInv /\ Bounded /\ [Next]_vars => [\A s \in Sessions : Work(s)]_vars
  BY <1>0, <1>2
<1> HIDE DEF Bounded
<1> QED BY <1>1, <1>3, <1>4, InvariantHolds, PTL DEF Spec, WorkIsBounded, Bounded

-----------------------------------------------------------------------------
(* When the monitor declares a crash. *)

(***************************************************************************)
(* monitorHeartbeat signals a crash with exactly maxFailures heartbeats    *)
(* missed in a row, never earlier and never later, and the bound is at     *)
(* least one for every interval and timeout, also if the timeout is the    *)
(* shorter one.                                                            *)
(***************************************************************************)
CrashIsExact ==
  \A s \in Sessions :
    /\ mon[s] = "watching" => maxFailures >= 1 /\ misses[s] < maxFailures
    /\ crashCh[s] => misses[s] = maxFailures

(* No monitor, no crash, no retry. *)
CrashInv(s) ==
  /\ mon[s] = "watching" => HeartbeatInterval > 0 /\ misses[s] < maxFailures /\ ~crashCh[s]
  /\ crashCh[s] => HeartbeatInterval > 0 /\ misses[s] = maxFailures
  /\ run[s] \in {"crashed", "backoff"} => HeartbeatInterval > 0
  /\ attempts[s] > 0 => HeartbeatInterval > 0

(* The bound is a positive number wherever it is used. *)
LEMMA MaxFailuresType == HeartbeatInterval > 0 => maxFailures \in Nat \ {0}
<1> SUFFICES ASSUME HeartbeatInterval > 0 PROVE maxFailures \in Nat \ {0}
  OBVIOUS
<1>1. HeartbeatTimeout \div HeartbeatInterval \in Int
  BY CoordinatorAssumption
<1> QED BY <1>1 DEF maxFailures

(* Every step keeps the monitor's count. *)
LEMMA CrashStep ==
  IInv /\ (\A s \in Sessions : CrashInv(s)) /\ [Next]_vars => (\A s \in Sessions : CrashInv(s))'
<1> SUFFICES ASSUME IInv, \A s \in Sessions : CrashInv(s), [Next]_vars, NEW t \in Sessions
             PROVE  CrashInv(t)'
  OBVIOUS
<1> USE DEF IInv, TypeOK, CrashInv, hbVars
<1>1. ASSUME NEW s \in Sessions, Caller(s) PROVE CrashInv(t)'
  BY <1>1 DEF Caller, SubmitTask, startTask, Allocate, ResumeSession, Launch, ToolsUnavailable, Goto
<1>2. ASSUME NEW s \in Sessions,
             \/ PrepareFails(s) \/ SandboxVerifyFails(s) \/ AgentFails(s) \/ Complete(s)
             \/ RetryCancelled(s)
             \/ SubscribeFails(s) \/ ApprovalDenied(s) \/ ApprovalTimesOut(s)
             \/ TransitionRefused(s, "provisioned", "RUNNING")
             \/ TransitionRefused(s, "gating", "APPROVAL")
             \/ TransitionRefused(s, "approved", "RUNNING")
      PROVE  CrashInv(t)'
  <2>1. Return(s) /\ attempts' = attempts
    BY <1>2 DEF PrepareFails, SandboxVerifyFails, AgentFails, Complete, RetryCancelled,
      SubscribeFails, ApprovalDenied, ApprovalTimesOut, GateRefuses, TransitionRefused
  <2> QED BY <2>1 DEF Return, StopMonitor
<1>3. ASSUME NEW s \in Sessions,
             \/ Provision(s) \/ ExecuteReturns(s) \/ RequestApproval(s) \/ LeaveApproval(s)
             \/ ApprovalGranted(s) \/ SubscribeAnswers(s)
      PROVE  CrashInv(t)'
  BY <1>3 DEF Provision, ExecuteReturns, RequestApproval, LeaveApproval, ApprovalGranted,
    SubscribeAnswers, Goto, HasReturned
<1>4. ASSUME NEW s \in Sessions, StartAgent(s) PROVE CrashInv(t)'
  BY <1>4, CoordinatorAssumption, MaxFailuresType DEF StartAgent, Goto
<1>5. ASSUME NEW s \in Sessions, CrashDetected(s) \/ AgentSucceeds(s) PROVE CrashInv(t)'
  BY <1>5 DEF CrashDetected, AgentSucceeds, Goto, StopMonitor
<1>6. ASSUME NEW s \in Sessions, handleCrash(s) PROVE CrashInv(t)'
  <2>1. HeartbeatInterval > 0 /\ attempts' = [attempts EXCEPT ![s] = @ + 1]
    BY <1>6 DEF handleCrash
  <2>2. CASE attempts[s] + 1 > MaxRetries
    BY <1>6, <2>1, <2>2 DEF handleCrash, Return, StopMonitor
  <2>3. CASE ~(attempts[s] + 1 > MaxRetries)
    BY <1>6, <2>1, <2>3 DEF handleCrash, Goto
  <2> QED BY <2>2, <2>3
<1>7. ASSUME NEW s \in Sessions, Retry(s) PROVE CrashInv(t)'
  BY <1>7 DEF Retry
<1>8. ASSUME NEW s \in Sessions, ReleaseSlot(s) \/ Human(s) PROVE CrashInv(t)'
  BY <1>8 DEF ReleaseSlot, Human, ApproveSession, DenySession, PublishAnswer
<1>9. ASSUME NEW s \in Sessions, HeartbeatMissed(s) PROVE CrashInv(t)'
  <2>1. CASE s # t
    BY <1>9, <2>1 DEF HeartbeatMissed
  <2>2. CASE s = t
    <3>1. HeartbeatInterval > 0 /\ misses[t] < maxFailures /\ maxFailures \in Nat
      BY <1>9, <2>2, MaxFailuresType DEF HeartbeatMissed
    <3>2. CASE misses[t] + 1 >= maxFailures
      BY <1>9, <2>2, <3>1, <3>2 DEF HeartbeatMissed
    <3>3. CASE ~(misses[t] + 1 >= maxFailures)
      BY <1>9, <2>2, <3>1, <3>3 DEF HeartbeatMissed
    <3> QED BY <3>2, <3>3
  <2> QED BY <2>1, <2>2
<1>10. ASSUME NEW s \in Sessions, Heartbeat(s) \/ InterruptAgent(s) PROVE CrashInv(t)'
  BY <1>10, MaxFailuresType DEF Heartbeat, InterruptAgent
<1>11. CASE Shutdown \/ UNCHANGED vars
  BY <1>11 DEF Shutdown, Sigterm, StopAccepting, Drain, Exit, vars
<1> QED BY <1>1, <1>2, <1>3, <1>4, <1>5, <1>6, <1>7, <1>8, <1>9, <1>10, <1>11
  DEF Next, Working, Exited, runAgent, monitorHeartbeat

(* The monitor's invariant, whatever the interval and the timeout are. *)
LEMMA CrashInvHolds == Spec => [](\A s \in Sessions : CrashInv(s))
<1>1. Init => \A s \in Sessions : CrashInv(s)
  BY DEF Init, CrashInv
<1> QED BY <1>1, CrashStep, InvariantHolds, PTL DEF Spec

(* A crash is declared after maxFailures consecutive misses, not before. *)
THEOREM CrashIsExactHolds == Spec => []CrashIsExact
<1>1. (\A s \in Sessions : CrashInv(s)) => CrashIsExact
  BY MaxFailuresType DEF CrashInv, CrashIsExact
<1> QED BY <1>1, CrashInvHolds, PTL

(***************************************************************************)
(* Without a heartbeat monitor nothing is ever retried, so the race        *)
(* between the capacity check and the registration is the only way past    *)
(* max_concurrent.                                                         *)
(***************************************************************************)
THEOREM CapacityWithoutMonitor ==
  ASSUME HeartbeatInterval = 0
  PROVE  Spec /\ []SerialAdmission => []OnlyMaxConcurrentRun
<1>1. IInv /\ (\A s \in Sessions : CrashInv(s)) => NoRetries
  BY DEF IInv, TypeOK, CrashInv, NoRetries
<1> QED BY <1>1, InvariantHolds, CrashInvHolds, CapacityWithoutOverlap, PTL

-----------------------------------------------------------------------------
(* What becomes of a rejected task. *)

(***************************************************************************)
(* A task that SubmitTask or ResumeSession turned down holds no goroutine, *)
(* container or slot, and this process never touches its session again: it *)
(* keeps the status that CreateSession or the refused Transition left.     *)
(***************************************************************************)
RejectedIsFrozen ==
  [][\A s \in Sessions :
       sub[s] = "rejected" =>
         /\ sub'[s] = "rejected" /\ status'[s] = status[s]
         /\ run'[s] = "none" /\ boxes'[s] = 0 /\ s \notin active']_vars

(* Every action on a session asks for another place of its caller. *)
LEMMA RejectedStep ==
  ASSUME IInv, IInv', [Next]_vars, NEW t \in Sessions, sub[t] = "rejected"
  PROVE  sub'[t] = "rejected" /\ status'[t] = status[t]
<1> USE DEF IInv, TypeOK, SessionInv, SubInv
<1>1. ASSUME NEW s \in Sessions, Caller(s) PROVE sub'[t] = "rejected" /\ status'[t] = status[t]
  BY <1>1 DEF Caller, SubmitTask, startTask, Allocate, ResumeSession, Launch,
    ToolsUnavailable, Transition, TransitionErr, failSession
<1>2. ASSUME NEW s \in Sessions, runAgent(s) PROVE sub'[t] = "rejected" /\ status'[t] = status[t]
  <2>1. run[s] # "none" /\ sub' = sub
    BY <1>2, RunForward
  <2>2. s # t
    BY <2>1
  <2>3. CASE \E to : status' = [status EXCEPT ![s] = to]
    BY <2>1, <2>2, <2>3
  <2>4. CASE status' = status
    BY <2>1, <2>4
  <2>5. CASE handleCrash(s)
    BY <2>3, <2>4, <2>5 DEF handleCrash, failSession
  <2>6. CASE TransitionRefused(s, "provisioned", "RUNNING")
    BY <2>3, <2>4, <2>6 DEF TransitionRefused, TransitionErr
  <2>7. CASE TransitionRefused(s, "gating", "APPROVAL")
    BY <2>3, <2>4, <2>7 DEF TransitionRefused, TransitionErr
  <2>8. CASE TransitionRefused(s, "approved", "RUNNING")
    BY <2>3, <2>4, <2>8 DEF TransitionRefused, TransitionErr
  <2> QED BY <1>2, <2>3, <2>4, <2>5, <2>6, <2>7, <2>8
        DEF runAgent, PrepareFails, Provision, SandboxVerifyFails, StartAgent,
            ExecuteReturns, CrashDetected, AgentFails, AgentSucceeds, RequestApproval,
            SubscribeAnswers, SubscribeFails, ApprovalDenied, ApprovalTimesOut, GateRefuses,
            ApprovalGranted, LeaveApproval, Complete, Retry, RetryCancelled,
            failSession, Transition
<1>3. ASSUME NEW s \in Sessions, ReleaseSlot(s) \/ monitorHeartbeat(s) \/ Human(s)
      PROVE  sub'[t] = "rejected" /\ status'[t] = status[t]
  BY <1>3 DEF ReleaseSlot, monitorHeartbeat, Heartbeat, HeartbeatMissed, InterruptAgent,
    Human, ApproveSession, DenySession, PublishAnswer
<1>4. CASE Shutdown \/ UNCHANGED vars
  BY <1>4 DEF Shutdown, Sigterm, StopAccepting, Drain, Exit, vars
<1> QED BY <1>1, <1>2, <1>3, <1>4 DEF Next, Working, Exited

(* A rejected task leaves nothing running, and its session as it was. *)
THEOREM RejectedIsFrozenHolds == Spec => RejectedIsFrozen
<1>1. ASSUME IInv, IInv', [Next]_vars, NEW s \in Sessions, sub[s] = "rejected"
      PROVE  /\ sub'[s] = "rejected" /\ status'[s] = status[s]
             /\ run'[s] = "none" /\ boxes'[s] = 0 /\ s \notin active'
  <2>1. sub'[s] = "rejected" /\ status'[s] = status[s]
    BY <1>1, RejectedStep
  <2> QED BY <1>1, <2>1 DEF IInv, SessionInv, SubInv
<1>2. IInv /\ IInv' /\ [Next]_vars =>
        [\A s \in Sessions :
           sub[s] = "rejected" =>
             /\ sub'[s] = "rejected" /\ status'[s] = status[s]
             /\ run'[s] = "none" /\ boxes'[s] = 0 /\ s \notin active']_vars
  BY <1>1
<1> QED BY <1>2, InvariantHolds, PTL DEF Spec, RejectedIsFrozen
=============================================================================
