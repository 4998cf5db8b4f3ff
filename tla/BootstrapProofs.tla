--------------------------- MODULE BootstrapProofs ---------------------------
(***************************************************************************)
(* Proofs about Bootstrap, for every set of sessions and containers and    *)
(* with every kind of fault.                                               *)
(***************************************************************************)
EXTENDS Bootstrap, TLAPS

(* Points of a job at which the run has a container. *)
WithBox == {"boxed", "executing", "gating", "waiting", "approved", "finishing"}

(* Where a job is says what the control plane holds for its session. *)
JobInv(s) ==
  /\ job[s] \in {"created", "admitted"} => status[s] = "CREATED"
  /\ job[s] \in {"allocated", "setup", "boxed"} => status[s] \in {"ALLOCATING", "RUNNING"}
  /\ job[s] \in {"executing", "gating", "finishing"} => status[s] = "RUNNING"
  /\ job[s] \in {"waiting", "approved"} => status[s] = "APPROVAL"

(* A run has a container exactly between Provision and its clean-up. *)
BoxInv(s) ==
  /\ box[s] # None <=> job[s] \in WithBox
  /\ box[s] # None => owner[box[s]] = s

(* A row that is over is over in the map too, or not loaded at all. *)
RowInv(s) ==
  /\ row[s] \in Terminal => status[s] \in {row[s], Absent}
  /\ row[s] = Absent => status[s] = Absent

(* What the loop has not come to is untouched; what it is in the middle of *)
(* is being resumed or half cancelled.                                     *)
LoopInv(s) ==
  /\ s \in todo => job[s] = "none" /\ cur # s /\ status[s] \in Live
  /\ cur = s => job[s] = "allocated" \/ (job[s] = "none" /\ status[s] = "CANCELLING")

(* Half-done sessions nobody works on are still the loop's business. *)
AttendedInv(s) ==
  s \notin unsent /\ status[s] \in HalfDone /\ job[s] = "none" => s \in todo \/ cur = s

PhaseInv ==
  /\ phase = "down" => todo = {} /\ \A s \in Sessions : status[s] = Absent
  /\ phase \in {"down", "recovered"} => cur = None /\ \A s \in Sessions : job[s] = "none"
  /\ phase = "up" => todo = {} /\ cur = None

OneInv(s) == JobInv(s) /\ BoxInv(s) /\ RowInv(s) /\ LoopInv(s) /\ AttendedInv(s)

SessionInv == \A s \in Sessions : OneInv(s)

IInv == TypeOK /\ PhaseInv /\ SessionInv /\ NoOrphanContainer

-----------------------------------------------------------------------------
USE DEF Absent

(* What Transition does to map and row, whether or not the UPDATE fails. *)
Moved(s, to) ==
  /\ status' = [status EXCEPT ![s] = to]
  /\ status' \in [Sessions -> SessionStatus \union {Absent}]
  /\ row' \in [Sessions -> SessionStatus \union {Absent}]
  /\ fresh' \in [Sessions -> BOOLEAN]
  /\ row'[s] \in {to, row[s]}
  /\ \A t \in Sessions \ {s} : row'[t] = row[t]

(* Transition from any state of the right type has that effect. *)
LEMMA TransitionEffect ==
  ASSUME TypeOK, NEW s \in Sessions, NEW to \in SessionStatus, Transition(s, to)
  PROVE  Moved(s, to)
<1>1. fresh' \in [Sessions -> BOOLEAN]
  BY Zenon DEF TypeOK, Transition, rowVars
<1> QED
  BY <1>1 DEF TypeOK, Transition, rowVars, SessionStatus, Live, Terminal, Moved

(* What cleanupSandbox does for a run that has a container. *)
Cleaned(s) ==
  /\ box' = [box EXCEPT ![s] = None]
  /\ box' \in [Sessions -> Boxes \union {None}]
  /\ owner' \in [Boxes -> Sessions \union {None}]
  /\ stray' \subseteq Boxes
  /\ \A t \in Sessions \ {s} : box[t] # None => owner'[box[t]] = owner[box[t]]
  /\ NoOrphanContainer'

(* It leaves no container behind that is neither in use nor recorded. *)
LEMMA CleanupEffect ==
  ASSUME IInv, NEW s \in Sessions, job[s] \in WithBox, cleanupSandbox(s), phase' = phase
  PROVE  Cleaned(s)
<1>1. box[s] \in Boxes /\ owner[box[s]] = s
  BY DEF IInv, SessionInv, OneInv, BoxInv, TypeOK
<1>2. /\ box' = [box EXCEPT ![s] = None]
      /\ box' \in [Sessions -> Boxes \union {None}]
      /\ owner' \in [Boxes -> Sessions \union {None}]
      /\ stray' \subseteq Boxes
  BY <1>1 DEF IInv, TypeOK, cleanupSandbox
<1>3. \A t \in Sessions \ {s} : box[t] # None => owner'[box[t]] = owner[box[t]]
  BY <1>1 DEF IInv, SessionInv, OneInv, BoxInv, TypeOK, cleanupSandbox
<1>4. NoOrphanContainer'
  <2> SUFFICES ASSUME phase \in {"loop", "up"}, NEW b \in Boxes, owner'[b] # None
               PROVE  b \in stray' \/ box'[owner'[b]] = b
    BY DEF NoOrphanContainer, Existing
  <2>1. b \in stray \/ box[owner[b]] = b
    BY DEF IInv, NoOrphanContainer, Existing, cleanupSandbox, TypeOK
  <2>2. owner'[b] = owner[b] /\ owner[b] \in Sessions
    BY DEF cleanupSandbox, IInv, TypeOK
  <2>3. CASE b = box[s]
    BY <2>3, <1>1, <2>2, BootstrapAssumption DEF cleanupSandbox, IInv, TypeOK
  <2>4. CASE b # box[s]
    BY <2>4, <2>1, <2>2, <1>2 DEF cleanupSandbox, IInv, TypeOK
  <2> QED BY <2>3, <2>4
<1> QED BY <1>2, <1>3, <1>4 DEF Cleaned

(* A step that leaves containers alone keeps NoOrphanContainer. *)
LEMMA SameBoxes ==
  ASSUME NoOrphanContainer, UNCHANGED boxVars,
         phase' \in {"loop", "up"} => phase \in {"loop", "up"}
  PROVE  NoOrphanContainer'
BY DEF NoOrphanContainer, Existing, boxVars

(* The initial state satisfies the invariant. *)
LEMMA InitIInv == Init => IInv
BY BootstrapAssumption
DEF Init, IInv, TypeOK, PhaseInv, SessionInv, OneInv, JobInv, BoxInv, RowInv, LoopInv,
    AttendedInv, NoOrphanContainer, Existing, Phases, Jobs, HalfDone, WithBox,
    SessionStatus, Live, Terminal

(* What a step of one session must leave alone for the others. *)
Untouched(t) ==
  /\ job'[t] = job[t] /\ status'[t] = status[t] /\ row'[t] = row[t] /\ box'[t] = box[t]
  /\ box[t] # None => owner'[box[t]] = owner[box[t]]
  /\ t \in todo' <=> t \in todo
  /\ cur' = t <=> cur = t
  /\ t \in unsent' <=> t \in unsent

(* One session moves, the others are untouched: they keep their invariant. *)
LEMMA OthersKeep ==
  ASSUME SessionInv, NEW s \in Sessions, OneInv(s)', \A t \in Sessions \ {s} : Untouched(t)
  PROVE  SessionInv'
BY DEF SessionInv, OneInv, JobInv, BoxInv, RowInv, LoopInv, AttendedInv, Untouched

(* The loop over the recovered sessions keeps the invariant. *)
LEMMA LoopStep ==
  ASSUME IInv, NEW s \in Sessions, Loop(s)
  PROVE  IInv'
<1> USE DEF IInv, TypeOK, procVars, rowVars, boxVars
<1>1. CASE FailIncomplete(s)
  <2>1. Moved(s, "FAILED")
    BY <1>1, TransitionEffect DEF FailIncomplete, Visit, SessionStatus, Live, Terminal
  <2>2. TypeOK'
    BY <1>1, <2>1 DEF FailIncomplete, Visit, Moved, Phases, Jobs
  <2>3. PhaseInv'
    BY <1>1, <2>1 DEF FailIncomplete, Visit, Moved, PhaseInv, SessionInv, OneInv, JobInv
  <2>4. \A t \in Sessions \ {s} : Untouched(t)
    BY <1>1, <2>1, BootstrapAssumption DEF FailIncomplete, Visit, Moved, Untouched
  <2>5. OneInv(s)'
    BY <1>1, <2>1, BootstrapAssumption
    DEF FailIncomplete, Visit, Moved, PhaseInv, SessionInv, OneInv, JobInv, BoxInv,
        RowInv, LoopInv, AttendedInv, HalfDone, WithBox, Live, Terminal
  <2>6. NoOrphanContainer'
    BY <1>1, SameBoxes DEF FailIncomplete, Visit
  <2> QED BY <2>2, <2>3, <2>4, <2>5, <2>6, OthersKeep
<1>2. CASE FailStale(s)
  <2>1. Moved(s, "FAILED")
    BY <1>2, TransitionEffect DEF FailStale, Visit, SessionStatus, Live, Terminal
  <2>2. TypeOK'
    BY <1>2, <2>1 DEF FailStale, Visit, Moved, Phases, Jobs
  <2>3. PhaseInv'
    BY <1>2, <2>1 DEF FailStale, Visit, Moved, PhaseInv, SessionInv, OneInv, JobInv
  <2>4. \A t \in Sessions \ {s} : Untouched(t)
    BY <1>2, <2>1, BootstrapAssumption DEF FailStale, Visit, Moved, Untouched
  <2>5. OneInv(s)'
    BY <1>2, <2>1, BootstrapAssumption
    DEF FailStale, Visit, Moved, PhaseInv, SessionInv, OneInv, JobInv, BoxInv, RowInv,
        LoopInv, AttendedInv, HalfDone, WithBox, Live, Terminal
  <2>6. NoOrphanContainer'
    BY <1>2, SameBoxes DEF FailStale, Visit
  <2> QED BY <2>2, <2>3, <2>4, <2>5, <2>6, OthersKeep
<1>3. CASE ResumeSession(s)
  <2>1. TypeOK'
    BY <1>3 DEF ResumeSession, Visit, Phases, Jobs
  <2>2. PhaseInv'
    BY <1>3 DEF ResumeSession, Visit, PhaseInv, SessionInv, OneInv, JobInv
  <2>3. \A t \in Sessions \ {s} : Untouched(t)
    BY <1>3, BootstrapAssumption DEF ResumeSession, Visit, Untouched
  <2>4. OneInv(s)'
    <3>1. CASE HasRoom
      <4>1. /\ job[s] = "none" /\ box[s] = None /\ status[s] = "RUNNING"
            /\ row[s] \notin Terminal /\ row[s] # Absent
        BY <1>3
        DEF ResumeSession, Visit, IInv, SessionInv, OneInv, JobInv, BoxInv, RowInv,
            LoopInv, AttendedInv, HalfDone, WithBox, Live, Terminal
      <4>2. /\ job'[s] = "allocated" /\ box'[s] = None /\ status'[s] = "RUNNING"
            /\ row'[s] = row[s] /\ cur' = s /\ s \notin todo'
        BY <1>3, <3>1, <4>1 DEF ResumeSession, Visit, rowVars, boxVars, IInv, TypeOK
      <4> QED BY <4>1, <4>2 DEF OneInv, JobInv, BoxInv, RowInv, LoopInv, AttendedInv,
             HalfDone, WithBox, Live, Terminal
    <3>2. CASE ~HasRoom
      BY <1>3, <3>2, BootstrapAssumption
      DEF ResumeSession, Visit, PhaseInv, SessionInv, OneInv, JobInv, BoxInv, RowInv,
          LoopInv, AttendedInv, HalfDone, WithBox, Live, Terminal
    <3> QED BY <3>1, <3>2
  <2>5. NoOrphanContainer'
    BY <1>3, SameBoxes DEF ResumeSession, Visit
  <2> QED BY <2>1, <2>2, <2>3, <2>4, <2>5, OthersKeep
<1>4. CASE CancelApproval(s)
  <2>1. Moved(s, "CANCELLING")
    BY <1>4, TransitionEffect DEF CancelApproval, Visit, SessionStatus, Live, Terminal
  <2>2. TypeOK'
    BY <1>4, <2>1 DEF CancelApproval, Visit, Moved, Phases, Jobs
  <2>3. PhaseInv'
    BY <1>4, <2>1 DEF CancelApproval, Visit, Moved, PhaseInv, SessionInv, OneInv, JobInv
  <2>4. \A t \in Sessions \ {s} : Untouched(t)
    BY <1>4, <2>1, BootstrapAssumption DEF CancelApproval, Visit, Moved, Untouched
  <2>5. OneInv(s)'
    BY <1>4, <2>1, BootstrapAssumption
    DEF CancelApproval, Visit, Moved, PhaseInv, SessionInv, OneInv, JobInv, BoxInv,
        RowInv, LoopInv, AttendedInv, HalfDone, WithBox, Live, Terminal
  <2>6. NoOrphanContainer'
    BY <1>4, SameBoxes DEF CancelApproval, Visit
  <2> QED BY <2>2, <2>3, <2>4, <2>5, <2>6, OthersKeep
<1>5. CASE CancelApprovalFails(s)
  <2>1. Moved(s, "FAILED")
    BY <1>5, TransitionEffect DEF CancelApprovalFails, SessionStatus, Live, Terminal
  <2>2. TypeOK'
    BY <1>5, <2>1 DEF CancelApprovalFails, Moved, Phases, Jobs
  <2>3. PhaseInv'
    BY <1>5, <2>1 DEF CancelApprovalFails, Moved, PhaseInv, SessionInv, OneInv, JobInv
  <2>4. \A t \in Sessions \ {s} : Untouched(t)
    BY <1>5, <2>1, BootstrapAssumption DEF CancelApprovalFails, Moved, Untouched
  <2>5. OneInv(s)'
    BY <1>5, <2>1, BootstrapAssumption
    DEF CancelApprovalFails, Moved, PhaseInv, SessionInv, OneInv, JobInv, BoxInv,
        RowInv, LoopInv, AttendedInv, HalfDone, WithBox, Live, Terminal
  <2>6. NoOrphanContainer'
    BY <1>5, SameBoxes DEF CancelApprovalFails
  <2> QED BY <2>2, <2>3, <2>4, <2>5, <2>6, OthersKeep
<1>6. CASE LeaveCreated(s)
  <2>1. TypeOK'
    BY <1>6 DEF LeaveCreated, Visit, Phases, Jobs
  <2>2. PhaseInv'
    BY <1>6 DEF LeaveCreated, Visit, PhaseInv, SessionInv, OneInv, JobInv
  <2>3. \A t \in Sessions \ {s} : Untouched(t)
    BY <1>6, BootstrapAssumption DEF LeaveCreated, Visit, Untouched
  <2>4. OneInv(s)'
    BY <1>6, BootstrapAssumption
    DEF LeaveCreated, Visit, PhaseInv, SessionInv, OneInv, JobInv, BoxInv, RowInv,
        LoopInv, AttendedInv, HalfDone, WithBox, Live, Terminal
  <2>5. NoOrphanContainer'
    BY <1>6, SameBoxes DEF LeaveCreated, Visit
  <2> QED BY <2>1, <2>2, <2>3, <2>4, <2>5, OthersKeep
<1> QED BY <1>1, <1>2, <1>3, <1>4, <1>5, <1>6 DEF Loop

(* The coordinator's work on a session keeps the invariant. *)
LEMMA WorkStep ==
  ASSUME IInv, NEW s \in Sessions, Work(s) \/ SubmitTask(s)
  PROVE  IInv'
<1> USE DEF IInv, TypeOK, procVars, rowVars, boxVars
<1>1. CASE SubmitTask(s)
  <2>1. fresh' \in [Sessions -> BOOLEAN]
    BY <1>1, Zenon DEF SubmitTask, IInv, TypeOK
  <2>2. TypeOK'
    BY <1>1, <2>1 DEF SubmitTask, Phases, Jobs, SessionStatus, Live
  <2>3. PhaseInv'
    BY <1>1 DEF SubmitTask, PhaseInv, SessionInv, OneInv, JobInv
  <2>4. \A t \in Sessions \ {s} : Untouched(t)
    BY <1>1, BootstrapAssumption DEF SubmitTask, Untouched
  <2>5. OneInv(s)'
    BY <1>1, BootstrapAssumption
    DEF SubmitTask, PhaseInv, SessionInv, OneInv, JobInv, BoxInv, RowInv, LoopInv,
        AttendedInv, HalfDone, WithBox, Live, Terminal
  <2>6. NoOrphanContainer'
    BY <1>1, SameBoxes DEF SubmitTask
  <2> QED BY <2>2, <2>3, <2>4, <2>5, <2>6, OthersKeep
<1>2. CASE startTask(s)
  <2>1. TypeOK'
    BY <1>2 DEF startTask, Goto, Phases, Jobs
  <2>2. PhaseInv'
    BY <1>2 DEF startTask, Goto, PhaseInv, SessionInv, OneInv, JobInv
  <2>3. \A t \in Sessions \ {s} : Untouched(t)
    BY <1>2, BootstrapAssumption DEF startTask, Goto, Untouched
  <2>4. OneInv(s)'
    BY <1>2, BootstrapAssumption
    DEF startTask, Goto, PhaseInv, SessionInv, OneInv, JobInv, BoxInv, RowInv, LoopInv,
        AttendedInv, HalfDone, WithBox, Live, Terminal
  <2>5. NoOrphanContainer'
    BY <1>2, SameBoxes DEF startTask, Goto
  <2> QED BY <2>1, <2>2, <2>3, <2>4, <2>5, OthersKeep
<1>3. CASE Allocate(s)
  <2>1. Moved(s, "ALLOCATING")
    BY <1>3, TransitionEffect DEF Allocate, Goto, SessionStatus, Live, Terminal
  <2>2. TypeOK'
    BY <1>3, <2>1 DEF Allocate, Goto, Moved, Phases, Jobs
  <2>3. PhaseInv'
    BY <1>3, <2>1 DEF Allocate, Goto, Moved, PhaseInv, SessionInv, OneInv, JobInv
  <2>4. \A t \in Sessions \ {s} : Untouched(t)
    BY <1>3, <2>1, BootstrapAssumption DEF Allocate, Goto, Moved, Untouched
  <2>5. OneInv(s)'
    BY <1>3, <2>1, BootstrapAssumption
    DEF Allocate, Goto, Moved, PhaseInv, SessionInv, OneInv, JobInv, BoxInv, RowInv,
        LoopInv, AttendedInv, HalfDone, WithBox, Live, Terminal
  <2>6. NoOrphanContainer'
    BY <1>3, SameBoxes DEF Allocate, Goto
  <2> QED BY <2>2, <2>3, <2>4, <2>5, <2>6, OthersKeep
<1>4. CASE Launch(s)
  <2>1. TypeOK'
    BY <1>4 DEF Launch, Goto, Resumed, Phases, Jobs
  <2>2. PhaseInv'
    BY <1>4 DEF Launch, Goto, Resumed, PhaseInv, SessionInv, OneInv, JobInv
  <2>3. \A t \in Sessions \ {s} : Untouched(t)
    BY <1>4, BootstrapAssumption DEF Launch, Goto, Resumed, Untouched
  <2>4. OneInv(s)'
    BY <1>4, BootstrapAssumption
    DEF Launch, Goto, Resumed, PhaseInv, SessionInv, OneInv, JobInv, BoxInv, RowInv,
        LoopInv, AttendedInv, HalfDone, WithBox, Live, Terminal
  <2>5. NoOrphanContainer'
    BY <1>4, SameBoxes DEF Launch, Goto, Resumed
  <2> QED BY <2>1, <2>2, <2>3, <2>4, <2>5, OthersKeep
<1>5. CASE ToolsUnavailable(s)
  <2>1. Moved(s, "FAILED")
    BY <1>5, TransitionEffect
    DEF ToolsUnavailable, Goto, Resumed, SessionStatus, Live, Terminal
  <2>2. TypeOK'
    BY <1>5, <2>1 DEF ToolsUnavailable, Goto, Resumed, Moved, Phases, Jobs
  <2>3. PhaseInv'
    BY <1>5, <2>1
    DEF ToolsUnavailable, Goto, Resumed, Moved, PhaseInv, SessionInv, OneInv, JobInv
  <2>4. \A t \in Sessions \ {s} : Untouched(t)
    BY <1>5, <2>1, BootstrapAssumption
    DEF ToolsUnavailable, Goto, Resumed, Moved, Untouched
  <2>5. OneInv(s)'
    BY <1>5, <2>1, BootstrapAssumption
    DEF ToolsUnavailable, Goto, Resumed, Moved, PhaseInv, SessionInv, OneInv, JobInv,
        BoxInv, RowInv, LoopInv, AttendedInv, HalfDone, WithBox, Live, Terminal
  <2>6. NoOrphanContainer'
    BY <1>5, SameBoxes DEF ToolsUnavailable, Goto, Resumed
  <2> QED BY <2>2, <2>3, <2>4, <2>5, <2>6, OthersKeep
<1>6. CASE PrepareFails(s)
  <2>1. Moved(s, "FAILED")
    BY <1>6, TransitionEffect
    DEF PrepareFails, Goto, Return, SessionStatus, Live, Terminal
  <2>2. TypeOK'
    BY <1>6, <2>1 DEF PrepareFails, Goto, Return, Moved, Phases, Jobs
  <2>3. PhaseInv'
    BY <1>6, <2>1
    DEF PrepareFails, Goto, Return, Moved, PhaseInv, SessionInv, OneInv, JobInv
  <2>4. \A t \in Sessions \ {s} : Untouched(t)
    BY <1>6, <2>1, BootstrapAssumption DEF PrepareFails, Goto, Return, Moved, Untouched
  <2>5. OneInv(s)'
    BY <1>6, <2>1, BootstrapAssumption
    DEF PrepareFails, Goto, Return, Moved, PhaseInv, SessionInv, OneInv, JobInv, BoxInv,
        RowInv, LoopInv, AttendedInv, HalfDone, WithBox, Live, Terminal
  <2>6. NoOrphanContainer'
    BY <1>6, SameBoxes DEF PrepareFails, Goto, Return
  <2> QED BY <2>2, <2>3, <2>4, <2>5, <2>6, OthersKeep
<1>7. CASE AgentSucceeds(s)
  <2>1. TypeOK'
    BY <1>7 DEF AgentSucceeds, Goto, Phases, Jobs
  <2>2. PhaseInv'
    BY <1>7 DEF AgentSucceeds, Goto, PhaseInv, SessionInv, OneInv, JobInv
  <2>3. \A t \in Sessions \ {s} : Untouched(t)
    BY <1>7, BootstrapAssumption DEF AgentSucceeds, Goto, Untouched
  <2>4. OneInv(s)'
    BY <1>7, BootstrapAssumption
    DEF AgentSucceeds, Goto, PhaseInv, SessionInv, OneInv, JobInv, BoxInv, RowInv,
        LoopInv, AttendedInv, HalfDone, WithBox, Live, Terminal
  <2>5. NoOrphanContainer'
    BY <1>7, SameBoxes DEF AgentSucceeds, Goto
  <2> QED BY <2>1, <2>2, <2>3, <2>4, <2>5, OthersKeep
<1>8. CASE RequestApproval(s)
  <2>1. Moved(s, "APPROVAL")
    BY <1>8, TransitionEffect DEF RequestApproval, Goto, SessionStatus, Live, Terminal
  <2>2. TypeOK'
    BY <1>8, <2>1 DEF RequestApproval, Goto, Moved, Phases, Jobs
  <2>3. PhaseInv'
    BY <1>8, <2>1 DEF RequestApproval, Goto, Moved, PhaseInv, SessionInv, OneInv, JobInv
  <2>4. \A t \in Sessions \ {s} : Untouched(t)
    BY <1>8, <2>1, BootstrapAssumption DEF RequestApproval, Goto, Moved, Untouched
  <2>5. OneInv(s)'
    BY <1>8, <2>1, BootstrapAssumption
    DEF RequestApproval, Goto, Moved, PhaseInv, SessionInv, OneInv, JobInv, BoxInv,
        RowInv, LoopInv, AttendedInv, HalfDone, WithBox, Live, Terminal
  <2>6. NoOrphanContainer'
    BY <1>8, SameBoxes DEF RequestApproval, Goto
  <2> QED BY <2>2, <2>3, <2>4, <2>5, <2>6, OthersKeep
<1>9. CASE ApprovalGranted(s)
  <2>1. TypeOK'
    BY <1>9 DEF ApprovalGranted, Goto, Phases, Jobs
  <2>2. PhaseInv'
    BY <1>9 DEF ApprovalGranted, Goto, PhaseInv, SessionInv, OneInv, JobInv
  <2>3. \A t \in Sessions \ {s} : Untouched(t)
    BY <1>9, BootstrapAssumption DEF ApprovalGranted, Goto, Untouched
  <2>4. OneInv(s)'
    BY <1>9, BootstrapAssumption
    DEF ApprovalGranted, Goto, PhaseInv, SessionInv, OneInv, JobInv, BoxInv, RowInv,
        LoopInv, AttendedInv, HalfDone, WithBox, Live, Terminal
  <2>5. NoOrphanContainer'
    BY <1>9, SameBoxes DEF ApprovalGranted, Goto
  <2> QED BY <2>1, <2>2, <2>3, <2>4, <2>5, OthersKeep
<1>10. CASE LeaveApproval(s)
  <2>1. Moved(s, "RUNNING")
    BY <1>10, TransitionEffect DEF LeaveApproval, Goto, SessionStatus, Live, Terminal
  <2>2. TypeOK'
    BY <1>10, <2>1 DEF LeaveApproval, Goto, Moved, Phases, Jobs
  <2>3. PhaseInv'
    BY <1>10, <2>1 DEF LeaveApproval, Goto, Moved, PhaseInv, SessionInv, OneInv, JobInv
  <2>4. \A t \in Sessions \ {s} : Untouched(t)
    BY <1>10, <2>1, BootstrapAssumption DEF LeaveApproval, Goto, Moved, Untouched
  <2>5. OneInv(s)'
    BY <1>10, <2>1, BootstrapAssumption
    DEF LeaveApproval, Goto, Moved, PhaseInv, SessionInv, OneInv, JobInv, BoxInv,
        RowInv, LoopInv, AttendedInv, HalfDone, WithBox, Live, Terminal
  <2>6. NoOrphanContainer'
    BY <1>10, SameBoxes DEF LeaveApproval, Goto
  <2> QED BY <2>2, <2>3, <2>4, <2>5, <2>6, OthersKeep
<1>11. CASE Complete(s)
  <2>1. Moved(s, "COMPLETED")
    BY <1>11, TransitionEffect DEF Complete, Goto, Return, SessionStatus, Live, Terminal
  <2>2. Cleaned(s)
    BY <1>11, CleanupEffect DEF Complete, Goto, Return, WithBox
  <2>3. TypeOK'
    BY <1>11, <2>1, <2>2 DEF Complete, Goto, Return, Moved, Cleaned, Phases, Jobs
  <2>4. PhaseInv'
    BY <1>11, <2>1, <2>2
    DEF Complete, Goto, Return, Moved, Cleaned, PhaseInv, SessionInv, OneInv, JobInv
  <2>5. \A t \in Sessions \ {s} : Untouched(t)
    BY <1>11, <2>1, <2>2, BootstrapAssumption
    DEF Complete, Goto, Return, Moved, Cleaned, Untouched
  <2>6. OneInv(s)'
    BY <1>11, <2>1, <2>2, BootstrapAssumption
    DEF Complete, Goto, Return, Moved, Cleaned, PhaseInv, SessionInv, OneInv, JobInv,
        BoxInv, RowInv, LoopInv, AttendedInv, HalfDone, WithBox, Live, Terminal
  <2>7. NoOrphanContainer'
    BY <2>2 DEF Cleaned
  <2> QED BY <2>3, <2>4, <2>5, <2>6, <2>7, OthersKeep
<1>12. CASE AgentFails(s)
  <2>1. Moved(s, "FAILED")
    BY <1>12, TransitionEffect
    DEF AgentFails, Goto, Return, SessionStatus, Live, Terminal
  <2>2. Cleaned(s)
    BY <1>12, CleanupEffect DEF AgentFails, Goto, Return, WithBox
  <2>3. TypeOK'
    BY <1>12, <2>1, <2>2 DEF AgentFails, Goto, Return, Moved, Cleaned, Phases, Jobs
  <2>4. PhaseInv'
    BY <1>12, <2>1, <2>2
    DEF AgentFails, Goto, Return, Moved, Cleaned, PhaseInv, SessionInv, OneInv, JobInv
  <2>5. \A t \in Sessions \ {s} : Untouched(t)
    BY <1>12, <2>1, <2>2, BootstrapAssumption
    DEF AgentFails, Goto, Return, Moved, Cleaned, Untouched
  <2>6. OneInv(s)'
    BY <1>12, <2>1, <2>2, BootstrapAssumption
    DEF AgentFails, Goto, Return, Moved, Cleaned, PhaseInv, SessionInv, OneInv, JobInv,
        BoxInv, RowInv, LoopInv, AttendedInv, HalfDone, WithBox, Live, Terminal
  <2>7. NoOrphanContainer'
    BY <2>2 DEF Cleaned
  <2> QED BY <2>3, <2>4, <2>5, <2>6, <2>7, OthersKeep
<1>13. CASE Retry(s)
  <2>1. Cleaned(s)
    BY <1>13, CleanupEffect DEF Retry, Goto, WithBox
  <2>2. TypeOK'
    BY <1>13, <2>1 DEF Retry, Goto, Cleaned, Phases, Jobs
  <2>3. PhaseInv'
    BY <1>13, <2>1 DEF Retry, Goto, Cleaned, PhaseInv, SessionInv, OneInv, JobInv
  <2>4. \A t \in Sessions \ {s} : Untouched(t)
    BY <1>13, <2>1, BootstrapAssumption DEF Retry, Goto, Cleaned, Untouched
  <2>5. OneInv(s)'
    BY <1>13, <2>1, BootstrapAssumption
    DEF Retry, Goto, Cleaned, PhaseInv, SessionInv, OneInv, JobInv, BoxInv, RowInv,
        LoopInv, AttendedInv, HalfDone, WithBox, Live, Terminal
  <2>6. NoOrphanContainer'
    BY <2>1 DEF Cleaned
  <2> QED BY <2>2, <2>3, <2>4, <2>5, <2>6, OthersKeep
<1>14. CASE StartAgent(s)
  <2>1. CASE StartAgent(s) /\ status[s] = "RUNNING"
    <3>1. TypeOK'
      BY <2>1 DEF StartAgent, Goto, Phases, Jobs
    <3>2. PhaseInv'
      BY <2>1 DEF StartAgent, Goto, PhaseInv, SessionInv, OneInv, JobInv
    <3>3. \A t \in Sessions \ {s} : Untouched(t)
      BY <2>1, BootstrapAssumption DEF StartAgent, Goto, Untouched
    <3>4. OneInv(s)'
      BY <2>1, BootstrapAssumption
      DEF StartAgent, Goto, PhaseInv, SessionInv, OneInv, JobInv, BoxInv, RowInv,
          LoopInv, AttendedInv, HalfDone, WithBox, Live, Terminal
    <3>5. NoOrphanContainer'
      BY <2>1, SameBoxes DEF StartAgent, Goto
    <3> QED BY <3>1, <3>2, <3>3, <3>4, <3>5, OthersKeep
  <2>2. CASE StartAgent(s) /\ status[s] # "RUNNING"
    <3>1. Moved(s, "RUNNING")
      BY <2>2, TransitionEffect DEF StartAgent, Goto, SessionStatus, Live, Terminal
    <3>2. TypeOK'
      BY <2>2, <3>1 DEF StartAgent, Goto, Moved, Phases, Jobs
    <3>3. PhaseInv'
      BY <2>2, <3>1 DEF StartAgent, Goto, Moved, PhaseInv, SessionInv, OneInv, JobInv
    <3>4. \A t \in Sessions \ {s} : Untouched(t)
      BY <2>2, <3>1, BootstrapAssumption DEF StartAgent, Goto, Moved, Untouched
    <3>5. OneInv(s)'
      BY <2>2, <3>1, BootstrapAssumption
      DEF StartAgent, Goto, Moved, PhaseInv, SessionInv, OneInv, JobInv, BoxInv, RowInv,
          LoopInv, AttendedInv, HalfDone, WithBox, Live, Terminal
    <3>6. NoOrphanContainer'
      BY <2>2, SameBoxes DEF StartAgent, Goto
    <3> QED BY <3>2, <3>3, <3>4, <3>5, <3>6, OthersKeep
  <2> QED BY <1>14, <2>1, <2>2
<1>15. CASE EventLost(s)
  <2>1. CASE EventLost(s) /\ job[s] = "admitted"
    <3>1. Moved(s, "ALLOCATING")
      BY <2>1, TransitionEffect
      DEF EventLost, Target, Goto, Return, SessionStatus, Live, Terminal
    <3>2. TypeOK'
      BY <2>1, <3>1 DEF EventLost, Target, Goto, Return, Moved, Phases, Jobs
    <3>3. PhaseInv'
      BY <2>1, <3>1
      DEF EventLost, Target, Goto, Return, Moved, PhaseInv, SessionInv, OneInv, JobInv
    <3>4. \A t \in Sessions \ {s} : Untouched(t)
      BY <2>1, <3>1, BootstrapAssumption
      DEF EventLost, Target, Goto, Return, Moved, Untouched
    <3>5. OneInv(s)'
      BY <2>1, <3>1, BootstrapAssumption
      DEF EventLost, Target, Goto, Return, Moved, PhaseInv, SessionInv, OneInv, JobInv,
          BoxInv, RowInv, LoopInv, AttendedInv, HalfDone, WithBox, Live, Terminal
    <3>6. NoOrphanContainer'
      BY <2>1, SameBoxes DEF EventLost, Target, Goto, Return
    <3> QED BY <3>2, <3>3, <3>4, <3>5, <3>6, OthersKeep
  <2>2. CASE EventLost(s) /\ job[s] = "boxed"
    <3>1. Moved(s, "RUNNING")
      BY <2>2, TransitionEffect
      DEF EventLost, Target, Goto, Return, SessionStatus, Live, Terminal
    <3>2. Cleaned(s)
      BY <2>2, CleanupEffect DEF EventLost, Target, Goto, Return, WithBox
    <3>3. TypeOK'
      BY <2>2, <3>1, <3>2
      DEF EventLost, Target, Goto, Return, Moved, Cleaned, Phases, Jobs
    <3>4. PhaseInv'
      BY <2>2, <3>1, <3>2
      DEF EventLost, Target, Goto, Return, Moved, Cleaned, PhaseInv, SessionInv, OneInv,
          JobInv
    <3>5. \A t \in Sessions \ {s} : Untouched(t)
      BY <2>2, <3>1, <3>2, BootstrapAssumption
      DEF EventLost, Target, Goto, Return, Moved, Cleaned, Untouched
    <3>6. OneInv(s)'
      BY <2>2, <3>1, <3>2, BootstrapAssumption
      DEF EventLost, Target, Goto, Return, Moved, Cleaned, PhaseInv, SessionInv, OneInv,
          JobInv, BoxInv, RowInv, LoopInv, AttendedInv, HalfDone, WithBox, Live,
          Terminal
    <3>7. NoOrphanContainer'
      BY <3>2 DEF Cleaned
    <3> QED BY <3>3, <3>4, <3>5, <3>6, <3>7, OthersKeep
  <2>3. CASE EventLost(s) /\ job[s] = "gating"
    <3>1. Moved(s, "APPROVAL")
      BY <2>3, TransitionEffect
      DEF EventLost, Target, Goto, Return, SessionStatus, Live, Terminal
    <3>2. Cleaned(s)
      BY <2>3, CleanupEffect DEF EventLost, Target, Goto, Return, WithBox
    <3>3. TypeOK'
      BY <2>3, <3>1, <3>2
      DEF EventLost, Target, Goto, Return, Moved, Cleaned, Phases, Jobs
    <3>4. PhaseInv'
      BY <2>3, <3>1, <3>2
      DEF EventLost, Target, Goto, Return, Moved, Cleaned, PhaseInv, SessionInv, OneInv,
          JobInv
    <3>5. \A t \in Sessions \ {s} : Untouched(t)
      BY <2>3, <3>1, <3>2, BootstrapAssumption
      DEF EventLost, Target, Goto, Return, Moved, Cleaned, Untouched
    <3>6. OneInv(s)'
      BY <2>3, <3>1, <3>2, BootstrapAssumption
      DEF EventLost, Target, Goto, Return, Moved, Cleaned, PhaseInv, SessionInv, OneInv,
          JobInv, BoxInv, RowInv, LoopInv, AttendedInv, HalfDone, WithBox, Live,
          Terminal
    <3>7. NoOrphanContainer'
      BY <3>2 DEF Cleaned
    <3> QED BY <3>3, <3>4, <3>5, <3>6, <3>7, OthersKeep
  <2>4. CASE EventLost(s) /\ job[s] = "approved"
    <3>1. Moved(s, "RUNNING")
      BY <2>4, TransitionEffect
      DEF EventLost, Target, Goto, Return, SessionStatus, Live, Terminal
    <3>2. Cleaned(s)
      BY <2>4, CleanupEffect DEF EventLost, Target, Goto, Return, WithBox
    <3>3. TypeOK'
      BY <2>4, <3>1, <3>2
      DEF EventLost, Target, Goto, Return, Moved, Cleaned, Phases, Jobs
    <3>4. PhaseInv'
      BY <2>4, <3>1, <3>2
      DEF EventLost, Target, Goto, Return, Moved, Cleaned, PhaseInv, SessionInv, OneInv,
          JobInv
    <3>5. \A t \in Sessions \ {s} : Untouched(t)
      BY <2>4, <3>1, <3>2, BootstrapAssumption
      DEF EventLost, Target, Goto, Return, Moved, Cleaned, Untouched
    <3>6. OneInv(s)'
      BY <2>4, <3>1, <3>2, BootstrapAssumption
      DEF EventLost, Target, Goto, Return, Moved, Cleaned, PhaseInv, SessionInv, OneInv,
          JobInv, BoxInv, RowInv, LoopInv, AttendedInv, HalfDone, WithBox, Live,
          Terminal
    <3>7. NoOrphanContainer'
      BY <3>2 DEF Cleaned
    <3> QED BY <3>3, <3>4, <3>5, <3>6, <3>7, OthersKeep
  <2> QED BY <1>15, <2>1, <2>2, <2>3, <2>4 DEF EventLost
<1>16. CASE Provision(s)
  <2> PICK b \in Boxes \ Existing :
              /\ owner' = [owner EXCEPT ![b] = s]
              /\ box' = [box EXCEPT ![s] = b]
    BY <1>16 DEF Provision
  <2>1. owner[b] = None /\ box[s] = None
    BY <1>16 DEF Provision, Existing, IInv, SessionInv, OneInv, BoxInv, WithBox
  <2>2. TypeOK'
    BY <1>16 DEF Provision, Goto, Phases, Jobs
  <2>3. PhaseInv'
    BY <1>16 DEF Provision, Goto, PhaseInv
  <2>4. \A t \in Sessions \ {s} : Untouched(t)
    BY <1>16, <2>1, BootstrapAssumption
    DEF Provision, Goto, SessionInv, OneInv, BoxInv, Untouched
  <2>5. OneInv(s)'
    BY <1>16, <2>1, BootstrapAssumption
    DEF Provision, Goto, PhaseInv, SessionInv, OneInv, JobInv, BoxInv, RowInv, LoopInv,
        AttendedInv, HalfDone, WithBox, Live, Terminal
  <2>6. NoOrphanContainer'
    <3> SUFFICES ASSUME phase \in {"loop", "up"}, NEW c \in Boxes, owner'[c] # None
                 PROVE  c \in stray' \/ box'[owner'[c]] = c
      BY <1>16 DEF Provision, procVars, NoOrphanContainer, Existing
    <3>1. CASE c = b
      BY <3>1 DEF IInv, TypeOK
    <3>2. CASE c # b
      <4>1. owner'[c] = owner[c] /\ owner[c] \in Sessions
        BY <3>2 DEF IInv, TypeOK
      <4>2. c \in stray \/ box[owner[c]] = c
        BY <4>1, BootstrapAssumption DEF IInv, NoOrphanContainer, Existing
      <4> QED BY <1>16, <2>1, <4>1, <4>2, BootstrapAssumption DEF Provision, IInv,
             TypeOK
    <3> QED BY <3>1, <3>2
  <2> QED BY <2>2, <2>3, <2>4, <2>5, <2>6, OthersKeep DEF IInv
<1> QED BY <1>1, <1>2, <1>3, <1>4, <1>5, <1>6, <1>7, <1>8, <1>9, <1>10, <1>11, <1>12,
       <1>13, <1>14, <1>15, <1>16 DEF Work

(* Start-up, and the crash that makes it necessary, keep the invariant. *)
LEMMA StartStep ==
  ASSUME IInv, Start \/ Crash
  PROVE  IInv'
<1>1. CASE Recover
  <2>1. TypeOK'
    BY <1>1 DEF Recover, rowVars, boxVars, IInv, TypeOK, Phases, SessionStatus, Live
  <2>2. PhaseInv'
    BY <1>1 DEF Recover, IInv, PhaseInv
  <2>3. SessionInv'
    BY <1>1, BootstrapAssumption
    DEF Recover, rowVars, boxVars, IInv, TypeOK, PhaseInv, SessionInv, OneInv, JobInv,
        BoxInv, RowInv, LoopInv, AttendedInv, WithBox, HalfDone, SessionStatus, Live, Terminal
  <2>4. NoOrphanContainer'
    BY <1>1 DEF Recover, NoOrphanContainer
  <2> QED BY <2>1, <2>2, <2>3, <2>4 DEF IInv
<1>2. CASE ReapOrphanedContainers
  <2> PICK failed \in SUBSET Reaped :
        /\ owner' = [b \in Boxes |-> IF b \in Reaped \ failed THEN None ELSE owner[b]]
        /\ stray' = failed
    BY <1>2 DEF ReapOrphanedContainers
  <2>1. Reaped = Existing
    BY BootstrapAssumption DEF Reaped, Existing, IInv, TypeOK
  <2>2. TypeOK'
    BY <1>2 DEF ReapOrphanedContainers, rowVars, IInv, TypeOK, Phases, Reaped, Existing
  <2>3. PhaseInv'
    BY <1>2 DEF ReapOrphanedContainers, IInv, PhaseInv
  <2>4. SessionInv'
    BY <1>2
    DEF ReapOrphanedContainers, rowVars, IInv, PhaseInv, SessionInv, OneInv, JobInv,
        BoxInv, RowInv, LoopInv, AttendedInv, WithBox
  <2>5. NoOrphanContainer'
    BY <2>1 DEF NoOrphanContainer, Existing
  <2> QED BY <2>2, <2>3, <2>4, <2>5 DEF IInv
<1>3. CASE Up
  <2>1. TypeOK'
    BY <1>3 DEF Up, rowVars, boxVars, IInv, TypeOK, Phases
  <2>2. PhaseInv'
    BY <1>3 DEF Up, PhaseInv
  <2>3. SessionInv'
    BY <1>3
    DEF Up, rowVars, boxVars, IInv, SessionInv, OneInv, JobInv, BoxInv, RowInv, LoopInv,
        AttendedInv
  <2>4. NoOrphanContainer'
    BY <1>3, SameBoxes DEF Up, IInv
  <2> QED BY <2>1, <2>2, <2>3, <2>4 DEF IInv
<1>4. CASE Crash
  <2>1. TypeOK'
    BY <1>4 DEF Crash, rowVars, IInv, TypeOK, Phases, Jobs
  <2>2. PhaseInv'
    BY <1>4 DEF Crash, PhaseInv
  <2>3. SessionInv'
    BY <1>4, BootstrapAssumption
    DEF Crash, rowVars, SessionInv, OneInv, JobInv, BoxInv, RowInv, LoopInv,
        AttendedInv, WithBox, HalfDone
  <2>4. NoOrphanContainer'
    BY <1>4 DEF Crash, NoOrphanContainer
  <2> QED BY <2>1, <2>2, <2>3, <2>4 DEF IInv
<1> QED BY <1>1, <1>2, <1>3, <1>4 DEF Start

(* Time and heartbeats change nothing the invariant reads but their types. *)
LEMMA ClockStep ==
  ASSUME IInv, NEW s \in Sessions, TimePasses(s) \/ Heartbeat(s)
  PROVE  IInv'
<1>1. fresh' \in [Sessions -> BOOLEAN] /\ beat' \in [Sessions -> BOOLEAN]
  BY Zenon DEF IInv, TypeOK, TimePasses, Heartbeat, rowVars
<1>2. UNCHANGED <<row, procVars, status, job, active, boxVars, unsent>>
  BY DEF TimePasses, Heartbeat, rowVars
<1> QED
  BY <1>1, <1>2
  DEF IInv, TypeOK, PhaseInv, SessionInv, OneInv, JobInv, BoxInv, RowInv, LoopInv,
      AttendedInv, NoOrphanContainer, Existing, procVars, boxVars

(* The invariant is inductive. *)
LEMMA InvariantStep == IInv /\ [Next]_vars => IInv'
<1> SUFFICES ASSUME IInv, [Next]_vars PROVE IInv'
  OBVIOUS
<1>1. CASE UNCHANGED vars
  BY <1>1
  DEF vars, IInv, TypeOK, PhaseInv, SessionInv, OneInv, JobInv, BoxInv, RowInv, LoopInv,
      AttendedInv, NoOrphanContainer, Existing, procVars, boxVars, rowVars
<1>2. CASE Next
  BY <1>2, StartStep, LoopStep, WorkStep, ClockStep DEF Next
<1> QED BY <1>1, <1>2

(* Bootstrap's inductive invariant holds in every state. *)
THEOREM InvariantHolds == Spec => []IInv
BY InitIInv, InvariantStep, PTL DEF Spec

(* Type correctness. *)
THEOREM TypeCorrect == Spec => []TypeOK
<1>1. IInv => TypeOK
  BY DEF IInv
<1> QED BY <1>1, InvariantHolds, PTL

(***************************************************************************)
(* For every set of sessions, every schedule of crashes, including crashes *)
(* of the recovery itself, and every combination of faults: once Bootstrap *)
(* has returned, no session it did not announce losing is half done with   *)
(* nobody working on it.                                                   *)
(***************************************************************************)
THEOREM HalfDoneIsAttendedHolds == Spec => []HalfDoneIsAttended
<1>1. IInv => HalfDoneIsAttended
  BY BootstrapAssumption
  DEF IInv, PhaseInv, SessionInv, OneInv, AttendedInv, HalfDoneIsAttended
<1> QED BY <1>1, InvariantHolds, PTL

(* The reaper of ReapOrphanedContainers leaves no unknown container. *)
THEOREM NoOrphanContainerHolds == Spec => []NoOrphanContainer
<1>1. IInv => NoOrphanContainer
  BY DEF IInv
<1> QED BY <1>1, InvariantHolds, PTL

(* Only Provision gives a session a container, and no job runs on an ended row. *)
THEOREM TerminalNotRevivedHolds == Spec => TerminalNotRevived
<1>1. IInv /\ [Next]_vars =>
        [\A s \in Sessions : row[s] \in Terminal /\ box'[s] # box[s] => box'[s] = None]_vars
  <2> SUFFICES ASSUME IInv, [Next]_vars, NEW s \in Sessions, row[s] \in Terminal,
                      box'[s] # box[s]
               PROVE  box'[s] = None
    OBVIOUS
  <2>1. job[s] = "none" /\ box[s] = None
    BY
    DEF IInv, TypeOK, SessionInv, OneInv, JobInv, BoxInv, RowInv, WithBox, Terminal,
        Jobs
  <2>2. CASE Start \/ Crash
    BY <2>2
    DEF Start, Recover, ReapOrphanedContainers, Up, Crash, boxVars
  <2>3. ASSUME NEW t \in Sessions, Loop(t) \/ SubmitTask(t) \/ TimePasses(t) \/ Heartbeat(t)
        PROVE  box' = box
    BY <2>3
    DEF Loop, FailIncomplete, FailStale, ResumeSession, CancelApproval,
        CancelApprovalFails,
        LeaveCreated, SubmitTask, TimePasses, Heartbeat, boxVars
  <2>4. ASSUME NEW t \in Sessions, Work(t)
        PROVE  box'[s] = box[s]
    BY <2>4, <2>1
    DEF Work, startTask, Allocate, Launch, ToolsUnavailable, PrepareFails, Provision,
        StartAgent, AgentSucceeds, RequestApproval, ApprovalGranted, LeaveApproval,
        Complete, AgentFails, Retry, EventLost, cleanupSandbox, boxVars, IInv, TypeOK
  <2> QED BY <2>2, <2>3, <2>4 DEF Next, vars, boxVars
<1> QED BY <1>1, InvariantHolds, PTL DEF Spec, TerminalNotRevived

-----------------------------------------------------------------------------
(* What any step does to the rows and the map: nothing, or one of these. *)
Writes ==
  \/ \E s \in Sessions : \E to \in SessionStatus : Transition(s, to)
  \/ \E s \in Sessions : SubmitTask(s)
  \/ Recover
  \/ Crash
  \/ UNCHANGED <<row, status>>

(* Every handler's effect on rows and map is one Transition, or none. *)
LEMMA StepWrites == [Next]_vars => Writes
<1> SUFFICES ASSUME [Next]_vars PROVE Writes
  OBVIOUS
<1>0. {"ALLOCATING", "RUNNING", "APPROVAL", "CANCELLING", "COMPLETED", "FAILED"}
        \subseteq SessionStatus
  BY DEF SessionStatus, Live, Terminal
<1>1. ASSUME NEW s \in Sessions, Loop(s) PROVE Writes
  <2>1. CASE FailIncomplete(s) \/ FailStale(s) \/ CancelApproval(s) \/ CancelApprovalFails(s)
    BY <2>1, <1>0 DEF FailIncomplete, FailStale, CancelApproval, CancelApprovalFails, Writes
  <2>2. CASE ResumeSession(s) \/ LeaveCreated(s)
    BY <2>2 DEF ResumeSession, LeaveCreated, rowVars, Writes
  <2> QED BY <1>1, <2>1, <2>2 DEF Loop
<1>2. ASSUME NEW s \in Sessions, Work(s) PROVE Writes
  <2>1. CASE Allocate(s) \/ ToolsUnavailable(s) \/ PrepareFails(s) \/ RequestApproval(s)
             \/ LeaveApproval(s) \/ Complete(s) \/ AgentFails(s)
    BY <2>1, <1>0
    DEF Allocate, ToolsUnavailable, PrepareFails, RequestApproval, LeaveApproval, Complete,
        AgentFails, Writes
  <2>2. CASE StartAgent(s)
    BY <2>2, <1>0 DEF StartAgent, rowVars, Writes
  <2>3. CASE EventLost(s)
    <3>1. Target(job[s]) \in SessionStatus
      BY <2>3, <1>0 DEF EventLost, Target
    <3> QED BY <2>3, <3>1 DEF EventLost, Writes
  <2>4. CASE startTask(s) \/ Launch(s) \/ Provision(s) \/ AgentSucceeds(s)
             \/ ApprovalGranted(s) \/ Retry(s)
    BY <2>4
    DEF startTask, Launch, Provision, AgentSucceeds, ApprovalGranted, Retry, rowVars, Writes
  <2> QED BY <1>2, <2>1, <2>2, <2>3, <2>4 DEF Work
<1>3. CASE Start \/ Crash \/ UNCHANGED vars
  BY <1>3 DEF Start, ReapOrphanedContainers, Up, rowVars, vars, Writes
<1>4. ASSUME NEW s \in Sessions, SubmitTask(s) \/ TimePasses(s) \/ Heartbeat(s) PROVE Writes
  BY <1>4 DEF TimePasses, Heartbeat, rowVars, Writes
<1> QED BY <1>1, <1>2, <1>3, <1>4 DEF Next

(* Reaches follows the table. *)
LEMMA TableReaches ==
  /\ \A a : Reaches(a, a)
  /\ \A a, b, c : Reaches(a, b) /\ Allowed(b, c) => Reaches(a, c)
  /\ \A c \in SessionStatus : Reaches(Absent, c)
  /\ \A b, c : Allowed(b, c) => b # Absent /\ c # Absent
<1>1. ASSUME NEW b, NEW c, Allowed(b, c)
      PROVE  /\ b \in Live /\ c \in SessionStatus
             /\ b = "CREATED" => c \in {"ALLOCATING", "FAILED"}
             /\ b = "ALLOCATING" => c \in {"RUNNING", "FAILED"}
             /\ b = "RUNNING" => c \in {"APPROVAL", "COMPLETED", "CANCELLING", "FAILED"}
             /\ b = "APPROVAL" => c \in {"RUNNING", "CANCELLING", "FAILED"}
             /\ b = "CANCELLING" => c \in {"FAILED", "COMPLETED"}
  BY <1>1 DEF Allowed, validTransitions, SessionStatus, Live, Terminal
<1> QED BY <1>1 DEF Reaches, SessionStatus, Live, Terminal

(* A session in the map is at or after its row: lost UPDATEs leave rows behind. *)
RowsBehind == \A s \in Sessions : status[s] = Absent \/ Reaches(row[s], status[s])

(* A row takes the value the map moves to, or stays behind. *)
LEMMA RowsBehindStep ==
  ASSUME TypeOK, RowsBehind, [Next]_vars
  PROVE  RowsBehind' /\ \A s \in Sessions : Reaches(row[s], row'[s])
<1> USE DEF TypeOK
<1>1. ASSUME NEW s \in Sessions, NEW to \in SessionStatus, Transition(s, to)
      PROVE  RowsBehind' /\ \A t \in Sessions : Reaches(row[t], row'[t])
  <2>1. Reaches(row[s], to)
    BY <1>1, TableReaches DEF Transition, RowsBehind
  <2>2. Moved(s, to)
    BY <1>1, TransitionEffect
  <2> QED BY <2>1, <2>2, TableReaches DEF Moved, RowsBehind
<1>2. ASSUME NEW s \in Sessions, SubmitTask(s)
      PROVE  RowsBehind' /\ \A t \in Sessions : Reaches(row[t], row'[t])
  <2>1. "CREATED" \in SessionStatus
    BY DEF SessionStatus, Live
  <2> QED BY <1>2, <2>1, TableReaches DEF SubmitTask, RowsBehind
<1>3. CASE Recover \/ Crash
  BY <1>3, TableReaches DEF Recover, Crash, rowVars, RowsBehind
<1>4. CASE UNCHANGED <<row, status>>
  BY <1>4, TableReaches DEF RowsBehind
<1> QED BY <1>1, <1>2, <1>3, <1>4, StepWrites DEF Writes

(***************************************************************************)
(* Through any number of crashes and recoveries and with any UPDATE lost,  *)
(* a row only moves forward in the order of the transition table: what     *)
(* recovery reads back, repeats and ends never takes a session to a status *)
(* the table has already left.                                             *)
(***************************************************************************)
RowsOnlyForward == [][\A s \in Sessions : Reaches(row[s], row'[s])]_vars

(* The inductive invariant is that the map is never behind the row. *)
THEOREM RowsOnlyForwardHolds == Spec => RowsOnlyForward
<1>1. Init => RowsBehind
  BY DEF Init, RowsBehind
<1>2. TypeOK /\ RowsBehind /\ [Next]_vars => RowsBehind'
  BY RowsBehindStep
<1>3. TypeOK /\ RowsBehind /\ [Next]_vars =>
        [\A s \in Sessions : Reaches(row[s], row'[s])]_vars
  BY RowsBehindStep
<1> QED BY <1>1, <1>2, <1>3, TypeCorrect, PTL DEF Spec, RowsOnlyForward

-----------------------------------------------------------------------------
(***************************************************************************)
(* The rows as an implementation of SessionContract, the loop of Bootstrap *)
(* and every crash included.                                               *)
(***************************************************************************)
Durable == INSTANCE SessionContract WITH status <- row

DurableSpec == Durable!Spec

(* The instance reads the same transition table. *)
LEMMA SameTable ==
  /\ Durable!Absent = Absent
  /\ Durable!Live = Live
  /\ Durable!SessionStatus = SessionStatus
  /\ \A a, b : Durable!Allowed(a, b) <=> Allowed(a, b)
<1>1. Durable!Absent = Absent /\ Durable!Live = Live /\ Durable!Terminal = Terminal
  BY DEF Durable!Absent, Absent, Durable!Live, Live, Durable!Terminal, Terminal
<1>2. Durable!SessionStatus = SessionStatus
  BY <1>1 DEF Durable!SessionStatus, SessionStatus
<1>3. Durable!validTransitions = validTransitions
  BY <1>2, Zenon DEF Durable!validTransitions, validTransitions
<1> QED BY <1>1, <1>2, <1>3 DEF Durable!Allowed, Allowed

(* While UPDATEs work, what is in the map is what is in the row. *)
RowsCurrent == \A s \in Sessions : status[s] \in {row[s], Absent}

(* Map and row move together, along one edge of the table. *)
LEMMA RowsCurrentStep ==
  ASSUME ~StoreFaults, TypeOK, RowsCurrent, [Next]_vars
  PROVE  RowsCurrent' /\ [Durable!Next]_row
<1> USE DEF TypeOK
<1>1. ASSUME NEW s \in Sessions, NEW to \in SessionStatus, Transition(s, to)
      PROVE  RowsCurrent' /\ [Durable!Next]_row
  <2>1. Allowed(row[s], to)
    BY <1>1, TableReaches DEF Transition, RowsCurrent
  <2>2. row' = [row EXCEPT ![s] = to] /\ status' = [status EXCEPT ![s] = to]
    BY <1>1 DEF Transition
  <2>3. Durable!Next
    BY <2>1, <2>2, SameTable DEF Durable!Next, Durable!Move
  <2> QED BY <2>2, <2>3 DEF RowsCurrent
<1>2. ASSUME NEW s \in Sessions, SubmitTask(s)
      PROVE  RowsCurrent' /\ [Durable!Next]_row
  <2>1. Durable!Next
    BY <1>2, SameTable DEF SubmitTask, Durable!Next, Durable!Create
  <2> QED BY <1>2, <2>1 DEF SubmitTask, RowsCurrent
<1>3. CASE Recover \/ Crash
  BY <1>3 DEF Recover, Crash, rowVars, RowsCurrent
<1>4. CASE UNCHANGED <<row, status>>
  BY <1>4 DEF RowsCurrent
<1> QED BY <1>1, <1>2, <1>3, <1>4, StepWrites DEF Writes

(***************************************************************************)
(* If no UPDATE fails, a reader of the table cannot tell a process that    *)
(* crashes and recovers from one that does not: each row starts as CREATED *)
(* and follows the transition table one edge at a time, whoever writes it, *)
(* a run, the recovery loop, or a run the loop resumed.                    *)
(***************************************************************************)
THEOREM RowsImplementContract == ASSUME ~StoreFaults PROVE Spec => DurableSpec
<1>1. Init => RowsCurrent /\ Durable!Init
  BY SameTable DEF Init, RowsCurrent, Durable!Init
<1>2. TypeOK /\ RowsCurrent /\ [Next]_vars => RowsCurrent'
  BY RowsCurrentStep
<1>3. TypeOK /\ RowsCurrent /\ [Next]_vars => [Durable!Next]_row
  BY RowsCurrentStep
<1> QED BY <1>1, <1>2, <1>3, TypeCorrect, PTL DEF Spec, DurableSpec, Durable!Spec

-----------------------------------------------------------------------------
(***************************************************************************)
(* Whatever a run or the recovery loop is about to ask of the control      *)
(* plane is in the transition table at that moment: no Transition of a     *)
(* recovered, resumed or new session is refused, and the loop has a case   *)
(* for every status it can meet.                                           *)
(***************************************************************************)
RequestsAreLegal ==
  \A s \in Sessions :
    /\ job[s] \in {"admitted", "gating", "approved"} => Allowed(status[s], Target(job[s]))
    /\ job[s] = "boxed" => status[s] = "RUNNING" \/ Allowed(status[s], Target(job[s]))
    /\ job[s] = "finishing" => Allowed(status[s], "COMPLETED")
    /\ job[s] \in {"allocated", "setup", "boxed", "executing", "waiting"} =>
         Allowed(status[s], "FAILED")
    /\ s \in todo =>
         \/ status[s] = "CREATED"
         \/ status[s] = "APPROVAL" /\ Allowed(status[s], "CANCELLING")
         \/ status[s] \in {"ALLOCATING", "RUNNING", "CANCELLING"} /\ Allowed(status[s], "FAILED")
    /\ cur = s /\ job[s] = "none" => Allowed(status[s], "FAILED")

(* Where a job is, and what the loop has left, determine the map's entry. *)
THEOREM RequestsAreLegalHolds == Spec => []RequestsAreLegal
<1>1. ASSUME IInv, NEW s \in Sessions
      PROVE  /\ job[s] \in {"admitted", "gating", "approved"} => Allowed(status[s], Target(job[s]))
             /\ job[s] = "boxed" => status[s] = "RUNNING" \/ Allowed(status[s], Target(job[s]))
             /\ job[s] = "finishing" => Allowed(status[s], "COMPLETED")
             /\ job[s] \in {"allocated", "setup", "boxed", "executing", "waiting"} =>
                  Allowed(status[s], "FAILED")
             /\ s \in todo =>
                  \/ status[s] = "CREATED"
                  \/ status[s] = "APPROVAL" /\ Allowed(status[s], "CANCELLING")
                  \/ /\ status[s] \in {"ALLOCATING", "RUNNING", "CANCELLING"}
                     /\ Allowed(status[s], "FAILED")
             /\ cur = s /\ job[s] = "none" => Allowed(status[s], "FAILED")
  <2>1. JobInv(s) /\ LoopInv(s)
    BY <1>1 DEF IInv, SessionInv, OneInv
  <2>2. /\ Allowed("CREATED", "ALLOCATING")
        /\ Allowed("ALLOCATING", "RUNNING") /\ Allowed("ALLOCATING", "FAILED")
        /\ Allowed("RUNNING", "APPROVAL") /\ Allowed("RUNNING", "COMPLETED")
        /\ Allowed("RUNNING", "FAILED")
        /\ Allowed("APPROVAL", "RUNNING") /\ Allowed("APPROVAL", "CANCELLING")
        /\ Allowed("APPROVAL", "FAILED") /\ Allowed("CANCELLING", "FAILED")
    BY DEF Allowed, validTransitions, SessionStatus, Live, Terminal
  <2>3. /\ Target("admitted") = "ALLOCATING" /\ Target("boxed") = "RUNNING"
        /\ Target("approved") = "RUNNING" /\ Target("gating") = "APPROVAL"
    BY DEF Target
  <2> QED BY <2>1, <2>2, <2>3 DEF JobInv, LoopInv, Live
<1>2. IInv => RequestsAreLegal
  BY <1>1 DEF RequestsAreLegal
<1> QED BY <1>2, InvariantHolds, PTL

-----------------------------------------------------------------------------
(* Steps a half-done session is away from a status that is not. *)
StepsLeft(s) ==
  CASE s \in todo -> 2
    [] s \notin todo /\ job[s] = "none" -> IF cur = s THEN 1 ELSE 0
    [] s \notin todo /\ job[s] = "allocated" -> 3
    [] s \notin todo /\ job[s] \in {"setup", "waiting"} -> 2
    [] OTHER -> 1

(***************************************************************************)
(* The safety half of HalfDoneResolves: in a process that stays up every   *)
(* half-done session whose events were published is at most three steps of *)
(* its own, of the loop or of its run, from the end of that status; each   *)
(* of those steps brings it nearer and nobody else's takes it back.  The   *)
(* loop itself comes to an end: it adds no session, and each of its steps  *)
(* leaves one behind or finishes the one it is in the middle of.           *)
(***************************************************************************)
HalfDoneGoesForward ==
  [][phase # "down" /\ phase' # "down" =>
       /\ todo' \subseteq todo
       /\ \A s \in Sessions :
            /\ Loop(s) => s \in todo \ todo' \/ (cur = s /\ cur' = None)
            /\ status[s] \in HalfDone /\ s \notin unsent => StepsLeft(s) \in 1..3
            /\ status[s] \in HalfDone /\ status'[s] \in HalfDone =>
                 /\ StepsLeft(s)' \in 0..StepsLeft(s)
                 /\ Loop(s) \/ Work(s) => StepsLeft(s)' < StepsLeft(s)]_vars

(* What a step of another session, or of the clock, leaves of session s. *)
Stays(s) ==
  /\ job'[s] = job[s]
  /\ status'[s] = status[s]
  /\ s \in todo' <=> s \in todo
  /\ cur' = s <=> cur = s

(* The loop and the runs of other sessions leave a session where it is. *)
LEMMA OthersStay ==
  ASSUME IInv, NEW t \in Sessions, Loop(t) \/ Work(t) \/ SubmitTask(t), NEW s \in Sessions \ {t}
  PROVE  Stays(s)
<1> USE BootstrapAssumption DEF IInv, TypeOK, Stays, procVars, Goto, Return, Transition, PhaseInv
<1>1. CASE Loop(t)
  BY <1>1
  DEF Loop, FailIncomplete, FailStale, ResumeSession, CancelApproval, CancelApprovalFails,
      LeaveCreated, Visit
<1>2. CASE Work(t)
  BY <1>2
  DEF Work, startTask, Allocate, Launch, ToolsUnavailable, PrepareFails, Provision,
      StartAgent, AgentSucceeds, RequestApproval, ApprovalGranted, LeaveApproval,
      Complete, AgentFails, Retry, EventLost, Resumed
<1>3. CASE SubmitTask(t)
  BY <1>3 DEF SubmitTask
<1> QED BY <1>1, <1>2, <1>3

(* The loop's own step for a half-done session. *)
LEMMA LoopMoves ==
  ASSUME IInv, NEW s \in Sessions, Loop(s)
  PROVE  /\ s \in todo \ todo' \/ (cur = s /\ cur' = None)
         /\ todo' \subseteq todo
         /\ status[s] \in HalfDone /\ status'[s] \in HalfDone =>
              StepsLeft(s) = 2 /\ StepsLeft(s)' = 1
<1>0. LoopInv(s) /\ s # None
  BY BootstrapAssumption DEF IInv, SessionInv, OneInv
<1> USE DEF IInv, TypeOK, HalfDone
<1>1. CASE FailIncomplete(s) \/ FailStale(s) \/ ResumeSession(s) \/ LeaveCreated(s)
  <2>1. s \in todo \ todo' /\ todo' \subseteq todo
    BY <1>1 DEF FailIncomplete, FailStale, ResumeSession, LeaveCreated, Visit
  <2>2. status'[s] \notin HalfDone \/ status[s] \notin HalfDone
    BY <1>1 DEF FailIncomplete, FailStale, ResumeSession, LeaveCreated, Visit, Transition
  <2> QED BY <2>1, <2>2
<1>2. CASE CancelApproval(s)
  <2>1. s \in todo /\ todo' = todo \ {s} /\ cur' = s /\ job' = job /\ job[s] = "none"
    BY <1>0, <1>2 DEF CancelApproval, Visit, LoopInv
  <2> QED BY <2>1 DEF StepsLeft
<1>3. CASE CancelApprovalFails(s)
  BY <1>0, <1>3 DEF CancelApprovalFails, Transition
<1> QED BY <1>1, <1>2, <1>3 DEF Loop

(* A run's own step for a half-done session. *)
LEMMA WorkMoves ==
  ASSUME IInv, NEW s \in Sessions, Work(s)
  PROVE  /\ todo' = todo /\ s \notin todo /\ job[s] # "none"
         /\ status[s] \in HalfDone /\ status'[s] \in HalfDone =>
              StepsLeft(s)' \in 0..StepsLeft(s) /\ StepsLeft(s)' < StepsLeft(s)
<1>0. LoopInv(s) /\ JobInv(s) /\ s # None
  BY BootstrapAssumption DEF IInv, SessionInv, OneInv
<1> USE DEF IInv, TypeOK, procVars, Goto, Return
<1>1. todo' = todo /\ job[s] # "none"
  BY
  DEF Work, startTask, Allocate, Launch, ToolsUnavailable, PrepareFails, Provision,
      StartAgent, AgentSucceeds, RequestApproval, ApprovalGranted, LeaveApproval,
      Complete, AgentFails, Retry, EventLost
<1>2. s \notin todo
  BY <1>0, <1>1 DEF LoopInv
<1>3. ASSUME status[s] \in HalfDone, status'[s] \in HalfDone
      PROVE  \/ job[s] = "allocated" /\ job'[s] = "setup"
             \/ job[s] = "setup" /\ job'[s] = "boxed"
             \/ job[s] = "waiting" /\ job'[s] = "approved"
  <2> USE <1>0, <1>3 DEF HalfDone, JobInv, Transition
  <2>1. CASE startTask(s) \/ Allocate(s) \/ AgentSucceeds(s) \/ RequestApproval(s)
             \/ Complete(s) \/ Retry(s)
    BY <2>1 DEF startTask, Allocate, AgentSucceeds, RequestApproval, Complete, Retry
  <2>2. CASE ToolsUnavailable(s) \/ PrepareFails(s) \/ AgentFails(s) \/ StartAgent(s)
             \/ LeaveApproval(s)
    BY <2>2 DEF ToolsUnavailable, PrepareFails, AgentFails, StartAgent, LeaveApproval
  <2>3. CASE EventLost(s)
    BY <2>3 DEF EventLost, Target
  <2>4. CASE Launch(s) \/ Provision(s) \/ ApprovalGranted(s)
    BY <2>4 DEF Launch, Provision, ApprovalGranted
  <2> QED BY <2>1, <2>2, <2>3, <2>4 DEF Work
<1>4. ASSUME status[s] \in HalfDone, status'[s] \in HalfDone
      PROVE  StepsLeft(s)' \in 0..StepsLeft(s) /\ StepsLeft(s)' < StepsLeft(s)
  BY <1>1, <1>2, <1>3, <1>4 DEF StepsLeft
<1> QED BY <1>1, <1>2, <1>4

(* A half-done session nobody has given up has a step to come. *)
LEMMA AttendedHasSteps ==
  ASSUME IInv, NEW s \in Sessions
  PROVE  /\ StepsLeft(s) \in 0..3
         /\ status[s] \in HalfDone /\ s \notin unsent => StepsLeft(s) \in 1..3
<1>1. StepsLeft(s) \in 0..3
  BY DEF StepsLeft
<1>2. ASSUME status[s] \in HalfDone, s \notin unsent, StepsLeft(s) = 0 PROVE FALSE
  <2>1. s \notin todo /\ job[s] = "none" /\ cur # s
    BY <1>2 DEF StepsLeft
  <2> QED BY <1>2, <2>1 DEF IInv, SessionInv, OneInv, AttendedInv
<1> QED BY <1>1, <1>2

(* One case per actor: the loop, the run, and everybody else. *)
THEOREM HalfDoneGoesForwardHolds == Spec => HalfDoneGoesForward
<1> DEFINE Forward(s) ==
      /\ Loop(s) => s \in todo \ todo' \/ (cur = s /\ cur' = None)
      /\ status[s] \in HalfDone /\ s \notin unsent => StepsLeft(s) \in 1..3
      /\ status[s] \in HalfDone /\ status'[s] \in HalfDone =>
           /\ StepsLeft(s)' \in 0..StepsLeft(s)
           /\ Loop(s) \/ Work(s) => StepsLeft(s)' < StepsLeft(s)
<1>1. ASSUME IInv, NEW s \in Sessions, Stays(s)
      PROVE  StepsLeft(s)' = StepsLeft(s)
  BY <1>1 DEF Stays, StepsLeft
<1>2. ASSUME IInv, Next, phase # "down", phase' # "down", NEW s \in Sessions
      PROVE  todo' \subseteq todo /\ Forward(s)
  <2>1. CASE Loop(s)
    BY <1>2, <2>1, LoopMoves, AttendedHasSteps
  <2>2. CASE Work(s)
    <3>1. ~Loop(s)
      <4>1. s \notin todo /\ job[s] \in Jobs \ {"none"} /\ JobInv(s)
        BY <1>2, <2>2, WorkMoves DEF IInv, TypeOK, SessionInv, OneInv
      <4>2. status[s] # "CANCELLING"
        BY <4>1 DEF JobInv, Jobs
      <4> QED BY <4>1, <4>2
          DEF Loop, FailIncomplete, FailStale, ResumeSession, CancelApproval,
              CancelApprovalFails, LeaveCreated, Visit
    <3> QED BY <1>2, <2>2, <3>1, WorkMoves, AttendedHasSteps
  <2>3. CASE ~Loop(s) /\ ~Work(s)
    <3>1. ASSUME NEW t \in Sessions, t # s, Loop(t) \/ Work(t) \/ SubmitTask(t)
          PROVE  todo' \subseteq todo /\ Forward(s)
      <4>1. Stays(s)
        BY <1>2, <3>1, OthersStay
      <4>2. todo' \subseteq todo
        BY <1>2, <3>1, LoopMoves, WorkMoves DEF SubmitTask, procVars
      <4> QED BY <1>1, <1>2, <2>3, <4>1, <4>2, AttendedHasSteps
    <3>2. CASE SubmitTask(s)
      <4>1. status'[s] = "CREATED" /\ todo' = todo
        BY <1>2, <3>2 DEF SubmitTask, procVars, IInv, TypeOK
      <4> QED BY <1>2, <2>3, <4>1, AttendedHasSteps DEF HalfDone
    <3>3. CASE ReapOrphanedContainers \/ Up \/ \E t \in Sessions : TimePasses(t) \/ Heartbeat(t)
      <4>1. Stays(s) /\ todo' = todo
        BY <3>3 DEF ReapOrphanedContainers, Up, TimePasses, Heartbeat, procVars, Stays
      <4> QED BY <1>1, <1>2, <2>3, <4>1, AttendedHasSteps
    <3> QED BY <1>2, <2>3, <3>1, <3>2, <3>3 DEF Next, Start, Recover, Crash
  <2> QED BY <2>1, <2>2, <2>3
<1>3. ASSUME IInv, Next, phase # "down", phase' # "down", Sessions = {}
      PROVE  todo' \subseteq todo
  BY <1>3 DEF Next, Start, Recover, ReapOrphanedContainers, Up, Crash
<1>4. IInv /\ [Next]_vars =>
        [phase # "down" /\ phase' # "down" =>
           /\ todo' \subseteq todo
           /\ \A s \in Sessions :
                /\ Loop(s) => s \in todo \ todo' \/ (cur = s /\ cur' = None)
                /\ status[s] \in HalfDone /\ s \notin unsent => StepsLeft(s) \in 1..3
                /\ status[s] \in HalfDone /\ status'[s] \in HalfDone =>
                     /\ StepsLeft(s)' \in 0..StepsLeft(s)
                     /\ Loop(s) \/ Work(s) => StepsLeft(s)' < StepsLeft(s)]_vars
  BY <1>2, <1>3
<1> QED BY <1>4, InvariantHolds, PTL DEF Spec, HalfDoneGoesForward
=============================================================================
