------------------------------ MODULE Bootstrap ------------------------------
(***************************************************************************)
(* internal/core: what a restart does with the sessions and containers     *)
(* the previous process left behind.  Rows of the state store and Docker   *)
(* containers survive a crash, everything else is lost.  Bootstrap loads   *)
(* the unfinished rows, reaps containers, starts the API server and then   *)
(* goes through the loaded sessions one by one, while new tasks already    *)
(* arrive.                                                                 *)
(*                                                                         *)
(* The coordinator's work on a session is one process here (job): the      *)
(* caller of SubmitTask or ResumeSession and then runAgent, cut where a    *)
(* crash leaves another row or another container behind.  Coordinator has  *)
(* the same code in full.  A Transition is one step: a crash before its    *)
(* UPDATE is a crash before it, and nobody here listens to its event.      *)
(***************************************************************************)
EXTENDS SessionStates, Naturals, FiniteSets

CONSTANTS
  Sessions,
  Boxes,          \* container names, each given to one container at a time
  None,
  MaxConcurrent,  \* maxConcurrent
  StoreFaults,    \* an UPDATE of the row may fail, which is only logged
  BusFaults,      \* a Transition may report that its event was not published
  SandboxFaults   \* listing or removing containers may fail

(* A container is named foreman-sbox-<time>, a session ses_<task>. *)
ASSUME BootstrapAssumption ==
  /\ None \notin Sessions \union Boxes
  /\ Sessions \intersect Boxes = {}
  /\ MaxConcurrent \in Nat \ {0}
  /\ {StoreFaults, BusFaults, SandboxFaults} \subseteq BOOLEAN

VARIABLES
  row,      \* status column of the session's row
  fresh,    \* its updated_at is at most heartbeatTimeout old
  beat,     \* so is the last successful heartbeat of its container
  owner,    \* owner[b]: the session container b was created for
  phase,    \* where Bootstrap is
  todo,     \* recovered sessions the loop has not come to
  cur,      \* the session the loop is in the middle of
  status,   \* the control plane's map
  job,      \* where the coordinator's work on a session is
  box,      \* the container of the current run
  active,   \* domain of the coordinator's active map
  stray,    \* history: containers that could not be removed
  unsent    \* history: sessions abandoned because an event was not published

rowVars == <<row, fresh>>
procVars == <<phase, todo, cur>>
boxVars == <<owner, box, stray>>
vars == <<rowVars, beat, procVars, status, job, active, boxVars, unsent>>

HalfDone == {"ALLOCATING", "APPROVAL", "CANCELLING"}

Phases == {"down", "recovered", "loop", "up"}

Jobs == {"none", "created", "admitted", "allocated", "setup", "boxed", "executing",
         "gating", "waiting", "approved", "finishing"}

Existing == {b \in Boxes : owner[b] # None}

Init ==
  /\ row = [s \in Sessions |-> Absent]
  /\ fresh = [s \in Sessions |-> FALSE]
  /\ beat = [s \in Sessions |-> FALSE]
  /\ owner = [b \in Boxes |-> None]
  /\ phase = "down"
  /\ todo = {}
  /\ cur = None
  /\ status = [s \in Sessions |-> Absent]
  /\ job = [s \in Sessions |-> "none"]
  /\ box = [s \in Sessions |-> None]
  /\ active = {}
  /\ stray = {}
  /\ unsent = {}

-----------------------------------------------------------------------------
(* The control plane and time. *)

(* Transition: the map changes, then the row unless the UPDATE fails. *)
Transition(s, to) ==
  /\ Allowed(status[s], to)
  /\ status' = [status EXCEPT ![s] = to]
  /\ \/ /\ row' = [row EXCEPT ![s] = to]
        /\ fresh' = [fresh EXCEPT ![s] = TRUE]
     \/ StoreFaults /\ UNCHANGED rowVars

(***************************************************************************)
(* More than heartbeatTimeout passes without an event of the session.  The *)
(* loop looks at the age of RUNNING rows only.                             *)
(***************************************************************************)
TimePasses(s) ==
  /\ row[s] = "RUNNING"
  /\ fresh' = [fresh EXCEPT ![s] = FALSE]
  /\ beat' = [beat EXCEPT ![s] = FALSE]
  /\ fresh[s] \/ beat[s]
  /\ UNCHANGED <<row, procVars, status, job, active, boxVars, unsent>>

(* A heartbeat of the container, kept in memory only (sessionHeartbeats). *)
Heartbeat(s) ==
  /\ job[s] = "executing"
  /\ ~beat[s]
  /\ beat' = [beat EXCEPT ![s] = TRUE]
  /\ UNCHANGED <<rowVars, procVars, status, job, active, boxVars, unsent>>

-----------------------------------------------------------------------------
(* Bootstrap. *)

(* Recover: every unfinished row goes into the map. *)
Recover ==
  /\ phase = "down"
  /\ phase' = "recovered"
  /\ todo' = {s \in Sessions : row[s] \in Live}
  /\ status' = [s \in Sessions |-> IF row[s] \in Live THEN row[s] ELSE Absent]
  /\ UNCHANGED <<rowVars, beat, cur, job, active, boxVars, unsent>>

(* What the reaper removes: the name is compared with session IDs. *)
Reaped == {b \in Existing : b \notin todo}

(***************************************************************************)
(* ReapOrphanedContainers: if the list cannot be had nothing is removed; a *)
(* container that cannot be removed is logged.  Then the API server        *)
(* starts, before the loop over the recovered sessions.                    *)
(***************************************************************************)
ReapOrphanedContainers ==
  /\ phase = "recovered"
  /\ phase' = "loop"
  /\ \E failed \in SUBSET Reaped :
       /\ failed # {} => SandboxFaults
       /\ owner' = [b \in Boxes |-> IF b \in Reaped \ failed THEN None ELSE owner[b]]
       /\ stray' = failed
  /\ UNCHANGED <<rowVars, beat, todo, cur, status, job, active, box, unsent>>

(* The loop comes to session s, which has status st. *)
Visit(s, st) ==
  /\ phase = "loop"
  /\ cur = None
  /\ s \in todo
  /\ status[s] = st
  /\ todo' = todo \ {s}
  /\ UNCHANGED phase

(* Slip: no case for CANCELLING, so the default leaves it alone. *)
FailIncompleteNoCancelling(s) ==
  /\ \/ Visit(s, "ALLOCATING") /\ Transition(s, "FAILED")
     \/ Visit(s, "CANCELLING") /\ UNCHANGED <<rowVars, status>>
  /\ UNCHANGED <<cur, beat, job, active, boxVars, unsent>>

(* An allocation that never completed, or a cancellation: to FAILED. *)
FailIncomplete(s) ==
  /\ \E st \in {"ALLOCATING", "CANCELLING"} : Visit(s, st)
  /\ Transition(s, "FAILED")
  /\ UNCHANGED <<cur, beat, job, active, boxVars, unsent>>

(* Slip: no else, a stale session is failed and then resumed. *)
FailStaleThrough(s) ==
  /\ Visit(s, "RUNNING")
  /\ ~fresh[s]
  /\ Transition(s, "FAILED")
  /\ job' = [job EXCEPT ![s] = "allocated"]
  /\ cur' = s
  /\ UNCHANGED <<beat, active, boxVars, unsent>>

(* RUNNING, and the row was not updated for heartbeatTimeout: to FAILED. *)
FailStale(s) ==
  /\ Visit(s, "RUNNING")
  /\ ~fresh[s]
  /\ Transition(s, "FAILED")
  /\ UNCHANGED <<cur, beat, job, active, boxVars, unsent>>

(* The capacity test of startTask and ResumeSession. *)
HasRoom == Cardinality(active) < MaxConcurrent

(* ResumeSession up to its two checks; a refusal is only logged. *)
ResumeSession(s) ==
  /\ Visit(s, "RUNNING")
  /\ fresh[s]
  /\ IF HasRoom
       THEN cur' = s /\ job' = [job EXCEPT ![s] = "allocated"]
       ELSE UNCHANGED <<cur, job>>
  /\ UNCHANGED <<rowVars, beat, status, active, boxVars, unsent>>

(* Slip: the loop moves on after the first of the two transitions. *)
CancelApprovalHalf(s) ==
  /\ Visit(s, "APPROVAL")
  /\ Transition(s, "CANCELLING")
  /\ UNCHANGED <<cur, beat, job, active, boxVars, unsent>>

(* An approval request lost in the crash: to CANCELLING ... *)
CancelApproval(s) ==
  /\ Visit(s, "APPROVAL")
  /\ Transition(s, "CANCELLING")
  /\ cur' = s
  /\ UNCHANGED <<beat, job, active, boxVars, unsent>>

(* ... and to FAILED. *)
CancelApprovalFails(s) ==
  /\ cur = s
  /\ status[s] = "CANCELLING"
  /\ Transition(s, "FAILED")
  /\ cur' = None
  /\ UNCHANGED <<phase, todo, beat, job, active, boxVars, unsent>>

(* A CREATED session is left alone. *)
LeaveCreated(s) ==
  /\ Visit(s, "CREATED")
  /\ UNCHANGED <<cur, rowVars, beat, status, job, active, boxVars, unsent>>

(* The loop is over: plugins start, Bootstrap returns. *)
Up ==
  /\ phase = "loop"
  /\ todo = {}
  /\ cur = None
  /\ phase' = "up"
  /\ UNCHANGED <<rowVars, beat, todo, cur, status, job, active, boxVars, unsent>>

(***************************************************************************)
(* The process is gone: killed, shut down, or Bootstrap returned an error. *)
(***************************************************************************)
Crash ==
  /\ phase # "down"
  /\ phase' = "down"
  /\ todo' = {}
  /\ cur' = None
  /\ status' = [s \in Sessions |-> Absent]
  /\ job' = [s \in Sessions |-> "none"]
  /\ box' = [s \in Sessions |-> None]
  /\ active' = {}
  /\ stray' = {}
  /\ unsent' = {}
  /\ UNCHANGED <<rowVars, beat, owner>>

-----------------------------------------------------------------------------
(* SubmitTask; the primary key refuses an ID that already has a row. *)
SubmitTask(s) ==
  /\ phase \in {"loop", "up"}
  /\ row[s] = Absent
  /\ row' = [row EXCEPT ![s] = "CREATED"]
  /\ fresh' = [fresh EXCEPT ![s] = TRUE]
  /\ status' = [status EXCEPT ![s] = "CREATED"]
  /\ job' = [job EXCEPT ![s] = "created"]
  /\ UNCHANGED <<beat, procVars, active, boxVars, unsent>>

Goto(s, pc) == job' = [job EXCEPT ![s] = pc]

(* startTask: refused, the session stays CREATED. *)
startTask(s) ==
  /\ job[s] = "created"
  /\ Goto(s, IF HasRoom THEN "admitted" ELSE "none")
  /\ UNCHANGED <<rowVars, beat, procVars, status, active, boxVars, unsent>>

Allocate(s) ==
  /\ job[s] = "admitted"
  /\ Transition(s, "ALLOCATING")
  /\ Goto(s, "allocated")
  /\ UNCHANGED <<beat, procVars, active, boxVars, unsent>>

(* The call of ResumeSession for s returns to the loop. *)
Resumed(s) == cur' = IF cur = s THEN None ELSE cur

Launch(s) ==
  /\ job[s] = "allocated"
  /\ active' = active \union {s}
  /\ Goto(s, "setup")
  /\ Resumed(s)
  /\ UNCHANGED <<rowVars, beat, phase, todo, status, boxVars, unsent>>

(* ResolveTools fails: failSession. *)
ToolsUnavailable(s) ==
  /\ job[s] = "allocated"
  /\ Transition(s, "FAILED")
  /\ Goto(s, "none")
  /\ Resumed(s)
  /\ UNCHANGED <<beat, phase, todo, active, boxVars, unsent>>

-----------------------------------------------------------------------------
(* runAgent. *)

(* The run is over, its deferred function included. *)
Return(s) ==
  /\ Goto(s, "none")
  /\ active' = active \ {s}

(* cleanupSandbox: an error of Destroy is only logged. *)
cleanupSandbox(s) ==
  /\ box' = [box EXCEPT ![s] = None]
  /\ \/ /\ owner' = [b \in Boxes |-> IF b = box[s] THEN None ELSE owner[b]]
        /\ UNCHANGED stray
     \/ /\ SandboxFaults
        /\ stray' = stray \union {box[s]}
        /\ UNCHANGED owner

(* Adapter, configuration, token or container cannot be had. *)
PrepareFails(s) ==
  /\ job[s] = "setup"
  /\ Transition(s, "FAILED")
  /\ Return(s)
  /\ UNCHANGED <<beat, procVars, boxVars, unsent>>

Provision(s) ==
  /\ job[s] = "setup"
  /\ \E b \in Boxes \ Existing :
       /\ owner' = [owner EXCEPT ![b] = s]
       /\ box' = [box EXCEPT ![s] = b]
  /\ Goto(s, "boxed")
  /\ UNCHANGED <<rowVars, beat, procVars, status, active, stray, unsent>>

(* To RUNNING unless resumed or retried, then Execute. *)
StartAgent(s) ==
  /\ job[s] = "boxed"
  /\ IF status[s] = "RUNNING" THEN UNCHANGED <<rowVars, status>>
                              ELSE Transition(s, "RUNNING")
  /\ Goto(s, "executing")
  /\ UNCHANGED <<beat, procVars, active, boxVars, unsent>>

(* A policy matches, or none does. *)
AgentSucceeds(s) ==
  /\ job[s] = "executing"
  /\ \E next \in {"gating", "finishing"} : Goto(s, next)
  /\ UNCHANGED <<rowVars, beat, procVars, status, active, boxVars, unsent>>

RequestApproval(s) ==
  /\ job[s] = "gating"
  /\ Transition(s, "APPROVAL")
  /\ Goto(s, "waiting")
  /\ UNCHANGED <<beat, procVars, active, boxVars, unsent>>

ApprovalGranted(s) ==
  /\ job[s] = "waiting"
  /\ Goto(s, "approved")
  /\ UNCHANGED <<rowVars, beat, procVars, status, active, boxVars, unsent>>

LeaveApproval(s) ==
  /\ job[s] = "approved"
  /\ Transition(s, "RUNNING")
  /\ Goto(s, "finishing")
  /\ UNCHANGED <<beat, procVars, active, boxVars, unsent>>

Complete(s) ==
  /\ job[s] = "finishing"
  /\ Transition(s, "COMPLETED")
  /\ cleanupSandbox(s)
  /\ Return(s)
  /\ UNCHANGED <<beat, procVars, unsent>>

(* Slip: the failed agent's container is forgotten. *)
AgentFailsUncleaned(s) ==
  /\ job[s] \in {"boxed", "executing", "waiting"}
  /\ Transition(s, "FAILED")
  /\ box' = [box EXCEPT ![s] = None]
  /\ Return(s)
  /\ UNCHANGED <<beat, procVars, owner, stray, unsent>>

(* No verification, a failed agent, a refused or late approval, no retries. *)
AgentFails(s) ==
  /\ job[s] \in {"boxed", "executing", "waiting"}
  /\ Transition(s, "FAILED")
  /\ cleanupSandbox(s)
  /\ Return(s)
  /\ UNCHANGED <<beat, procVars, unsent>>

(* A crashed agent starts again, without its entry in active. *)
Retry(s) ==
  /\ job[s] = "executing"
  /\ cleanupSandbox(s)
  /\ Goto(s, "setup")
  /\ active' = active \ {s}
  /\ UNCHANGED <<rowVars, beat, procVars, status, unsent>>

(* The transition each point of a run asks for. *)
Target(pc) ==
  CASE pc = "admitted" -> "ALLOCATING"
    [] pc \in {"boxed", "approved"} -> "RUNNING"
    [] pc = "gating" -> "APPROVAL"

(* It was made but not announced: the error ends the call or the run. *)
EventLost(s) ==
  /\ BusFaults
  /\ job[s] \in {"admitted", "boxed", "gating", "approved"}
  /\ Transition(s, Target(job[s]))
  /\ Return(s)
  /\ IF job[s] = "admitted" THEN UNCHANGED boxVars ELSE cleanupSandbox(s)
  /\ unsent' = unsent \union {s}
  /\ UNCHANGED <<beat, procVars>>

-----------------------------------------------------------------------------
Start == Recover \/ ReapOrphanedContainers \/ Up

Loop(s) ==
  \/ FailIncomplete(s) \/ FailStale(s) \/ ResumeSession(s)
  \/ CancelApproval(s) \/ CancelApprovalFails(s) \/ LeaveCreated(s)

Work(s) ==
  \/ startTask(s) \/ Allocate(s) \/ Launch(s) \/ ToolsUnavailable(s)
  \/ PrepareFails(s) \/ Provision(s) \/ StartAgent(s) \/ AgentSucceeds(s)
  \/ RequestApproval(s) \/ ApprovalGranted(s) \/ LeaveApproval(s)
  \/ Complete(s) \/ AgentFails(s) \/ Retry(s) \/ EventLost(s)

Next ==
  \/ Start
  \/ Crash
  \/ \E s \in Sessions :
       Loop(s) \/ Work(s) \/ SubmitTask(s) \/ TimePasses(s) \/ Heartbeat(s)

Spec == Init /\ [][Next]_vars

(***************************************************************************)
(* The container is restarted (restart: unless-stopped in the compose      *)
(* file), start-up goes on, and so does every goroutine.                   *)
(***************************************************************************)
FairSpec ==
  /\ Spec
  /\ WF_vars(Start)
  /\ \A s \in Sessions : WF_vars(Loop(s)) /\ WF_vars(Work(s))

-----------------------------------------------------------------------------
TypeOK ==
  /\ row \in [Sessions -> SessionStatus \union {Absent}]
  /\ fresh \in [Sessions -> BOOLEAN]
  /\ beat \in [Sessions -> BOOLEAN]
  /\ owner \in [Boxes -> Sessions \union {None}]
  /\ phase \in Phases
  /\ todo \subseteq Sessions
  /\ cur \in Sessions \union {None}
  /\ status \in [Sessions -> SessionStatus \union {Absent}]
  /\ job \in [Sessions -> Jobs]
  /\ box \in [Sessions -> Boxes \union {None}]
  /\ active \subseteq Sessions
  /\ stray \subseteq Boxes
  /\ unsent \subseteq Sessions

(***************************************************************************)
(* Once Bootstrap has returned, a session that is being allocated, waits   *)
(* for approval or is being cancelled has somebody working on it: whatever *)
(* the last process left half done, in whatever order crashes hit rows and *)
(* the loop itself, the loop ended it.  (A Transition that could not       *)
(* publish its event abandons its session until the next restart.)         *)
(***************************************************************************)
HalfDoneIsAttended ==
  phase = "up" =>
    \A s \in Sessions \ unsent : status[s] \in HalfDone => job[s] # "none"

(***************************************************************************)
(* From the reaper on every container is the one its session's run is      *)
(* using, or an attempt to remove it failed in this process, whatever      *)
(* crashes, resumes, retries and failures follow each other.  It holds     *)
(* because the reaper compares container names with session IDs and so     *)
(* spares nobody: see ActiveContainersSpared for what it says it does.     *)
(***************************************************************************)
NoOrphanContainer ==
  phase \in {"loop", "up"} =>
    \A b \in Existing : b \in stray \/ box[owner[b]] = b

(***************************************************************************)
(* A session whose row says it is over never gets a container again, after *)
(* any number of restarts and with rows that lag behind the map.           *)
(***************************************************************************)
TerminalNotRevived ==
  [][\A s \in Sessions : row[s] \in Terminal /\ box'[s] # box[s] => box'[s] = None]_vars

(***************************************************************************)
(* If the process finally stays up, every half-done session gets a status  *)
(* from which it goes on, or its event could not be published: the         *)
(* orphaned approval of builder.go:153 is failed even if restarted         *)
(* processes die between its two transitions or lose their UPDATEs.        *)
(***************************************************************************)
HalfDoneResolves ==
  <>[](phase # "down") =>
    \A s \in Sessions :
      status[s] \in HalfDone ~> (status[s] \notin HalfDone \/ s \in unsent)

(***************************************************************************)
(* builder.go:124, "RUNNING sessions with recent heartbeat -> resume": the *)
(* loop does not fail a session whose container was alive recently.        *)
(***************************************************************************)
RecentHeartbeatResumes ==
  [][\A s \in todo :
       phase = "loop" /\ status[s] = "RUNNING" /\ status'[s] = "FAILED" => ~beat[s]]_vars

(***************************************************************************)
(* coordinator.go:827, "Skip containers that belong to active sessions.",  *)
(* and the comment of ReapOrphanedContainers: only containers of sessions  *)
(* that are not in the active set, the recovered ones, are destroyed.      *)
(***************************************************************************)
ActiveContainersSpared ==
  [][\A b \in Existing :
       phase = "recovered" /\ phase' = "loop" /\ owner[b] \in todo => owner'[b] = owner[b]]_vars
=============================================================================
