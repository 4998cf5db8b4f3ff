---------------------------- MODULE SessionStates ----------------------------
(***************************************************************************)
(* The session vocabulary every other module shares: the statuses of       *)
(* internal/schemas/event.go and the transition table of                   *)
(* internal/controlplane/session.go.                                       *)
(***************************************************************************)

(* A session ID with no entry in the map (or no row in the table). *)
Absent == "ABSENT"

(* What ListNonTerminalSessions leaves out. *)
Terminal == {"COMPLETED", "FAILED"}

Live == {"CREATED", "ALLOCATING", "RUNNING", "APPROVAL", "CANCELLING"}

SessionStatus == Live \union Terminal

(* The table as written: a terminal status has no row in it, and a lookup  *)
(* that finds no row is refused like one that finds no matching target.    *)
validTransitions ==
  [from \in SessionStatus |->
     CASE from = "CREATED"    -> {"ALLOCATING", "FAILED"}
       [] from = "ALLOCATING" -> {"RUNNING", "FAILED"}
       [] from = "RUNNING"    -> {"APPROVAL", "COMPLETED", "CANCELLING", "FAILED"}
       [] from = "APPROVAL"   -> {"RUNNING", "CANCELLING", "FAILED"}
       [] from = "CANCELLING" -> {"FAILED", "COMPLETED"}
       [] OTHER               -> {}]

(* Transition's guard: a session that is not in the map has no moves. *)
Allowed(from, to) == from \in SessionStatus /\ to \in validTransitions[from]

(***************************************************************************)
(* Reaches(a, b): b is a or follows it on some path of the table.  Written *)
(* out so that it can be used in proofs; MCControlPlane has TLC compare it *)
(* with the reflexive transitive closure of validTransitions.              *)
(***************************************************************************)
Reaches(a, b) ==
  \/ a = b
  \/ a = Absent /\ b \in SessionStatus
  \/ a = "CREATED" /\ b \in SessionStatus
  \/ a = "ALLOCATING" /\ b \in SessionStatus \ {"CREATED"}
  \/ a \in {"RUNNING", "APPROVAL"} /\ b \in SessionStatus \ {"CREATED", "ALLOCATING"}
  \/ a = "CANCELLING" /\ b \in Terminal
=============================================================================
