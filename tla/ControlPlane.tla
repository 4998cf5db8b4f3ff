----------------------------- MODULE ControlPlane -----------------------------
(***************************************************************************)
(* internal/controlplane with a state store (internal/statestore):         *)
(* concurrent CreateSession, Transition and SaveCheckpoint calls on        *)
(* sessions that live in a map and in a table, crashes of the process at   *)
(* any point inside them, and Recover when it starts again.                *)
(*                                                                         *)
(* A step is the code between two calls that can fail or be cut short by a *)
(* crash: the store's statement, the map, the bus.  Transition holds the   *)
(* session's mutex across all of them; CreateSession and SaveCheckpoint    *)
(* hold nothing.  A call that only returns an error is not a step.         *)
(***************************************************************************)
EXTENDS SessionStates, Naturals

CONSTANTS
  Sessions,        \* session IDs
  Callers,         \* goroutines that call the control plane
  None,            \* no caller holds the mutex, no session is worked on
  MaxCheckpoints,  \* bound: checkpoints saved in a behaviour
  StoreFaults,     \* UpdateSessionStatus may return an error
  BusFaults        \* Publish may return an error

ASSUME ControlPlaneAssumption ==
  /\ None \notin Callers \union Sessions
  /\ MaxCheckpoints \in Nat
  /\ StoreFaults \in BOOLEAN
  /\ BusFaults \in BOOLEAN

VARIABLES
  up,         \* the process is running
  status,     \* sessions[s].Status
  ref,        \* sessions[s].CheckpointRef, 0 = none
  lock,       \* sessions[s].mu: None or its holder
  at,         \* where each caller is
  sess, arg,  \* the session it works on, its target status
  newId,      \* the checkpoint ID it was given
  row,        \* status column of the sessions table
  rowRef,     \* its checkpoint_ref column
  ckpts,      \* the checkpoints table: IDs saved for each session
  lastId,     \* its BIGSERIAL
  lastEvent,  \* status in the last event published for the session
  lost        \* history: an update of the session's row has failed

memVars  == <<status, ref, lock>>
callVars == <<at, sess, arg, newId>>
rowVars  == <<row, rowRef, ckpts, lastId>>
vars == <<up, memVars, callVars, rowVars, lastEvent, lost>>

CallStates == {"idle", "inserted", "created", "changed", "stored", "saved", "referenced"}

Creating(c, s) == at[c] \in {"inserted", "created"} /\ sess[c] = s

Init ==
  /\ up = TRUE
  /\ status = [s \in Sessions |-> Absent]
  /\ ref = [s \in Sessions |-> 0]
  /\ lock = [s \in Sessions |-> None]
  /\ at = [c \in Callers |-> "idle"]
  /\ sess = [c \in Callers |-> None]
  /\ arg = [c \in Callers |-> Absent]
  /\ newId = [c \in Callers |-> 0]
  /\ row = [s \in Sessions |-> Absent]
  /\ rowRef = [s \in Sessions |-> 0]
  /\ ckpts = [s \in Sessions |-> {}]
  /\ lastId = 0
  /\ lastEvent = [s \in Sessions |-> Absent]
  /\ lost = [s \in Sessions |-> FALSE]

Goto(c, pc) == at' = [at EXCEPT ![c] = pc]

(* The call returns and its locals vanish. *)
Return(c) ==
  /\ at' = [at EXCEPT ![c] = "idle"]
  /\ sess' = [sess EXCEPT ![c] = None]
  /\ arg' = [arg EXCEPT ![c] = Absent]
  /\ newId' = [newId EXCEPT ![c] = 0]

-----------------------------------------------------------------------------
(* The tables.  An UPDATE finds its row: CreateSession wrote it first. *)

(* The primary key refuses an ID twice. *)
InsertSession(s) ==
  /\ row[s] = Absent
  /\ row' = [row EXCEPT ![s] = "CREATED"]

UpdateSessionStatus(s, to) == row' = [row EXCEPT ![s] = to]

InsertCheckpoint(s) ==
  /\ lastId' = lastId + 1
  /\ ckpts' = [ckpts EXCEPT ![s] = @ \union {lastId + 1}]

SetRowRef(s, id) == rowRef' = [rowRef EXCEPT ![s] = id]

ListNonTerminalSessions == {s \in Sessions : row[s] \in Live}

-----------------------------------------------------------------------------
(* CreateSession: row first. *)
CreateSession(c, s) ==
  /\ up
  /\ at[c] = "idle"
  /\ InsertSession(s)
  /\ sess' = [sess EXCEPT ![c] = s]
  /\ Goto(c, "inserted")
  /\ UNCHANGED <<up, memVars, arg, newId, rowRef, ckpts, lastId, lastEvent, lost>>

PutSession(c) ==
  /\ at[c] = "inserted"
  /\ status' = [status EXCEPT ![sess[c]] = "CREATED"]
  /\ Goto(c, "created")
  /\ UNCHANGED <<up, ref, lock, sess, arg, newId, rowVars, lastEvent, lost>>

(* emit of session.created; its error is CreateSession's. *)
EmitCreated(c) ==
  /\ at[c] = "created"
  /\ \/ lastEvent' = [lastEvent EXCEPT ![sess[c]] = "CREATED"]
     \/ BusFaults /\ UNCHANGED lastEvent
  /\ Return(c)
  /\ UNCHANGED <<up, memVars, rowVars, lost>>

-----------------------------------------------------------------------------
(* Slip: the mutex is released before the row is written. *)
TransitionUnlocked(c, s, to) ==
  /\ up
  /\ at[c] = "idle"
  /\ ~ \E d \in Callers : Creating(d, s)
  /\ Allowed(status[s], to)
  /\ status' = [status EXCEPT ![s] = to]
  /\ sess' = [sess EXCEPT ![c] = s]
  /\ arg' = [arg EXCEPT ![c] = to]
  /\ Goto(c, "changed")
  /\ UNCHANGED <<up, ref, lock, newId, rowVars, lastEvent, lost>>

(* Slip: the event goes out before the row is written. *)
TransitionEmitsFirst(c, s, to) ==
  /\ up
  /\ at[c] = "idle"
  /\ ~ \E d \in Callers : Creating(d, s)
  /\ lock[s] = None
  /\ Allowed(status[s], to)
  /\ status' = [status EXCEPT ![s] = to]
  /\ lastEvent' = [lastEvent EXCEPT ![s] = to]
  /\ lock' = [lock EXCEPT ![s] = c]
  /\ sess' = [sess EXCEPT ![c] = s]
  /\ arg' = [arg EXCEPT ![c] = to]
  /\ Goto(c, "changed")
  /\ UNCHANGED <<up, ref, newId, rowVars, lost>>

(* Slip: FAILED is accepted from everywhere. *)
TransitionForcesFailed(c, s, to) ==
  /\ up
  /\ at[c] = "idle"
  /\ ~ \E d \in Callers : Creating(d, s)
  /\ lock[s] = None
  /\ Allowed(status[s], to) \/ (status[s] # Absent /\ to = "FAILED")
  /\ status' = [status EXCEPT ![s] = to]
  /\ lock' = [lock EXCEPT ![s] = c]
  /\ sess' = [sess EXCEPT ![c] = s]
  /\ arg' = [arg EXCEPT ![c] = to]
  /\ Goto(c, "changed")
  /\ UNCHANGED <<up, ref, newId, rowVars, lastEvent, lost>>

(***************************************************************************)
(* Transition: lookup, mutex, table.  The coordinator moves a session only *)
(* after the CreateSession that made it has returned.                      *)
(***************************************************************************)
Transition(c, s, to) ==
  /\ up
  /\ at[c] = "idle"
  /\ ~ \E d \in Callers : Creating(d, s)
  /\ lock[s] = None
  /\ Allowed(status[s], to)
  /\ status' = [status EXCEPT ![s] = to]
  /\ lock' = [lock EXCEPT ![s] = c]
  /\ sess' = [sess EXCEPT ![c] = s]
  /\ arg' = [arg EXCEPT ![c] = to]
  /\ Goto(c, "changed")
  /\ UNCHANGED <<up, ref, newId, rowVars, lastEvent, lost>>

(* An error of the store is only logged. *)
StoreStatus(c) ==
  /\ at[c] = "changed"
  /\ \/ /\ UpdateSessionStatus(sess[c], arg[c])
        /\ UNCHANGED lost
     \/ /\ StoreFaults
        /\ lost' = [lost EXCEPT ![sess[c]] = TRUE]
        /\ UNCHANGED row
  /\ Goto(c, "stored")
  /\ UNCHANGED <<up, memVars, sess, arg, newId, rowRef, ckpts, lastId, lastEvent>>

(* emit, then the deferred unlock. *)
EmitTransition(c) ==
  /\ at[c] = "stored"
  /\ \/ lastEvent' = [lastEvent EXCEPT ![sess[c]] = status[sess[c]]]
     \/ BusFaults /\ UNCHANGED lastEvent
  /\ lock' = [lock EXCEPT ![sess[c]] = None]
  /\ Return(c)
  /\ UNCHANGED <<up, status, ref, rowVars, lost>>

-----------------------------------------------------------------------------
(* Slip: an error of the insert is overlooked. *)
SaveCheckpointUnchecked(c, s) ==
  /\ up
  /\ at[c] = "idle"
  /\ status[s] # Absent
  /\ lastId < MaxCheckpoints
  /\ lastId' = lastId + 1
  /\ ckpts' \in {ckpts, [ckpts EXCEPT ![s] = @ \union {lastId + 1}]}
  /\ newId' = [newId EXCEPT ![c] = lastId + 1]
  /\ sess' = [sess EXCEPT ![c] = s]
  /\ Goto(c, "saved")
  /\ UNCHANGED <<up, memVars, arg, row, rowRef, lastEvent, lost>>

(* SaveCheckpoint: the session must be in the map; insert, fresh ID. *)
SaveCheckpoint(c, s) ==
  /\ up
  /\ at[c] = "idle"
  /\ status[s] # Absent
  /\ lastId < MaxCheckpoints
  /\ InsertCheckpoint(s)
  /\ newId' = [newId EXCEPT ![c] = lastId + 1]
  /\ sess' = [sess EXCEPT ![c] = s]
  /\ Goto(c, "saved")
  /\ UNCHANGED <<up, memVars, arg, row, rowRef, lastEvent, lost>>

(* An error here leaves the in-memory reference alone. *)
UpdateCheckpointRef(c) ==
  /\ at[c] = "saved"
  /\ \/ /\ SetRowRef(sess[c], newId[c])
        /\ Goto(c, "referenced")
        /\ UNCHANGED <<sess, arg, newId>>
     \/ /\ StoreFaults
        /\ Return(c)
        /\ UNCHANGED rowRef
  /\ UNCHANGED <<up, memVars, row, ckpts, lastId, lastEvent, lost>>

SetCheckpointRef(c) ==
  /\ at[c] = "referenced"
  /\ ref' = [ref EXCEPT ![sess[c]] = newId[c]]
  /\ Return(c)
  /\ UNCHANGED <<up, status, lock, rowVars, lastEvent, lost>>

-----------------------------------------------------------------------------
(* The process dies: the map, the mutexes and the calls in progress go. *)
Crash ==
  /\ up
  /\ up' = FALSE
  /\ status' = [s \in Sessions |-> Absent]
  /\ ref' = [s \in Sessions |-> 0]
  /\ lock' = [s \in Sessions |-> None]
  /\ at' = [c \in Callers |-> "idle"]
  /\ sess' = [c \in Callers |-> None]
  /\ arg' = [c \in Callers |-> Absent]
  /\ newId' = [c \in Callers |-> 0]
  /\ UNCHANGED <<rowVars, lastEvent, lost>>

(* Slip: every recovered session starts over. *)
RecoverAsCreated ==
  /\ ~up
  /\ up' = TRUE
  /\ status' = [s \in Sessions |-> IF row[s] \in Live THEN "CREATED" ELSE Absent]
  /\ UNCHANGED <<ref, lock, callVars, rowVars, lastEvent, lost>>

(* The unfinished rows go into the map, without events or checkpoint refs. *)
Recover ==
  /\ ~up
  /\ up' = TRUE
  /\ status' = [s \in Sessions |-> IF s \in ListNonTerminalSessions THEN row[s] ELSE Absent]
  /\ UNCHANGED <<ref, lock, callVars, rowVars, lastEvent, lost>>

-----------------------------------------------------------------------------
Step(c) ==
  \/ PutSession(c) \/ EmitCreated(c)
  \/ StoreStatus(c) \/ EmitTransition(c)
  \/ UpdateCheckpointRef(c) \/ SetCheckpointRef(c)

Call(c, s) ==
  \/ CreateSession(c, s)
  \/ \E to \in SessionStatus : Transition(c, s, to)
  \/ SaveCheckpoint(c, s)

Next ==
  \/ \E c \in Callers : Step(c) \/ \E s \in Sessions : Call(c, s)
  \/ Crash
  \/ Recover

Spec == Init /\ [][Next]_vars

-----------------------------------------------------------------------------
(* Properties. *)

(* Every variable keeps its type. *)
TypeOK ==
  /\ up \in BOOLEAN
  /\ status \in [Sessions -> SessionStatus \union {Absent}]
  /\ ref \in [Sessions -> Nat]
  /\ lock \in [Sessions -> Callers \union {None}]
  /\ at \in [Callers -> CallStates]
  /\ sess \in [Callers -> Sessions \union {None}]
  /\ arg \in [Callers -> SessionStatus \union {Absent}]
  /\ newId \in [Callers -> Nat]
  /\ row \in [Sessions -> SessionStatus \union {Absent}]
  /\ rowRef \in [Sessions -> Nat]
  /\ ckpts \in [Sessions -> SUBSET Nat]
  /\ lastId \in Nat
  /\ lastEvent \in [Sessions -> SessionStatus \union {Absent}]
  /\ lost \in [Sessions -> BOOLEAN]

(***************************************************************************)
(* While nobody is inside CreateSession or Transition of a session, what   *)
(* GetSession shows is what a restart would find, unless an update of the  *)
(* row failed: Transition writes the row before it releases the mutex.     *)
(***************************************************************************)
StoreInStep ==
  \A s \in Sessions :
    (up /\ lock[s] = None /\ ~lost[s] /\ ~ \E c \in Callers : Creating(c, s)) =>
      \/ status[s] = row[s]
      \/ status[s] = Absent /\ row[s] \in Terminal

(***************************************************************************)
(* An event is not published ahead of the row: a restart never takes a     *)
(* session back behind a status its subscribers were told, unless an       *)
(* update of the row failed.                                               *)
(***************************************************************************)
PublishedIsDurable ==
  \A s \in Sessions : ~lost[s] => Reaches(lastEvent[s], row[s])

(***************************************************************************)
(* The row of a session only moves forward in the transition table, across *)
(* concurrent calls, failed updates, crashes and restarts; a COMPLETED or  *)
(* FAILED row is final.                                                    *)
(***************************************************************************)
DurableForward ==
  [][\A s \in Sessions : Reaches(row[s], row'[s])]_vars

(***************************************************************************)
(* After session.completed or session.failed no other event of the session *)
(* is published, not even after a restart, unless an update of its row     *)
(* failed.                                                                 *)
(***************************************************************************)
TerminalEventIsFinal ==
  [][\A s \in Sessions :
       lastEvent[s] \in Terminal /\ ~lost[s] => lastEvent'[s] = lastEvent[s]]_vars

(***************************************************************************)
(* checkpoint_ref and CheckpointRef name a checkpoint that was saved for   *)
(* this session, wherever SaveCheckpoint was interrupted.                  *)
(***************************************************************************)
CheckpointRefsExist ==
  \A s \in Sessions :
    /\ rowRef[s] # 0 => rowRef[s] \in ckpts[s]
    /\ ref[s] # 0 => ref[s] \in ckpts[s]
=============================================================================
