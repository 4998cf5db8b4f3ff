------------------------------- MODULE Sandbox -------------------------------
(***************************************************************************)
(* internal/sandbox, DockerSandbox: the map of containers against the      *)
(* Docker daemon's own state.  A call of the interface is a goroutine that *)
(* makes one daemon request after another under its caller's context;      *)
(* d.mu guards single map accesses only, so calls interleave between any   *)
(* two requests.  The daemon is external: a request succeeds, is refused   *)
(* without effect, or is cut off by a context that ends just after the     *)
(* daemon has acted.                                                       *)
(***************************************************************************)
EXTENDS Naturals

CONSTANTS
  Calls,        \* goroutines that call the sandbox
  Names,        \* foreman-sbox-<time> names
  None,
  EventBuffer,  \* capacity of the channel SubscribeEvents returns
  MaxLines      \* bound: lines in one chunk of a container's log

ASSUME SandboxAssumption ==
  /\ None \notin Names \X Calls
  /\ EventBuffer \in Nat \ {0}
  /\ MaxLines \in Nat \ {0}

(***************************************************************************)
(* A container, as its Docker ID tells it apart: by the name it was given  *)
(* and the Provision that created it.  Two containers may have one name,   *)
(* one after the other.                                                    *)
(***************************************************************************)
Boxes == Names \X Calls
Box(n, c) == <<n, c>>
Name(b) == b[1]
Maker(b) == b[2]

VARIABLES
  containers,   \* d.containers: the container each name stands for, or None
  state,        \* state[b]: container b, as Docker sees it
  pc,           \* where each call is
  box,          \* the container it works on
  ended,        \* calls whose context is done
  proc,         \* proc[c]: the process call c started with exec
  reading,      \* calls whose StdCopy goroutine runs
  lines,        \* lines[c]: lines of the chunk in hand, not yet sent
  buffered,     \* buffered[c]: events in the channel, not yet received
  lost,         \* history: containers a cut off or failed request left in doubt
  outside       \* history: containers somebody else removed

execVars == <<proc, reading>>
eventVars == <<lines, buffered>>
doubtVars == <<lost, outside>>
vars == <<containers, state, pc, box, ended, execVars, eventVars, doubtVars>>

Steps == {"none", "image", "created", "started", "ready", "undo",     \* Provision
          "exec", "attach", "waiting", "closing", "inspect",         \* Execute
          "request",                                                  \* the short calls
          "open", "logs", "read", "emit",                             \* SubscribeEvents
          "remove", "unmap"}                                          \* Destroy

Existing == {"created", "running", "stopped"}

Init ==
  /\ containers = [n \in Names |-> None]
  /\ state = [b \in Boxes |-> "unborn"]
  /\ pc = [c \in Calls |-> "none"]
  /\ box = [c \in Calls |-> None]
  /\ ended = {}
  /\ proc = [c \in Calls |-> "none"]
  /\ reading = {}
  /\ lines = [c \in Calls |-> 0]
  /\ buffered = [c \in Calls |-> 0]
  /\ lost = {}
  /\ outside = {}

-----------------------------------------------------------------------------
Goto(c, step) == pc' = [pc EXCEPT ![c] = step]

(* The call is over, with or without an error; its context goes with it. *)
Return(c) ==
  /\ pc' = [pc EXCEPT ![c] = "none"]
  /\ box' = [box EXCEPT ![c] = None]
  /\ ended' = ended \ {c}

(* The context is not done: a request can get an answer. *)
Alive(c) == c \notin ended

(* Containers that exist under this name: at most one. *)
Holders(n) == {b \in Boxes : Name(b) = n /\ state[b] \in Existing}

(* Containers that have ever had it. *)
Namesakes(n) == {b \in Boxes : Name(b) = n /\ state[b] # "unborn"}

(* The process of every exec in container b dies with it. *)
Killed(b) ==
  [c \in Calls |-> IF box[c] = b /\ proc[c] = "running" THEN "dead" ELSE proc[c]]

(* Docker forgets container b, and its name is free again. *)
Removed(b) ==
  /\ state' = [state EXCEPT ![b] = "removed"]
  /\ proc' = Killed(b)

-----------------------------------------------------------------------------
(* Provision. *)

(***************************************************************************)
(* The name is the current time: calls of one clock tick are given the     *)
(* same one, before any of them has created its container.                 *)
(***************************************************************************)
Provision(c, n) ==
  /\ pc[c] = "none"
  /\ Namesakes(n) = {}
  /\ box' = [box EXCEPT ![c] = Box(n, c)]
  /\ Goto(c, "image")
  /\ UNCHANGED <<containers, state, ended, execVars, eventVars, doubtVars>>

(* Slip: a failed create is cleaned up by name. *)
CreateFailsRemoves(c) ==
  /\ pc[c] = "image"
  /\ \/ \E b \in Holders(Name(box[c])) : Removed(b)
     \/ Holders(Name(box[c])) = {} /\ UNCHANGED <<state, proc>>
  /\ Return(c)
  /\ UNCHANGED <<containers, reading, eventVars, doubtVars>>

(***************************************************************************)
(* No image, a bad memory or CPU specification, or ContainerCreate fails,  *)
(* as it does while the name is taken.                                     *)
(***************************************************************************)
CreateFails(c) ==
  /\ pc[c] = "image"
  /\ Return(c)
  /\ UNCHANGED <<containers, state, execVars, eventVars, doubtVars>>

(***************************************************************************)
(* ensureImage and ContainerCreate: the name must be free, though another  *)
(* container may have had it and been removed while the image was pulled.  *)
(***************************************************************************)
Create(c) ==
  /\ pc[c] = "image"
  /\ Alive(c)
  /\ Holders(Name(box[c])) = {}
  /\ state' = [state EXCEPT ![box[c]] = "created"]
  /\ Goto(c, "created")
  /\ UNCHANGED <<containers, box, ended, execVars, eventVars, doubtVars>>

(* The container was created but the call only learns of its context. *)
CreateCutOff(c) ==
  /\ pc[c] = "image"
  /\ Alive(c)
  /\ Holders(Name(box[c])) = {}
  /\ state' = [state EXCEPT ![box[c]] = "created"]
  /\ lost' = lost \union {box[c]}
  /\ Return(c)
  /\ UNCHANGED <<containers, execVars, eventVars, outside>>

(* ContainerStart. *)
Start(c) ==
  /\ pc[c] = "created"
  /\ Alive(c)
  /\ state[box[c]] = "created"
  /\ state' = [state EXCEPT ![box[c]] = "running"]
  /\ Goto(c, "started")
  /\ UNCHANGED <<containers, box, ended, execVars, eventVars, doubtVars>>

(* The exec of mkdir, or no WorkDir. *)
Mkdir(c) ==
  /\ pc[c] = "started"
  /\ Goto(c, "ready")
  /\ UNCHANGED <<containers, state, box, ended, execVars, eventVars, doubtVars>>

(* ContainerStart or the exec of mkdir fails. *)
StartFails(c) ==
  /\ pc[c] \in {"created", "started"}
  /\ Goto(c, "undo")
  /\ UNCHANGED <<containers, state, box, ended, execVars, eventVars, doubtVars>>

(* ... because the context ended just after the container was started. *)
StartCutOff(c) ==
  /\ pc[c] = "created"
  /\ Alive(c)
  /\ state[box[c]] = "created"
  /\ state' = [state EXCEPT ![box[c]] = "running"]
  /\ ended' = ended \union {c}
  /\ Goto(c, "undo")
  /\ UNCHANGED <<containers, box, execVars, eventVars, doubtVars>>

(***************************************************************************)
(* ContainerRemove under the caller's context, its error ignored: a        *)
(* context that is done removes nothing.                                   *)
(***************************************************************************)
Undo(c) ==
  /\ pc[c] = "undo"
  /\ \/ Alive(c) /\ Removed(box[c]) /\ UNCHANGED lost
     \/ lost' = lost \union {box[c]} /\ UNCHANGED <<state, proc>>
  /\ Return(c)
  /\ UNCHANGED <<containers, reading, eventVars, outside>>

(* The entry is made under d.mu, whatever was there, and the name returned. *)
Register(c) ==
  /\ pc[c] = "ready"
  /\ containers' = [containers EXCEPT ![Name(box[c])] = box[c]]
  /\ Return(c)
  /\ UNCHANGED <<state, execVars, eventVars, doubtVars>>

-----------------------------------------------------------------------------
(* lookup, with which every other call begins; without an entry it fails. *)
lookup(c, n, step) ==
  /\ pc[c] = "none"
  /\ containers[n] # None
  /\ box' = [box EXCEPT ![c] = containers[n]]
  /\ Goto(c, step)
  /\ UNCHANGED <<containers, state, ended, execVars, eventVars, doubtVars>>

Execute(c, n) == lookup(c, n, "exec")

(* Calls that ask the daemon about the container or for its files. *)
WriteFile(c, n) == lookup(c, n, "request")
ReadFile(c, n) == lookup(c, n, "request")
UploadCheckpoint(c, n) == lookup(c, n, "request")
Heartbeat(c, n) == lookup(c, n, "request")
Stats(c, n) == lookup(c, n, "request")

SubscribeEvents(c, n) == lookup(c, n, "open")

Destroy(c, n) == lookup(c, n, "remove")

-----------------------------------------------------------------------------
(* Execute. *)

ExecCreate(c) ==
  /\ pc[c] = "exec"
  /\ Alive(c)
  /\ state[box[c]] = "running"
  /\ Goto(c, "attach")
  /\ UNCHANGED <<containers, state, box, ended, execVars, eventVars, doubtVars>>

(* ContainerExecAttach starts the process; a goroutine reads its output. *)
ExecAttach(c) ==
  /\ pc[c] = "attach"
  /\ Alive(c)
  /\ state[box[c]] = "running"
  /\ proc' = [proc EXCEPT ![c] = "running"]
  /\ reading' = reading \union {c}
  /\ Goto(c, "waiting")
  /\ UNCHANGED <<containers, state, box, ended, eventVars, doubtVars>>

(* Creating, attaching or the final inspect fails. *)
ExecFails(c) ==
  /\ pc[c] \in {"exec", "attach", "inspect"}
  /\ Return(c)
  /\ proc' = [proc EXCEPT ![c] = "none"]
  /\ UNCHANGED <<containers, state, reading, eventVars, doubtVars>>

(* The stream ends with the process, or because attachResp was closed. *)
StdCopyEnds(c) ==
  /\ c \in reading
  /\ proc[c] # "running" \/ pc[c] = "closing"
  /\ reading' = reading \ {c}
  /\ UNCHANGED <<containers, state, pc, box, ended, proc, eventVars, doubtVars>>

(* case err := <-readDone: inspect, or return the read error. *)
ReadDone(c) ==
  /\ pc[c] = "waiting"
  /\ c \notin reading
  /\ Goto(c, "inspect")
  /\ UNCHANGED <<containers, state, box, ended, execVars, eventVars, doubtVars>>

(* Slip: the context's case returns without waiting for the goroutine. *)
ContextDoneReturns(c) ==
  /\ pc[c] = "waiting"
  /\ c \in ended
  /\ Return(c)
  /\ proc' = [proc EXCEPT ![c] = "none"]
  /\ UNCHANGED <<containers, state, reading, eventVars, doubtVars>>

(***************************************************************************)
(* case <-ctx.Done(): close the connection and wait for the goroutine; the *)
(* process in the container goes on.                                       *)
(***************************************************************************)
ContextDone(c) ==
  /\ pc[c] = "waiting"
  /\ c \in ended
  /\ Goto(c, "closing")
  /\ UNCHANGED <<containers, state, box, ended, execVars, eventVars, doubtVars>>

ExecCancelled(c) ==
  /\ pc[c] = "closing"
  /\ c \notin reading
  /\ Return(c)
  /\ proc' = [proc EXCEPT ![c] = "none"]
  /\ UNCHANGED <<containers, state, reading, eventVars, doubtVars>>

(* ContainerExecInspect gives the exit code. *)
ExecInspect(c) ==
  /\ pc[c] = "inspect"
  /\ Alive(c)
  /\ state[box[c]] \in Existing
  /\ Return(c)
  /\ proc' = [proc EXCEPT ![c] = "none"]
  /\ UNCHANGED <<containers, state, reading, eventVars, doubtVars>>

-----------------------------------------------------------------------------
(***************************************************************************)
(* The requests of these calls read or write inside the container; their   *)
(* answers and errors go to the caller and change nothing here.            *)
(***************************************************************************)
Answered(c) ==
  /\ pc[c] = "request"
  /\ Return(c)
  /\ UNCHANGED <<containers, state, execVars, eventVars, doubtVars>>

(***************************************************************************)
(* SubscribeEvents: ContainerLogs goes by the name, not by the entry's ID; *)
(* then a new channel and the goroutine that fills it.                     *)
(***************************************************************************)
OpenLogs(c) ==
  /\ pc[c] = "open"
  /\ Alive(c)
  /\ \E b \in Holders(Name(box[c])) : box' = [box EXCEPT ![c] = b]
  /\ Goto(c, "logs")
  /\ buffered' = [buffered EXCEPT ![c] = 0]
  /\ UNCHANGED <<containers, state, ended, execVars, lines, doubtVars>>

(* The daemon refuses the logs, of a live container or a dead one. *)
OpenLogsFails(c) ==
  /\ pc[c] = "open"
  /\ Return(c)
  /\ UNCHANGED <<containers, state, execVars, eventVars, doubtVars>>

(* The select at the head of the loop finds the context alive. *)
PollContext(c) ==
  /\ pc[c] = "logs"
  /\ Alive(c)
  /\ Goto(c, "read")
  /\ UNCHANGED <<containers, state, box, ended, execVars, eventVars, doubtVars>>

(* A chunk arrives, perhaps after the context has ended; it may be empty. *)
ReadChunk(c) ==
  /\ pc[c] = "read"
  /\ \E k \in 0..MaxLines :
       /\ lines' = [lines EXCEPT ![c] = k]
       /\ Goto(c, IF k = 0 THEN "logs" ELSE "emit")
  /\ UNCHANGED <<containers, state, box, ended, execVars, buffered, doubtVars>>

(* A line is sent unless the channel is full; then the next of the chunk. *)
Emit(c) ==
  /\ pc[c] = "emit"
  /\ buffered[c] < EventBuffer
  /\ buffered' = [buffered EXCEPT ![c] = @ + 1]
  /\ lines' = [lines EXCEPT ![c] = @ - 1]
  /\ Goto(c, IF lines[c] = 1 THEN "logs" ELSE "emit")
  /\ UNCHANGED <<containers, state, box, ended, execVars, doubtVars>>

(* The deferred close of the channel, which keeps what is buffered. *)
CloseEvents(c) ==
  /\ Return(c)
  /\ lines' = [lines EXCEPT ![c] = 0]
  /\ UNCHANGED <<containers, state, execVars, buffered, doubtVars>>

(* Slip: the send is not in a select with the context. *)
StopEventsUnlessFull(c) ==
  /\ \/ pc[c] \in {"logs", "read"} /\ c \in ended
     \/ pc[c] = "read" /\ state[box[c]] # "running"
     \/ pc[c] = "emit" /\ c \in ended /\ buffered[c] < EventBuffer
  /\ CloseEvents(c)

(* The context is done, in any select or read, or the log is at its end. *)
StopEvents(c) ==
  /\ \/ pc[c] \in {"logs", "read", "emit"} /\ c \in ended
     \/ pc[c] = "read" /\ state[box[c]] # "running"
  /\ CloseEvents(c)

(* The connection to the daemon breaks. *)
StreamBreaks(c) ==
  /\ pc[c] = "read"
  /\ CloseEvents(c)

(* The receiver takes an event, also from a channel that has been closed. *)
Receive(c) ==
  /\ buffered[c] > 0
  /\ buffered' = [buffered EXCEPT ![c] = @ - 1]
  /\ UNCHANGED <<containers, state, pc, box, ended, execVars, lines, doubtVars>>

-----------------------------------------------------------------------------
(* Destroy. *)

(* ContainerRemove. *)
Remove(c) ==
  /\ pc[c] = "remove"
  /\ Alive(c)
  /\ state[box[c]] \in Existing
  /\ Removed(box[c])
  /\ Goto(c, "unmap")
  /\ UNCHANGED <<containers, box, ended, reading, eventVars, doubtVars>>

(* Slip: the entry is deleted although the removal failed. *)
RemoveFailsUnmaps(c) ==
  /\ pc[c] = "remove"
  /\ containers' = [containers EXCEPT ![Name(box[c])] = None]
  /\ Return(c)
  /\ UNCHANGED <<state, execVars, eventVars, doubtVars>>

(* It fails, as it does when there is no such container: the entry stays. *)
RemoveFails(c) ==
  /\ pc[c] = "remove"
  /\ Return(c)
  /\ UNCHANGED <<containers, state, execVars, eventVars, doubtVars>>

(* The container is gone but the call only learns of its context. *)
RemoveCutOff(c) ==
  /\ pc[c] = "remove"
  /\ Alive(c)
  /\ state[box[c]] \in Existing
  /\ Removed(box[c])
  /\ lost' = lost \union {box[c]}
  /\ Return(c)
  /\ UNCHANGED <<containers, reading, eventVars, outside>>

(* Slip: the entry is never deleted. *)
UnmapNothing(c) ==
  /\ pc[c] = "unmap"
  /\ Return(c)
  /\ UNCHANGED <<containers, state, execVars, eventVars, doubtVars>>

(* The entry of that name is deleted under d.mu, whatever it stands for. *)
Unmap(c) ==
  /\ pc[c] = "unmap"
  /\ containers' = [containers EXCEPT ![Name(box[c])] = None]
  /\ Return(c)
  /\ UNCHANGED <<state, execVars, eventVars, doubtVars>>

-----------------------------------------------------------------------------
(* The world outside. *)

(* A timeout, a lost heartbeat or a shutdown ends the call's context. *)
Cancel(c) ==
  /\ pc[c] # "none"
  /\ Alive(c)
  /\ ended' = ended \union {c}
  /\ UNCHANGED <<containers, state, pc, box, execVars, eventVars, doubtVars>>

ProcessExits(c) ==
  /\ proc[c] = "running"
  /\ proc' = [proc EXCEPT ![c] = "dead"]
  /\ UNCHANGED <<containers, state, pc, box, ended, reading, eventVars, doubtVars>>

(* The container's own process dies, out of memory for instance. *)
ContainerStops(b) ==
  /\ state[b] = "running"
  /\ state' = [state EXCEPT ![b] = "stopped"]
  /\ proc' = Killed(b)
  /\ UNCHANGED <<containers, pc, box, ended, reading, eventVars, doubtVars>>

(* Somebody else removes a container: an operator, another Foreman's reaper. *)
RemovedOutside(b) ==
  /\ state[b] \in Existing
  /\ Removed(b)
  /\ outside' = outside \union {b}
  /\ UNCHANGED <<containers, pc, box, ended, reading, eventVars, lost>>

-----------------------------------------------------------------------------
Call(c) ==
  \E n \in Names :
    \/ Provision(c, n) \/ Execute(c, n) \/ SubscribeEvents(c, n) \/ Destroy(c, n)
    \/ WriteFile(c, n) \/ ReadFile(c, n) \/ UploadCheckpoint(c, n)
    \/ Heartbeat(c, n) \/ Stats(c, n)

Provisioning(c) ==
  \/ CreateFails(c) \/ Create(c) \/ CreateCutOff(c) \/ Start(c) \/ Mkdir(c)
  \/ StartFails(c) \/ StartCutOff(c) \/ Undo(c) \/ Register(c)

Executing(c) ==
  \/ ExecCreate(c) \/ ExecAttach(c) \/ ExecFails(c) \/ StdCopyEnds(c)
  \/ ReadDone(c) \/ ContextDone(c) \/ ExecCancelled(c) \/ ExecInspect(c)

Watching(c) ==
  \/ Answered(c) \/ OpenLogs(c) \/ OpenLogsFails(c)
  \/ PollContext(c) \/ Emit(c) \/ StopEvents(c)

(* The log of a running container: it may stay silent for good. *)
LogStream(c) == ReadChunk(c) \/ StreamBreaks(c)

Destroying(c) == Remove(c) \/ RemoveFails(c) \/ RemoveCutOff(c) \/ Unmap(c)

Progress(c) == Provisioning(c) \/ Executing(c) \/ Watching(c) \/ Destroying(c)

(* Nobody need call: between calls the sandbox only waits. *)
Idle == (\A c \in Calls : pc[c] = "none") /\ UNCHANGED vars

Next ==
  \/ \E c \in Calls : Call(c) \/ Progress(c) \/ LogStream(c)
  \/ \E c \in Calls : Receive(c) \/ Cancel(c) \/ ProcessExits(c)
  \/ \E b \in Boxes : ContainerStops(b) \/ RemovedOutside(b)
  \/ Idle

Spec == Init /\ [][Next]_vars

(* A goroutine that can go on does; requests to the daemon end. *)
FairSpec == Spec /\ \A c \in Calls : WF_vars(Progress(c))

-----------------------------------------------------------------------------
TypeOK ==
  /\ containers \in [Names -> Boxes \union {None}]
  /\ state \in [Boxes -> Existing \union {"unborn", "removed"}]
  /\ pc \in [Calls -> Steps]
  /\ box \in [Calls -> Boxes \union {None}]
  /\ ended \subseteq Calls
  /\ proc \in [Calls -> {"none", "running", "dead"}]
  /\ reading \subseteq Calls
  /\ lines \in [Calls -> 0..MaxLines]
  /\ buffered \in [Calls -> 0..EventBuffer]
  /\ lost \subseteq Boxes
  /\ outside \subseteq Boxes

(* Calls that work on b and have come to one of these steps. *)
At(b, steps) == {c \in Calls : box[c] = b /\ pc[c] \in steps}

(***************************************************************************)
(* A container that exists is in the map, so that Destroy can reach it, or *)
(* its Provision is still busy with it, or a request on it was cut off or  *)
(* failed, or another container had its name: whatever two Destroys,       *)
(* removals from outside and contexts that end between any two requests    *)
(* do together, only a shared name makes d.containers lose a container.    *)
(* (It does: Register and Destroy's delete go by the name, and may drop    *)
(* the entry a Provision of the same tick made after a removal.)           *)
(***************************************************************************)
ContainerIsKnown ==
  \A b \in Boxes : state[b] \in Existing =>
    \/ containers[Name(b)] = b
    \/ b \in lost
    \/ At(b, {"created", "started", "ready", "undo"}) # {}
    \/ Namesakes(Name(b)) # {b}

(***************************************************************************)
(* An entry whose container is gone is about to be deleted by the Destroy  *)
(* that removed it, unless the removal came from outside or its answer was *)
(* lost: those entries stay, since every later Destroy fails.              *)
(***************************************************************************)
EntryHasContainer ==
  \A n \in Names :
    containers[n] # None /\ state[containers[n]] \notin Existing =>
      containers[n] \in lost \union outside \/ At(containers[n], {"unmap"}) # {}

(***************************************************************************)
(* Inside this process only a Destroy removes a container in the map: a    *)
(* Provision that fails never cleans up what a caller has been given, not  *)
(* even under its own name, before or after a removal has freed that name. *)
(***************************************************************************)
OnlyDestroyRemoves ==
  [][\A b \in Boxes :
       containers[Name(b)] = b /\ state[b] \in Existing /\ state'[b] = "removed" =>
         b \in outside' \/ At(b, {"remove"}) # {}]_vars

(***************************************************************************)
(* When Execute has returned, its StdCopy goroutine is gone: nobody writes *)
(* the buffers any more, whichever case of the select was taken.           *)
(***************************************************************************)
ReaderIsGone == \A c \in reading : pc[c] \in {"waiting", "closing"}

(***************************************************************************)
(* A call whose context is done returns, and SubscribeEvents closes its    *)
(* channel, even if the process never exits and nobody receives.           *)
(***************************************************************************)
CancelledReturns == \A c \in Calls : c \in ended ~> c \notin ended
=============================================================================
