---------------------------- MODULE SandboxProofs ----------------------------
(***************************************************************************)
(* Proofs about Sandbox, for any number of calls and names.  Docker gives  *)
(* every container an ID of its own, so while a Provision is busy with a   *)
(* container nobody else holds that container, whoever shares its name:    *)
(* SoleInv carries the argument, the rest of IInv says what a call knows   *)
(* at each step.                                                           *)
(***************************************************************************)
EXTENDS Sandbox, TLAPS

(* Steps of a Provision that has its container. *)
Busy == {"created", "started", "ready", "undo"}

(* Steps of a call that holds what it found in the map. *)
Looked == {"exec", "attach", "waiting", "closing", "inspect", "request",
           "open", "remove", "unmap"}

(* Steps of the goroutine that reads a log, found by its name. *)
Following == {"logs", "read", "emit"}

BoxInv ==
  /\ \A c \in Calls : pc[c] # "none" => box[c] \in Boxes
  /\ \A n \in Names : containers[n] # None => Name(containers[n]) = n

(* Nobody knows a container before its Provision has created it. *)
BornInv ==
  /\ \A c \in Calls : pc[c] = "image" => Maker(box[c]) = c /\ state[box[c]] = "unborn"
  /\ \A c \in Calls : pc[c] \in Busy \union Looked => state[box[c]] # "unborn"
  /\ \A n \in Names : containers[n] # None => state[containers[n]] # "unborn"

BusyInv ==
  \A c \in Calls : pc[c] \in Busy =>
    /\ \A n \in Names : containers[n] # box[c]
    /\ pc[c] # "undo" => state[box[c]] \in Existing \/ box[c] \in outside

SoleInv ==
  \A c, d \in Calls :
    pc[c] \in Busy /\ pc[d] \in Busy \union Looked /\ box[c] = box[d] => c = d

UnmapInv == \A c \in Calls : pc[c] = "unmap" => state[box[c]] = "removed"

KnownInv ==
  \A b \in Boxes : state[b] \in Existing =>
    \/ containers[Name(b)] = b
    \/ b \in lost
    \/ \E c \in Calls : box[c] = b /\ pc[c] \in Busy
    \/ \E other \in Boxes : other # b /\ Name(other) = Name(b) /\ state[other] # "unborn"

EntryInv ==
  \A n \in Names :
    containers[n] # None /\ state[containers[n]] \notin Existing =>
      \/ containers[n] \in lost \union outside
      \/ \E c \in Calls : box[c] = containers[n] /\ pc[c] = "unmap"

LinesInv == \A c \in Calls : pc[c] = "emit" => lines[c] # 0

IInv ==
  /\ TypeOK
  /\ BoxInv
  /\ BornInv
  /\ BusyInv
  /\ SoleInv
  /\ UnmapInv
  /\ KnownInv
  /\ EntryInv
  /\ LinesInv

(* A container has the name and the maker it was created with. *)
LEMMA BoxFacts ==
  /\ None \notin Boxes
  /\ \A b \in Boxes : Name(b) \in Names /\ Maker(b) \in Calls
  /\ \A n \in Names, c \in Calls :
       Box(n, c) \in Boxes /\ Name(Box(n, c)) = n /\ Maker(Box(n, c)) = c
  /\ \A b \in Boxes, c \in Boxes : Name(b) = Name(c) /\ Maker(b) = Maker(c) => b = c
PROOF
  BY SandboxAssumption DEF Boxes, Name, Maker, Box

(***************************************************************************)
(* A step of one call that leaves the map, the containers and the history  *)
(* alone and takes the call to another step of the same call, or ends it.  *)
(***************************************************************************)
Quiet(c, step) ==
  /\ UNCHANGED <<containers, state, doubtVars>>
  /\ pc' = [pc EXCEPT ![c] = step]
  /\ \/ box' = box
     \/ step = "none" /\ box' = [box EXCEPT ![c] = None]
     \/ step = "logs" /\ \E b \in Boxes : box' = [box EXCEPT ![c] = b]
  /\ \/ lines' = lines /\ step # "emit"
     \/ \E k \in 0..MaxLines :
          lines' = [lines EXCEPT ![c] = k] /\ (step = "emit" => k # 0)

(* Such a step preserves the invariant. *)
LEMMA QuietStep ==
  ASSUME IInv, NEW c \in Calls, NEW step \in Steps, Quiet(c, step), TypeOK',
         \/ /\ pc[c] \in (Looked \ {"unmap"}) \union Following
            /\ step \in (IF pc[c] \in Looked THEN Looked \ {"unmap"} ELSE {})
                          \union Following \union {"none"}
         \/ pc[c] = "image" /\ step = "none"
         \/ pc[c] = "started" /\ step = "ready"
         \/ pc[c] \in {"created", "started"} /\ step = "undo"
  PROVE  IInv'
PROOF
  <1> USE SandboxAssumption, BoxFacts
      DEF IInv, TypeOK, Quiet, doubtVars, Busy, Looked, Following, Steps
  <1>1. BoxInv'
    BY DEF BoxInv
  <1>2. BornInv'
    BY DEF BornInv, BoxInv
  <1>3. BusyInv'
    BY DEF BusyInv, BoxInv
  <1>4. SoleInv'
    BY DEF SoleInv, BoxInv
  <1>5. UnmapInv'
    BY DEF UnmapInv
  <1>6. KnownInv'
    BY DEF KnownInv, BoxInv
  <1>7. EntryInv'
    BY DEF EntryInv, BoxInv
  <1>8. LinesInv'
    BY DEF LinesInv
  <1> QED
    BY <1>1, <1>2, <1>3, <1>4, <1>5, <1>6, <1>7, <1>8

(* Every request that only moves its own call on preserves the invariant. *)
LEMMA QuietRequests ==
  ASSUME IInv, NEW c \in Calls,
         \/ CreateFails(c) \/ Mkdir(c) \/ StartFails(c)
         \/ ExecCreate(c) \/ ExecAttach(c) \/ ExecFails(c) \/ ReadDone(c)
         \/ ContextDone(c) \/ ExecCancelled(c) \/ ExecInspect(c)
         \/ Answered(c) \/ OpenLogs(c) \/ OpenLogsFails(c) \/ PollContext(c)
         \/ StopEvents(c) \/ StreamBreaks(c) \/ RemoveFails(c)
  PROVE  IInv'
PROOF
  <1> USE SandboxAssumption DEF execVars, eventVars, doubtVars, Goto, Return
  <1>1. CASE CreateFails(c)
    <2>1. TypeOK'
      BY <1>1 DEF IInv, TypeOK, Steps, CreateFails
    <2>2. Quiet(c, "none")
      BY <1>1 DEF IInv, TypeOK, Quiet, CreateFails
    <2> QED
      BY <1>1, <2>1, <2>2, QuietStep DEF Steps, Looked, Following, CreateFails
  <1>2. CASE Mkdir(c)
    <2>1. TypeOK'
      BY <1>2 DEF IInv, TypeOK, Steps, Mkdir
    <2>2. Quiet(c, "ready")
      BY <1>2 DEF IInv, TypeOK, Quiet, Mkdir
    <2> QED
      BY <1>2, <2>1, <2>2, QuietStep DEF Steps, Looked, Following, Mkdir
  <1>3. CASE StartFails(c)
    <2>1. TypeOK'
      BY <1>3 DEF IInv, TypeOK, Steps, StartFails
    <2>2. Quiet(c, "undo")
      BY <1>3 DEF IInv, TypeOK, Quiet, StartFails
    <2> QED
      BY <1>3, <2>1, <2>2, QuietStep DEF Steps, Looked, Following, StartFails
  <1>4. CASE ExecCreate(c)
    <2>1. TypeOK'
      BY <1>4 DEF IInv, TypeOK, Steps, ExecCreate
    <2>2. Quiet(c, "attach")
      BY <1>4 DEF IInv, TypeOK, Quiet, ExecCreate
    <2> QED
      BY <1>4, <2>1, <2>2, QuietStep DEF Steps, Looked, Following, ExecCreate
  <1>5. CASE ExecAttach(c)
    <2>1. TypeOK'
      BY <1>5 DEF IInv, TypeOK, Steps, ExecAttach
    <2>2. Quiet(c, "waiting")
      BY <1>5 DEF IInv, TypeOK, Quiet, ExecAttach
    <2> QED
      BY <1>5, <2>1, <2>2, QuietStep DEF Steps, Looked, Following, ExecAttach
  <1>6. CASE ExecFails(c)
    <2>1. TypeOK'
      BY <1>6 DEF IInv, TypeOK, Steps, ExecFails
    <2>2. Quiet(c, "none")
      BY <1>6 DEF IInv, TypeOK, Quiet, ExecFails
    <2> QED
      BY <1>6, <2>1, <2>2, QuietStep DEF Steps, Looked, Following, ExecFails
  <1>7. CASE ReadDone(c)
    <2>1. TypeOK'
      BY <1>7 DEF IInv, TypeOK, Steps, ReadDone
    <2>2. Quiet(c, "inspect")
      BY <1>7 DEF IInv, TypeOK, Quiet, ReadDone
    <2> QED
      BY <1>7, <2>1, <2>2, QuietStep DEF Steps, Looked, Following, ReadDone
  <1>8. CASE ContextDone(c)
    <2>1. TypeOK'
      BY <1>8 DEF IInv, TypeOK, Steps, ContextDone
    <2>2. Quiet(c, "closing")
      BY <1>8 DEF IInv, TypeOK, Quiet, ContextDone
    <2> QED
      BY <1>8, <2>1, <2>2, QuietStep DEF Steps, Looked, Following, ContextDone
  <1>9. CASE ExecCancelled(c)
    <2>1. TypeOK'
      BY <1>9 DEF IInv, TypeOK, Steps, ExecCancelled
    <2>2. Quiet(c, "none")
      BY <1>9 DEF IInv, TypeOK, Quiet, ExecCancelled
    <2> QED
      BY <1>9, <2>1, <2>2, QuietStep DEF Steps, Looked, Following, ExecCancelled
  <1>10. CASE ExecInspect(c)
    <2>1. TypeOK'
      BY <1>10 DEF IInv, TypeOK, Steps, ExecInspect
    <2>2. Quiet(c, "none")
      BY <1>10 DEF IInv, TypeOK, Quiet, ExecInspect
    <2> QED
      BY <1>10, <2>1, <2>2, QuietStep DEF Steps, Looked, Following, ExecInspect
  <1>11. CASE Answered(c)
    <2>1. TypeOK'
      BY <1>11 DEF IInv, TypeOK, Steps, Answered
    <2>2. Quiet(c, "none")
      BY <1>11 DEF IInv, TypeOK, Quiet, Answered
    <2> QED
      BY <1>11, <2>1, <2>2, QuietStep DEF Steps, Looked, Following, Answered
  <1>12. CASE OpenLogs(c)
    <2>1. TypeOK'
      BY <1>12 DEF IInv, TypeOK, Steps, OpenLogs, Holders
    <2>2. Quiet(c, "logs")
      BY <1>12 DEF IInv, TypeOK, Quiet, OpenLogs, Holders
    <2> QED
      BY <1>12, <2>1, <2>2, QuietStep DEF Steps, Looked, Following, OpenLogs, Holders
  <1>13. CASE OpenLogsFails(c)
    <2>1. TypeOK'
      BY <1>13 DEF IInv, TypeOK, Steps, OpenLogsFails
    <2>2. Quiet(c, "none")
      BY <1>13 DEF IInv, TypeOK, Quiet, OpenLogsFails
    <2> QED
      BY <1>13, <2>1, <2>2, QuietStep DEF Steps, Looked, Following, OpenLogsFails
  <1>14. CASE PollContext(c)
    <2>1. TypeOK'
      BY <1>14 DEF IInv, TypeOK, Steps, PollContext
    <2>2. Quiet(c, "read")
      BY <1>14 DEF IInv, TypeOK, Quiet, PollContext
    <2> QED
      BY <1>14, <2>1, <2>2, QuietStep DEF Steps, Looked, Following, PollContext
  <1>15. CASE StopEvents(c)
    <2>1. TypeOK'
      BY <1>15 DEF IInv, TypeOK, Steps, StopEvents, CloseEvents
    <2>3. 0 \in 0..MaxLines
      OBVIOUS
    <2>2. Quiet(c, "none")
      BY <1>15, <2>3 DEF Quiet, StopEvents, CloseEvents
    <2> QED
      BY <1>15, <2>1, <2>2, QuietStep DEF Steps, Looked, Following, StopEvents, CloseEvents
  <1>16. CASE StreamBreaks(c)
    <2>1. TypeOK'
      BY <1>16 DEF IInv, TypeOK, Steps, StreamBreaks, CloseEvents
    <2>3. 0 \in 0..MaxLines
      OBVIOUS
    <2>2. Quiet(c, "none")
      BY <1>16, <2>3 DEF Quiet, StreamBreaks, CloseEvents
    <2> QED
      BY <1>16, <2>1, <2>2, QuietStep DEF Steps, Looked, Following, StreamBreaks, CloseEvents
  <1>17. CASE RemoveFails(c)
    <2>1. TypeOK'
      BY <1>17 DEF IInv, TypeOK, Steps, RemoveFails
    <2>2. Quiet(c, "none")
      BY <1>17 DEF IInv, TypeOK, Quiet, RemoveFails
    <2> QED
      BY <1>17, <2>1, <2>2, QuietStep DEF Steps, Looked, Following, RemoveFails
  <1> QED
    BY <1>1, <1>2, <1>3, <1>4, <1>5, <1>6, <1>7, <1>8, <1>9, <1>10, <1>11, <1>12, <1>13, <1>14, <1>15, <1>16, <1>17

(* So do the steps with the lines of a chunk. *)
LEMMA ChunkSteps ==
  ASSUME IInv, NEW c \in Calls, ReadChunk(c) \/ Emit(c)
  PROVE  IInv'
PROOF
  <1> USE SandboxAssumption DEF execVars, eventVars, doubtVars, Goto
  <1>1. CASE ReadChunk(c)
    <2> PICK k \in 0..MaxLines :
           /\ lines' = [lines EXCEPT ![c] = k]
           /\ pc' = [pc EXCEPT ![c] = IF k = 0 THEN "logs" ELSE "emit"]
      BY <1>1 DEF ReadChunk
    <2> DEFINE step == IF k = 0 THEN "logs" ELSE "emit"
    <2>1. TypeOK'
      BY <1>1 DEF IInv, TypeOK, Steps, ReadChunk
    <2>2. Quiet(c, step)
      BY <1>1 DEF Quiet, ReadChunk
    <2>3. pc[c] = "read" /\ step \in {"logs", "emit"}
      BY <1>1 DEF ReadChunk
    <2> HIDE DEF step
    <2> QED
      BY <2>1, <2>2, <2>3, QuietStep DEF Steps, Looked, Following
  <1>2. CASE Emit(c)
    <2> DEFINE step == IF lines[c] = 1 THEN "logs" ELSE "emit"
               k == lines[c] - 1
    <2>0. k \in 0..MaxLines /\ (step = "emit" => k # 0)
      BY <1>2 DEF IInv, TypeOK, LinesInv, Emit
    <2>1. TypeOK'
      BY <1>2, <2>0 DEF IInv, TypeOK, Steps, Emit
    <2>2. lines' = [lines EXCEPT ![c] = k] /\ pc' = [pc EXCEPT ![c] = step]
      BY <1>2 DEF Emit
    <2>3. UNCHANGED <<containers, state, doubtVars, box>>
      BY <1>2 DEF Emit
    <2>4. pc[c] = "emit" /\ step \in {"logs", "emit"}
      BY <1>2 DEF Emit
    <2> HIDE DEF step, k
    <2>5. Quiet(c, step)
      BY <2>0, <2>2, <2>3 DEF Quiet
    <2> QED
      BY <2>1, <2>4, <2>5, QuietStep DEF Steps, Looked, Following
  <1> QED
    BY <1>1, <1>2

(* A Provision begins: no container has had its name. *)
LEMMA BeginProvision ==
  ASSUME IInv, NEW c \in Calls, NEW n \in Names, Provision(c, n)
  PROVE  IInv'
PROOF
  <1> USE SandboxAssumption, BoxFacts
      DEF IInv, TypeOK, execVars, eventVars, doubtVars, Existing, Steps, Busy, Looked,
          Provision, Goto, Namesakes
  <1>1. TypeOK'
    BY DEF BoxInv
  <1>2. BoxInv'
    BY DEF BoxInv
  <1>3. BornInv'
    BY DEF BornInv, BoxInv, SoleInv
  <1>4. BusyInv'
    BY DEF BusyInv, SoleInv, BornInv, BoxInv
  <1>5. SoleInv'
    BY DEF SoleInv, BusyInv, BornInv, BoxInv
  <1>6. UnmapInv'
    BY DEF UnmapInv, SoleInv, BornInv, BoxInv
  <1>7. KnownInv'
    BY DEF KnownInv, UnmapInv, BusyInv, SoleInv, BornInv, BoxInv
  <1>8. EntryInv'
    BY DEF EntryInv, BusyInv, SoleInv, BornInv, BoxInv
  <1>9. LinesInv'
    BY DEF LinesInv
  <1> QED
    BY <1>1, <1>2, <1>3, <1>4, <1>5, <1>6, <1>7, <1>8, <1>9

(* A call finds a container in the map: no Provision is busy with it. *)
LEMMA Lookup ==
  ASSUME IInv, NEW c \in Calls, NEW n \in Names,
         NEW step \in {"exec", "request", "open", "remove"}, lookup(c, n, step)
  PROVE  IInv'
PROOF
  <1> USE SandboxAssumption, BoxFacts
      DEF IInv, TypeOK, execVars, eventVars, doubtVars, Existing, Steps, Busy, Looked,
          lookup, Goto
  <1>1. TypeOK'
    BY DEF BoxInv
  <1>2. BoxInv'
    BY DEF BoxInv
  <1>3. BornInv'
    BY DEF BornInv, BoxInv, SoleInv
  <1>4. BusyInv'
    BY DEF BusyInv, SoleInv, BornInv, BoxInv
  <1>5. SoleInv'
    BY DEF SoleInv, BusyInv, BornInv, BoxInv
  <1>6. UnmapInv'
    BY DEF UnmapInv, SoleInv, BornInv, BoxInv
  <1>7. KnownInv'
    BY DEF KnownInv, UnmapInv, BusyInv, SoleInv, BornInv, BoxInv
  <1>8. EntryInv'
    BY DEF EntryInv, BusyInv, SoleInv, BornInv, BoxInv
  <1>9. LinesInv'
    BY DEF LinesInv
  <1> QED
    BY <1>1, <1>2, <1>3, <1>4, <1>5, <1>6, <1>7, <1>8, <1>9

(* The container is created, and nobody else knows of it. *)
LEMMA CreateStep ==
  ASSUME IInv, NEW c \in Calls, Create(c)
  PROVE  IInv'
PROOF
  <1> USE SandboxAssumption, BoxFacts
      DEF IInv, TypeOK, execVars, eventVars, doubtVars, Existing, Steps, Busy, Looked,
          Create, Goto, Return, Alive, Removed, Killed
  <1>1. TypeOK'
    BY DEF BoxInv
  <1>2. BoxInv'
    BY DEF BoxInv
  <1>3. BornInv'
    BY DEF BornInv, BoxInv, SoleInv
  <1>4. BusyInv'
    BY DEF BusyInv, SoleInv, BornInv, BoxInv
  <1>5. SoleInv'
    BY DEF SoleInv, BusyInv, BornInv, BoxInv
  <1>6. UnmapInv'
    BY DEF UnmapInv, SoleInv, BornInv, BoxInv
  <1>7. KnownInv'
    BY DEF KnownInv, UnmapInv, BusyInv, SoleInv, BornInv, BoxInv
  <1>8. EntryInv'
    BY DEF EntryInv, BusyInv, SoleInv, BornInv, BoxInv
  <1>9. LinesInv'
    BY DEF LinesInv
  <1> QED
    BY <1>1, <1>2, <1>3, <1>4, <1>5, <1>6, <1>7, <1>8, <1>9

(* It is created, but its call does not know. *)
LEMMA CreateCutOffStep ==
  ASSUME IInv, NEW c \in Calls, CreateCutOff(c)
  PROVE  IInv'
PROOF
  <1> USE SandboxAssumption, BoxFacts
      DEF IInv, TypeOK, execVars, eventVars, doubtVars, Existing, Steps, Busy, Looked,
          CreateCutOff, Goto, Return, Alive, Removed, Killed
  <1>1. TypeOK'
    BY DEF BoxInv
  <1>2. BoxInv'
    BY DEF BoxInv
  <1>3. BornInv'
    BY DEF BornInv, BoxInv, SoleInv
  <1>4. BusyInv'
    BY DEF BusyInv, SoleInv, BornInv, BoxInv
  <1>5. SoleInv'
    BY DEF SoleInv, BusyInv, BornInv, BoxInv
  <1>6. UnmapInv'
    BY DEF UnmapInv, SoleInv, BornInv, BoxInv
  <1>7. KnownInv'
    BY DEF KnownInv, UnmapInv, BusyInv, SoleInv, BornInv, BoxInv
  <1>8. EntryInv'
    BY DEF EntryInv, BusyInv, SoleInv, BornInv, BoxInv
  <1>9. LinesInv'
    BY DEF LinesInv
  <1> QED
    BY <1>1, <1>2, <1>3, <1>4, <1>5, <1>6, <1>7, <1>8, <1>9

(* It is started. *)
LEMMA StartStep ==
  ASSUME IInv, NEW c \in Calls, Start(c)
  PROVE  IInv'
PROOF
  <1> USE SandboxAssumption, BoxFacts
      DEF IInv, TypeOK, execVars, eventVars, doubtVars, Existing, Steps, Busy, Looked,
          Start, Goto, Return, Alive, Removed, Killed
  <1>1. TypeOK'
    BY DEF BoxInv
  <1>2. BoxInv'
    BY DEF BoxInv
  <1>3. BornInv'
    BY DEF BornInv, BoxInv, SoleInv
  <1>4. BusyInv'
    BY DEF BusyInv, SoleInv, BornInv, BoxInv
  <1>5. SoleInv'
    BY DEF SoleInv, BusyInv, BornInv, BoxInv
  <1>6. UnmapInv'
    BY DEF UnmapInv, SoleInv, BornInv, BoxInv
  <1>7. KnownInv'
    BY DEF KnownInv, UnmapInv, BusyInv, SoleInv, BornInv, BoxInv
  <1>8. EntryInv'
    BY DEF EntryInv, BusyInv, SoleInv, BornInv, BoxInv
  <1>9. LinesInv'
    BY DEF LinesInv
  <1> QED
    BY <1>1, <1>2, <1>3, <1>4, <1>5, <1>6, <1>7, <1>8, <1>9

(* It is started, and then the context ends. *)
LEMMA StartCutOffStep ==
  ASSUME IInv, NEW c \in Calls, StartCutOff(c)
  PROVE  IInv'
PROOF
  <1> USE SandboxAssumption, BoxFacts
      DEF IInv, TypeOK, execVars, eventVars, doubtVars, Existing, Steps, Busy, Looked,
          StartCutOff, Goto, Return, Alive, Removed, Killed
  <1>1. TypeOK'
    BY DEF BoxInv
  <1>2. BoxInv'
    BY DEF BoxInv
  <1>3. BornInv'
    BY DEF BornInv, BoxInv, SoleInv
  <1>4. BusyInv'
    BY DEF BusyInv, SoleInv, BornInv, BoxInv
  <1>5. SoleInv'
    BY DEF SoleInv, BusyInv, BornInv, BoxInv
  <1>6. UnmapInv'
    BY DEF UnmapInv, SoleInv, BornInv, BoxInv
  <1>7. KnownInv'
    BY DEF KnownInv, UnmapInv, BusyInv, SoleInv, BornInv, BoxInv
  <1>8. EntryInv'
    BY DEF EntryInv, BusyInv, SoleInv, BornInv, BoxInv
  <1>9. LinesInv'
    BY DEF LinesInv
  <1> QED
    BY <1>1, <1>2, <1>3, <1>4, <1>5, <1>6, <1>7, <1>8, <1>9

(* It is removed or left in doubt; it was not in the map. *)
LEMMA UndoStep ==
  ASSUME IInv, NEW c \in Calls, Undo(c)
  PROVE  IInv'
PROOF
  <1> USE SandboxAssumption, BoxFacts
      DEF IInv, TypeOK, execVars, eventVars, doubtVars, Existing, Steps, Busy, Looked,
          Undo, Goto, Return, Alive, Removed, Killed
  <1>1. TypeOK'
    BY DEF BoxInv
  <1>2. BoxInv'
    BY DEF BoxInv
  <1>3. BornInv'
    BY DEF BornInv, BoxInv, SoleInv
  <1>4. BusyInv'
    BY DEF BusyInv, SoleInv, BornInv, BoxInv
  <1>5. SoleInv'
    BY DEF SoleInv, BusyInv, BornInv, BoxInv
  <1>6. UnmapInv'
    BY DEF UnmapInv, SoleInv, BornInv, BoxInv
  <1>7. KnownInv'
    BY DEF KnownInv, UnmapInv, BusyInv, SoleInv, BornInv, BoxInv
  <1>8. EntryInv'
    BY DEF EntryInv, BusyInv, SoleInv, BornInv, BoxInv
  <1>9. LinesInv'
    BY DEF LinesInv
  <1> QED
    BY <1>1, <1>2, <1>3, <1>4, <1>5, <1>6, <1>7, <1>8, <1>9

(* It comes into the map, and what it replaces there had its name. *)
LEMMA RegisterStep ==
  ASSUME IInv, NEW c \in Calls, Register(c)
  PROVE  IInv'
PROOF
  <1> USE SandboxAssumption, BoxFacts
      DEF IInv, TypeOK, execVars, eventVars, doubtVars, Existing, Steps, Busy, Looked,
          Register, Goto, Return, Alive, Removed, Killed
  <1>1. TypeOK'
    BY DEF BoxInv
  <1>2. BoxInv'
    BY DEF BoxInv
  <1>3. BornInv'
    BY DEF BornInv, BoxInv, SoleInv
  <1>4. BusyInv'
    BY DEF BusyInv, SoleInv, BornInv, BoxInv
  <1>5. SoleInv'
    BY DEF SoleInv, BusyInv, BornInv, BoxInv
  <1>6. UnmapInv'
    BY DEF UnmapInv, SoleInv, BornInv, BoxInv
  <1>7. KnownInv'
    BY DEF KnownInv, UnmapInv, BusyInv, SoleInv, BornInv, BoxInv
  <1>8. EntryInv'
    BY DEF EntryInv, BusyInv, SoleInv, BornInv, BoxInv
  <1>9. LinesInv'
    BY DEF LinesInv
  <1> QED
    BY <1>1, <1>2, <1>3, <1>4, <1>5, <1>6, <1>7, <1>8, <1>9

(* Destroy removes a container; no Provision is busy with it. *)
LEMMA RemoveStep ==
  ASSUME IInv, NEW c \in Calls, Remove(c)
  PROVE  IInv'
PROOF
  <1> USE SandboxAssumption, BoxFacts
      DEF IInv, TypeOK, execVars, eventVars, doubtVars, Existing, Steps, Busy, Looked,
          Remove, Goto, Return, Alive, Removed, Killed
  <1>1. TypeOK'
    BY DEF BoxInv
  <1>2. BoxInv'
    BY DEF BoxInv
  <1>3. BornInv'
    BY DEF BornInv, BoxInv, SoleInv
  <1>4. BusyInv'
    BY DEF BusyInv, SoleInv, BornInv, BoxInv
  <1>5. SoleInv'
    BY DEF SoleInv, BusyInv, BornInv, BoxInv
  <1>6. UnmapInv'
    BY DEF UnmapInv, SoleInv, BornInv, BoxInv
  <1>7. KnownInv'
    BY DEF KnownInv, UnmapInv, BusyInv, SoleInv, BornInv, BoxInv
  <1>8. EntryInv'
    BY DEF EntryInv, BusyInv, SoleInv, BornInv, BoxInv
  <1>9. LinesInv'
    BY DEF LinesInv
  <1> QED
    BY <1>1, <1>2, <1>3, <1>4, <1>5, <1>6, <1>7, <1>8, <1>9

(* The answer to the removal is lost. *)
LEMMA RemoveCutOffStep ==
  ASSUME IInv, NEW c \in Calls, RemoveCutOff(c)
  PROVE  IInv'
PROOF
  <1> USE SandboxAssumption, BoxFacts
      DEF IInv, TypeOK, execVars, eventVars, doubtVars, Existing, Steps, Busy, Looked,
          RemoveCutOff, Goto, Return, Alive, Removed, Killed
  <1>1. TypeOK'
    BY DEF BoxInv
  <1>2. BoxInv'
    BY DEF BoxInv
  <1>3. BornInv'
    BY DEF BornInv, BoxInv, SoleInv
  <1>4. BusyInv'
    BY DEF BusyInv, SoleInv, BornInv, BoxInv
  <1>5. SoleInv'
    BY DEF SoleInv, BusyInv, BornInv, BoxInv
  <1>6. UnmapInv'
    BY DEF UnmapInv, SoleInv, BornInv, BoxInv
  <1>7. KnownInv'
    BY DEF KnownInv, UnmapInv, BusyInv, SoleInv, BornInv, BoxInv
  <1>8. EntryInv'
    BY DEF EntryInv, BusyInv, SoleInv, BornInv, BoxInv
  <1>9. LinesInv'
    BY DEF LinesInv
  <1> QED
    BY <1>1, <1>2, <1>3, <1>4, <1>5, <1>6, <1>7, <1>8, <1>9

(* The entry goes: of the removed container, or of one that has its name. *)
LEMMA UnmapStep ==
  ASSUME IInv, NEW c \in Calls, Unmap(c)
  PROVE  IInv'
PROOF
  <1> USE SandboxAssumption, BoxFacts
      DEF IInv, TypeOK, execVars, eventVars, doubtVars, Existing, Steps, Busy, Looked,
          Unmap, Goto, Return, Alive, Removed, Killed
  <1>1. TypeOK'
    BY DEF BoxInv
  <1>2. BoxInv'
    BY DEF BoxInv
  <1>3. BornInv'
    BY DEF BornInv, BoxInv, SoleInv
  <1>4. BusyInv'
    BY DEF BusyInv, SoleInv, BornInv, BoxInv
  <1>5. SoleInv'
    BY DEF SoleInv, BusyInv, BornInv, BoxInv
  <1>6. UnmapInv'
    BY DEF UnmapInv, SoleInv, BornInv, BoxInv
  <1>7. KnownInv'
    <2> SUFFICES ASSUME NEW k \in Boxes, state[k] \in Existing
                 PROVE  \/ containers'[Name(k)] = k
                        \/ k \in lost
                        \/ \E d \in Calls : box'[d] = k /\ pc'[d] \in Busy
                        \/ \E other \in Boxes :
                             other # k /\ Name(other) = Name(k) /\ state[other] # "unborn"
      BY DEF KnownInv
    <2>1. box[c] \in Boxes /\ state[box[c]] = "removed" /\ box[c] # k
      BY DEF BoxInv, UnmapInv
    <2>2. CASE Name(k) = Name(box[c])
      BY <2>1, <2>2
    <2>3. CASE Name(k) # Name(box[c])
      <3>1. containers'[Name(k)] = containers[Name(k)]
        BY <2>1, <2>3
      <3>2. \A d \in Calls : box[d] = k /\ pc[d] \in Busy => box'[d] = k /\ pc'[d] \in Busy
        BY <2>1
      <3> QED
        BY <3>1, <3>2 DEF KnownInv
    <2> QED
      BY <2>2, <2>3
  <1>8. EntryInv'
    BY DEF EntryInv, BusyInv, SoleInv, BornInv, BoxInv
  <1>9. LinesInv'
    BY DEF LinesInv
  <1> QED
    BY <1>1, <1>2, <1>3, <1>4, <1>5, <1>6, <1>7, <1>8, <1>9

(* The reader ends. *)
LEMMA StdCopyEndsStep ==
  ASSUME IInv, NEW c \in Calls, StdCopyEnds(c)
  PROVE  IInv'
PROOF
  <1> USE SandboxAssumption, BoxFacts
      DEF IInv, TypeOK, execVars, eventVars, doubtVars, Existing, Steps, Busy, Looked,
          StdCopyEnds
  <1>1. TypeOK'
    BY DEF BoxInv
  <1>2. BoxInv'
    BY DEF BoxInv
  <1>3. BornInv'
    BY DEF BornInv, BoxInv, SoleInv
  <1>4. BusyInv'
    BY DEF BusyInv, SoleInv, BornInv, BoxInv
  <1>5. SoleInv'
    BY DEF SoleInv, BusyInv, BornInv, BoxInv
  <1>6. UnmapInv'
    BY DEF UnmapInv, SoleInv, BornInv, BoxInv
  <1>7. KnownInv'
    BY DEF KnownInv, UnmapInv, BusyInv, SoleInv, BornInv, BoxInv
  <1>8. EntryInv'
    BY DEF EntryInv, BusyInv, SoleInv, BornInv, BoxInv
  <1>9. LinesInv'
    BY DEF LinesInv
  <1> QED
    BY <1>1, <1>2, <1>3, <1>4, <1>5, <1>6, <1>7, <1>8, <1>9

(* An event is received. *)
LEMMA ReceiveStep ==
  ASSUME IInv, NEW c \in Calls, Receive(c)
  PROVE  IInv'
PROOF
  <1> USE SandboxAssumption, BoxFacts
      DEF IInv, TypeOK, execVars, eventVars, doubtVars, Existing, Steps, Busy, Looked,
          Receive
  <1>1. TypeOK'
    BY DEF BoxInv
  <1>2. BoxInv'
    BY DEF BoxInv
  <1>3. BornInv'
    BY DEF BornInv, BoxInv, SoleInv
  <1>4. BusyInv'
    BY DEF BusyInv, SoleInv, BornInv, BoxInv
  <1>5. SoleInv'
    BY DEF SoleInv, BusyInv, BornInv, BoxInv
  <1>6. UnmapInv'
    BY DEF UnmapInv, SoleInv, BornInv, BoxInv
  <1>7. KnownInv'
    BY DEF KnownInv
  <1>8. EntryInv'
    BY DEF EntryInv, BusyInv, SoleInv, BornInv, BoxInv
  <1>9. LinesInv'
    BY DEF LinesInv
  <1> QED
    BY <1>1, <1>2, <1>3, <1>4, <1>5, <1>6, <1>7, <1>8, <1>9

(* A context ends. *)
LEMMA CancelStep ==
  ASSUME IInv, NEW c \in Calls, Cancel(c)
  PROVE  IInv'
PROOF
  <1> USE SandboxAssumption, BoxFacts
      DEF IInv, TypeOK, execVars, eventVars, doubtVars, Existing, Steps, Busy, Looked,
          Cancel
  <1>1. TypeOK'
    BY DEF BoxInv
  <1>2. BoxInv'
    BY DEF BoxInv
  <1>3. BornInv'
    BY DEF BornInv, BoxInv, SoleInv
  <1>4. BusyInv'
    BY DEF BusyInv, SoleInv, BornInv, BoxInv
  <1>5. SoleInv'
    BY DEF SoleInv, BusyInv, BornInv, BoxInv
  <1>6. UnmapInv'
    BY DEF UnmapInv, SoleInv, BornInv, BoxInv
  <1>7. KnownInv'
    BY DEF KnownInv, UnmapInv, BusyInv, SoleInv, BornInv, BoxInv
  <1>8. EntryInv'
    BY DEF EntryInv, BusyInv, SoleInv, BornInv, BoxInv
  <1>9. LinesInv'
    BY DEF LinesInv
  <1> QED
    BY <1>1, <1>2, <1>3, <1>4, <1>5, <1>6, <1>7, <1>8, <1>9

(* An agent exits. *)
LEMMA ProcessExitsStep ==
  ASSUME IInv, NEW c \in Calls, ProcessExits(c)
  PROVE  IInv'
PROOF
  <1> USE SandboxAssumption, BoxFacts
      DEF IInv, TypeOK, execVars, eventVars, doubtVars, Existing, Steps, Busy, Looked,
          ProcessExits
  <1>1. TypeOK'
    BY DEF BoxInv
  <1>2. BoxInv'
    BY DEF BoxInv
  <1>3. BornInv'
    BY DEF BornInv, BoxInv, SoleInv
  <1>4. BusyInv'
    BY DEF BusyInv, SoleInv, BornInv, BoxInv
  <1>5. SoleInv'
    BY DEF SoleInv, BusyInv, BornInv, BoxInv
  <1>6. UnmapInv'
    BY DEF UnmapInv, SoleInv, BornInv, BoxInv
  <1>7. KnownInv'
    BY DEF KnownInv, UnmapInv, BusyInv, SoleInv, BornInv, BoxInv
  <1>8. EntryInv'
    BY DEF EntryInv, BusyInv, SoleInv, BornInv, BoxInv
  <1>9. LinesInv'
    BY DEF LinesInv
  <1> QED
    BY <1>1, <1>2, <1>3, <1>4, <1>5, <1>6, <1>7, <1>8, <1>9

(* A container stops. *)
LEMMA ContainerStopsStep ==
  ASSUME IInv, NEW b \in Boxes, ContainerStops(b)
  PROVE  IInv'
PROOF
  <1> USE SandboxAssumption, BoxFacts
      DEF IInv, TypeOK, execVars, eventVars, doubtVars, Existing, Steps, Busy, Looked,
          ContainerStops, Removed, Killed
  <1>1. TypeOK'
    BY DEF BoxInv
  <1>2. BoxInv'
    BY DEF BoxInv
  <1>3. BornInv'
    BY DEF BornInv, BoxInv, SoleInv
  <1>4. BusyInv'
    BY DEF BusyInv, SoleInv, BornInv, BoxInv
  <1>5. SoleInv'
    BY DEF SoleInv, BusyInv, BornInv, BoxInv
  <1>6. UnmapInv'
    BY DEF UnmapInv, SoleInv, BornInv, BoxInv
  <1>7. KnownInv'
    <2> SUFFICES ASSUME NEW k \in Boxes, state'[k] \in Existing
                 PROVE  \/ containers[Name(k)] = k
                        \/ k \in lost
                        \/ \E c \in Calls : box[c] = k /\ pc[c] \in Busy
                        \/ \E other \in Boxes :
                             other # k /\ Name(other) = Name(k) /\ state'[other] # "unborn"
      BY DEF KnownInv
    <2>1. state[k] \in Existing
      OBVIOUS
    <2>2. \A other \in Boxes : state[other] # "unborn" => state'[other] # "unborn"
      OBVIOUS
    <2> QED
      BY <2>1, <2>2 DEF KnownInv
  <1>8. EntryInv'
    BY DEF EntryInv, BusyInv, SoleInv, BornInv, BoxInv
  <1>9. LinesInv'
    BY DEF LinesInv
  <1> QED
    BY <1>1, <1>2, <1>3, <1>4, <1>5, <1>6, <1>7, <1>8, <1>9

(* A container is removed outside. *)
LEMMA RemovedOutsideStep ==
  ASSUME IInv, NEW b \in Boxes, RemovedOutside(b)
  PROVE  IInv'
PROOF
  <1> USE SandboxAssumption, BoxFacts
      DEF IInv, TypeOK, execVars, eventVars, doubtVars, Existing, Steps, Busy, Looked,
          RemovedOutside, Removed, Killed
  <1>1. TypeOK'
    BY DEF BoxInv
  <1>2. BoxInv'
    BY DEF BoxInv
  <1>3. BornInv'
    BY DEF BornInv, BoxInv, SoleInv
  <1>4. BusyInv'
    BY DEF BusyInv, SoleInv, BornInv, BoxInv
  <1>5. SoleInv'
    BY DEF SoleInv, BusyInv, BornInv, BoxInv
  <1>6. UnmapInv'
    BY DEF UnmapInv, SoleInv, BornInv, BoxInv
  <1>7. KnownInv'
    BY DEF KnownInv, UnmapInv, BusyInv, SoleInv, BornInv, BoxInv
  <1>8. EntryInv'
    BY DEF EntryInv, BusyInv, SoleInv, BornInv, BoxInv
  <1>9. LinesInv'
    BY DEF LinesInv
  <1> QED
    BY <1>1, <1>2, <1>3, <1>4, <1>5, <1>6, <1>7, <1>8, <1>9

(* Next preserves the invariant, and so does stuttering. *)
LEMMA NextStep ==
  ASSUME IInv, [Next]_vars
  PROVE  IInv'
PROOF
  <1>1. CASE \E c \in Calls : Call(c)
    <2> PICK c \in Calls : Call(c)
      BY <1>1
    <2> PICK n \in Names :
           \/ Provision(c, n) \/ Execute(c, n) \/ SubscribeEvents(c, n) \/ Destroy(c, n)
           \/ WriteFile(c, n) \/ ReadFile(c, n) \/ UploadCheckpoint(c, n)
           \/ Heartbeat(c, n) \/ Stats(c, n)
      BY DEF Call
    <2> QED
      BY BeginProvision, Lookup DEF Execute, WriteFile, ReadFile, UploadCheckpoint,
         Heartbeat, Stats, SubscribeEvents, Destroy
  <1>2. CASE \E c \in Calls : Progress(c)
    <2> PICK c \in Calls : Progress(c)
      BY <1>2
    <2>1. CASE Provisioning(c)
      BY <2>1, QuietRequests, CreateStep, CreateCutOffStep, StartStep, StartCutOffStep,
         UndoStep, RegisterStep DEF Provisioning
    <2>2. CASE Executing(c)
      BY <2>2, QuietRequests, StdCopyEndsStep DEF Executing
    <2>3. CASE Watching(c)
      BY <2>3, QuietRequests, ChunkSteps DEF Watching
    <2>4. CASE Destroying(c)
      BY <2>4, QuietRequests, RemoveStep, RemoveCutOffStep, UnmapStep DEF Destroying
    <2> QED
      BY <2>1, <2>2, <2>3, <2>4 DEF Progress
  <1>6. CASE \E c \in Calls : LogStream(c)
    BY <1>6, QuietRequests, ChunkSteps DEF LogStream
  <1>3. CASE \E c \in Calls : Receive(c) \/ Cancel(c) \/ ProcessExits(c)
    BY <1>3, ReceiveStep, CancelStep, ProcessExitsStep
  <1>4. CASE \E b \in Boxes : ContainerStops(b) \/ RemovedOutside(b)
    BY <1>4, ContainerStopsStep, RemovedOutsideStep
  <1>5. CASE Idle \/ UNCHANGED vars
    <2> USE <1>5 DEF Idle, vars, execVars, eventVars, doubtVars
    <2> QED
      BY DEF IInv, TypeOK, BoxInv, BornInv, BusyInv, SoleInv, UnmapInv, KnownInv, EntryInv,
             LinesInv
  <1> QED
    BY <1>1, <1>2, <1>3, <1>4, <1>5, <1>6 DEF Next

(* The inductive invariant holds in every state. *)
THEOREM InvariantHolds == Spec => []IInv
PROOF
  <1>1. Init => IInv
    BY SandboxAssumption, BoxFacts
       DEF Init, IInv, TypeOK, Steps, Existing, Busy, Looked, BoxInv, BornInv, BusyInv,
           SoleInv, UnmapInv, KnownInv, EntryInv, LinesInv
  <1>2. IInv /\ [Next]_vars => IInv'
    BY NextStep
  <1> QED
    BY <1>1, <1>2, PTL DEF Spec

(* Every variable keeps its type, the channel of SubscribeEvents its capacity. *)
THEOREM TypeCorrect == Spec => []TypeOK
PROOF
  <1>1. IInv => TypeOK
    BY DEF IInv
  <1> QED
    BY <1>1, InvariantHolds, PTL

(***************************************************************************)
(* Every container is in the map, in the hands of its Provision, in doubt  *)
(* after a request that failed or was cut off, or shares its name.         *)
(***************************************************************************)
THEOREM ContainerIsKnownHolds == Spec => []ContainerIsKnown
PROOF
  <1>1. IInv => ContainerIsKnown
    BY DEF IInv, TypeOK, Existing, KnownInv, ContainerIsKnown, At, Busy, Namesakes
  <1> QED
    BY <1>1, InvariantHolds, PTL

(* A stale entry is being deleted, or was made stale outside or in doubt. *)
THEOREM EntryHasContainerHolds == Spec => []EntryHasContainer
PROOF
  <1>1. IInv => EntryHasContainer
    BY DEF IInv, EntryInv, EntryHasContainer, At
  <1> QED
    BY <1>1, InvariantHolds, PTL

(* Only a Destroy that looked it up removes a container that is in the map. *)
THEOREM OnlyDestroyRemovesHolds == Spec => OnlyDestroyRemoves
PROOF
  <1> DEFINE Ok == \A b \in Boxes :
                     containers[Name(b)] = b /\ state[b] \in Existing /\ state'[b] = "removed" =>
                       b \in outside' \/ At(b, {"remove"}) # {}
  <1>1. ASSUME IInv, [Next]_vars
        PROVE  [Ok]_vars
    <2> USE BoxFacts DEF IInv, TypeOK, Existing
    <2>1. CASE \E c \in Calls : Undo(c)
      BY <1>1, <2>1 DEF Undo, Removed, BoxInv, BusyInv, Busy
    <2>2. CASE \E c \in Calls : Remove(c) \/ RemoveCutOff(c)
      BY <1>1, <2>2 DEF Remove, RemoveCutOff, Removed, BoxInv, At
    <2>3. CASE \E b \in Boxes : RemovedOutside(b)
      BY <2>3 DEF RemovedOutside, Removed
    <2>4. CASE \E c \in Calls : Create(c) \/ CreateCutOff(c) \/ Start(c) \/ StartCutOff(c)
      BY <1>1, <2>4 DEF Create, CreateCutOff, Start, StartCutOff, BoxInv
    <2>5. CASE \E b \in Boxes : ContainerStops(b)
      BY <2>5 DEF ContainerStops
    <2>6. CASE UNCHANGED state
      BY <2>6
    <2>7. \/ \E c \in Calls : Undo(c) \/ Remove(c) \/ RemoveCutOff(c)
          \/ \E b \in Boxes : RemovedOutside(b) \/ ContainerStops(b)
          \/ \E c \in Calls : Create(c) \/ CreateCutOff(c) \/ Start(c) \/ StartCutOff(c)
          \/ UNCHANGED state
      BY <1>1 DEF Next, Call, Progress, Provisioning, Executing, Watching, Destroying,
             Provision, CreateFails, Mkdir, StartFails, Register, lookup, Execute, WriteFile,
             ReadFile, UploadCheckpoint, Heartbeat, Stats,
             SubscribeEvents, Destroy, ExecCreate, ExecAttach, ExecFails, StdCopyEnds,
             ReadDone, ContextDone, ExecCancelled, ExecInspect, Answered, OpenLogs,
             OpenLogsFails, PollContext, Emit, StopEvents, CloseEvents, LogStream, ReadChunk,
             StreamBreaks, Receive, RemoveFails, Unmap, Cancel, ProcessExits, Idle, vars
    <2> QED
      BY <2>1, <2>2, <2>3, <2>4, <2>5, <2>6, <2>7
  <1> QED
    BY <1>1, InvariantHolds, PTL DEF Spec, OnlyDestroyRemoves

(* No StdCopy goroutine outlives its Execute. *)
THEOREM ReaderIsGoneHolds == Spec => []ReaderIsGone
PROOF
  <1> DEFINE Inv == ReaderIsGone /\ reading \subseteq Calls /\ pc \in [Calls -> Steps]
  <1>1. Init => Inv
    BY DEF Init, ReaderIsGone, Steps
  <1>2. ASSUME IInv, IInv', Inv, [Next]_vars
        PROVE  Inv'
    <2> USE DEF ReaderIsGone, Goto, Return, execVars
    <2>1. reading' \subseteq Calls /\ pc' \in [Calls -> Steps]
      BY <1>2 DEF IInv, TypeOK
    <2>2. CASE \E c \in Calls : Call(c)
      <3> PICK c \in Calls : Call(c)
        BY <2>2
      <3>1. c \notin reading /\ reading' = reading
        BY <1>2 DEF Call, Provision, lookup, Execute, WriteFile,
             ReadFile, UploadCheckpoint, Heartbeat, Stats, SubscribeEvents, Destroy
      <3>2. \A d \in Calls \ {c} : pc'[d] = pc[d]
        BY <1>2 DEF Call, Provision, lookup, Execute, WriteFile,
             ReadFile, UploadCheckpoint, Heartbeat, Stats, SubscribeEvents, Destroy
      <3> QED
        BY <1>2, <2>1, <3>1, <3>2
    <2>3. CASE \E c \in Calls : Provisioning(c)
      <3> PICK c \in Calls : Provisioning(c)
        BY <2>3
      <3>1. c \notin reading /\ reading' = reading
        BY <1>2 DEF Provisioning, CreateFails, Create, CreateCutOff, Start, Mkdir,
           StartFails, StartCutOff, Undo, Register
      <3>2. \A d \in Calls \ {c} : pc'[d] = pc[d]
        BY <1>2 DEF Provisioning, CreateFails, Create, CreateCutOff, Start, Mkdir,
           StartFails, StartCutOff, Undo, Register
      <3> QED
        BY <1>2, <2>1, <3>1, <3>2
    <2>4. CASE \E c \in Calls : Executing(c)
      BY <1>2, <2>1, <2>4 DEF Executing, ExecCreate, ExecAttach, ExecFails, StdCopyEnds,
         ReadDone, ContextDone, ExecCancelled, ExecInspect
    <2>5. CASE \E c \in Calls : Watching(c) \/ LogStream(c) \/ Destroying(c)
      <3> PICK c \in Calls : Watching(c) \/ LogStream(c) \/ Destroying(c)
        BY <2>5
      <3>1. c \notin reading /\ reading' = reading
        BY <1>2 DEF Watching, Answered, OpenLogs, OpenLogsFails, PollContext, Emit, StopEvents,
           CloseEvents, LogStream, ReadChunk, StreamBreaks, Destroying, Remove, RemoveFails, RemoveCutOff, Unmap
      <3>2. \A d \in Calls \ {c} : pc'[d] = pc[d]
        BY <1>2 DEF Watching, Answered, OpenLogs, OpenLogsFails, PollContext, Emit, StopEvents,
           CloseEvents, LogStream, ReadChunk, StreamBreaks, Destroying, Remove, RemoveFails, RemoveCutOff, Unmap
      <3> QED
        BY <1>2, <2>1, <3>1, <3>2
    <2>6. CASE \/ \E c \in Calls : Receive(c) \/ Cancel(c) \/ ProcessExits(c)
               \/ \E b \in Boxes : ContainerStops(b) \/ RemovedOutside(b)
               \/ Idle \/ UNCHANGED vars
      BY <1>2, <2>1, <2>6 DEF Receive, Cancel, ProcessExits, ContainerStops, RemovedOutside,
         Idle, vars
    <2> QED
      BY <1>2, <2>2, <2>3, <2>4, <2>5, <2>6 DEF Next, Progress
  <1> QED
    BY <1>1, <1>2, InvariantHolds, PTL DEF Spec

-----------------------------------------------------------------------------
(***************************************************************************)
(* The safety half of CancelledReturns: how far a call whose context is    *)
(* done is from its return.  The reader goroutine has a step of its own.   *)
(***************************************************************************)
Far(c) ==
  CASE pc[c] = "none" -> 0
    [] pc[c] \in {"created", "started", "waiting"} -> 2
    [] pc[c] = "emit" -> lines[c] + 1
    [] pc[c] = "read" -> MaxLines + 2
    [] OTHER -> 1

StepsToReturn(c) == Far(c) + (IF c \in reading THEN 1 ELSE 0)

(* The call's own goroutines and the stream they read. *)
OwnStep(c) == Progress(c) \/ LogStream(c)

(***************************************************************************)
(* From the moment its context is done a call needs at most MaxLines + 2   *)
(* more steps of its own: the chunk it may be reading and the lines of     *)
(* that chunk, never a second one.  No other call, no exit of the agent    *)
(* and no event of the container pushes it back.                           *)
(***************************************************************************)
CancelledIsQuick ==
  [][\A c \in ended :
       /\ StepsToReturn(c) \in 1..(MaxLines + 2)
       /\ StepsToReturn(c)' \in 0..StepsToReturn(c)
       /\ OwnStep(c) => StepsToReturn(c)' < StepsToReturn(c)]_vars

(* A done context belongs to a call in progress. *)
EndedInv == \A c \in ended : pc[c] # "none"

(* What other calls see of a step of call d: nothing. *)
LeavesOthers(d) ==
  \A c \in Calls \ {d} :
    /\ pc'[c] = pc[c]
    /\ c \in reading' <=> c \in reading
    /\ c \in ended' <=> c \in ended
    /\ lines'[c] = lines[c]

(* Calls share the map and the daemon, not their position. *)
LEMMA StepsAreOwn ==
  ASSUME IInv, NEW d \in Calls, Call(d) \/ OwnStep(d)
  PROVE  LeavesOthers(d)
PROOF
  <1> USE DEF IInv, TypeOK, LeavesOthers, Goto, Return, execVars, eventVars
  <1>1. CASE Call(d)
    BY <1>1 DEF Call, Provision, lookup, Execute, WriteFile, ReadFile, UploadCheckpoint,
       Heartbeat, Stats, SubscribeEvents, Destroy
  <1>2. CASE Provisioning(d)
    BY <1>2 DEF Provisioning, CreateFails, Create, CreateCutOff, Start, Mkdir, StartFails,
       StartCutOff, Undo, Register
  <1>3. CASE Executing(d)
    BY <1>3 DEF Executing, ExecCreate, ExecAttach, ExecFails, StdCopyEnds, ReadDone,
       ContextDone, ExecCancelled, ExecInspect
  <1>4. CASE Watching(d) \/ LogStream(d) \/ Destroying(d)
    BY <1>4 DEF Watching, Answered, OpenLogs, OpenLogsFails, PollContext, Emit, StopEvents,
       CloseEvents, LogStream, ReadChunk, StreamBreaks, Destroying, Remove,
       RemoveFails, RemoveCutOff, Unmap
  <1> QED
    BY <1>1, <1>2, <1>3, <1>4 DEF OwnStep, Progress

(* Once the context is done, the requests that need it are out of the way. *)
LEMMA EndedMoves ==
  ASSUME IInv, ReaderIsGone, NEW c \in ended, OwnStep(c)
  PROVE  /\ StepsToReturn(c)' \in 0..StepsToReturn(c)
         /\ StepsToReturn(c)' < StepsToReturn(c)
         /\ c \in ended' => pc'[c] # "none"
PROOF
  <1> USE DEF IInv, TypeOK, Alive, Goto, Return, execVars, StepsToReturn, Far, ReaderIsGone, LinesInv, eventVars
  <1>1. CASE Provisioning(c)
    <2>1. reading' = reading /\ c \notin reading
      BY <1>1 DEF Provisioning, CreateFails, Create, CreateCutOff, Start, Mkdir, StartFails,
         StartCutOff, Undo, Register
    <2>2. \/ pc[c] \in {"image", "undo", "ready"} /\ pc'[c] = "none" /\ c \notin ended'
          \/ pc[c] \in {"created", "started"} /\ pc'[c] \in {"ready", "undo"}
      BY <1>1 DEF Provisioning, CreateFails, Create, CreateCutOff, Start, Mkdir, StartFails,
         StartCutOff, Undo, Register
    <2> QED
      BY <2>1, <2>2
  <1>2. CASE Executing(c)
    <2>1. CASE StdCopyEnds(c)
      BY <2>1 DEF StdCopyEnds
    <2>2. CASE ~StdCopyEnds(c)
      <3>1. /\ reading' = reading
            /\ \/ /\ pc[c] \in {"exec", "attach", "inspect", "closing"} /\ pc'[c] = "none"
                  /\ c \notin reading /\ c \notin ended'
               \/ pc[c] = "waiting" /\ pc'[c] \in {"inspect", "closing"}
        BY <1>2, <2>2 DEF Executing, ExecCreate, ExecAttach, ExecFails, ReadDone,
           ContextDone, ExecCancelled, ExecInspect
      <3> QED
        BY <3>1
    <2> QED
      BY <2>1, <2>2
  <1>3. CASE Watching(c) \/ LogStream(c) \/ Destroying(c)
    <2>1. reading' = reading /\ c \notin reading
      BY <1>3 DEF Watching, Answered, OpenLogs, OpenLogsFails, PollContext, Emit, StopEvents,
       CloseEvents, LogStream, ReadChunk, StreamBreaks, Destroying, Remove,
         RemoveFails, RemoveCutOff, Unmap
    <2>2. \/ /\ pc[c] \in {"request", "open", "logs", "read", "emit", "remove", "unmap"}
             /\ pc'[c] = "none"
             /\ c \notin ended'
          \/ pc[c] = "emit" /\ lines[c] = 1 /\ pc'[c] = "logs"
          \/ pc[c] = "emit" /\ lines[c] > 1 /\ pc'[c] = "emit" /\ lines'[c] = lines[c] - 1
          \/ pc[c] = "read" /\ pc'[c] = "logs"
          \/ pc[c] = "read" /\ pc'[c] = "emit" /\ lines'[c] \in 1..MaxLines
      BY <1>3 DEF Watching, Answered, OpenLogs, OpenLogsFails, PollContext, Emit, StopEvents,
       CloseEvents, LogStream, ReadChunk, StreamBreaks, Destroying, Remove,
         RemoveFails, RemoveCutOff, Unmap
    <2>3. lines[c] \in 0..MaxLines /\ MaxLines \in Nat \ {0}
      BY SandboxAssumption
    <2>4. StepsToReturn(c) = Far(c) + 0 /\ StepsToReturn(c)' = Far(c)' + 0
      BY <2>1
    <2>5. CASE pc'[c] = "none"
      BY <2>2, <2>3, <2>4, <2>5
    <2>6. CASE pc[c] = "emit" /\ pc'[c] # "none"
      BY <2>2, <2>3, <2>4, <2>6
    <2>7. CASE pc[c] = "read" /\ pc'[c] # "none"
      BY <2>2, <2>3, <2>4, <2>7
    <2> QED
      BY <2>2, <2>5, <2>6, <2>7
  <1> QED
    BY <1>1, <1>2, <1>3 DEF OwnStep, Progress

(* A step changes the position of the one call that makes it, if any. *)
LEMMA OneCallMoves ==
  ASSUME IInv, EndedInv, [Next]_vars, NEW c \in ended
  PROVE  \/ OwnStep(c)
         \/ /\ pc'[c] = pc[c]
            /\ c \in reading' <=> c \in reading
            /\ lines'[c] = lines[c]
PROOF
  <1> USE DEF IInv, TypeOK
  <1>1. ASSUME NEW d \in Calls, Call(d) \/ OwnStep(d), ~OwnStep(c)
        PROVE  pc'[c] = pc[c] /\ (c \in reading' <=> c \in reading) /\ lines'[c] = lines[c]
    <2>1. CASE d = c
      BY <1>1, <2>1 DEF EndedInv, Call, Provision, lookup, Execute, WriteFile, ReadFile,
         UploadCheckpoint, Heartbeat, Stats, SubscribeEvents, Destroy
    <2>2. CASE d # c
      BY <1>1, <2>2, StepsAreOwn DEF LeavesOthers
    <2> QED
      BY <2>1, <2>2
  <1>2. CASE \/ \E d \in Calls : Receive(d) \/ Cancel(d) \/ ProcessExits(d)
             \/ \E b \in Boxes : ContainerStops(b) \/ RemovedOutside(b)
             \/ Idle \/ UNCHANGED vars
    BY <1>2 DEF Receive, Cancel, ProcessExits, ContainerStops, RemovedOutside, Idle, vars,
       execVars, eventVars
  <1> QED
    BY <1>1, <1>2 DEF Next, OwnStep

(* A context is done only while its call lasts. *)
LEMMA EndedStep == IInv /\ ReaderIsGone /\ EndedInv /\ [Next]_vars => EndedInv'
PROOF
  <1> SUFFICES ASSUME IInv, ReaderIsGone, EndedInv, [Next]_vars, NEW c \in ended'
               PROVE  pc'[c] # "none"
    BY DEF EndedInv
  <1> USE DEF IInv, TypeOK
  <1>1. CASE c \in ended
    BY <1>1, EndedMoves, OneCallMoves DEF EndedInv
  <1>2. CASE c \notin ended
    <2>1. \A d \in Calls : Call(d) \/ OwnStep(d) => ended' \subseteq ended \union {d}
      <3> SUFFICES ASSUME NEW d \in Calls, Call(d) \/ OwnStep(d)
                   PROVE  ended' \subseteq ended \union {d}
        OBVIOUS
      <3> USE DEF Goto, Return
      <3>1. CASE Call(d)
        BY <3>1 DEF Call, Provision, lookup, Execute, WriteFile, ReadFile,
           UploadCheckpoint, Heartbeat, Stats, SubscribeEvents, Destroy
      <3>2. CASE Provisioning(d)
        BY <3>2 DEF Provisioning, CreateFails, Create, CreateCutOff, Start, Mkdir,
           StartFails, StartCutOff, Undo, Register
      <3>3. CASE Executing(d)
        BY <3>3 DEF Executing, ExecCreate, ExecAttach, ExecFails, StdCopyEnds, ReadDone,
           ContextDone, ExecCancelled, ExecInspect
      <3>4. CASE Watching(d) \/ LogStream(d) \/ Destroying(d)
        BY <3>4 DEF Watching, Answered, OpenLogs, OpenLogsFails, PollContext, Emit, StopEvents,
       CloseEvents, LogStream, ReadChunk, StreamBreaks, Destroying, Remove,
           RemoveFails, RemoveCutOff, Unmap
      <3> QED
        BY <3>1, <3>2, <3>3, <3>4 DEF OwnStep, Progress
    <2>2. ASSUME NEW d \in Calls, Call(d) \/ OwnStep(d)
          PROVE  pc'[c] # "none"
      <3>1. d = c
        BY <1>2, <2>1, <2>2
      <3>2. StartCutOff(c)
        BY <1>2, <2>2, <3>1 DEF Call, Provision, lookup, Execute, WriteFile, ReadFile,
           UploadCheckpoint, Heartbeat, Stats, SubscribeEvents, Destroy, OwnStep, Progress,
           Provisioning, CreateFails, Create, CreateCutOff, Start, Mkdir,
           StartFails, Undo, Register, Executing, ExecCreate, ExecAttach, ExecFails,
           StdCopyEnds, ReadDone, ContextDone, ExecCancelled, ExecInspect, Watching,
           Answered, OpenLogs, OpenLogsFails, PollContext, Emit, StopEvents, CloseEvents,
           LogStream, ReadChunk, StreamBreaks, Destroying, Remove, RemoveFails,
           RemoveCutOff, Unmap, Return
      <3> QED
        BY <2>2, <3>1, <3>2 DEF StartCutOff, Goto
    <2>3. CASE \/ \E d \in Calls : Receive(d) \/ Cancel(d) \/ ProcessExits(d)
               \/ \E b \in Boxes : ContainerStops(b) \/ RemovedOutside(b)
               \/ Idle \/ UNCHANGED vars
      BY <1>2, <2>3 DEF Receive, Cancel, ProcessExits, ContainerStops, RemovedOutside, Idle,
         vars
    <2> QED
      BY <2>2, <2>3 DEF Next, OwnStep
  <1> QED
    BY <1>1, <1>2

(* For any number of calls, names and events in the channel. *)
THEOREM CancelledIsQuickHolds == Spec => CancelledIsQuick
PROOF
  <1>1. Init => EndedInv
    BY DEF Init, EndedInv
  <1>2. IInv /\ ReaderIsGone /\ EndedInv /\ [Next]_vars =>
          [\A c \in ended :
             /\ StepsToReturn(c) \in 1..(MaxLines + 2)
             /\ StepsToReturn(c)' \in 0..StepsToReturn(c)
             /\ OwnStep(c) => StepsToReturn(c)' < StepsToReturn(c)]_vars
    <2> SUFFICES ASSUME IInv, ReaderIsGone, EndedInv, [Next]_vars, NEW c \in ended
                 PROVE  /\ StepsToReturn(c) \in 1..(MaxLines + 2)
                        /\ StepsToReturn(c)' \in 0..StepsToReturn(c)
                        /\ OwnStep(c) => StepsToReturn(c)' < StepsToReturn(c)
      OBVIOUS
    <2>1. StepsToReturn(c) \in 1..(MaxLines + 2)
      BY SandboxAssumption
         DEF StepsToReturn, Far, EndedInv, IInv, TypeOK, Steps, LinesInv, ReaderIsGone
    <2>2. CASE OwnStep(c)
      BY <2>1, <2>2, EndedMoves
    <2>3. CASE ~OwnStep(c)
      <3>1. StepsToReturn(c)' = StepsToReturn(c)
        BY <2>3, OneCallMoves DEF StepsToReturn, Far
      <3> QED
        BY <2>1, <2>3, <3>1
    <2> QED
      BY <2>1, <2>2, <2>3
  <1> QED
    BY <1>1, <1>2, EndedStep, InvariantHolds, ReaderIsGoneHolds, PTL DEF Spec, CancelledIsQuick
=============================================================================
