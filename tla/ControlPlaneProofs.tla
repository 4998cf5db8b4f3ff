-------------------------- MODULE ControlPlaneProofs --------------------------
(***************************************************************************)
(* The safety properties of ControlPlane, proved for every set of sessions *)
(* and callers, any number of checkpoints, and all fault switches.  The    *)
(* inductive invariant says what a caller knows of its session at each     *)
(* statement of CreateSession, Transition and SaveCheckpoint (CallInv) and *)
(* how map, row and events of a session are related (SessionInv).          *)
(***************************************************************************)
EXTENDS ControlPlane, TLAPS

(* CreateSession: the caller is the only one who touches the session. *)
CreateInv(c) ==
  at[c] \in {"inserted", "created"} =>
    /\ row[sess[c]] = "CREATED"
    /\ lastEvent[sess[c]] = Absent
    /\ lock[sess[c]] = None
    /\ status[sess[c]] = IF at[c] = "inserted" THEN Absent ELSE "CREATED"

(***************************************************************************)
(* Transition: the caller holds the mutex, so the status is still the one  *)
(* it assigned, and the row, if its updates work, one edge behind or even. *)
(***************************************************************************)
MoveInv(c) ==
  at[c] \in {"changed", "stored"} =>
    /\ lock[sess[c]] = c
    /\ arg[c] = status[sess[c]]
    /\ arg[c] # Absent
    /\ ~lost[sess[c]] => IF at[c] = "changed" THEN Allowed(row[sess[c]], arg[c])
                                              ELSE row[sess[c]] = arg[c]

(* SaveCheckpoint: the ID in hand is in the table. *)
SaveInv(c) == at[c] \in {"saved", "referenced"} => newId[c] \in ckpts[sess[c]]

CallInv(c) ==
  /\ at[c] # "idle" => up /\ sess[c] \in Sessions
  /\ CreateInv(c) /\ MoveInv(c) /\ SaveInv(c)

SoleCreator ==
  \A s \in Sessions, c, d \in Callers : Creating(c, s) /\ Creating(d, s) => c = d

(* Map, row and events of a session. *)
SessionInv(s) ==
  /\ row[s] = Absent => status[s] = Absent /\ lastEvent[s] = Absent
  /\ ~up => status[s] = Absent
  /\ lock[s] # None => at[lock[s]] \in {"changed", "stored"} /\ sess[lock[s]] = s
  /\ status[s] # Absent => Reaches(row[s], status[s])
  /\ ~lost[s] => Reaches(lastEvent[s], row[s])
  /\ (up /\ lock[s] = None /\ ~lost[s] /\ ~ \E c \in Callers : Creating(c, s)) =>
       \/ status[s] = row[s]
       \/ status[s] = Absent /\ row[s] \in Terminal
  /\ rowRef[s] # 0 => rowRef[s] \in ckpts[s]
  /\ ref[s] # 0 => ref[s] \in ckpts[s]

Related ==
  /\ SoleCreator
  /\ \A c \in Callers : CallInv(c)
  /\ \A s \in Sessions : SessionInv(s)

IInv == TypeOK /\ Related

-----------------------------------------------------------------------------
(* The transition table, row by row. *)
LEMMA TableRows ==
  /\ validTransitions["CREATED"] = {"ALLOCATING", "FAILED"}
  /\ validTransitions["ALLOCATING"] = {"RUNNING", "FAILED"}
  /\ validTransitions["RUNNING"] = {"APPROVAL", "COMPLETED", "CANCELLING", "FAILED"}
  /\ validTransitions["APPROVAL"] = {"RUNNING", "CANCELLING", "FAILED"}
  /\ validTransitions["CANCELLING"] = {"FAILED", "COMPLETED"}
  /\ validTransitions["COMPLETED"] = {}
  /\ validTransitions["FAILED"] = {}
BY Zenon DEF validTransitions, SessionStatus, Live, Terminal

(* An edge leads from a status to a later one. *)
LEMMA EdgeReaches ==
  ASSUME NEW a, NEW b, Allowed(a, b)
  PROVE  a \in Live /\ b \in SessionStatus /\ Reaches(a, b)
BY TableRows DEF Allowed, Reaches, SessionStatus, Live, Terminal, Absent

(* Reaches is closed under one more edge. *)
LEMMA ReachesExtends ==
  ASSUME NEW a, NEW b, NEW c, Reaches(a, b), Allowed(b, c)
  PROVE  Reaches(a, c)
BY TableRows DEF Allowed, Reaches, SessionStatus, Live, Terminal, Absent

(* Nothing lies behind COMPLETED and FAILED. *)
LEMMA TerminalIsLast ==
  ASSUME NEW a \in Terminal, NEW b, Reaches(a, b)
  PROVE  a = b
BY DEF Reaches, Terminal, Absent

(***************************************************************************)
(* Reaches is the reflexive transitive closure of CreateSession and the    *)
(* transition table: it holds them, it is reflexive and transitive, and    *)
(* every relation R on the statuses that is all of this contains it.       *)
(***************************************************************************)
THEOREM ReachesIsLeastClosure ==
  /\ Reaches(Absent, "CREATED")
  /\ \A a, b : Allowed(a, b) => Reaches(a, b)
  /\ \A a : Reaches(a, a)
  /\ \A a, b, c : Reaches(a, b) /\ Reaches(b, c) => Reaches(a, c)
  /\ \A R :
       /\ <<Absent, "CREATED">> \in R
       /\ \A a, b : Allowed(a, b) => <<a, b>> \in R
       /\ \A a \in SessionStatus \union {Absent} : <<a, a>> \in R
       /\ \A a, b, c : <<a, b>> \in R /\ <<b, c>> \in R => <<a, c>> \in R
       => \A a, b \in SessionStatus \union {Absent} : Reaches(a, b) => <<a, b>> \in R
<1>1. Reaches(Absent, "CREATED") /\ \A a : Reaches(a, a)
  BY DEF Reaches, SessionStatus, Live
<1>2. \A a, b : Allowed(a, b) => Reaches(a, b)
  BY EdgeReaches
<1>3. ASSUME NEW a, NEW b, NEW c, Reaches(a, b), Reaches(b, c)
      PROVE  Reaches(a, c)
  BY <1>3 DEF Reaches, SessionStatus, Live, Terminal, Absent
<1>4. ASSUME NEW R, <<Absent, "CREATED">> \in R,
             \A a, b : Allowed(a, b) => <<a, b>> \in R,
             \A a \in SessionStatus \union {Absent} : <<a, a>> \in R,
             \A a, b, c : <<a, b>> \in R /\ <<b, c>> \in R => <<a, c>> \in R,
             NEW a \in SessionStatus \union {Absent}, NEW b \in SessionStatus \union {Absent},
             Reaches(a, b)
      PROVE  <<a, b>> \in R
  <2>e. \A x \in SessionStatus : \A y \in validTransitions[x] : <<x, y>> \in R
    BY <1>4 DEF Allowed
  <2>s. SessionStatus = {"CREATED", "ALLOCATING", "RUNNING", "APPROVAL", "CANCELLING",
                         "COMPLETED", "FAILED"}
    BY DEF SessionStatus, Live, Terminal
  <2>1. /\ <<"CANCELLING", "COMPLETED">> \in R /\ <<"CANCELLING", "FAILED">> \in R
        /\ <<"RUNNING", "APPROVAL">> \in R /\ <<"RUNNING", "CANCELLING">> \in R
        /\ <<"RUNNING", "COMPLETED">> \in R /\ <<"RUNNING", "FAILED">> \in R
        /\ <<"APPROVAL", "RUNNING">> \in R /\ <<"ALLOCATING", "RUNNING">> \in R
        /\ <<"CREATED", "ALLOCATING">> \in R
    BY <2>e, <2>s, TableRows
  <2>2. \A y \in SessionStatus \ {"CREATED", "ALLOCATING"} : <<"RUNNING", y>> \in R
    BY <1>4, <2>1, <2>s
  <2>3. \A y \in SessionStatus \ {"CREATED", "ALLOCATING"} : <<"APPROVAL", y>> \in R
    BY <1>4, <2>1, <2>2
  <2>4. \A y \in SessionStatus \ {"CREATED"} : <<"ALLOCATING", y>> \in R
    BY <1>4, <2>1, <2>2, <2>s
  <2>5. \A y \in SessionStatus : <<"CREATED", y>> \in R
    BY <1>4, <2>1, <2>4, <2>s
  <2>6. \A y \in SessionStatus : <<Absent, y>> \in R
    BY <1>4, <2>5
  <2> QED BY <1>4, <2>1, <2>2, <2>3, <2>4, <2>5, <2>6 DEF Reaches, Terminal
<1> QED BY <1>1, <1>2, <1>3, <1>4

(* Small facts about the statuses. *)
LEMMA StatusFacts ==
  /\ Absent \notin SessionStatus /\ "CREATED" \in SessionStatus
  /\ Live \subseteq SessionStatus /\ Terminal \subseteq SessionStatus
  /\ Live \intersect Terminal = {}
  /\ \A a : Reaches(a, a)
  /\ \A b \in SessionStatus : Reaches(Absent, b)
BY DEF Absent, SessionStatus, Live, Terminal, Reaches

(* The invariant holds initially. *)
LEMMA InitIInv == Init => IInv
<1> SUFFICES ASSUME Init PROVE IInv
  OBVIOUS
<1>1. TypeOK
  BY ControlPlaneAssumption DEF Init, TypeOK, CallStates
<1>2. SoleCreator
  BY DEF Init, SoleCreator, Creating
<1>3. ASSUME NEW c \in Callers PROVE CallInv(c)
  BY DEF Init, CallInv, CreateInv, MoveInv, SaveInv
<1>4. ASSUME NEW s \in Sessions PROVE SessionInv(s)
  BY DEF Init, SessionInv, Reaches
<1> QED BY <1>1, <1>2, <1>3, <1>4 DEF IInv, Related

(* Every step keeps the types. *)
LEMMA TypeStep == IInv /\ [Next]_vars => TypeOK'
<1> SUFFICES ASSUME IInv, [Next]_vars PROVE TypeOK'
  OBVIOUS
<1> USE ControlPlaneAssumption DEF IInv, TypeOK, CallStates, memVars, callVars,
  rowVars
<1>a. "CREATED" \in SessionStatus /\ Live \subseteq SessionStatus
  BY DEF SessionStatus, Live
<1>1. ASSUME NEW c \in Callers, NEW s \in Sessions, CreateSession(c, s) PROVE TypeOK'
  BY <1>1, <1>a DEF CreateSession, InsertSession, Goto
<1>2. ASSUME NEW c \in Callers, PutSession(c) PROVE TypeOK'
  BY <1>2, <1>a DEF PutSession, Goto
<1>3. ASSUME NEW c \in Callers, EmitCreated(c) PROVE TypeOK'
  BY <1>3, <1>a DEF EmitCreated, Return
<1>4. ASSUME NEW c \in Callers, NEW s \in Sessions, NEW to \in SessionStatus, Transition(c, s, to) PROVE TypeOK'
  BY <1>4, <1>a DEF Transition, Goto
<1>5. ASSUME NEW c \in Callers, StoreStatus(c) PROVE TypeOK'
  <2>1. lost' \in [Sessions -> BOOLEAN]
    BY <1>5 DEF StoreStatus, UpdateSessionStatus, Goto
  <2> QED BY <1>5, <2>1 DEF StoreStatus, UpdateSessionStatus, Goto
<1>6. ASSUME NEW c \in Callers, EmitTransition(c) PROVE TypeOK'
  BY <1>6, <1>a DEF EmitTransition, Return
<1>7. ASSUME NEW c \in Callers, NEW s \in Sessions, SaveCheckpoint(c, s) PROVE TypeOK'
  BY <1>7, <1>a DEF SaveCheckpoint, InsertCheckpoint, Goto
<1>8. ASSUME NEW c \in Callers, UpdateCheckpointRef(c) PROVE TypeOK'
  BY <1>8, <1>a DEF UpdateCheckpointRef, SetRowRef, Goto, Return
<1>9. ASSUME NEW c \in Callers, SetCheckpointRef(c) PROVE TypeOK'
  BY <1>9, <1>a DEF SetCheckpointRef, Return
<1>10. ASSUME Crash PROVE TypeOK'
  BY <1>10 DEF Crash
<1>11. ASSUME Recover PROVE TypeOK'
  BY <1>11, <1>a DEF Recover, ListNonTerminalSessions
<1>12. ASSUME UNCHANGED vars PROVE TypeOK'
  BY <1>12 DEF vars
<1> QED BY <1>1, <1>2, <1>3, <1>4, <1>5, <1>6, <1>7, <1>8, <1>9, <1>10, <1>11, <1>12
  DEF Next, Step, Call

(* Every step keeps the relation of callers, map, row and events. *)
LEMMA InvariantStep == IInv /\ [Next]_vars => IInv'
<1> SUFFICES ASSUME IInv, [Next]_vars PROVE Related'
  BY TypeStep DEF IInv, Related
<1> USE ControlPlaneAssumption
<1>t. TypeOK
  BY DEF IInv
<1>1. ASSUME NEW c \in Callers, NEW s \in Sessions, CreateSession(c, s)
      PROVE  Related'
  <2>a. status[s] = Absent /\ lastEvent[s] = Absent /\ lock[s] = None
    BY <1>1 DEF IInv, Related, CallInv, CreateInv, MoveInv, SaveInv, SessionInv,
      SoleCreator, Creating, TypeOK, CreateSession, InsertSession
  <2>b. \A d \in Callers : ~Creating(d, s)
    BY <1>1, StatusFacts DEF IInv, Related, CallInv, CreateInv, MoveInv,
      SaveInv, SessionInv, SoleCreator, Creating, TypeOK, CreateSession, InsertSession
  <2>c. \A d \in Callers, t \in Sessions : Creating(d, t)' <=> (Creating(d, t) \/ (d = c /\ t = s))
    BY <1>1 DEF IInv, Related, CallInv, CreateInv, MoveInv, SaveInv, SessionInv,
      SoleCreator, Creating, TypeOK, CreateSession, InsertSession, Goto
  <2>1. SoleCreator'
    BY <1>1, <1>t, <2>a, <2>b, <2>c, StatusFacts DEF IInv, Related, CallInv,
      CreateInv, MoveInv, SaveInv, SessionInv, SoleCreator, Creating, TypeOK,
      memVars, callVars, rowVars, CreateSession, InsertSession, Goto
  <2>2. ASSUME NEW d \in Callers PROVE CallInv(d)'
    BY <1>1, <1>t, <2>a, <2>b, <2>c, StatusFacts DEF IInv, Related, CallInv,
      CreateInv, MoveInv, SaveInv, SessionInv, SoleCreator, Creating, TypeOK,
      memVars, callVars, rowVars, CreateSession, InsertSession, Goto
  <2>3. ASSUME NEW t \in Sessions PROVE SessionInv(t)'
    BY <1>1, <1>t, <2>a, <2>b, <2>c, StatusFacts DEF IInv, Related, CallInv,
      CreateInv, MoveInv, SaveInv, SessionInv, SoleCreator, Creating, TypeOK,
      memVars, callVars, rowVars, CreateSession, InsertSession, Goto
  <2> QED BY <2>1, <2>2, <2>3 DEF Related
<1>2. ASSUME NEW c \in Callers, PutSession(c)
      PROVE  Related'
  <2>a. sess[c] \in Sessions /\ Creating(c, sess[c])
    BY <1>2 DEF IInv, Related, CallInv, CreateInv, MoveInv, SaveInv, SessionInv,
      SoleCreator, Creating, TypeOK, PutSession
  <2>b. \A d \in Callers, t \in Sessions : Creating(d, t)' <=> Creating(d, t)
    BY <1>2 DEF IInv, Related, CallInv, CreateInv, MoveInv, SaveInv, SessionInv,
      SoleCreator, Creating, TypeOK, PutSession, Goto
  <2>1. SoleCreator'
    BY <1>2, <1>t, <2>a, <2>b, StatusFacts DEF IInv, Related, CallInv,
      CreateInv, MoveInv, SaveInv, SessionInv, SoleCreator, Creating, TypeOK,
      memVars, callVars, rowVars, PutSession, Goto
  <2>2. ASSUME NEW d \in Callers PROVE CallInv(d)'
    BY <1>2, <1>t, <2>a, <2>b, StatusFacts DEF IInv, Related, CallInv,
      CreateInv, MoveInv, SaveInv, SessionInv, SoleCreator, Creating, TypeOK,
      memVars, callVars, rowVars, PutSession, Goto
  <2>3. ASSUME NEW t \in Sessions PROVE SessionInv(t)'
    BY <1>2, <1>t, <2>a, <2>b, StatusFacts DEF IInv, Related, CallInv,
      CreateInv, MoveInv, SaveInv, SessionInv, SoleCreator, Creating, TypeOK,
      memVars, callVars, rowVars, PutSession, Goto
  <2> QED BY <2>1, <2>2, <2>3 DEF Related
<1>3. ASSUME NEW c \in Callers, EmitCreated(c)
      PROVE  Related'
  <2>1. SoleCreator'
    BY <1>3, <1>t DEF IInv, Related, CallInv, CreateInv, MoveInv, SaveInv,
      SessionInv, SoleCreator, Creating, TypeOK,
      memVars, callVars, rowVars, EmitCreated, Return
  <2>2. ASSUME NEW d \in Callers PROVE CallInv(d)'
    BY <1>3, <1>t DEF IInv, Related, CallInv, CreateInv, MoveInv, SaveInv,
      SessionInv, SoleCreator, Creating, TypeOK,
      memVars, callVars, rowVars, EmitCreated, Return
  <2>3. ASSUME NEW t \in Sessions PROVE SessionInv(t)'
    BY <1>3, <1>t DEF IInv, Related, CallInv, CreateInv, MoveInv, SaveInv,
      SessionInv, SoleCreator, Creating, TypeOK,
      memVars, callVars, rowVars, EmitCreated, Return
  <2> QED BY <2>1, <2>2, <2>3 DEF Related
<1>4. ASSUME NEW c \in Callers, NEW s \in Sessions, NEW to \in SessionStatus, Transition(c, s, to)
      PROVE  Related'
  <2>a. status[s] # Absent /\ status[s] \in Live
    BY <1>4, EdgeReaches, StatusFacts DEF Transition
  <2>b. ~lost[s] => Allowed(row[s], to)
    BY <1>4, <2>a, StatusFacts DEF IInv, Related, SessionInv, Transition
  <2>c. Reaches(row[s], to)
    BY <1>4, <2>a, ReachesExtends DEF IInv, Related, SessionInv, Transition
  <2>d. \A d \in Callers, t \in Sessions : Creating(d, t)' <=> Creating(d, t)
    BY <1>4 DEF IInv, Related, CallInv, CreateInv, MoveInv, SaveInv, SessionInv,
      SoleCreator, Creating, TypeOK, Transition, Goto
  <2>e. row[s] # Absent
    BY <2>a DEF IInv, Related, SessionInv
  <2>1. SoleCreator'
    BY <1>4, <1>t, <2>a, <2>b, <2>c, <2>d, <2>e, StatusFacts DEF IInv, Related,
      CallInv, CreateInv, MoveInv, SaveInv, SessionInv, SoleCreator, Creating,
      TypeOK,
      memVars, callVars, rowVars, Transition, Goto
  <2>2. ASSUME NEW d \in Callers PROVE CallInv(d)'
    BY <1>4, <1>t, <2>a, <2>b, <2>c, <2>d, <2>e, StatusFacts DEF IInv, Related,
      CallInv, CreateInv, MoveInv, SaveInv, SessionInv, SoleCreator, Creating,
      TypeOK,
      memVars, callVars, rowVars, Transition, Goto
  <2>3. ASSUME NEW t \in Sessions PROVE SessionInv(t)'
    BY <1>4, <1>t, <2>a, <2>b, <2>c, <2>d, <2>e, StatusFacts DEF IInv, Related,
      CallInv, CreateInv, MoveInv, SaveInv, SessionInv, SoleCreator, Creating,
      TypeOK,
      memVars, callVars, rowVars, Transition, Goto
  <2> QED BY <2>1, <2>2, <2>3 DEF Related
<1>5. ASSUME NEW c \in Callers, StoreStatus(c)
      PROVE  Related'
  <2>a. sess[c] \in Sessions /\ arg[c] = status[sess[c]] /\ lock[sess[c]] = c
    BY <1>5 DEF IInv, Related, CallInv, CreateInv, MoveInv, SaveInv, SessionInv,
      SoleCreator, Creating, TypeOK, StoreStatus, UpdateSessionStatus
  <2>b. ~lost[sess[c]] => Reaches(lastEvent[sess[c]], arg[c])
    BY <1>5, <2>a, ReachesExtends DEF IInv, Related, CallInv, CreateInv,
      MoveInv, SaveInv, SessionInv, SoleCreator, Creating, TypeOK, StoreStatus, UpdateSessionStatus
  <2>c. \A d \in Callers, t \in Sessions : Creating(d, t)' <=> Creating(d, t)
    BY <1>5 DEF IInv, Related, CallInv, CreateInv, MoveInv, SaveInv, SessionInv,
      SoleCreator, Creating, TypeOK, StoreStatus, UpdateSessionStatus, Goto
  <2>1. SoleCreator'
    BY <1>5, <1>t, <2>a, <2>b, <2>c, StatusFacts DEF IInv, Related, CallInv,
      CreateInv, MoveInv, SaveInv, SessionInv, SoleCreator, Creating, TypeOK,
      memVars, callVars, rowVars, StoreStatus, UpdateSessionStatus, Goto
  <2>2. ASSUME NEW d \in Callers PROVE CallInv(d)'
    BY <1>5, <1>t, <2>a, <2>b, <2>c, StatusFacts DEF IInv, Related, CallInv,
      CreateInv, MoveInv, SaveInv, SessionInv, SoleCreator, Creating, TypeOK,
      memVars, callVars, rowVars, StoreStatus, UpdateSessionStatus, Goto
  <2>3. ASSUME NEW t \in Sessions PROVE SessionInv(t)'
    BY <1>5, <1>t, <2>a, <2>b, <2>c, StatusFacts DEF IInv, Related, CallInv,
      CreateInv, MoveInv, SaveInv, SessionInv, SoleCreator, Creating, TypeOK,
      memVars, callVars, rowVars, StoreStatus, UpdateSessionStatus, Goto
  <2> QED BY <2>1, <2>2, <2>3 DEF Related
<1>6. ASSUME NEW c \in Callers, EmitTransition(c)
      PROVE  Related'
  <2>1. SoleCreator'
    BY <1>6, <1>t DEF IInv, Related, CallInv, CreateInv, MoveInv, SaveInv,
      SessionInv, SoleCreator, Creating, TypeOK,
      memVars, callVars, rowVars, EmitTransition, Return
  <2>2. ASSUME NEW d \in Callers PROVE CallInv(d)'
    BY <1>6, <1>t DEF IInv, Related, CallInv, CreateInv, MoveInv, SaveInv,
      SessionInv, SoleCreator, Creating, TypeOK,
      memVars, callVars, rowVars, EmitTransition, Return
  <2>3. ASSUME NEW t \in Sessions PROVE SessionInv(t)'
    BY <1>6, <1>t DEF IInv, Related, CallInv, CreateInv, MoveInv, SaveInv,
      SessionInv, SoleCreator, Creating, TypeOK,
      memVars, callVars, rowVars, EmitTransition, Return
  <2> QED BY <2>1, <2>2, <2>3 DEF Related
<1>7. ASSUME NEW c \in Callers, NEW s \in Sessions, SaveCheckpoint(c, s)
      PROVE  Related'
  <2>1. SoleCreator'
    BY <1>7, <1>t DEF IInv, Related, CallInv, CreateInv, MoveInv, SaveInv,
      SessionInv, SoleCreator, Creating, TypeOK,
      memVars, callVars, rowVars, SaveCheckpoint, InsertCheckpoint, Goto
  <2>2. ASSUME NEW d \in Callers PROVE CallInv(d)'
    BY <1>7, <1>t DEF IInv, Related, CallInv, CreateInv, MoveInv, SaveInv,
      SessionInv, SoleCreator, Creating, TypeOK,
      memVars, callVars, rowVars, SaveCheckpoint, InsertCheckpoint, Goto
  <2>3. ASSUME NEW t \in Sessions PROVE SessionInv(t)'
    BY <1>7, <1>t DEF IInv, Related, CallInv, CreateInv, MoveInv, SaveInv,
      SessionInv, SoleCreator, Creating, TypeOK,
      memVars, callVars, rowVars, SaveCheckpoint, InsertCheckpoint, Goto
  <2> QED BY <2>1, <2>2, <2>3 DEF Related
<1>8. ASSUME NEW c \in Callers, UpdateCheckpointRef(c)
      PROVE  Related'
  <2>a. sess[c] \in Sessions /\ newId[c] \in ckpts[sess[c]]
    BY <1>8 DEF IInv, Related, CallInv, CreateInv, MoveInv, SaveInv, SessionInv,
      SoleCreator, Creating, TypeOK, UpdateCheckpointRef, SetRowRef
  <2>b. \A d \in Callers, t \in Sessions : Creating(d, t)' <=> Creating(d, t)
    BY <1>8 DEF IInv, Related, CallInv, CreateInv, MoveInv, SaveInv, SessionInv,
      SoleCreator, Creating, TypeOK, UpdateCheckpointRef, SetRowRef, Goto, Return
  <2>c. \A t \in Sessions : rowRef'[t] # 0 => rowRef'[t] \in ckpts[t]
    BY <1>8, <2>a DEF IInv, Related, CallInv, CreateInv, MoveInv, SaveInv,
      SessionInv, SoleCreator, Creating, TypeOK, UpdateCheckpointRef, SetRowRef
  <2>d. \A d \in Callers : at[d] \in {"changed", "stored"} => at'[d] = at[d] /\ sess'[d] = sess[d]
    BY <1>8 DEF IInv, TypeOK, UpdateCheckpointRef, SetRowRef, Goto, Return
  <2>1. SoleCreator'
    BY <1>8, <1>t, <2>a, <2>b, <2>c, <2>d DEF IInv, Related, CallInv, CreateInv,
      MoveInv, SaveInv, SessionInv, SoleCreator, Creating, TypeOK,
      memVars, callVars, rowVars, UpdateCheckpointRef, SetRowRef, Goto, Return
  <2>2. ASSUME NEW d \in Callers PROVE CallInv(d)'
    BY <1>8, <1>t, <2>a, <2>b, <2>c, <2>d DEF IInv, Related, CallInv, CreateInv,
      MoveInv, SaveInv, SessionInv, SoleCreator, Creating, TypeOK,
      memVars, callVars, rowVars, UpdateCheckpointRef, SetRowRef, Goto, Return
  <2>3. ASSUME NEW t \in Sessions PROVE SessionInv(t)'
    BY <1>8, <1>t, <2>a, <2>b, <2>c, <2>d DEF IInv, Related, SessionInv, TypeOK,
      memVars, UpdateCheckpointRef, SetRowRef
  <2> QED BY <2>1, <2>2, <2>3 DEF Related
<1>9. ASSUME NEW c \in Callers, SetCheckpointRef(c)
      PROVE  Related'
  <2>1. SoleCreator'
    BY <1>9, <1>t DEF IInv, Related, CallInv, CreateInv, MoveInv, SaveInv,
      SessionInv, SoleCreator, Creating, TypeOK,
      memVars, callVars, rowVars, SetCheckpointRef, Return
  <2>2. ASSUME NEW d \in Callers PROVE CallInv(d)'
    BY <1>9, <1>t DEF IInv, Related, CallInv, CreateInv, MoveInv, SaveInv,
      SessionInv, SoleCreator, Creating, TypeOK,
      memVars, callVars, rowVars, SetCheckpointRef, Return
  <2>3. ASSUME NEW t \in Sessions PROVE SessionInv(t)'
    BY <1>9, <1>t DEF IInv, Related, CallInv, CreateInv, MoveInv, SaveInv,
      SessionInv, SoleCreator, Creating, TypeOK,
      memVars, callVars, rowVars, SetCheckpointRef, Return
  <2> QED BY <2>1, <2>2, <2>3 DEF Related
<1>10. ASSUME Crash
      PROVE  Related'
  BY <1>10, <1>t DEF Related, IInv, TypeOK, CallInv, CreateInv, MoveInv, SaveInv,
    SoleCreator, SessionInv, Creating, rowVars, Crash
<1>11. ASSUME Recover
      PROVE  Related'
  <2>1. \A d \in Callers : at[d] = "idle"
    BY <1>11 DEF IInv, Related, CallInv, Recover, ListNonTerminalSessions
  <2>2. (SoleCreator /\ \A d \in Callers : CallInv(d))'
    BY <1>11, <2>1 DEF SoleCreator, CallInv, CreateInv, MoveInv, SaveInv,
      Creating, callVars, Recover, ListNonTerminalSessions
  <2>3. ASSUME NEW t \in Sessions PROVE SessionInv(t)'
    BY <1>11, <1>t, <2>1 DEF IInv, Related, TypeOK, SessionInv, Creating,
      Reaches, SessionStatus, callVars, rowVars, Recover, ListNonTerminalSessions
  <2> QED BY <2>2, <2>3 DEF Related
<1>12. ASSUME UNCHANGED vars
      PROVE  Related'
  BY <1>12 DEF Related, vars, memVars, callVars, rowVars, IInv, CallInv,
    CreateInv, MoveInv, SaveInv, SoleCreator, SessionInv, Creating
<1> QED BY <1>1, <1>2, <1>3, <1>4, <1>5, <1>6, <1>7, <1>8, <1>9, <1>10, <1>11, <1>12
  DEF Next, Step, Call

(* The invariant holds in every reachable state. *)
THEOREM InvariantHolds == Spec => []IInv
BY InitIInv, InvariantStep, PTL DEF Spec

(* Every variable keeps its type. *)
THEOREM TypeCorrect == Spec => []TypeOK
<1>1. IInv => TypeOK
  BY DEF IInv
<1> QED BY <1>1, InvariantHolds, PTL

(* Outside CreateSession and Transition, map and row agree. *)
THEOREM StoreInStepHolds == Spec => []StoreInStep
<1>1. IInv => StoreInStep
  BY DEF IInv, Related, SessionInv, StoreInStep
<1> QED BY <1>1, InvariantHolds, PTL

(* No event runs ahead of the row. *)
THEOREM PublishedIsDurableHolds == Spec => []PublishedIsDurable
<1>1. IInv => PublishedIsDurable
  BY DEF IInv, Related, SessionInv, PublishedIsDurable
<1> QED BY <1>1, InvariantHolds, PTL

(* The references name saved checkpoints. *)
THEOREM CheckpointRefsExistHolds == Spec => []CheckpointRefsExist
<1>1. IInv => CheckpointRefsExist
  BY DEF IInv, Related, SessionInv, CheckpointRefsExist
<1> QED BY <1>1, InvariantHolds, PTL

-----------------------------------------------------------------------------
(***************************************************************************)
(* Only CreateSession and StoreStatus write a row: from nothing to         *)
(* CREATED, and to a status the row reaches.                               *)
(***************************************************************************)
LEMMA RowStep ==
  ASSUME IInv, [Next]_vars, NEW t \in Sessions
  PROVE  Reaches(row[t], row'[t])
<1>1. ASSUME NEW c \in Callers, NEW s \in Sessions, CreateSession(c, s)
      PROVE  Reaches(row[t], row'[t])
  BY <1>1, StatusFacts DEF IInv, TypeOK, CreateSession, InsertSession
<1>2. ASSUME NEW c \in Callers, StoreStatus(c) PROVE Reaches(row[t], row'[t])
  <2>1. sess[c] \in Sessions /\ Reaches(row[sess[c]], arg[c])
    BY <1>2 DEF IInv, Related, CallInv, MoveInv, SessionInv, StoreStatus, UpdateSessionStatus
  <2> QED BY <1>2, <2>1, StatusFacts DEF IInv, TypeOK, StoreStatus, UpdateSessionStatus
<1>3. CASE row' = row
  BY <1>3, StatusFacts
<1>4. ASSUME NEW c \in Callers, Step(c), ~StoreStatus(c) PROVE row' = row
  BY <1>4 DEF Step, PutSession, EmitCreated, EmitTransition, UpdateCheckpointRef, SetRowRef,
     SetCheckpointRef, rowVars
<1>5. ASSUME NEW c \in Callers, NEW s \in Sessions, Call(c, s), ~CreateSession(c, s)
      PROVE  row' = row
  BY <1>5 DEF Call, Transition, SaveCheckpoint, InsertCheckpoint, rowVars
<1>6. CASE Crash \/ Recover \/ UNCHANGED vars
  BY <1>6, <1>3 DEF Crash, Recover, ListNonTerminalSessions, vars, rowVars
<1> QED BY <1>1, <1>2, <1>3, <1>4, <1>5, <1>6 DEF Next

(* Rows move forward only, and terminal rows are final. *)
THEOREM DurableForwardHolds == Spec => DurableForward
<1>1. IInv /\ [Next]_vars => [\A s \in Sessions : Reaches(row[s], row'[s])]_vars
  BY RowStep
<1> QED BY <1>1, InvariantHolds, PTL DEF Spec, DurableForward

(***************************************************************************)
(* Only EmitCreated and EmitTransition publish.  The first follows no      *)
(* event; the second repeats the row, which PublishedIsDurable puts at or  *)
(* after the last event.                                                   *)
(***************************************************************************)
LEMMA EventStep ==
  ASSUME IInv, [Next]_vars, NEW t \in Sessions, lastEvent[t] \in Terminal, ~lost[t]
  PROVE  lastEvent'[t] = lastEvent[t]
<1>1. ASSUME NEW c \in Callers, EmitCreated(c) PROVE lastEvent'[t] = lastEvent[t]
  <2>1. sess[c] \in Sessions /\ lastEvent[sess[c]] = Absent
    BY <1>1 DEF IInv, Related, CallInv, CreateInv, EmitCreated
  <2> QED BY <1>1, <2>1, StatusFacts DEF IInv, TypeOK, EmitCreated
<1>2. ASSUME NEW c \in Callers, EmitTransition(c) PROVE lastEvent'[t] = lastEvent[t]
  <2>1. sess[c] \in Sessions
    BY <1>2 DEF IInv, Related, CallInv, EmitTransition
  <2>2. CASE sess[c] = t
    <3>1. row[t] = status[t] /\ Reaches(lastEvent[t], row[t])
      BY <1>2, <2>2 DEF IInv, Related, CallInv, MoveInv, SessionInv, EmitTransition
    <3>2. status[t] = lastEvent[t]
      BY <3>1, TerminalIsLast
    <3> QED BY <1>2, <2>1, <2>2, <3>2 DEF IInv, TypeOK, EmitTransition
  <2> QED BY <1>2, <2>1, <2>2 DEF IInv, TypeOK, EmitTransition
<1>3. ASSUME NEW c \in Callers, Step(c), ~EmitCreated(c), ~EmitTransition(c)
      PROVE  lastEvent' = lastEvent
  BY <1>3 DEF Step, PutSession, StoreStatus, UpdateSessionStatus, UpdateCheckpointRef, SetRowRef, SetCheckpointRef
<1>4. ASSUME NEW c \in Callers, NEW s \in Sessions, Call(c, s)
      PROVE  lastEvent' = lastEvent
  BY <1>4 DEF Call, CreateSession, InsertSession, Transition, SaveCheckpoint, InsertCheckpoint
<1>5. CASE Crash \/ Recover \/ UNCHANGED vars
  BY <1>5 DEF Crash, Recover, ListNonTerminalSessions, vars
<1> QED BY <1>1, <1>2, <1>3, <1>4, <1>5 DEF Next

(* After a terminal event no other one follows, unless an update failed. *)
THEOREM TerminalEventIsFinalHolds == Spec => TerminalEventIsFinal
<1>1. IInv /\ [Next]_vars =>
        [\A s \in Sessions : lastEvent[s] \in Terminal /\ ~lost[s] =>
                              lastEvent'[s] = lastEvent[s]]_vars
  BY EventStep
<1> QED BY <1>1, InvariantHolds, PTL DEF Spec, TerminalEventIsFinal

(***************************************************************************)
(* Subscribers are never told an earlier status after a later one, across  *)
(* concurrent calls, failed publishes, crashes and restarts, unless an     *)
(* update of the row failed.                                               *)
(***************************************************************************)
EventsForward ==
  [][\A s \in Sessions : ~lost[s] => Reaches(lastEvent[s], lastEvent'[s])]_vars

(* Only EmitCreated and EmitTransition publish, and both publish the row. *)
LEMMA EventForwardStep ==
  ASSUME IInv, [Next]_vars, NEW t \in Sessions, ~lost[t]
  PROVE  Reaches(lastEvent[t], lastEvent'[t])
<1>1. ASSUME NEW c \in Callers, EmitCreated(c) PROVE Reaches(lastEvent[t], lastEvent'[t])
  <2>1. sess[c] \in Sessions /\ lastEvent[sess[c]] = Absent
    BY <1>1 DEF IInv, Related, CallInv, CreateInv, EmitCreated
  <2> QED BY <1>1, <2>1, StatusFacts DEF IInv, TypeOK, EmitCreated
<1>2. ASSUME NEW c \in Callers, EmitTransition(c) PROVE Reaches(lastEvent[t], lastEvent'[t])
  <2>1. sess[c] \in Sessions
    BY <1>2 DEF IInv, Related, CallInv, EmitTransition
  <2>2. CASE sess[c] = t
    <3>1. row[t] = status[t] /\ Reaches(lastEvent[t], row[t])
      BY <1>2, <2>2 DEF IInv, Related, CallInv, MoveInv, SessionInv, EmitTransition
    <3> QED BY <1>2, <2>2, <3>1, StatusFacts DEF IInv, TypeOK, EmitTransition
  <2> QED BY <1>2, <2>1, <2>2, StatusFacts DEF IInv, TypeOK, EmitTransition
<1>3. ASSUME NEW c \in Callers, Step(c), ~EmitCreated(c), ~EmitTransition(c)
      PROVE  lastEvent' = lastEvent
  BY <1>3 DEF Step, PutSession, StoreStatus, UpdateSessionStatus, UpdateCheckpointRef, SetRowRef, SetCheckpointRef
<1>4. ASSUME NEW c \in Callers, NEW s \in Sessions, Call(c, s)
      PROVE  lastEvent' = lastEvent
  BY <1>4 DEF Call, CreateSession, InsertSession, Transition, SaveCheckpoint, InsertCheckpoint
<1>5. CASE Crash \/ Recover \/ UNCHANGED vars
  BY <1>5, StatusFacts DEF Crash, Recover, ListNonTerminalSessions, vars
<1> QED BY <1>1, <1>2, <1>3, <1>4, <1>5, StatusFacts DEF Next

(* The events of a session follow the transition table forward. *)
THEOREM EventsForwardHolds == Spec => EventsForward
<1>1. IInv /\ [Next]_vars =>
        [\A s \in Sessions : ~lost[s] => Reaches(lastEvent[s], lastEvent'[s])]_vars
  BY EventForwardStep
<1> QED BY <1>1, InvariantHolds, PTL DEF Spec, EventsForward

-----------------------------------------------------------------------------
(***************************************************************************)
(* The table of sessions as an implementation of SessionContract: what a   *)
(* reader of the database sees is one session life, as if the process had  *)
(* never crashed, as long as its updates work.                             *)
(***************************************************************************)
Durable == INSTANCE SessionContract WITH status <- row

DurableSpec == Durable!Spec

(* The instance reads the same transition table. *)
LEMMA SameTable ==
  /\ Durable!Absent = Absent
  /\ Durable!Live = Live
  /\ Durable!SessionStatus = SessionStatus
  /\ \A a, b : Durable!Allowed(a, b) <=> Allowed(a, b)
<1>1. Durable!Absent = Absent /\ Durable!Live = Live /\ Durable!Terminal = Terminal
  BY DEF Durable!Absent, Absent, Durable!Live, Live, Durable!Terminal, Terminal
<1>2. Durable!SessionStatus = SessionStatus
  BY <1>1 DEF Durable!SessionStatus, SessionStatus
<1>3. Durable!validTransitions = validTransitions
  BY <1>2, Zenon DEF Durable!validTransitions, validTransitions
<1> QED BY <1>1, <1>2, <1>3 DEF Durable!Allowed, Allowed

(* While the store's updates work, none is ever lost. *)
NothingLost == ~StoreFaults => \A s \in Sessions : ~lost[s]

(* Only StoreStatus records a failed update, and only where one can fail. *)
LEMMA NothingLostStep == IInv /\ NothingLost /\ [Next]_vars => NothingLost'
<1> SUFFICES ASSUME IInv, NothingLost, [Next]_vars, ~StoreFaults PROVE lost' = lost
  BY DEF NothingLost
<1>1. ASSUME NEW c \in Callers, Step(c) PROVE lost' = lost
  BY <1>1 DEF Step, PutSession, EmitCreated, StoreStatus, EmitTransition, UpdateCheckpointRef,
     SetCheckpointRef
<1>2. ASSUME NEW c \in Callers, NEW s \in Sessions, Call(c, s) PROVE lost' = lost
  BY <1>2 DEF Call, CreateSession, Transition, SaveCheckpoint
<1> QED BY <1>1, <1>2 DEF Next, Crash, Recover, vars

(***************************************************************************)
(* A row is inserted as CREATED and otherwise follows one edge of the      *)
(* table: the mutex keeps the next Transition out until it is written.     *)
(***************************************************************************)
LEMMA DurableStep ==
  ~StoreFaults /\ IInv /\ NothingLost /\ [Next]_vars => [Durable!Next]_row
<1> SUFFICES ASSUME ~StoreFaults, IInv, NothingLost, [Next]_vars PROVE [Durable!Next]_row
  OBVIOUS
<1>1. ASSUME NEW c \in Callers, NEW s \in Sessions, CreateSession(c, s)
      PROVE  [Durable!Next]_row
  BY <1>1, SameTable DEF CreateSession, InsertSession, Durable!Next, Durable!Create
<1>2. ASSUME NEW c \in Callers, StoreStatus(c) PROVE [Durable!Next]_row
  <2>1. sess[c] \in Sessions /\ Allowed(row[sess[c]], arg[c])
    BY <1>2 DEF IInv, Related, CallInv, MoveInv, NothingLost, StoreStatus
  <2>2. arg[c] \in SessionStatus
    BY <2>1, EdgeReaches
  <2>3. row' = [row EXCEPT ![sess[c]] = arg[c]]
    BY <1>2 DEF StoreStatus, UpdateSessionStatus
  <2> QED BY <2>1, <2>2, <2>3, SameTable DEF Durable!Next, Durable!Move
<1>3. ASSUME NEW c \in Callers, Step(c), ~StoreStatus(c) PROVE row' = row
  BY <1>3 DEF Step, PutSession, EmitCreated, EmitTransition, UpdateCheckpointRef, SetRowRef,
     SetCheckpointRef, rowVars
<1>4. ASSUME NEW c \in Callers, NEW s \in Sessions, Call(c, s), ~CreateSession(c, s)
      PROVE  row' = row
  BY <1>4 DEF Call, Transition, SaveCheckpoint, InsertCheckpoint, rowVars
<1>5. CASE Crash \/ Recover \/ UNCHANGED vars
  BY <1>5 DEF Crash, Recover, ListNonTerminalSessions, vars, rowVars
<1> QED BY <1>1, <1>2, <1>3, <1>4, <1>5 DEF Next

(***************************************************************************)
(* If UpdateSessionStatus does not fail, the rows of the sessions table    *)
(* implement SessionContract across crashes and restarts: no edge of a     *)
(* session's life is skipped or repeated on disk, wherever a call was cut. *)
(***************************************************************************)
THEOREM RowsImplementContract ==
  ASSUME ~StoreFaults
  PROVE  Spec => DurableSpec
<1>1. Init => Durable!Init
  BY SameTable DEF Init, Durable!Init
<1>2. Init => NothingLost
  BY DEF Init, NothingLost
<1>3. Spec => []NothingLost
  BY <1>2, NothingLostStep, InvariantHolds, PTL DEF Spec
<1>4. IInv /\ NothingLost /\ [Next]_vars => [Durable!Next]_row
  BY DurableStep
<1> QED BY <1>1, <1>3, <1>4, InvariantHolds, PTL DEF Spec, DurableSpec, Durable!Spec

-----------------------------------------------------------------------------
(* A checkpoint ID belongs to one session and was given out by the table. *)
FreshIds ==
  /\ \A s \in Sessions : \A i \in ckpts[s] : i \in 1..lastId
  /\ \A s, t \in Sessions : s # t => ckpts[s] \intersect ckpts[t] = {}

(* InsertCheckpoint takes the next ID, which no session has. *)
LEMMA FreshIdsStep == IInv /\ FreshIds /\ [Next]_vars => FreshIds'
<1> SUFFICES ASSUME IInv, FreshIds, [Next]_vars PROVE FreshIds'
  OBVIOUS
<1>1. ASSUME NEW c \in Callers, NEW s \in Sessions, SaveCheckpoint(c, s) PROVE FreshIds'
  <2>1. lastId \in Nat /\ lastId' = lastId + 1 /\ ckpts \in [Sessions -> SUBSET Nat]
    BY <1>1 DEF IInv, TypeOK, SaveCheckpoint, InsertCheckpoint
  <2>2. ckpts' = [ckpts EXCEPT ![s] = @ \union {lastId + 1}]
    BY <1>1 DEF SaveCheckpoint, InsertCheckpoint
  <2> QED BY <2>1, <2>2 DEF FreshIds
<1>2. CASE UNCHANGED <<ckpts, lastId>>
  BY <1>2 DEF FreshIds
<1>3. ASSUME NEW c \in Callers, Step(c) PROVE UNCHANGED <<ckpts, lastId>>
  BY <1>3 DEF Step, PutSession, EmitCreated, StoreStatus, EmitTransition, UpdateCheckpointRef,
     SetCheckpointRef, rowVars
<1>4. ASSUME NEW c \in Callers, NEW s \in Sessions, Call(c, s), ~SaveCheckpoint(c, s)
      PROVE  UNCHANGED <<ckpts, lastId>>
  BY <1>4 DEF Call, CreateSession, Transition, rowVars
<1>5. CASE Crash \/ Recover \/ UNCHANGED vars
  BY <1>5, <1>2 DEF Crash, Recover, vars, rowVars
<1> QED BY <1>1, <1>2, <1>3, <1>4, <1>5 DEF Next

(***************************************************************************)
(* However SaveCheckpoint calls of several sessions interleave, a session  *)
(* never refers, in the map or in the table, to a checkpoint of another.   *)
(***************************************************************************)
RefsAreOwn ==
  \A s, t \in Sessions :
    s # t => /\ rowRef[s] \notin ckpts[t]
             /\ ref[s] \notin ckpts[t]

(* No session refers to another's checkpoint. *)
THEOREM RefsAreOwnHolds == Spec => []RefsAreOwn
<1>1. Init => FreshIds
  BY DEF Init, FreshIds
<1>2. Spec => []FreshIds
  BY <1>1, FreshIdsStep, InvariantHolds, PTL DEF Spec
<1>3. IInv /\ FreshIds => RefsAreOwn
  <2> SUFFICES ASSUME IInv, FreshIds, NEW s \in Sessions, NEW t \in Sessions, s # t
               PROVE  rowRef[s] \notin ckpts[t] /\ ref[s] \notin ckpts[t]
    BY DEF RefsAreOwn
  <2>1. 0 \notin ckpts[t]
    BY DEF FreshIds, IInv, TypeOK
  <2>2. SessionInv(s)
    BY DEF IInv, Related
  <2> QED BY <2>1, <2>2 DEF FreshIds, SessionInv
<1> QED BY <1>2, <1>3, InvariantHolds, PTL
=============================================================================
