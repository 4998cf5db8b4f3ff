--------------------------- MODULE SessionContract ---------------------------
(***************************************************************************)
(* What a session promises to whoever watches its status: it starts as     *)
(* CREATED (or is found unfinished when the process starts), moves only    *)
(* along the transition table, one edge at a time, never restarts, and     *)
(* once COMPLETED or FAILED it never changes again.                        *)
(***************************************************************************)
EXTENDS SessionStates

CONSTANT Sessions

VARIABLE status

Init == /\ status \in [Sessions -> {Absent} \union Live]

Create(s) ==
  /\ status[s] = Absent
  /\ status' = [status EXCEPT ![s] = "CREATED"]

Move(s) ==
  \E to \in SessionStatus :
     /\ Allowed(status[s], to)
     /\ status' = [status EXCEPT ![s] = to]

Next == \E s \in Sessions : Create(s) \/ Move(s)

Spec == Init /\ [][Next]_status
=============================================================================
