----------------------------- MODULE SubjectMatch -----------------------------
(***************************************************************************)
(* matchSubject of internal/eventbus/memory.go, statement by statement:    *)
(* the equality test, the fast path for patterns without wildcards, and    *)
(* the loop over the pattern's tokens with its four ways out.              *)
(***************************************************************************)
EXTENDS Subjects

CONSTANTS Patterns, SubjectNames

(* strings.Split never returns an empty slice. *)
ASSUME SubjectMatchAssumption ==
  /\ Patterns \subseteq Seq(STRING) \ {<<>>}
  /\ SubjectNames \subseteq Seq(STRING) \ {<<>>}

VARIABLES
  pattern, subject,  \* the arguments
  i,                 \* the loop's index, from 1
  result             \* "none" until the function returns

vars == <<pattern, subject, i, result>>

Init ==
  /\ pattern \in Patterns
  /\ subject \in SubjectNames
  /\ i = 0
  /\ result = "none"

ReturnIf(b) ==
  /\ result' = IF b THEN "true" ELSE "false"
  /\ UNCHANGED <<pattern, subject, i>>

(* The tests in front of the loop. *)
Equal ==
  /\ i = 0 /\ result = "none"
  /\ pattern = subject
  /\ ReturnIf(TRUE)

NoWildcard ==
  /\ i = 0 /\ result = "none"
  /\ pattern # subject
  /\ \A k \in 1..Len(pattern) : pattern[k] \notin {"*", ">"}
  /\ ReturnIf(FALSE)

Enter ==
  /\ i = 0 /\ result = "none"
  /\ pattern # subject
  /\ \E k \in 1..Len(pattern) : pattern[k] \in {"*", ">"}
  /\ i' = 1
  /\ UNCHANGED <<pattern, subject, result>>

InLoop == i \in 1..Len(pattern) /\ result = "none"

(* ">": whatever is left of the subject matches, even nothing. *)
Rest ==
  /\ InLoop
  /\ pattern[i] = ">"
  /\ ReturnIf(i - 1 <= Len(subject))

SubjectTooShort ==
  /\ InLoop
  /\ pattern[i] # ">"
  /\ i > Len(subject)
  /\ ReturnIf(FALSE)

(* Slip: "*" skips the token without looking whether there is one. *)
NextTokenAnyLiteral ==
  /\ InLoop
  /\ pattern[i] # ">"
  /\ i <= Len(subject)
  /\ i' = i + 1
  /\ UNCHANGED <<pattern, subject, result>>

NextToken ==
  /\ InLoop
  /\ pattern[i] # ">"
  /\ i <= Len(subject)
  /\ pattern[i] \in {"*", subject[i]}
  /\ i' = i + 1
  /\ UNCHANGED <<pattern, subject, result>>

Different ==
  /\ InLoop
  /\ pattern[i] # ">"
  /\ i <= Len(subject)
  /\ pattern[i] \notin {"*", subject[i]}
  /\ ReturnIf(FALSE)

(* Slip: the subject's length is not compared after the loop. *)
EndAnyLength ==
  /\ i = Len(pattern) + 1 /\ result = "none"
  /\ ReturnIf(TRUE)

End ==
  /\ i = Len(pattern) + 1 /\ result = "none"
  /\ ReturnIf(Len(pattern) = Len(subject))

Returned == result # "none" /\ UNCHANGED vars

Next ==
  \/ Equal \/ NoWildcard \/ Enter
  \/ Rest \/ SubjectTooShort \/ NextToken \/ Different \/ End
  \/ Returned

Spec == Init /\ [][Next]_vars

-----------------------------------------------------------------------------
(* Properties. *)

(***************************************************************************)
(* What the loop returns is matchSubject: the fast path, the early returns *)
(* and the length test after the loop agree with one formula.              *)
(***************************************************************************)
LoopIsFormula ==
  result # "none" => (result = "true" <=> matchSubject(pattern, subject))

(***************************************************************************)
(* For a well-formed pattern and a subject long enough to leave a token    *)
(* for its ">", the loop decides as NATS does.                             *)
(***************************************************************************)
AgreesWithNats ==
  result # "none" /\ WellFormed(pattern) /\ Len(subject) >= Len(pattern) =>
    (result = "true" <=> NatsMatch(pattern, subject))
=============================================================================
