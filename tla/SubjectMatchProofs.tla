-------------------------- MODULE SubjectMatchProofs --------------------------
(***************************************************************************)
(* The loop of matchSubject computes the formula of Subjects, for patterns *)
(* and subjects of any length.  The loop invariant: the tokens before i    *)
(* match and none of them is ">".                                          *)
(***************************************************************************)
EXTENDS SubjectMatch, TLAPS

TypeOK ==
  /\ pattern \in Seq(STRING) \ {<<>>}
  /\ subject \in Seq(STRING) \ {<<>>}
  /\ i \in 0..(Len(pattern) + 1)
  /\ result \in {"none", "true", "false"}

(* The tokens in front of index n are done with. *)
Consumed(n) ==
  \A k \in 1..(n - 1) : pattern[k] # ">" /\ TokenMatches(pattern, subject, k)

LoopInv ==
  /\ TypeOK
  /\ i > 0 => pattern # subject /\ Consumed(i)
  /\ LoopIsFormula

-----------------------------------------------------------------------------
(* Nothing before Literal's bound is ">", and the bound is at the first. *)
LEMMA LiteralBeyond ==
  ASSUME NEW p \in Seq(STRING), NEW n \in Literal(p),
         NEW k \in 1..Len(p), \A j \in 1..k : p[j] # ">"
  PROVE  k \in 1..n
BY DEF Literal

(* Without wildcards only the subject itself matches. *)
LEMMA LiteralPattern ==
  ASSUME NEW p \in Seq(STRING), NEW s \in Seq(STRING), p # s,
         \A k \in 1..Len(p) : p[k] \notin {"*", ">"}
  PROVE  ~matchSubject(p, s)
<1> SUFFICES ASSUME NEW n \in Literal(p),
                    \A k \in 1..n : TokenMatches(p, s, k),
                    n = Len(p) => Len(s) = Len(p)
             PROVE  FALSE
  BY DEF matchSubject
<1>1. n = Len(p)
  BY DEF Literal
<1>2. Len(s) = Len(p) /\ \A k \in 1..Len(p) : p[k] = s[k]
  BY <1>1 DEF TokenMatches
<1> QED BY <1>2

(* One token that does not match, before any ">", is enough. *)
LEMMA TokenDiffers ==
  ASSUME NEW p \in Seq(STRING), NEW s \in Seq(STRING), p # s,
         NEW k \in 1..Len(p), \A j \in 1..k : p[j] # ">", ~TokenMatches(p, s, k)
  PROVE  ~matchSubject(p, s)
BY LiteralBeyond DEF matchSubject

(* The loop invariant is kept and decides the result. *)
LEMMA LoopStep == LoopInv /\ [Next]_vars => LoopInv'
<1> SUFFICES ASSUME LoopInv, [Next]_vars PROVE LoopInv'
  OBVIOUS
<1> USE DEF LoopInv, TypeOK
<1>1. CASE Equal
  BY <1>1 DEF Equal, ReturnIf, LoopIsFormula, matchSubject, Consumed
<1>2. CASE NoWildcard
  BY <1>2, LiteralPattern DEF NoWildcard, ReturnIf, LoopIsFormula, Consumed
<1>3. CASE Enter
  BY <1>3 DEF Enter, LoopIsFormula, Consumed
<1>4. CASE Rest
  <2>1. i - 1 \in Literal(pattern)
    BY <1>4 DEF Rest, InLoop, Consumed, Literal
  <2>2. i - 1 <= Len(subject)
    BY <1>4 DEF Rest, InLoop, Consumed, TokenMatches
  <2>3. matchSubject(pattern, subject)
    BY <1>4, <2>1 DEF Rest, InLoop, Consumed, matchSubject
  <2> QED BY <1>4, <2>2, <2>3 DEF Rest, InLoop, ReturnIf, LoopIsFormula, Consumed
<1>5. CASE SubjectTooShort
  <2>1. ~TokenMatches(pattern, subject, i) /\ i \in 1..Len(pattern) /\ pattern # subject
        /\ \A j \in 1..i : pattern[j] # ">"
    BY <1>5 DEF SubjectTooShort, InLoop, TokenMatches, Consumed
  <2>2. ~matchSubject(pattern, subject)
    BY <2>1, TokenDiffers
  <2> QED BY <1>5, <2>2 DEF SubjectTooShort, InLoop, ReturnIf, LoopIsFormula, Consumed
<1>6. CASE NextToken
  <2>1. TokenMatches(pattern, subject, i) /\ i \in 1..Len(pattern) /\ pattern[i] # ">"
    BY <1>6 DEF NextToken, InLoop, TokenMatches
  <2> QED BY <1>6, <2>1 DEF NextToken, InLoop, LoopIsFormula, Consumed
<1>7. CASE Different
  <2>1. ~TokenMatches(pattern, subject, i) /\ i \in 1..Len(pattern) /\ pattern # subject
        /\ \A j \in 1..i : pattern[j] # ">"
    BY <1>7 DEF Different, InLoop, TokenMatches, Consumed
  <2>2. ~matchSubject(pattern, subject)
    BY <2>1, TokenDiffers
  <2> QED BY <1>7, <2>2 DEF Different, InLoop, ReturnIf, LoopIsFormula, Consumed
<1>8. CASE End
  <2>1. Len(pattern) \in Literal(pattern) /\ pattern # subject
    BY <1>8 DEF End, Consumed, Literal
  <2>2. \A n \in Literal(pattern) : n = Len(pattern)
    BY <1>8 DEF End, Consumed, Literal
  <2>3. matchSubject(pattern, subject) <=> Len(pattern) = Len(subject)
    BY <1>8, <2>1, <2>2 DEF End, Consumed, matchSubject
  <2> QED BY <1>8, <2>3 DEF End, ReturnIf, LoopIsFormula, Consumed
<1>9. CASE Returned \/ UNCHANGED vars
  BY <1>9 DEF Returned, vars, LoopIsFormula, Consumed
<1> QED BY <1>1, <1>2, <1>3, <1>4, <1>5, <1>6, <1>7, <1>8, <1>9 DEF Next

(* Whatever matchSubject returns is what its formula says. *)
THEOREM LoopIsFormulaHolds == Spec => []LoopIsFormula
<1>1. Init => LoopInv
  BY SubjectMatchAssumption DEF Init, LoopInv, TypeOK, LoopIsFormula
<1>2. LoopInv => LoopIsFormula
  BY DEF LoopInv
<1> QED BY <1>1, <1>2, LoopStep, PTL DEF Spec

(***************************************************************************)
(* Well-formed patterns: the formula is NATS's, if the subject has a token *)
(* for the final ">".                                                      *)
(***************************************************************************)
LEMMA FormulaIsNats ==
  ASSUME NEW p \in Seq(STRING), NEW s \in Seq(STRING), WellFormed(p), Len(s) >= Len(p)
  PROVE  matchSubject(p, s) <=> NatsMatch(p, s)
<1>0. Len(p) \in Nat \ {0}
  BY DEF WellFormed
<1>1. CASE p[Len(p)] = ">"
  <2>1. Literal(p) = {Len(p) - 1}
    BY <1>0, <1>1 DEF Literal, WellFormed
  <2>2. p = s => NatsMatch(p, s)
    BY <1>0, <1>1 DEF NatsMatch, TokenMatches
  <2> QED BY <1>0, <1>1, <2>1, <2>2 DEF matchSubject, NatsMatch
<1>2. CASE p[Len(p)] # ">"
  <2>1. Literal(p) = {Len(p)}
    BY <1>0, <1>2 DEF Literal, WellFormed
  <2>2. p = s => NatsMatch(p, s)
    BY <1>0, <1>2 DEF NatsMatch, TokenMatches
  <2> QED BY <1>0, <1>2, <2>1, <2>2 DEF matchSubject, NatsMatch
<1> QED BY <1>1, <1>2

(* matchSubject agrees with NATS on patterns and subjects of that kind. *)
THEOREM AgreesWithNatsHolds == Spec => []AgreesWithNats
<1>1. Init => LoopInv
  BY SubjectMatchAssumption DEF Init, LoopInv, TypeOK, LoopIsFormula
<1>2. LoopInv => AgreesWithNats
  BY FormulaIsNats DEF LoopInv, TypeOK, LoopIsFormula, AgreesWithNats
<1> QED BY <1>1, <1>2, LoopStep, PTL DEF Spec

(***************************************************************************)
(* The one place where they disagree: everything in front of the final ">" *)
(* matches and the subject ends there.                                     *)
(***************************************************************************)
NothingForRest(p, s) ==
  /\ p[Len(p)] = ">"
  /\ Len(s) = Len(p) - 1
  /\ \A k \in 1..(Len(p) - 1) : TokenMatches(p, s, k)

(* For a well-formed pattern the two differ there and nowhere else. *)
LEMMA FormulaBeyondNats ==
  ASSUME NEW p \in Seq(STRING), NEW s \in Seq(STRING), WellFormed(p)
  PROVE  matchSubject(p, s) <=> NatsMatch(p, s) \/ NothingForRest(p, s)
<1>0. Len(p) \in Nat \ {0} /\ Len(s) \in Nat
  BY DEF WellFormed
<1>1. CASE Len(s) >= Len(p)
  BY <1>0, <1>1, FormulaIsNats DEF NothingForRest
<1>2. CASE Len(s) < Len(p)
  <2>0. p # s /\ ~NatsMatch(p, s)
    BY <1>0, <1>2 DEF NatsMatch
  <2>1. CASE p[Len(p)] = ">"
    <3>1. Literal(p) = {Len(p) - 1}
      BY <1>0, <2>1 DEF Literal, WellFormed
    <3>2. matchSubject(p, s) <=> \A k \in 1..(Len(p) - 1) : TokenMatches(p, s, k)
      BY <1>0, <2>0, <3>1 DEF matchSubject
    <3>3. ASSUME \A k \in 1..(Len(p) - 1) : TokenMatches(p, s, k)
          PROVE  Len(s) = Len(p) - 1
      <4>1. CASE Len(p) = 1
        BY <1>0, <1>2, <4>1
      <4>2. CASE Len(p) # 1
        <5>1. \A n \in Nat \ {0, 1} : n - 1 \in 1..(n - 1)
          OBVIOUS
        <5>2. Len(p) - 1 <= Len(s)
          BY <1>0, <4>2, <3>3, <5>1 DEF TokenMatches
        <5> QED BY <1>0, <1>2, <5>2
      <4> QED BY <4>1, <4>2
    <3> QED BY <2>0, <2>1, <3>2, <3>3 DEF NothingForRest
  <2>2. CASE p[Len(p)] # ">"
    <3>1. Literal(p) = {Len(p)}
      BY <1>0, <2>2 DEF Literal, WellFormed
    <3> QED BY <1>0, <1>2, <2>0, <2>2, <3>1 DEF matchSubject, NothingForRest
  <2> QED BY <2>1, <2>2
<1> QED BY <1>0, <1>1, <1>2

(***************************************************************************)
(* How matchSubject differs from NATS, exactly: for a well-formed pattern  *)
(* it returns true for what NATS matches and, besides, for a subject that  *)
(* stops in front of the pattern's final ">".                              *)
(***************************************************************************)
BeyondNats ==
  result # "none" /\ WellFormed(pattern) =>
    (result = "true" <=> NatsMatch(pattern, subject) \/ NothingForRest(pattern, subject))

(* For patterns and subjects of any length. *)
THEOREM BeyondNatsHolds == Spec => []BeyondNats
<1>1. Init => LoopInv
  BY SubjectMatchAssumption DEF Init, LoopInv, TypeOK, LoopIsFormula
<1>2. LoopInv => BeyondNats
  BY FormulaBeyondNats DEF LoopInv, TypeOK, LoopIsFormula, BeyondNats
<1> QED BY <1>1, <1>2, LoopStep, PTL DEF Spec

(* Statements matchSubject has still to execute, at most. *)
StatementsLeft == IF result = "none" THEN Len(pattern) + 2 - i ELSE 0

(***************************************************************************)
(* matchSubject returns: each of its steps brings the return nearer, and   *)
(* there are never more than one per token of the pattern and two.         *)
(***************************************************************************)
ReturnsSoon ==
  [][/\ StatementsLeft \in 1..(Len(pattern) + 2)
     /\ StatementsLeft' \in 0..(StatementsLeft - 1)]_vars

(* For any pattern and subject: the loop's index only grows, a return ends it. *)
THEOREM ReturnsSoonHolds == Spec => ReturnsSoon
<1>1. Init => LoopInv
  BY SubjectMatchAssumption DEF Init, LoopInv, TypeOK, LoopIsFormula
<1>2. LoopInv /\ LoopInv' /\ [Next]_vars =>
        [/\ StatementsLeft \in 1..(Len(pattern) + 2)
         /\ StatementsLeft' \in 0..(StatementsLeft - 1)]_vars
  <2> SUFFICES ASSUME LoopInv, LoopInv', Next, ~UNCHANGED vars
               PROVE  /\ StatementsLeft \in 1..(Len(pattern) + 2)
                      /\ StatementsLeft' \in 0..(StatementsLeft - 1)
    BY DEF Next, Returned
  <2>1. /\ result = "none" /\ pattern' = pattern
        /\ \/ i' = i + 1
           \/ result' # "none"
    <3>1. ASSUME NEW b \in BOOLEAN, ReturnIf(b) PROVE result' # "none" /\ pattern' = pattern
      BY <3>1 DEF ReturnIf
    <3>2. CASE Enter \/ NextToken
      BY <3>2 DEF Enter, NextToken, InLoop
    <3>3. CASE Equal \/ NoWildcard \/ SubjectTooShort \/ Different
      BY <3>1, <3>3 DEF Equal, NoWildcard, SubjectTooShort, Different, InLoop
    <3>4. CASE Rest \/ End
      BY <3>4 DEF Rest, End, InLoop, ReturnIf
    <3> QED BY <3>2, <3>3, <3>4 DEF Next, Returned
  <2>2. /\ Len(pattern) \in Nat /\ i \in 0..(Len(pattern) + 1)
        /\ i' \in 0..(Len(pattern') + 1)
    BY DEF LoopInv, TypeOK
  <2> QED BY <2>1, <2>2 DEF StatementsLeft
<1> QED BY <1>1, <1>2, LoopStep, PTL DEF Spec, ReturnsSoon
=============================================================================
