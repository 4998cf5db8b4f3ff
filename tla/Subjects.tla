------------------------------- MODULE Subjects -------------------------------
(***************************************************************************)
(* Subjects and patterns of internal/eventbus: sequences of tokens, the    *)
(* dots left out.  matchSubject is what the loop of memory.go computes, in *)
(* one formula; SubjectMatch steps through the loop and shows it is.       *)
(***************************************************************************)
EXTENDS Naturals, Sequences

(* The number of pattern tokens in front of the first ">". *)
Literal(p) == {n \in 0..Len(p) : (\A i \in 1..n : p[i] # ">") /\ (n < Len(p) => p[n + 1] = ">")}

TokenMatches(p, s, i) == i <= Len(s) /\ (p[i] = "*" \/ p[i] = s[i])

matchSubject(p, s) ==
  \/ p = s
  \/ \E n \in Literal(p) :
       /\ \A i \in 1..n : TokenMatches(p, s, i)
       /\ n = Len(p) => Len(s) = Len(p)

(***************************************************************************)
(* NATS patterns as the comment of matchSubject describes them: "*" is     *)
(* exactly one token, a final ">" one or more.                             *)
(***************************************************************************)
NatsMatch(p, s) ==
  IF p[Len(p)] = ">"
    THEN /\ Len(s) >= Len(p)
         /\ \A i \in 1..(Len(p) - 1) : TokenMatches(p, s, i)
    ELSE /\ Len(s) = Len(p)
         /\ \A i \in 1..Len(p) : TokenMatches(p, s, i)

(* ">" may only be the last token. *)
WellFormed(p) == p # <<>> /\ \A i \in 1..(Len(p) - 1) : p[i] # ">"
=============================================================================
