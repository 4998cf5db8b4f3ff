---------------------------- MODULE MCControlPlane ----------------------------
(* Instances of ControlPlane for TLC. *)
EXTENDS ControlPlane, TLC

(* What can follow a status in at most n moves, CreateSession included. *)
Within(a) ==
  LET f[n \in 0..7] ==
        IF n = 0 THEN {a}
        ELSE LET before == f[n - 1]
             IN  before \union {b \in SessionStatus :
                   \E x \in before : Allowed(x, b) \/ (x = Absent /\ b = "CREATED")}
  IN f[7]

ASSUME ReachesIsClosure ==
  \A a, b \in SessionStatus \union {Absent} : Reaches(a, b) <=> b \in Within(a)

Symmetry == Permutations(Sessions) \union Permutations(Callers)
=============================================================================
