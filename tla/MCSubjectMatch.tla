---------------------------- MODULE MCSubjectMatch ----------------------------
(* All patterns and subjects of up to three tokens over two words. *)
EXTENDS SubjectMatch

UpTo3(S) == UNION {[1..n -> S] : n \in 1..3}

AllPatterns == UpTo3({"a", "b", "*", ">"})
AllSubjects == UpTo3({"a", "b"})
=============================================================================
