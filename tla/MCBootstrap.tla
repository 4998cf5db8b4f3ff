----------------------------- MODULE MCBootstrap -----------------------------
(* Small instances of Bootstrap for TLC. *)
EXTENDS Bootstrap

CONSTANTS s1, s2, b1, b2

TwoSessions == {s1, s2}
OneSession == {s1}
TwoBoxes == {b1, b2}
=============================================================================
