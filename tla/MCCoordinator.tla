---------------------------- MODULE MCCoordinator ----------------------------
(* Instances of Coordinator for TLC. *)
EXTENDS Coordinator

CONSTANTS s1, s2

(* One recovered session and one submitted through the API. *)
OneOfEach == {s1, s2}
OnlyFirst == {s1}
None == {}
=============================================================================
