--------------------------- MODULE MCApprovalGate ---------------------------
(* Two sessions that may have to ask; two plugins that answer. *)
EXTENDS ApprovalGate

CONSTANTS slack, discord, other

TwoSessions == {"s1", "s2"}
AllAnswerers == {slack, discord}
AllPublishers == TwoSessions \union AllAnswerers
Fronts == [q \in AllAnswerers |-> IF q = slack THEN "slack" ELSE "discord"]
AllHandlers == (TwoSessions \X Answers) \union {other}
Topics == {Topic(s, v) : s \in TwoSessions, v \in Answers}
AllPatterns == Topics \union {Topic("s1", "request")}
AllSubjects == Topics \union {Topic(s, "request") : s \in TwoSessions}

Both == {"OpenCodeEvent", "raw"}
Push == [type |-> "tool_use", tool |-> "git.push", fits |-> Both,
         state |-> [output |-> "ok", branch |-> "main"]]
Read == [type |-> "tool_use", tool |-> "fs.read", fits |-> Both, state |-> [output |-> "data"]]
Quiet == [type |-> "tool_use", tool |-> "fs.read", fits |-> Both, state |-> [output |-> ""]]
Words == [type |-> "", tool |-> "", fits |-> {}, state |-> <<>>]

(* A push whose output is a JSON object, not a string. *)
Odd == [type |-> "tool_use", tool |-> "git.push", fits |-> {"raw"}, state |-> [output |-> "object"]]

Globs == [p \in {"git.*", "fs.*"} |-> IF p = "git.*" THEN {"git.push"} ELSE {"fs.read"}]
OnOutput == <<[action |-> "log", tool |-> "*", inputs |-> <<>>],
              [action |-> "require_approval", tool |-> "git.*", inputs |-> <<>>],
              [action |-> "require_approval", tool |-> "fs.*", inputs |-> [output |-> {"data"}]]>>

Adapters == [s \in TwoSessions |-> IF s = "s1" THEN "opencode" ELSE "exec"]
Printed == [s \in TwoSessions |->
              IF s = "s1" THEN {<<Words, Push>>, <<Odd>>} ELSE {<<Quiet, Words>>, <<Words, Read>>}]
=============================================================================
