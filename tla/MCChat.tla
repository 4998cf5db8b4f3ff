------------------------------- MODULE MCChat -------------------------------
(* Two slash commands in one channel and a Slack mention, or a direct message. *)
EXTENDS Chat

CONSTANTS q1, q2, s1, m1, guild, room, dm

AllRequests == {q1, q2, s1}
Commands == {q1, q2}
Where == [r \in AllRequests |-> IF r \in Commands THEN guild ELSE room]

OneRequest == {m1}
NoCommand == {}
WhereOne == [r \in OneRequest |-> dm]
=============================================================================
