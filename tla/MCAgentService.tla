--------------------------- MODULE MCAgentService ---------------------------
(* Small instances of AgentService for TLC. *)
EXTENDS AgentService

CONSTANTS u1, u2, x1, x2, a1, s1, s2, c1, c2

OneUser == {u1}
TwoUsers == {u1, u2}
TwoServices == {x1, x2}
OneAgent == {a1}
TwoSessions == {s1, s2}
TwoCalls == {c1, c2}
ThreeCalls == {c1, c2}
None == {}

\* A client that waits for each of its calls before it makes the next.
OneAtATime == \A c, d \in Calls : c = d \/ {pc[c], pc[d]} \cap (Over \cup {"idle"}) # {}
=============================================================================
