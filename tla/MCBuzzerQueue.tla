--------------------------- MODULE MCBuzzerQueue ---------------------------
(* Instances of BuzzerQueue for TLC.                                        *)
EXTENDS BuzzerQueue, TLC

CONSTANTS s1, s2, p1, p2, p3

\* Everybody plays in s1 ...
OneSession == [p \in Participants |-> s1]

\* ... or p2 is alone in s2.
TwoSessions == [p \in Participants |-> IF p = p2 THEN s2 ELSE s1]

\* Players, request handlers and host calls are interchangeable when all the
\* players share a session.
Symmetry == Permutations(Participants) \cup Permutations(Requests)
              \cup Permutations(Calls)

============================================================================
