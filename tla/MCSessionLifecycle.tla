------------------------- MODULE MCSessionLifecycle -------------------------
(* Instances of SessionLifecycle for TLC.                                   *)
EXTENDS SessionLifecycle, TLC

CONSTANTS r1, r2

OneQuestion == {11}
ThreeQuestions == {11, 12, 13}

FixedQuiz == {<<11>>}

\* The quiz is edited while the session runs: after question 11 the list
\* fetched afresh may be longer and end with it, or miss it.
EditedQuiz == {<<11>>, <<12, 11>>, <<12, 13>>}

Symmetry == Permutations(Requests)

=============================================================================
