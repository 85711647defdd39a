------------------------------ MODULE MCQuizCache ------------------------------
(* Instances of QuizCache for TLC.                                          *)
EXTENDS QuizCache

CONSTANTS
  q1, k1, k2, c1, c2    \* a quiz, its questions, the choices of the first

Parent == [x \in Questions \cup Choices |-> IF x \in Questions THEN q1 ELSE k1]

=============================================================================
