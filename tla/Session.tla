------------------------------ MODULE Session ------------------------------
(***************************************************************************)
(* What the host is promised of a game session: it is started once, moves  *)
(* from question to question of its quiz, is finished, and stays finished; *)
(* it may be deleted at any time and stays deleted.                        *)
(***************************************************************************)
EXTENDS Integers, Sequences

CONSTANTS Questions, Versions   \* as in SessionLifecycle

VARIABLES status, question

Start ==
  /\ status = "LOBBY"
  /\ status' = "QUESTION_ACTIVE"
  /\ \E list \in Versions : question' = list[1]

\* The next question of some version of the quiz.  When the current question
\* is missing from the longer list fetched after the last question, the
\* session goes back to the first question of that list.
Advance ==
  /\ status = "QUESTION_ACTIVE"
  /\ UNCHANGED status
  /\ \E list \in Versions :
       \/ \E i \in 1..(Len(list) - 1) :
            list[i] = question /\ question' = list[i + 1]
       \/ /\ \A i \in DOMAIN list : list[i] # question
          /\ question' = list[1]

End ==
  /\ status \in {"LOBBY", "QUESTION_ACTIVE"}
  /\ status' = "FINISHED"
  /\ UNCHANGED question

Delete ==
  /\ status' = "ABSENT"
  /\ question' = 0

Next == Start \/ Advance \/ End \/ Delete

Spec ==
  status = "LOBBY" /\ question = 0 /\ [][Next]_<<status, question>>

=============================================================================
