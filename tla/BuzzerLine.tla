----------------------------- MODULE BuzzerLine -----------------------------
(***************************************************************************)
(* What the players are promised of the buzzer: whoever presses it comes   *)
(* in at the end of the line of their session, and is in it only once; the *)
(* line moves on at its head, or all of it goes.                           *)
(***************************************************************************)
EXTENDS Sequences

CONSTANTS Sessions, Participants, SessionOf   \* as in BuzzerQueue

VARIABLE line   \* line[s]: the players of session s who wait

Press(p) ==
  LET s == SessionOf[p]
  IN /\ \A i \in DOMAIN line[s] : line[s][i] # p
     /\ line' = [line EXCEPT ![s] = Append(@, p)]

MoveOn(s) ==
  /\ line[s] # <<>>
  /\ line' = [line EXCEPT ![s] = Tail(@)]

SendOff(s) == line' = [line EXCEPT ![s] = <<>>]

Next ==
  \/ \E p \in Participants : Press(p)
  \/ \E s \in Sessions : MoveOn(s) \/ SendOff(s)

Spec == line = [s \in Sessions |-> <<>>] /\ [][Next]_line

=============================================================================
