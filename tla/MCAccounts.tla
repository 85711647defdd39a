------------------------------ MODULE MCAccounts ------------------------------
(* Instances of Accounts for TLC.                                           *)
EXTENDS Accounts

CONSTANTS
  u1, u2,     \* the administrator and a user
  e1, e2,     \* addresses
  s1, p1      \* a session and a participant, for the routes of the gateway

Roles == {ADMIN}
Boxes == [u \in {u1, u2} |-> IF u = u1 THEN e1 ELSE e2]

=============================================================================
