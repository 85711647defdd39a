---------------------------- MODULE MCWsMembership ----------------------------
(* An instance of WsMembership for TLC.                                     *)
EXTENDS WsMembership

CONSTANTS
  s1, s2,        \* sessions
  p1,            \* a player of s1
  h1             \* their host

Home  == [x \in {p1} |-> s1]
Owner == [s \in Sessions |-> h1]

=============================================================================
