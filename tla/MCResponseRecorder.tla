------------------------- MODULE MCResponseRecorder -------------------------
(* Instances of ResponseRecorder for TLC.                                   *)
EXTENDS ResponseRecorder, TLC

CONSTANTS
  p1,    \* a player
  r1,    \* an HTTP request
  h1, h2 \* requests of the host

Symmetry == Permutations(HostRequests)

=============================================================================
