CONSTANTS
  s1 = s1
  s2 = s2
  p1 = p1
  p2 = p2
  p3 = p3
  Sessions = {s1}
  Participants = {p1, p2}
  SessionOf <- OneSession
  Requests = {r1}
  Calls = {c1}
  MaxQuestion = 2
  MaxFeed = 2
  MaxFaults = 1
  MaxCrashes = 1
SYMMETRY Symmetry
SPECIFICATION Spec
INVARIANTS
  TypeOK
  BuzzOrder
  NoDuplicateBuzzer
  NoBuzzSkipped
  AnnouncedWasQueued
  BuzzerInv
  JudgedInOrder
PROPERTY
  KeepsLine
CHECK_DEADLOCK FALSE
