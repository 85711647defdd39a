CONSTANTS
  s1 = s1
  s2 = s2
  p1 = p1
  p2 = p2
  p3 = p3
  Sessions = {s1, s2}
  Participants = {p1, p2}
  SessionOf <- TwoSessions
  Requests = {r1}
  Calls = {c1}
  MaxQuestion = 1
  MaxFeed = 2
  MaxFaults = 1
  MaxCrashes = 1
SPECIFICATION FairSpec
PROPERTY
  EveryBuzzHandled
CHECK_DEADLOCK FALSE
