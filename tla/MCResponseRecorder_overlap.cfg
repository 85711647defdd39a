CONSTANTS
  p1 = p1
  r1 = r1
  h1 = h1
  h2 = h2
  Players = {p1}
  Requests = {r1}
  HostRequests = {h1, h2}
  HostOps = {"start", "next", "delete"}
  MaxQuestion = 2
  Buzzers = {}
  Multiple = {1}
  MaxEvents = 4
  MaxPosts = 1
  MaxFaults = 0
  MaxOutages = 0
  MaxExpired = 0
  MaxCrashes = 0
SYMMETRY Symmetry
SPECIFICATION Spec
INVARIANTS
  JudgedOnItsQuestion
  NeverAhead
CHECK_DEADLOCK FALSE
