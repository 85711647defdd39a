CONSTANTS
  p1 = p1
  r1 = r1
  h1 = h1
  h2 = h2
  Players = {p1}
  Requests = {}
  HostRequests = {h1}
  HostOps = {"start", "judge"}
  MaxQuestion = 1
  Buzzers = {1}
  Multiple = {}
  MaxEvents = 4
  MaxPosts = 0
  MaxFaults = 1
  MaxOutages = 0
  MaxExpired = 0
  MaxCrashes = 0
SPECIFICATION Spec
INVARIANTS
  CountedOnce
CHECK_DEADLOCK FALSE
