CONSTANTS
  p1 = p1
  r1 = r1
  h1 = h1
  h2 = h2
  Players = {p1}
  Requests = {}
  HostRequests = {h1}
  HostOps = {"start", "next", "judge"}
  MaxQuestion = 2
  Buzzers = {2}
  Multiple = {1}
  MaxEvents = 6
  MaxPosts = 0
  MaxFaults = 1
  MaxOutages = 0
  MaxExpired = 1
  MaxCrashes = 1
SPECIFICATION Spec
INVARIANTS
  TypeOK
  AnsweredOnce
  NothingLost
  JudgedOnItsQuestion
CHECK_DEADLOCK FALSE
