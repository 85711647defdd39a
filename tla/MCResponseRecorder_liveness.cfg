CONSTANTS
  p1 = p1
  r1 = r1
  h1 = h1
  h2 = h2
  Players = {p1}
  Requests = {}
  HostRequests = {h1}
  HostOps = {"start", "end"}
  MaxQuestion = 1
  Buzzers = {}
  Multiple = {}
  MaxEvents = 5
  MaxPosts = 0
  MaxFaults = 0
  MaxOutages = 1
  MaxExpired = 2
  MaxCrashes = 0
SPECIFICATION FairSpec
PROPERTIES
  EveryEventProcessed
CHECK_DEADLOCK FALSE
