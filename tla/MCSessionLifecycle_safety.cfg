CONSTANTS
  r1 = r1
  r2 = r2
  Requests = {r1, r2}
  Operations = {"start", "next", "end", "delete", "join", "get"}
  Questions <- ThreeQuestions
  Versions <- EditedQuiz
  RepliesLost = TRUE
  MaxPlayers = 1
  MaxRequests = 3
  MaxFaults = 1
  MaxOutages = 1
  MaxCrashes = 0
SYMMETRY Symmetry
SPECIFICATION Spec
INVARIANTS
  TypeOK
  ActiveHasQuestion
  CopiesAreFromRow
  EventsFollowRow
  LifecycleInv
CHECK_DEADLOCK FALSE
