CONSTANTS
  r1 = r1
  r2 = r2
  Requests = {r1}
  Operations = {"start", "next", "end", "delete", "join", "get"}
  Questions <- ThreeQuestions
  Versions <- EditedQuiz
  RepliesLost = FALSE
  MaxPlayers = 2
  MaxRequests = 6
  MaxFaults = 2
  MaxOutages = 0
  MaxCrashes = 0
SPECIFICATION Spec
PROPERTY
  KeepsPromise
INVARIANT
  DecidesOnRow
CHECK_DEADLOCK FALSE
