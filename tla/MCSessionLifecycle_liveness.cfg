CONSTANTS
  r1 = r1
  r2 = r2
  Requests = {r1, r2}
  Operations = {"start", "delete", "join"}
  Questions <- OneQuestion
  Versions <- FixedQuiz
  RepliesLost = TRUE
  MaxPlayers = 1
  MaxRequests = 3
  MaxFaults = 1
  MaxOutages = 1
  MaxCrashes = 1
SPECIFICATION FairSpec
PROPERTY
  LobbyCloses
CHECK_DEADLOCK FALSE
