CONSTANTS
  q1 = q1
  k1 = k1
  k2 = k2
  c1 = c1
  c2 = c2
  Unborn = Unborn
  Gone = Gone
  None = None
  Quizzes = {q1}
  Questions = {k1}
  Choices = {c1}
  ParentOf <- Parent
  MaxFlight = 2
  MaxWrites = 2
  MaxFaults = 1
SPECIFICATION FairSpec
INVARIANTS
  TypeOK
  StaleIsExcused
PROPERTY
  DeletedGoes
CHECK_DEADLOCK FALSE
