CONSTANTS
  s1 = s1
  s2 = s2
  p1 = p1
  h1 = h1
  None = None
  Sessions = {s1}
  Players = {p1}
  Hosts = {h1}
  HomeOf <- Home
  OwnerOf <- Owner
  MaxSockets = 2
  Room = 2
  Rooms = {2}
  MaxEvents = 3
  MaxFaults = 1
SPECIFICATION Spec
INVARIANTS
  TypeOK
  DepartureIsReal
  NoGhost
PROPERTIES
  OwnerlessEnds
  KeepsPlace
CHECK_DEADLOCK FALSE
