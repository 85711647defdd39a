CONSTANTS
  u1 = u1
  u2 = u2
  s1 = s1
  p1 = p1
  e1 = e1
  e2 = e2
  None = None
  Expired = Expired
  Gone = Gone
  Users = {u1, u2}
  Sessions = {s1}
  Participants = {p1}
  Admin = u1
  Emails = {e1, e2}
  Mailbox <- Boxes
  Granted <- Roles
  Renewing = {u2}
  MaxRequests = 2
  MaxFaults = 1
  MaxRetries = 1
SPECIFICATION FairSpec
INVARIANTS
  TypeOK
  OneAccountPerEmail
  CopiesAreExcused
  GrantHolds
  CredentialDecides
  AdmittedIsServed
PROPERTY
  DeletedLosesAccess
CHECK_DEADLOCK FALSE
