SPECIFICATION Spec
CONSTANTS
  Clients = {c1, c2}
  Passwords = {p1, p2}
  NoPassword = NoPassword
  NoUser = NoUser
  Threshold = 2
  MaxRequests = 4
  MaxFaults = 1
SYMMETRY Symmetry
CHECK_DEADLOCK FALSE
INVARIANTS
  TypeOK
  LockedInTime
  OldSessionsEnd
  LinkComplete
PROPERTIES
  CredentialsKept
