SPECIFICATION Spec
CONSTANTS
  r1 = r1  r2 = r2  u1 = u1  u2 = u2  s1 = s1  p1 = p1  c1 = c1  f1 = f1  f2 = f2
  None = None
  Users = {u1, u2}
  Known = {u1}
  Sessions = {s1}
  Requests = {r1, r2}
  Projects = {p1}
  Endings <- MCEndings
  Replies <- MCReplies
  Connections <- MCConnections
  Permits = 1
  Recheck = 1
  MaxFaults = 1
  MaxCleanups = 1
  MaxUsers = 2
INVARIANTS
  CleanupCollects
  PersonalFactsPrivate
  CriticalFactsStored
  PermitsAccounted
PROPERTIES
  SteadyNotesKept
CHECK_DEADLOCK FALSE
