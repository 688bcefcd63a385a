SPECIFICATION FairSpec
CONSTANTS
  r1 = r1  r2 = r2  r3 = r3  q1 = q1  q2 = q2
  s1 = s1  s2 = s2
  None = None
  Requests = {r1, r2, q1, q2}
  Sids = {s1, s2}
  SidOf <- MCSidOf
  Streams = {q1}
  MaxSessions = 1
  SessionTtl = 1
  AgentSlots = 1
  MaxTime = 0
  MaxRestarts = 1
  TornWrites = TRUE
INVARIANTS
  QuietSessionsOwnOutput
  UndisplacedTurnsKept
PROPERTIES
  UndisplacedRequestAnswered
CHECK_DEADLOCK FALSE
