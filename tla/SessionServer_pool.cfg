SPECIFICATION Spec
CONSTANTS
  r1 = r1  r2 = r2  r3 = r3  q1 = q1  q2 = q2
  s1 = s1  s2 = s2
  None = None
  Requests = {r1, r2, r3, q1}
  Sids = {s1, s2}
  SidOf <- MCSidOf
  Streams = {}
  MaxSessions = 1
  SessionTtl = 1
  AgentSlots = 2
  MaxTime = 2
  MaxRestarts = 1
  TornWrites = FALSE
INVARIANTS
  QuietSessionsSerial
  QuietLockDiscipline
  QuietDurableTurns
PROPERTIES
  SeesAnsweredTurns
  ImplementsSerialSessions
SYMMETRY MCSymmetry
CHECK_DEADLOCK FALSE
