SPECIFICATION Spec
CONSTANTS
  r1 = r1  r2 = r2  s1 = s1
  u1 = u1  u2 = u2  sean = sean  seli = seli  i1 = i1  i2 = i2
  None = None
  Reqs = {r1, r2}
  Sids = {s1}
  Users = {u1, u2}
  Names = {sean, seli}
  Items = {i1, i2}
  Stored <- MCStored
  SidOf <- MCSidOf
  Messages <- MCMessages
  Tools <- MCTools
  Alike <- MCAlike
  MaxFaults = 1
INVARIANTS
  QuietItemsKept
  QuietPendingKept
  DeletedStaysDeleted
CHECK_DEADLOCK FALSE
