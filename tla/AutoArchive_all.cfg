SPECIFICATION Spec
CONSTANTS
  Messages = {a, b, y}
  None = None
  Damaged = Damaged
  Old = {a, b}
  HasId = {a}
  Uids = {1, 2}
  MaxLocal = 5
  MaxEvents = 1
  MaxSaves = 1
  MaxFaults = 1
INVARIANT NeverLost
INVARIANT NoSecondLocalCopy
INVARIANT MovesWereSeen
PROPERTY Finishes
CHECK_DEADLOCK FALSE
