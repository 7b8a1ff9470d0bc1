SPECIFICATION Spec
CONSTANTS
  Callers = {c1}
  Restorer = r
  MaxCalls = 2
  MaxRestores = 1
  MaxFaults = 2
INVARIANTS
  SwapAlone
  FailedByItsOwn
  EntryHasWaiter
  ChannelHasRoom
PROPERTIES
  CallEnds
  RestoreEnds
CHECK_DEADLOCK FALSE
