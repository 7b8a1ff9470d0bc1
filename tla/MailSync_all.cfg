SPECIFICATION Spec
CONSTANTS
  Limit = 2
  Backlog = 1
  Gone = 1
  Poison = {2}
  MaxMsgs = 3
  MaxSyncs = 3
  MaxEvents = 1
INVARIANTS
  QuietSyncMatches
  ArrivesOnce
  BacklogIsNoArrival
CHECK_DEADLOCK FALSE
