SPECIFICATION Spec
CONSTANTS
  Limit = 1
  Backlog = 1
  Gone = 1
  Poison = {}
  MaxMsgs = 2
  MaxSyncs = 2
  MaxEvents = 1
INVARIANTS
  RulesBeforeAnnouncing
CHECK_DEADLOCK FALSE
