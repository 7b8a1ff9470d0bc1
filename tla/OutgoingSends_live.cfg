\* Two messages, the watch and one handler, one crash, a working store.
SPECIFICATION FairSpec
CONSTANTS
  Ids = {m1, m2}
  Callers = {c1}
  Watch = watch
  MAX_SEND_ATTEMPTS = 2
  MaxRequests = 2
  MaxCrashes = 1
  MaxFaults = 0
INVARIANT
  ScheduledNotLost
PROPERTIES
  DueIsSettled
  SendingIsSettled
CHECK_DEADLOCK FALSE
