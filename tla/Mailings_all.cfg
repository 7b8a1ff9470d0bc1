\* Two messages, three requests, two crashes, one store fault.
SPECIFICATION FairSpec
CONSTANTS
  Recipients = 2
  MaxRequests = 3
  MaxCrashes = 2
  MaxFaults = 1
INVARIANTS
  NobodyGetsTwo
  AcceptedWent
  NotGone
PROPERTIES
  MailingEnds
CHECK_DEADLOCK FALSE
