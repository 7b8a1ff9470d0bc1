\* One message, the watch and two handlers at once, one crash, one fault.
SPECIFICATION Spec
CONSTANTS
  Ids = {m1}
  Callers = {c1, c2}
  Watch = watch
  MAX_SEND_ATTEMPTS = 2
  MaxRequests = 3
  MaxCrashes = 1
  MaxFaults = 1
SYMMETRY Symmetry
INVARIANTS
  NoUnaskedRepeat
  RefusedNeverWent
  AcceptedReallyWent
  SendingHasOwner
  SoleWorker
PROPERTIES
  OnlyAPersonSettlesDoubt
  ImplementsOutbox
CHECK_DEADLOCK FALSE
