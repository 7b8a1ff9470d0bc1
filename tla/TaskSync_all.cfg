\* A list of either kind: three things asked here, one write of another client, one fault.
SPECIFICATION Spec
CONSTANTS
  Kinds = {"caldav", "ews"}
  Unwritable = {2}
  MaxEdits = 3
  MaxOthers = 1
  MaxRows = 2
  MaxNames = 3
  MaxFaults = 1
INVARIANTS
  CleanIsTheServers
  NoSecondCopy
PROPERTIES
  NoSilentOverwrite
  EditNotLost
CHECK_DEADLOCK FALSE
