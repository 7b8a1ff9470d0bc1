\* An Exchange list and two writes of another client.
SPECIFICATION Spec
CONSTANTS
  Kinds = {"ews"}
  Unwritable = {2}
  MaxEdits = 3
  MaxOthers = 2
  MaxRows = 3
  MaxNames = 3
  MaxFaults = 0
PROPERTIES
  NothingMergedSilently
CHECK_DEADLOCK FALSE
