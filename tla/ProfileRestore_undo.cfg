\* Going back is cut short.
SPECIFICATION Spec
CONSTANTS
  MaxSwaps = 2
  MaxCrashes = 1
  MaxFaults = 0
INVARIANT NeverHalfOfEach
CHECK_DEADLOCK FALSE
