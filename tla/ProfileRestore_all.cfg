\* Three requests, two crashes and one file operation that fails.
SPECIFICATION FairSpec
CONSTANTS
  MaxSwaps = 3
  MaxCrashes = 2
  MaxFaults = 1
INVARIANTS
  CoreSeesOneProfile
  PreviousIsSafe
  ActivatedIsWhole
PROPERTY
  SwapSettles
CHECK_DEADLOCK FALSE
