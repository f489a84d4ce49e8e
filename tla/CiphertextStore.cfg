SPECIFICATION StoreFairSpec
CONSTANTS
  Bodies = {b1}
  MaxCrashes = 2
  MaxLosses = 1
CHECK_DEADLOCK FALSE
INVARIANTS
  TwoHoldIt
  FetchedIsWhole
PROPERTY AcceptedIsFetched
