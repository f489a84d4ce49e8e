SPECIFICATION DeskSpec
CONSTANTS
  SUB_ORDER = 7
  COFACTOR = 8
  COMMITTEE_SIZE = 5
  COMMITTEE_THRESHOLD = 3
  BidDepth = 2
  RevDepth = 4
  NoWitness = NoWitness
  Desks <- MCDesks
CHECK_DEADLOCK FALSE
INVARIANTS
  AcceptedSharesCombine
  WitnessOfCompleteSet
  OnlyRevokedFail
