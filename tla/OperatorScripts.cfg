SPECIFICATION OperatorSpec
CONSTANTS
  DeclaredContributors = 3
  MaxDraws = 8
  MaxSources = 2
  Idle = Idle
  Sessions <- MCSessions
  Refs = {"A", "B"}
  FirmAmounts <- MCFirmAmounts
  CommitteeFiles = 3
  MaxStarts = 2
  Outsider = Outsider
  NoFile = NoFile
  Unwritten = Unwritten
  NoKey = NoKey
  NoIndex = NoIndex
  NoRoot = NoRoot
CHECK_DEADLOCK FALSE
INVARIANTS
  TranscriptIsHistory
  DealingsUsable
  ReceiptsTrue
