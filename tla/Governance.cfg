SPECIFICATION GovFairSpec
CONSTANTS
  regulator = regulator
  entity = entity
  auditor = auditor
  chamber = chamber
  outsider = outsider
  v1impl = v1impl
  v2impl = v2impl
  junk = junk
  noImpl = noImpl
  Council <- MCCouncil
  Outsiders <- MCOutsiders
  Impls <- MCImpls
  SoundImpls <- MCSoundImpls
  NoImpl = noImpl
  Versions <- MCVersions
  Actions <- MCActions
  Timelock = 1
  MaxTime = 3
  MaxProposals = 2
CHECK_DEADLOCK FALSE
INVARIANTS
  ApprovalsAreDistinctMembers
  VerifierAuthorised
  SwitchMatchesRecord
PROPERTIES
  ControlSpec
  ApprovedActivationRuns
