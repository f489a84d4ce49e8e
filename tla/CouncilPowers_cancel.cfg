SPECIFICATION PowersSpec
CONSTANTS
  regulator = regulator
  entity = entity
  auditor = auditor
  chamber = chamber
  impl1 = impl1
  t1 = t1
  doc1 = doc1
  root1 = root1
  a1 = a1
  Council <- MCCouncil
  Outsiders = {}
  Actions <- MCActions
  Impls = {impl1}
  SoundImpls = {impl1}
  NoImpl = NoImpl
  Versions = {1}
  Timelock = 1
  MaxProposals = 1
  MaxTime = 3
  Tenders = {t1}
  IssuerIds = {}
  IssuerRoots = {}
  RevocationRoots = {root1}
  NoRoot = NoRoot
  NoIssuer = NoIssuer
  MaxIssuers = 0
  MaxEpoch = 1
  Authorities = {a1}
  RuleDocuments = {doc1}
  EmptyDocument = EmptyDocument
  CandidateFields <- NoFieldChoices
  CandidateCommittees <- NoCommitteeChoices
  NoCommittee = NoCommittee
  NoAccount = NoAccount
  NoDigest = NoDigest
  FloorChoices = {1}
  AbsoluteMinReview = 1
CHECK_DEADLOCK FALSE
INVARIANT CancellationTakesThree
