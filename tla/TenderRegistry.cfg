SPECIFICATION TenderFairSpec
CONSTANTS
  a1 = a1
  m1 = m1
  doc1 = doc1
  doc2 = doc2
  p1 = p1
  p2 = p2
  p3 = p3
  p4 = p4
  p5 = p5
  impl = impl
  t1 = t1
  t2 = t2
  root1 = root1
  root2 = root2
  Council = {m1}
  Versions = {1}
  Impls = {impl}
  NoImpl = NoImpl
  Tenders = {t1}
  IssuerIds = {}
  IssuerRoots = {}
  RevocationRoots = {root1}
  NoRoot = NoRoot
  NoIssuer = NoIssuer
  MaxIssuers = 0
  MaxEpoch = 2
  MaxTime = 5
  Authorities = {a1}
  RuleDocuments = {doc1, doc2}
  EmptyDocument = EmptyDocument
  CandidateFields <- MCFields
  CandidateCommittees <- MCCommittees
  NoCommittee = NoCommittee
  NoAccount = NoAccount
  NoDigest = NoDigest
  FloorChoices <- MCFloors
  AbsoluteMinReview = 1
CHECK_DEADLOCK FALSE
INVARIANTS
  FrozenAsStored
  PinnedIffClosed
PROPERTIES
  NothingRewritesRules
  ActivationMeetsPolicy
  NoWayBack
  LapsedTenderCloses
