SPECIFICATION EvidenceSpec
CONSTANTS
  a1 = a1
  m1 = m1
  t1 = t1
  doc1 = doc1
  p1 = p1
  p2 = p2
  p3 = p3
  p4 = p4
  p5 = p5
  impl = impl
  i1 = i1
  i2 = i2
  i3 = i3
  b1 = b1
  b2 = b2
  c1 = c1
  c2 = c2
  c3 = c3
  s1 = s1
  s2 = s2
  s3 = s3
  Council = {m1}
  Versions = {1, 2}
  Impls = {impl}
  NoImpl = NoImpl
  Tenders <- MCTenders
  IssuerIds = {i1, i2, i3}
  IssuerRoots <- MCIssuerRoots
  RevocationRoots <- MCRevocationRoots
  NoRoot = NoRoot
  NoIssuer = NoIssuer
  MaxIssuers = 2
  MaxEpoch = 1
  MaxTime = 3
  Authorities = {a1}
  RuleDocuments = {doc1}
  EmptyDocument = EmptyDocument
  CandidateFields <- Disclosing
  CandidateCommittees <- MCCommittees
  NoCommittee = NoCommittee
  NoAccount = NoAccount
  NoDigest = NoDigest
  FloorChoices = {1}
  AbsoluteMinReview = 1
  Credentials <- MCCredentials
  Attested <- MCAttested
  Amounts = {1, 2}
  Signers <- MCSigners
  Ciphertexts <- AllBodies
  ReceiptChoices = {{1, 2}, {1, 3}, {3}}
  NoReplica = NoReplica
  NoProof = NoProof
  MaxBids = 2
  NoAward = NoAward
  CircuitVersion = 1
  Scenarios <- JustRepublished
  n1 = n1
  Records = {n1}
  NoIdentity = NoIdentity
  Adapters = {b1, b2}
  GuaranteeRefs = {1}
  NoBond = NoBond
  StateRoots = {1, 2}
  MaxBlock = 3
  RulesOf <- MCRulesOf
CHECK_DEADLOCK FALSE
INVARIANT RecordedIsProved
