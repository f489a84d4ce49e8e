---------------------------- MODULE EvidenceProofs ----------------------------
(***************************************************************************)
(* Theorems of Evidence and IndependentVerifier, for every set of tenders, *)
(* bidders, bodies, replicas, rules and council behaviour.                 *)
(*                                                                         *)
(* The chain never reads calldata, so what the pipeline proves of itself   *)
(* holds here.  To it comes what calldata has to do with the state: a bid  *)
(* was mined in the window that the frozen rules still name, a share is on *)
(* file exactly for those the contract counts, and the proofs of the award *)
(* and of the name are of the statements that stand.  An honest bundle     *)
(* then passes every check; and whatever bundle passes with the award      *)
(* proof that was mined says what the chain says, since that proof binds   *)
(* the set, and the set binds the rest.                                    *)
(***************************************************************************)
EXTENDS IndependentVerifier, PipelineProofs

-----------------------------------------------------------------------------
(* The invariant.                                                          *)

\* An activated tender has a document and a dealing whose shares all match, and
\* a tender with bids or with a pinned root was activated.
RulesComplete(t) ==
    /\ committee[t] # NoCommittee => committee[t].consistent
    /\ Activated(t) => ruleDocument[t] # EmptyDocument
    /\ deadlineRootPinned[t] \/ bids[t] # << >> => Activated(t)

\* The receipts of an accepted bid are enough, and of replicas the registry still lists.
ReceiptsStand(t) ==
    \A i \in DOMAIN bids[t] :
        /\ \A r \in bids[t][i].receipts : replicas[r] # NoReplica
        /\ Cardinality(bids[t][i].receipts) >= STORAGE_QUORUM

\* There is one transaction per bid, mined in the window.
BidTransactions(t) == {calldata[t].bids[i] : i \in DOMAIN calldata[t].bids}
BidsMined(t) ==
    /\ calldata[t].bids \in Seq(BidTransactions(t))
    /\ Len(calldata[t].bids) = Len(bids[t])
    /\ \A i \in DOMAIN bids[t] : /\ fields[t].biddingStart <= calldata[t].bids[i].at
                                 /\ calldata[t].bids[i].at < fields[t].deadline

\* The transactions with shares are those of the shares counted, after the deadline.
SharesKept(t) ==
    /\ \A s \in calldata[t].shares : /\ s.bid \in BidIndices /\ s.member \in shares[t][s.bid]
                                     /\ s.at >= fields[t].deadline
    /\ \A i \in BidIndices : \A m \in shares[t][i] :
         \E s \in calldata[t].shares : s.bid = i /\ s.member = m

\* The award proof that was mined is of the statement that stands.
AwardMined(t) ==
    award[t] # NoAward =>
        /\ PriceHonoursPolicy(t, award[t].price)
        /\ calldata[t].award = AwardSignals(t, award[t].winner, award[t].price)

\* The identity proof that was mined names the published credential and record.
NameMined(t) ==
    identity[t] # NoIdentity =>
        /\ calldata[t].identity \in IdentityStatements
        /\ calldata[t].identity.identity =
             IdentityCommitment(identity[t].credential, identity[t].record)

MinedAt(t) ==
    /\ RulesComplete(t) /\ ReceiptsStand(t) /\ BidsMined(t) /\ SharesKept(t)
    /\ AwardMined(t) /\ NameMined(t)

\* The inductive invariant.
EvidenceInv == PipelineInv /\ \A t \in Tenders : MinedAt(t)

-----------------------------------------------------------------------------
(* Steps of the chain, as far as a bundle speaks of them.                  *)

\* Only the authority's own calls give a tender its dealing and activate it, and
\* only the close of an active tender pins its root.
LEMMA RegistryMoves ==
    ASSUME TenderInv, [TenderNext]_tenderVars, NEW t \in Tenders
    PROVE  /\ committee'[t] = committee[t] \/ committee'[t].consistent
           /\ \/ activatedAt'[t] = activatedAt[t]
              \/ ruleDocument[t] # EmptyDocument /\ ruleDocument'[t] = ruleDocument[t]
           /\ deadlineRootPinned'[t] = deadlineRootPinned[t] \/ state[t] = "ACTIVE"
<1>1. TenderOnlyTypeOK /\ IssuerTypeOK
  BY DEF TenderInv, TenderTypeOK
<1>2. UNCHANGED <<committee, activatedAt, deadlineRootPinned>> =>
        /\ committee'[t] = committee[t] /\ activatedAt'[t] = activatedAt[t]
        /\ deadlineRootPinned'[t] = deadlineRootPinned[t]
  OBVIOUS
<1>3. ASSUME NEW c \in Council \cup Authorities, NEW u \in Tenders, DraftStep(c, u)
      PROVE  /\ committee'[t] = committee[t] \/ committee'[t].consistent
             /\ \/ activatedAt'[t] = activatedAt[t]
                \/ ruleDocument[t] # EmptyDocument /\ ruleDocument'[t] = ruleDocument[t]
             /\ deadlineRootPinned'[t] = deadlineRootPinned[t]
  <2>1. ASSUME NEW d \in CandidateCommittees, SetCommitteeKey(c, u, d)
        PROVE  committee'[t] = committee[t] \/ committee'[t].consistent
    BY <1>1, <2>1 DEF SetCommitteeKey, DealingAcceptable, TenderOnlyTypeOK
  <2>2. ASSUME NEW expected, ActivateTender(c, u, expected)
        PROVE  \/ activatedAt'[t] = activatedAt[t]
               \/ ruleDocument[t] # EmptyDocument /\ ruleDocument'[t] = ruleDocument[t]
    BY <1>1, <2>2 DEF ActivateTender, Complete, TenderOnlyTypeOK
  <2>3. deadlineRootPinned' = deadlineRootPinned
    BY <1>3 DEF DraftStep, CreateTender, SetRuleDocument, SetRuleFields, SetCommitteeKey,
                ActivateTender, issuerVars, pinVars
  <2>4. \/ committee' = committee
        \/ \E d \in CandidateCommittees : SetCommitteeKey(c, u, d)
    BY <1>3 DEF DraftStep, CreateTender, SetRuleDocument, SetRuleFields, ActivateTender, ruleVars
  <2>5. \/ activatedAt' = activatedAt
        \/ \E expected \in RuleDocuments : ActivateTender(c, u, expected)
    BY <1>3 DEF DraftStep, CreateTender, SetRuleDocument, SetRuleFields, SetCommitteeKey, ruleVars
  <2> QED
    BY <2>1, <2>2, <2>3, <2>4, <2>5
<1>4. ASSUME NEW c \in Council \cup Authorities, PolicyStep(c)
      PROVE  UNCHANGED <<committee, activatedAt, deadlineRootPinned>>
  BY <1>4 DEF PolicyStep, SetMinReviewWindow, SetTenderAuthority, SetVerifierVersionRegistry,
              ruleVars, issuerVars, pinVars
<1>5. ASSUME NEW c \in Council \cup Authorities, NEW u \in Tenders, CancelTender(c, u)
      PROVE  UNCHANGED <<committee, activatedAt, deadlineRootPinned>>
  BY <1>5 DEF CancelTender, ruleVars, issuerVars, pinVars
<1>6. ASSUME NEW u \in Tenders, CloseTender(u)
      PROVE  /\ UNCHANGED <<committee, activatedAt>>
             /\ deadlineRootPinned'[t] = deadlineRootPinned[t] \/ state[t] = "ACTIVE"
  BY <1>1, <1>6 DEF CloseTender, PinDeadlineRevocationRoot, IssuerTypeOK, ruleVars
<1>7. CASE Environment
  <2>1. UNCHANGED <<committee, activatedAt>>
    BY <1>7 DEF Environment, tenderOnlyVars, ruleVars
  <2>2. deadlineRootPinned' = deadlineRootPinned
    BY <1>7 DEF Environment, issuerVars, pinVars, IssuerCouncilStep, IssuerListStep,
                IssuerRootStep, RegisterIssuer, SetIssuerStatus, PublishIssuerRegistryRoot,
                PublishRevocationRoot, RollEpoch, SetTenderModule
  <2> QED
    BY <2>1, <2>2
<1>8. CASE UNCHANGED tenderVars
  BY <1>2, <1>8 DEF tenderVars, tenderOnlyVars, ruleVars, issuerVars, pinVars
<1> QED
  BY <1>2, <1>3, <1>4, <1>5, <1>6, <1>7, <1>8 DEF TenderNext

\* The rules of an activated tender stand, its hash included.
LEMMA ActivatedStands ==
    ASSUME TenderInv, [Next]_vars, NEW t \in Tenders, Activated(t)
    PROVE  /\ Activated(t)' /\ fields'[t] = fields[t] /\ ruleDocument'[t] = ruleDocument[t]
           /\ rulesHash'[t] = rulesHash[t] /\ committee'[t] = committee[t]
<1>1. [TenderNext]_tenderVars
  BY StepOfRegistry
<1>2. TenderInv' /\ RulesKept(t)
  BY <1>1, NextPreservesTenderInv, StepKeepsRules
<1>3. Activated(t)'
  BY <1>2 DEF RulesKept, Activated
<1>4. rulesHash[t] = ruleDocument[t] /\ rulesHash'[t] = ruleDocument'[t]
  BY <1>2, <1>3 DEF TenderInv, FrozenAsStored
<1> QED
  BY <1>2, <1>3, <1>4 DEF RulesKept

\* The bids of a tender are what they were, or one was accepted.
LEMMA BidsStandOrGrow ==
    ASSUME SealedInv, [Next]_vars, NEW t \in Tenders
    PROVE  \/ bids'[t] = bids[t]
           \/ \E c \in Credentials : \E b : Accepts(c, t, b) /\ bids'[t] = Append(bids[t], b)
<1>1. CASE UNCHANGED bids
  BY <1>1
<1>2. ASSUME NEW c \in Credentials, NEW u \in Tenders, NEW b, Accepts(c, u, b)
      PROVE  bids'[t] = bids[t] \/ (Accepts(c, t, b) /\ bids'[t] = Append(bids[t], b))
  <2>1. bids' = [bids EXCEPT ![u] = Append(@, b)] /\ bids \in [Tenders -> Seq(Bids)]
    BY <1>2 DEF Accepts, SealedInv, BidsTyped
  <2>2. CASE u = t
    BY <1>2, <2>1, <2>2
  <2>3. CASE u # t
    BY <2>1, <2>3
  <2> QED
    BY <2>2, <2>3
<1> QED
  BY <1>1, <1>2, SealedCases DEF sealedOnlyVars, bidVars, ProveEligibility

\* A replica once registered is never struck off the list, only put out of use.
LEMMA RegisteredStays ==
    ASSUME SealedInv, [Next]_vars, NEW r \in ReplicaIds, replicas[r] # NoReplica
    PROVE  replicas'[r] # NoReplica
<1>1. replicas \in [ReplicaIds -> Replicas \cup {NoReplica}]
  BY DEF SealedInv, ReplicasCounted
<1>2. ASSUME NEW c, NEW q \in ReplicaIds, NEW active \in BOOLEAN, SetReplicaStatus(c, q, active)
      PROVE  replicas'[r] # NoReplica
  <2>1. replicas[q] \in Replicas
    BY <1>1, <1>2 DEF SetReplicaStatus
  <2>2. [replicas[q] EXCEPT !.active = active] \in Replicas
    BY <2>1 DEF Replicas
  <2>3. replicas' = [replicas EXCEPT ![q] = [replicas[q] EXCEPT !.active = active]]
    BY <1>2 DEF SetReplicaStatus
  <2>4. NoReplica \notin Replicas
    BY SealedBidAssumption DEF Replicas
  <2> QED
    BY <1>1, <2>2, <2>3, <2>4
<1>3. ASSUME NEW c, NEW q \in ReplicaIds, NEW s \in Signers, RegisterReplica(c, q, s)
      PROVE  replicas'[r] # NoReplica
  BY <1>1, <1>3 DEF RegisterReplica
<1>4. ASSUME NEW c, ReplicaStep(c) PROVE replicas'[r] # NoReplica
  BY <1>2, <1>3, <1>4 DEF ReplicaStep
<1> QED
  BY <1>4, SealedCases DEF sealedOnlyVars, replicaVars, ProveEligibility, Accepts

\* What a step that files a share or records an award has made sure of.
LEMMA OpeningMoves ==
    ASSUME TenderInv, OpenedInv, [Next]_vars, NEW t \in Tenders
    PROVE  /\ \A i \in BidIndices : shares[t][i] \subseteq shares'[t][i]
           /\ shares'[t] # shares[t] => state[t] = "CLOSED" /\ fields' = fields
           /\ award'[t] # award[t] =>
                /\ PriceHonoursPolicy(t, award'[t].price)
                /\ UNCHANGED <<fields, rulesHash, bids>>
<1>1. /\ shares \in [Tenders -> [BidIndices -> SUBSET MemberIndices]]
      /\ DOMAIN award = Tenders
  BY DEF OpenedInv, OpeningTypeOK, AwardTypeOK
<1>2. UNCHANGED <<tenderVars, sealedOnlyVars>> => UNCHANGED <<fields, rulesHash, bids>>
  BY DEF tenderVars, tenderOnlyVars, ruleVars, sealedOnlyVars, bidVars
<1>3. CASE UNCHANGED <<shares, award>>
  BY <1>3
<1>4. ASSUME NEW u \in Tenders, NEW i \in BidIndices, NEW m \in MemberIndices, NEW account,
             SubmitDecryptionShare(account, u, i, m),
             UNCHANGED <<tenderVars, sealedOnlyVars, awardVars>>
      PROVE  /\ \A j \in BidIndices : shares[t][j] \subseteq shares'[t][j]
             /\ shares'[t] # shares[t] => state[t] = "CLOSED" /\ fields' = fields
             /\ award' = award
  <2>1. /\ state[u] = "CLOSED" /\ shares' = [shares EXCEPT ![u][i] = @ \cup {m}]
        /\ award' = award /\ fields' = fields
    BY <1>2, <1>4 DEF SubmitDecryptionShare, OnlyClosed, awardVars
  <2>2. u # t => shares'[t] = shares[t]
    BY <1>1, <2>1
  <2>3. \A j \in BidIndices : shares[t][j] \subseteq shares'[t][j]
    BY <1>1, <2>1
  <2> QED
    BY <2>1, <2>2, <2>3
<1>5. ASSUME NEW c, NEW u \in Tenders, NEW i, NEW price, RecordAward(c, u, i, price),
             UNCHANGED <<tenderVars, sealedOnlyVars, openingVars>>
      PROVE  /\ shares' = shares
             /\ award'[t] # award[t] => /\ PriceHonoursPolicy(t, award'[t].price)
                                        /\ UNCHANGED <<fields, rulesHash, bids>>
  <2>1. /\ PriceHonoursPolicy(u, price) /\ shares' = shares
        /\ award' = [award EXCEPT ![u] =
             [winner |-> bids[u][i].commitment, price |-> price,
              bidSetRoot |-> BidSetRoot(u), count |-> SubmissionCount(u), index |-> i]]
    BY <1>5 DEF RecordAward, openingVars
  <2>2. u # t => award'[t] = award[t]
    BY <1>1, <2>1
  <2>3. u = t => award'[t].price = price
    BY <1>1, <2>1
  <2> QED
    BY <1>2, <1>5, <2>1, <2>2, <2>3
<1>6. \/ UNCHANGED <<shares, award>>
      \/ \E u \in Tenders, i \in BidIndices, m \in MemberIndices : \E account :
           /\ SubmitDecryptionShare(account, u, i, m)
           /\ UNCHANGED <<tenderVars, sealedOnlyVars, awardVars>>
      \/ \E c \in Authorities, u \in Tenders : \E i \in DOMAIN bids[u], price \in Prices :
           /\ RecordAward(c, u, i, price)
           /\ UNCHANGED <<tenderVars, sealedOnlyVars, openingVars>>
  BY OpeningCases
     DEF openingVars, awardVars, RevealCiphertext, ProveStatus, SubmitStatusProof
<1> QED
  BY <1>3, <1>4, <1>5, <1>6

-----------------------------------------------------------------------------
(* What was mined, step by step.                                           *)

\* The registry's part.
LEMMA RulesStayComplete ==
    ASSUME EvidenceInv, [Next]_vars, NEW t \in Tenders
    PROVE  RulesComplete(t)'
<1>1. /\ TenderInv /\ TenderInv' /\ SealedInv /\ RulesComplete(t)
      /\ [TenderNext]_tenderVars
  BY StepOfRegistry, NextPreservesTenderInv DEF EvidenceInv, PipelineInv, MinedAt
<1>2. (committee[t] # NoCommittee => committee[t].consistent)'
  BY <1>1, RegistryMoves DEF RulesComplete
<1>3. Activated(t)' => (ruleDocument[t] # EmptyDocument)'
  <2>1. CASE Activated(t)
    BY <1>1, <2>1, ActivatedStands DEF RulesComplete
  <2>2. CASE ~Activated(t)
    BY <1>1, <2>2, RegistryMoves DEF Activated
  <2> QED
    BY <2>1, <2>2
<1>4. deadlineRootPinned'[t] \/ bids'[t] # << >> => Activated(t)'
  <2>1. CASE Activated(t)
    BY <1>1, <2>1, ActivatedStands
  <2>2. CASE ~Activated(t)
    <3>1. state[t] # "ACTIVE" /\ ~deadlineRootPinned[t] /\ bids[t] = << >>
      BY <1>1, <2>2 DEF RulesComplete, TenderInv, PhaseConsistent, Activated
    <3>2. deadlineRootPinned'[t] = deadlineRootPinned[t]
      BY <1>1, <3>1, RegistryMoves
    <3>3. bids'[t] = bids[t]
      BY <1>1, <3>1, BidsStandOrGrow DEF Accepts, IsBiddingOpen
    <3> QED
      BY <3>1, <3>2, <3>3
  <2> QED
    BY <2>1, <2>2
<1> QED
  BY <1>2, <1>3, <1>4 DEF RulesComplete

\* The receipts of the bids before stand with their replicas, and the bid that comes
\* in was checked against the list of this moment.
LEMMA ReceiptsStillStand ==
    ASSUME EvidenceInv, [Next]_vars, NEW t \in Tenders
    PROVE  ReceiptsStand(t)'
<1>1. SealedInv /\ ReceiptsStand(t) /\ bids[t] \in Seq(Bids)
  BY DEF EvidenceInv, PipelineInv, MinedAt, SealedInv, BidsTyped
<1>2. ASSUME NEW i \in DOMAIN bids[t]
      PROVE  /\ \A r \in bids[t][i].receipts : replicas'[r] # NoReplica
             /\ Cardinality(bids[t][i].receipts) >= STORAGE_QUORUM
  <2>1. bids[t][i] \in Bids
    BY <1>1
  <2>2. bids[t][i].receipts \subseteq ReplicaIds
    BY <2>1 DEF Bids
  <2> QED
    BY <1>1, <2>2, RegisteredStays DEF ReceiptsStand
<1>3. CASE bids'[t] = bids[t]
  BY <1>2, <1>3 DEF ReceiptsStand
<1>4. ASSUME NEW c, NEW b, Accepts(c, t, b), bids'[t] = Append(bids[t], b)
      PROVE  ReceiptsStand(t)'
  <2>1. b \in Bids /\ ReceiptsValid(b.receipts) /\ replicas' = replicas
    BY <1>4 DEF Accepts, replicaVars
  <2>2. /\ \A r \in b.receipts : replicas'[r] # NoReplica
        /\ Cardinality(b.receipts) >= STORAGE_QUORUM
    BY <2>1 DEF ReceiptsValid
  <2>3. /\ DOMAIN bids'[t] = 1 .. Len(bids[t]) + 1
        /\ DOMAIN bids[t] = 1 .. Len(bids[t]) /\ Len(bids[t]) \in Nat
        /\ \A i \in DOMAIN bids[t] : bids'[t][i] = bids[t][i]
        /\ bids'[t][Len(bids[t]) + 1] = b
    <3> HIDE DEF Bids
    <3> QED
      BY <1>1, <1>4, <2>1, AppendedBid
  <2>4. ASSUME NEW i \in DOMAIN bids'[t]
        PROVE  /\ \A r \in bids'[t][i].receipts : replicas'[r] # NoReplica
               /\ Cardinality(bids'[t][i].receipts) >= STORAGE_QUORUM
    <3>1. i \in DOMAIN bids[t] \/ i = Len(bids[t]) + 1
      BY <2>3
    <3> QED
      BY <1>2, <2>2, <2>3, <3>1
  <2> QED
    BY <2>4 DEF ReceiptsStand
<1> QED
  BY <1>1, <1>3, <1>4, BidsStandOrGrow

\* What a longer list of transactions has in common with the one before.
LEMMA JoinedTransactions ==
    ASSUME NEW S, NEW R, NEW s \in Seq(S), NEW r \in Seq(R)
    PROVE  /\ s \o r \in Seq(S \cup R)
           /\ Len(s \o r) = Len(s) + Len(r) /\ Len(s) \in Nat /\ Len(r) \in Nat
           /\ \A i \in 1 .. Len(s) : (s \o r)[i] = s[i]
           /\ \A k \in 1 .. Len(r) : (s \o r)[Len(s) + k] = r[k]
OBVIOUS

\* A sequence is one of the elements it has.
LEMMA OwnElements ==
    ASSUME NEW S, NEW s \in Seq(S)
    PROVE  s \in Seq({s[i] : i \in DOMAIN s})
OBVIOUS

\* Each bid comes with its transaction, and the window of the earlier ones stands.
LEMMA BidsStayMined ==
    ASSUME EvidenceInv, [Next]_vars, calldata' = [u \in Tenders |-> Mined(u)],
           NEW t \in Tenders
    PROVE  BidsMined(t)'
<1>1. /\ TenderInv /\ SealedInv /\ RulesComplete(t) /\ BidsMined(t)
      /\ bids[t] \in Seq(Bids)
  BY DEF EvidenceInv, PipelineInv, MinedAt, SealedInv, BidsTyped
<1> DEFINE s == calldata[t].bids
           d == Len(bids'[t]) - Len(bids[t])
           r == [k \in 1 .. d |->
                  LET b == bids'[t][Len(bids[t]) + k] IN
                  [proof |-> ExpectedPublicSignals(t, b.nullifier, b.commitment), at |-> now]]
<1>2. calldata'[t].bids = s \o r
  BY DEF Mined
<1>3. bids'[t] = bids[t] \/ \E c, b : Accepts(c, t, b) /\ bids'[t] = Append(bids[t], b)
  BY <1>1, BidsStandOrGrow
<1>4. /\ Len(bids[t]) \in Nat /\ DOMAIN bids[t] = 1 .. Len(bids[t])
      /\ d \in {0, 1} /\ DOMAIN bids'[t] = 1 .. Len(bids[t]) + d
      /\ Len(bids'[t]) = Len(bids[t]) + d
      /\ d = 1 => /\ fields[t].biddingStart <= now /\ now < fields[t].deadline
                  /\ Activated(t)
  <2>1. CASE bids'[t] = bids[t]
    BY <1>1, <2>1
  <2>2. ASSUME NEW c, NEW b, Accepts(c, t, b), bids'[t] = Append(bids[t], b)
        PROVE  /\ Len(bids'[t]) = Len(bids[t]) + 1
               /\ DOMAIN bids'[t] = 1 .. Len(bids[t]) + 1
               /\ fields[t].biddingStart <= now /\ now < fields[t].deadline
               /\ Activated(t)
    <3>1. b \in Bids /\ IsBiddingOpen(t)
      BY <2>2 DEF Accepts
    <3>2. Activated(t) /\ fields[t].biddingStart <= now /\ now < fields[t].deadline
      BY <1>1, <3>1 DEF IsBiddingOpen, TenderInv, PhaseConsistent, Activated
    <3> HIDE DEF Bids
    <3> QED
      BY <1>1, <2>2, <3>1, <3>2, AppendedBid
  <2>3. Len(bids[t]) \in Nat /\ DOMAIN bids[t] = 1 .. Len(bids[t])
    BY <1>1
  <2> QED
    BY <1>3, <2>1, <2>2, <2>3
<1>5. /\ Len(r) = d /\ r \in Seq({r[k] : k \in 1 .. d})
      /\ \A k \in 1 .. d : r[k].at = now
  <2>1. d \in Nat /\ DOMAIN r = 1 .. d
    BY <1>4
  <2>2. \A k \in 1 .. d : r[k].at = now
    OBVIOUS
  <2>3. r = [k \in 1 .. d |-> r[k]]
    OBVIOUS
  <2> HIDE DEF d, r
  <2>4. r \in [1 .. d -> {r[k] : k \in 1 .. d}]
    BY <2>3
  <2>5. r \in Seq({r[k] : k \in 1 .. d})
    BY <2>1, <2>4
  <2> QED
    BY <2>1, <2>2, <2>5
<1>6. s \in Seq(BidTransactions(t)) /\ Len(s) = Len(bids[t])
  BY <1>1 DEF BidsMined
<1> HIDE DEF s, d, r
<1> DEFINE S == BidTransactions(t)
           R == {r[k] : k \in 1 .. d}
<1> HIDE DEF S, R
<1>7. /\ s \o r \in Seq(S \cup R)
      /\ Len(s \o r) = Len(s) + Len(r)
      /\ \A i \in 1 .. Len(s) : (s \o r)[i] = s[i]
      /\ \A k \in 1 .. Len(r) : (s \o r)[Len(s) + k] = r[k]
  <2>1. s \in Seq(S) /\ r \in Seq(R)
    BY <1>5, <1>6 DEF S, R
  <2> QED
    BY <2>1, JoinedTransactions
<1>8. calldata'[t].bids \in Seq(BidTransactions(t)')
  <2>1. s \o r \in Seq({(s \o r)[i] : i \in DOMAIN (s \o r)})
    BY <1>7, OwnElements
  <2> QED
    BY <1>2, <2>1 DEF BidTransactions
<1>9. Len(calldata'[t].bids) = Len(bids'[t])
  BY <1>2, <1>4, <1>5, <1>6, <1>7
<1>10. ASSUME NEW i \in DOMAIN bids'[t]
       PROVE  /\ fields'[t].biddingStart <= calldata'[t].bids[i].at
              /\ calldata'[t].bids[i].at < fields'[t].deadline
  <2>1. Activated(t)
    <3>1. CASE d = 1
      BY <1>4, <3>1
    <3>2. CASE d = 0
      <4>1. bids[t] # << >>
        BY <1>4, <1>10, <3>2
      <4> QED
        BY <1>1, <4>1 DEF RulesComplete
    <3> QED
      BY <1>4, <3>1, <3>2
  <2>2. fields'[t] = fields[t]
    BY <1>1, <2>1, ActivatedStands
  <2>3. CASE i \in 1 .. Len(bids[t])
    <3>1. calldata'[t].bids[i] = calldata[t].bids[i]
      BY <1>2, <1>6, <1>7, <2>3 DEF s
    <3> QED
      BY <1>1, <1>4, <2>2, <2>3, <3>1 DEF BidsMined
  <2>4. CASE i = Len(bids[t]) + 1 /\ d = 1
    <3>1. calldata'[t].bids[i] = r[1]
      BY <1>2, <1>5, <1>6, <1>7, <2>4
    <3> QED
      BY <1>4, <1>5, <2>2, <2>4, <3>1
  <2> QED
    BY <1>4, <1>10, <2>3, <2>4
<1> QED
  BY <1>8, <1>9, <1>10 DEF BidsMined

\* Shares are mined after the deadline, and a tender with shares stands still.
LEMMA SharesStayKept ==
    ASSUME EvidenceInv, [Next]_vars, calldata' = [u \in Tenders |-> Mined(u)],
           NEW t \in Tenders
    PROVE  SharesKept(t)'
<1>1. /\ TenderInv /\ SealedInv /\ OpenedInv /\ SharesKept(t) /\ SealedAt(t)
      /\ \A i \in BidIndices : shares[t][i] \subseteq shares'[t][i]
      /\ shares'[t] # shares[t] => state[t] = "CLOSED" /\ fields' = fields
  BY OpeningMoves DEF EvidenceInv, PipelineInv, MinedAt, OpenedInv
<1>2. /\ now \in Nat /\ \A u \in Tenders : fields[u].deadline \in Nat
  <2>1. fields \in [Tenders -> CandidateFields \cup {NoFields}] /\ now \in 1 .. MaxTime
    BY <1>1 DEF TenderInv, TenderTypeOK, TenderOnlyTypeOK, ControlTypeOK
  <2> QED
    BY <2>1, TenderAssumption, ControlAssumption DEF RuleFields, NoFields
<1>3. calldata'[t].shares = calldata[t].shares \cup SharesMined(t)
  BY DEF Mined
<1>4. ASSUME NEW s \in calldata[t].shares
      PROVE  /\ s.bid \in BidIndices /\ s.member \in shares'[t][s.bid]
             /\ s.at >= fields'[t].deadline
  <2>1. /\ s.bid \in BidIndices /\ s.member \in shares[t][s.bid]
        /\ s.at >= fields[t].deadline
    BY <1>1 DEF SharesKept
  <2>2. deadlineRootPinned[t]
    BY <1>1, <2>1 DEF SealedAt, Touched
  <2> QED
    BY <1>1, <2>1, <2>2, PinnedStandsStill
<1>5. ASSUME NEW s \in SharesMined(t)
      PROVE  /\ s.bid \in BidIndices /\ s.member \in shares'[t][s.bid]
             /\ s.at >= fields'[t].deadline
  <2>1. PICK p \in BidIndices \X MemberIndices :
          /\ p[2] \in shares'[t][p[1]] \ shares[t][p[1]]
          /\ s = [bid |-> p[1], member |-> p[2], at |-> now]
    BY DEF SharesMined
  <2>2. state[t] = "CLOSED" /\ fields' = fields
    BY <1>1, <2>1
  <2>3. now >= fields[t].deadline
    BY <1>1, <2>2 DEF TenderInv, PinnedIffClosed
  <2> QED
    BY <2>1, <2>2, <2>3
<1>6. ASSUME NEW i \in BidIndices, NEW m \in shares'[t][i]
      PROVE  \E s \in calldata'[t].shares : s.bid = i /\ s.member = m
  <2>1. CASE m \in shares[t][i]
    BY <1>1, <1>3, <2>1 DEF SharesKept
  <2>2. CASE m \notin shares[t][i]
    <3>1. m \in MemberIndices
      <4>1. OpenedInv'
        BY <1>1, NextKeepsOpened
      <4> QED
        BY <4>1 DEF OpenedInv, OpeningTypeOK
    <3>2. <<i, m>> \in BidIndices \X MemberIndices
      BY <3>1
    <3>3. [bid |-> i, member |-> m, at |-> now] \in SharesMined(t)
      BY <2>2, <3>2 DEF SharesMined
    <3> QED
      BY <1>3, <3>3
  <2> QED
    BY <2>1, <2>2
<1> QED
  BY <1>3, <1>4, <1>5, <1>6 DEF SharesKept

\* The winner is a bid of the set, and its tender was closed.
LEMMA WinnerIsBid ==
    ASSUME PipelineInv, NEW t \in Tenders, award[t] # NoAward
    PROVE  /\ deadlineRootPinned[t]
           /\ award[t].index \in DOMAIN bids[t] /\ DOMAIN bids[t] \subseteq BidIndices
           /\ bids[t][award[t].index] \in Bids
           /\ award[t].winner = bids[t][award[t].index].commitment
           /\ award[t].price \in Prices
<1>1. /\ SealedAt(t) /\ StandingAt(t) /\ CompleteAt(t)
      /\ bids[t] \in Seq(Bids) /\ Len(bids[t]) <= MaxBids
  BY DEF PipelineInv, OpenedInv, SealedInv, BidsTyped, BidsDistinctAndBound
<1>2. deadlineRootPinned[t] /\ award[t].index \in DOMAIN bids[t]
      /\ award[t].winner = bids[t][award[t].index].commitment
  BY <1>1 DEF SealedAt, StandingAt, CompleteAt, Touched
<1>3. bids[t][award[t].index] \in Bids
  BY <1>1, <1>2
<1>4. DOMAIN bids[t] \subseteq BidIndices
  BY <1>1, SealedBidAssumption DEF BidIndices
<1>5. award[t].winner \in Commitments
  BY <1>2, <1>3 DEF Bids
<1>6. award[t].price \in Prices
  BY <1>1, <1>5 DEF StandingAt, Commitments, Prices
<1> QED
  BY <1>2, <1>3, <1>4, <1>6

\* What the award says is final once it is recorded, so the proof that was mined with
\* it stays a proof of what the chain would ask for.
LEMMA AwardStaysMined ==
    ASSUME EvidenceInv, [Next]_vars, calldata' = [u \in Tenders |-> Mined(u)],
           NEW t \in Tenders
    PROVE  AwardMined(t)'
<1>1. /\ PipelineInv /\ TenderInv /\ SealedInv /\ OpenedInv
      /\ AwardMined(t) /\ RulesComplete(t)
  BY DEF EvidenceInv, PipelineInv, MinedAt
<1>2. CASE award'[t] = award[t]
  <2> SUFFICES ASSUME award[t] # NoAward
               PROVE  /\ PriceHonoursPolicy(t, award[t].price)'
                      /\ calldata'[t].award = AwardSignals(t, award[t].winner, award[t].price)'
    BY <1>2 DEF AwardMined
  <2>1. calldata'[t].award = calldata[t].award
    BY <1>2 DEF Mined
  <2>2. deadlineRootPinned[t]
    BY <1>1, WinnerIsBid
  <2>3. UNCHANGED <<bids[t], fields[t], rulesHash[t]>>
    BY <1>1, <2>2, PinnedStandsStill, ActivatedStands DEF RulesComplete
  <2>4. AwardSignals(t, award[t].winner, award[t].price)'
          = AwardSignals(t, award[t].winner, award[t].price)
    BY <1>2, <2>3 DEF AwardSignals, BidSetRoot, Leaf, SubmissionCount
  <2> QED
    BY <1>1, <1>2, <2>1, <2>3, <2>4 DEF AwardMined, PriceHonoursPolicy
<1>3. CASE award'[t] # award[t]
  <2>1. /\ PriceHonoursPolicy(t, award'[t].price)
        /\ UNCHANGED <<fields, rulesHash, bids>>
    BY <1>1, <1>3, OpeningMoves
  <2>2. calldata'[t].award = AwardSignals(t, award'[t].winner, award'[t].price)
    BY <1>3 DEF Mined
  <2>3. AwardSignals(t, award[t].winner, award[t].price)'
          = AwardSignals(t, award'[t].winner, award'[t].price)
    BY <2>1 DEF AwardSignals, BidSetRoot, Leaf, SubmissionCount
  <2> QED
    BY <2>1, <2>2, <2>3 DEF AwardMined, PriceHonoursPolicy
<1> QED
  BY <1>2, <1>3

\* The statements about a name are well-formed, the live issuer root among them.
LEMMA IdentitySignalsTyped ==
    ASSUME EvidenceInv, NEW t \in Tenders, award[t] # NoAward,
           NEW c \in Credentials, NEW record \in Records
    PROVE  ExpectedIdentitySignals(t, c, record) \in IdentityStatements
<1>1. /\ TenderInv /\ RulesComplete(t) /\ deadlineRootPinned[t]
      /\ award[t].winner = bids[t][award[t].index].commitment
      /\ bids[t][award[t].index] \in Bids
  BY WinnerIsBid DEF EvidenceInv, PipelineInv, MinedAt
<1>2. award[t].winner \in Commitments /\ bids[t][award[t].index].nullifier \in Nullifiers
  BY <1>1 DEF Bids
<1>3. fields[t].issuerEpoch \in Epochs
  <2>1. /\ fields[t] \in CandidateFields \cup {NoFields} /\ fieldsDigest[t] = fields[t]
        /\ fieldsDigest[t] \in CandidateFields \cup {NoDigest}
        /\ fields[t].deadline > fields[t].biddingStart
    BY <1>1 DEF TenderInv, TenderTypeOK, TenderOnlyTypeOK, FrozenAsStored, RulesComplete
  <2>2. fields[t] \in CandidateFields
    BY <2>1 DEF NoFields
  <2> QED
    BY <2>2, TenderAssumption
<1>4. issuerRegistryRoot[fields[t].issuerEpoch] \in IssuerRoots \cup {NoRoot}
  BY <1>1, <1>3 DEF TenderInv, TenderTypeOK, IssuerTypeOK
<1>5. IdentityCommitment(c, record) \in Credentials \X Records
  BY DEF IdentityCommitment
<1> QED
  BY <1>2, <1>4, <1>5 DEF ExpectedIdentitySignals, IdentityStatements

\* A name is published once, with the proof of it.
LEMMA NameStaysMined ==
    ASSUME EvidenceInv, [Next]_vars, calldata' = [u \in Tenders |-> Mined(u)],
           NEW t \in Tenders
    PROVE  NameMined(t)'
<1>1. NamedInv /\ NameMined(t) /\ identity \in [Tenders -> Identities \cup {NoIdentity}]
  BY DEF EvidenceInv, PipelineInv, MinedAt, NamedInv, IdentityTypeOK
<1>2. CASE identity'[t] = identity[t]
  <2>1. calldata'[t].identity = calldata[t].identity
    BY <1>2 DEF Mined
  <2> QED
    BY <1>1, <1>2, <2>1 DEF NameMined
<1>3. CASE identity'[t] # identity[t]
  <2>1. award[t] # NoAward /\ identity'[t] \in Identities
    BY <1>1, <1>3, NamingCases DEF NamesWinner
  <2>2. /\ identity'[t].credential \in Credentials /\ identity'[t].record \in Records
    BY <2>1 DEF Identities
  <2>3. calldata'[t].identity
          = ExpectedIdentitySignals(t, identity'[t].credential, identity'[t].record)
    BY <1>3 DEF Mined
  <2>4. calldata'[t].identity \in IdentityStatements
    BY <2>1, <2>2, <2>3, IdentitySignalsTyped
  <2>5. calldata'[t].identity.identity
          = IdentityCommitment(identity'[t].credential, identity'[t].record)
    BY <2>3 DEF ExpectedIdentitySignals
  <2> QED
    BY <2>4, <2>5 DEF NameMined
<1> QED
  BY <1>2, <1>3

-----------------------------------------------------------------------------
(* The invariant of the chain and its calldata.                            *)

\* Nothing is mined at the deployment.
LEMMA EvidenceAtDeployment == EvidenceInit => EvidenceInv
<1> SUFFICES ASSUME EvidenceInit PROVE EvidenceInv
  OBVIOUS
<1>1. /\ PipelineInv /\ DeployedInit /\ ReplicasRegistered /\ OpeningInit /\ AwardInit
      /\ IdentityInit /\ calldata = [t \in Tenders |-> NoCalldata]
  BY PipelineAtDeployment DEF EvidenceInit, Init
<1>2. ASSUME NEW t \in Tenders PROVE MinedAt(t)
  <2>1. bids[t] = << >> /\ calldata[t].bids = << >> /\ calldata[t].shares = {}
    BY <1>1 DEF ReplicasRegistered, NoCalldata
  <2>2. RulesComplete(t)
    BY <1>1, <2>1 DEF DeployedInit, RulesComplete, Activated
  <2>3. ReceiptsStand(t) /\ BidsMined(t)
    BY <2>1 DEF ReceiptsStand, BidsMined
  <2>4. SharesKept(t)
    BY <1>1, <2>1 DEF OpeningInit, SharesKept
  <2>5. AwardMined(t) /\ NameMined(t)
    BY <1>1 DEF AwardInit, IdentityInit, AwardMined, NameMined
  <2> QED
    BY <2>2, <2>3, <2>4, <2>5 DEF MinedAt
<1> QED
  BY <1>1, <1>2 DEF EvidenceInv

\* Each transaction keeps what was mined in step with the state.
LEMMA EvidenceStep == EvidenceInv /\ [EvidenceNext]_evidenceVars => EvidenceInv'
<1> SUFFICES ASSUME EvidenceInv, [EvidenceNext]_evidenceVars PROVE EvidenceInv'
  OBVIOUS
<1>1. CASE EvidenceNext
  <2>1. [Next]_vars /\ calldata' = [u \in Tenders |-> Mined(u)]
    BY <1>1 DEF EvidenceNext
  <2>2. PipelineInv'
    BY <2>1, PipelineStep DEF EvidenceInv
  <2>3. ASSUME NEW t \in Tenders PROVE MinedAt(t)'
    BY <2>1, RulesStayComplete, ReceiptsStillStand, BidsStayMined, SharesStayKept,
       AwardStaysMined, NameStaysMined DEF MinedAt
  <2> QED
    BY <2>2, <2>3 DEF EvidenceInv
<1>2. CASE UNCHANGED evidenceVars
  <2>1. UNCHANGED <<vars, calldata>>
    BY <1>2 DEF evidenceVars
  <2>2. PipelineInv'
    BY <2>1, PipelineStep DEF EvidenceInv
  <2>3. UNCHANGED <<committee, ruleDocument, rulesHash, fields, activatedAt,
                    deadlineRootPinned, bids, replicas, shares, award, identity>>
    BY <2>1 DEF vars, tenderVars, tenderOnlyVars, ruleVars, issuerVars, pinVars, pipelineVars,
                sealedOnlyVars, replicaVars, bidVars, openingVars, awardVars, identityVars
  <2>4. ASSUME NEW t \in Tenders PROVE MinedAt(t)'
    <3>1. MinedAt(t)
      BY DEF EvidenceInv
    <3>2. RulesComplete(t)' /\ ReceiptsStand(t)'
      BY <2>3, <3>1 DEF MinedAt, RulesComplete, Activated, ReceiptsStand
    <3>3. BidsMined(t)' /\ SharesKept(t)'
      BY <2>1, <2>3, <3>1 DEF MinedAt, BidsMined, BidTransactions, SharesKept
    <3>4. AwardMined(t)'
      BY <2>1, <2>3, <3>1
         DEF MinedAt, AwardMined, PriceHonoursPolicy, AwardSignals, BidSetRoot, Leaf,
             SubmissionCount
    <3>5. NameMined(t)'
      BY <2>1, <2>3, <3>1 DEF MinedAt, NameMined
    <3> QED
      BY <3>2, <3>3, <3>4, <3>5 DEF MinedAt
  <2> QED
    BY <2>2, <2>4 DEF EvidenceInv
<1> QED
  BY <1>1, <1>2

\* In every state, what was mined and what the chain keeps tell one story.
THEOREM EvidenceInvariant == EvidenceSpec => []EvidenceInv
BY EvidenceAtDeployment, EvidenceStep, PTL DEF EvidenceSpec

-----------------------------------------------------------------------------
(* Honest bundles.                                                         *)

\* What has to hold of an awarded tender whose bundle is exported, check by check.
LEMMA HonestRules ==
    ASSUME EvidenceInv, NEW t \in Tenders, Activated(t), RulesOf[ruleDocument[t]] = fields[t]
    PROVE  RulesAgree(Bundle(t, AllKeys)) /\ ReviewWindowHonoured(Bundle(t, AllKeys))
<1>1. /\ TenderInv /\ RulesComplete(t)
  BY DEF EvidenceInv, PipelineInv, MinedAt
<1>2. /\ rulesHash[t] = ruleDocument[t] /\ ruleDocument[t] \in RuleDocuments
      /\ fields[t].reviewWindow >= AbsoluteMinReview
      /\ fields[t].biddingStart >= activatedAt[t] + fields[t].reviewWindow
  BY <1>1 DEF TenderInv, TenderTypeOK, TenderOnlyTypeOK, FrozenAsStored, RulesComplete
<1>3. Bundle(t, AllKeys).rules = RulesPart(t)
  BY DEF Bundle
<1>4. /\ RulesPart(t).document = ruleDocument[t] /\ RulesPart(t).rulesHash = rulesHash[t]
      /\ RulesPart(t).fields = fields[t] /\ RulesPart(t).activatedAt = activatedAt[t]
  BY DEF RulesPart
<1>5. DOMAIN RulesOf = RuleDocuments
  BY VerifierAssumption
<1> HIDE DEF Bundle, RulesPart
<1> QED
  BY <1>2, <1>3, <1>4, <1>5 DEF RulesAgree, ReviewWindowHonoured

\* The receipts of a bid, as its entry lists them.
ReceiptPart(t, i) ==
    {[replica |-> r, signer |-> replicas[r].signer, content |-> bids[t][i].ciphertext] :
       r \in bids[t][i].receipts}

\* The bids of a bundle, entry by entry.
LEMMA BundleBids ==
    ASSUME NEW t \in Tenders, bids[t] \in Seq(Bids)
    PROVE  LET b == Bundle(t, AllKeys) IN
           /\ DOMAIN b.bids = DOMAIN bids[t] /\ Len(b.bids) = Len(bids[t])
           /\ \A i \in DOMAIN bids[t] :
                /\ b.bids[i].index = i /\ b.bids[i].leaf = Leaf(t, i)
                /\ b.bids[i].nullifier = bids[t][i].nullifier
                /\ b.bids[i].commitment = bids[t][i].commitment
                /\ b.bids[i].ciphertext = bids[t][i].ciphertext
                /\ b.bids[i].at = calldata[t].bids[i].at
                /\ b.bids[i].proof = BidPart(t, i).proof
                /\ b.bids[i].signals = ExpectedPublicSignals(t, bids[t][i].nullifier,
                                                             bids[t][i].commitment)
                /\ b.bids[i].receiptRoot = bids[t][i].receipts
                /\ b.bids[i].receipts = ReceiptPart(t, i)
<1>1. Bundle(t, AllKeys).bids = [i \in DOMAIN bids[t] |-> BidPart(t, i)]
  BY DEF Bundle
<1>2. DOMAIN bids[t] = 1 .. Len(bids[t]) /\ Len(bids[t]) \in Nat
  OBVIOUS
<1> HIDE DEF Bundle
<1>3. Len(Bundle(t, AllKeys).bids) = Len(bids[t])
  BY <1>1, <1>2
<1>4. ASSUME NEW i \in DOMAIN bids[t] PROVE Bundle(t, AllKeys).bids[i] = BidPart(t, i)
  BY <1>1
<1>5. ASSUME NEW i \in DOMAIN bids[t]
      PROVE  LET x == Bundle(t, AllKeys).bids[i] IN
             /\ x.index = i /\ x.leaf = Leaf(t, i)
             /\ x.nullifier = bids[t][i].nullifier /\ x.commitment = bids[t][i].commitment
             /\ x.ciphertext = bids[t][i].ciphertext /\ x.at = calldata[t].bids[i].at
             /\ x.proof = BidPart(t, i).proof
             /\ x.signals = ExpectedPublicSignals(t, bids[t][i].nullifier, bids[t][i].commitment)
             /\ x.receiptRoot = bids[t][i].receipts /\ x.receipts = ReceiptPart(t, i)
  <2>1. BidPart(t, i).receipts = ReceiptPart(t, i)
    BY DEF BidPart, ReceiptPart
  <2>2. /\ BidPart(t, i).index = i /\ BidPart(t, i).leaf = Leaf(t, i)
        /\ BidPart(t, i).nullifier = bids[t][i].nullifier
        /\ BidPart(t, i).commitment = bids[t][i].commitment
        /\ BidPart(t, i).ciphertext = bids[t][i].ciphertext
        /\ BidPart(t, i).at = calldata[t].bids[i].at
        /\ BidPart(t, i).receiptRoot = bids[t][i].receipts
    BY DEF BidPart
  <2>3. BidPart(t, i).signals
          = ExpectedPublicSignals(t, bids[t][i].nullifier, bids[t][i].commitment)
    BY DEF BidPart
  <2> QED
    BY <1>4, <2>1, <2>2, <2>3
<1> QED
  BY <1>1, <1>3, <1>5

\* Checks 3 to 5: what the chain hashed is what the bundle lists.
LEMMA HonestBids ==
    ASSUME EvidenceInv, NEW t \in Tenders, bids[t] # << >>, RootsStandSinceProved(t)
    PROVE  LET b == Bundle(t, AllKeys) IN
           SetRebuilds(b) /\ EligibilityProved(b) /\ NullifiersDistinct(b)
<1> DEFINE b == Bundle(t, AllKeys)
<1>1. bids[t] \in Seq(Bids) /\ BidsDistinctAndBound
  BY DEF EvidenceInv, PipelineInv, SealedInv, BidsTyped
<1>2. b.keys = AllKeys /\ b.rules = RulesPart(t) /\ b.roots = RootsPart(t)
  BY DEF Bundle
<1>3. /\ DOMAIN b.bids = DOMAIN bids[t] /\ Len(b.bids) = Len(bids[t])
      /\ \A i \in DOMAIN bids[t] :
           /\ b.bids[i].index = i /\ b.bids[i].leaf = Leaf(t, i)
           /\ b.bids[i].nullifier = bids[t][i].nullifier
           /\ b.bids[i].commitment = bids[t][i].commitment
           /\ b.bids[i].ciphertext = bids[t][i].ciphertext
           /\ b.bids[i].proof = BidPart(t, i).proof
           /\ b.bids[i].signals = ExpectedPublicSignals(t, bids[t][i].nullifier,
                                                        bids[t][i].commitment)
  BY <1>1, BundleBids
<1> HIDE DEF b
<1>4. SetRebuilds(b)
  <2> DEFINE leaf == [k \in DOMAIN b.bids |->
                   [nullifier |-> b.bids[k].nullifier, commitment |-> b.bids[k].commitment,
                    ciphertext |-> b.bids[k].ciphertext, index |-> b.bids[k].index]]
  <2>1. \A k \in DOMAIN bids[t] : leaf[k] = Leaf(t, k)
    BY <1>3 DEF Leaf
  <2>2. leaf = BidSetRoot(t)
    BY <1>3, <2>1 DEF BidSetRoot
  <2>3. b.roots.bidSet = BidSetRoot(t) /\ b.roots.count = Len(bids[t])
    BY <1>2 DEF RootsPart, SubmissionCount
  <2>4. \A k \in DOMAIN b.bids : leaf[k] = b.bids[k].leaf
    BY <1>3, <2>1
  <2>5. leaf = b.roots.bidSet /\ Len(b.bids) = b.roots.count
    BY <1>3, <2>2, <2>3
  <2> QED
    BY <2>4, <2>5 DEF SetRebuilds
<1>5. EligibilityProved(b)
  <2> SUFFICES ASSUME NEW k \in DOMAIN bids[t]
               PROVE  ProofVerifies(b, "eligibility", b.bids[k]) /\ BoundToRules(b, b.bids[k])
    <3>1. b.bids # << >>
      BY <1>1, <1>3
    <3> QED
      BY <1>3, <3>1 DEF EligibilityProved
  <2>0. /\ b.bids[k].nullifier = bids[t][k].nullifier
        /\ b.bids[k].commitment = bids[t][k].commitment
        /\ b.bids[k].signals = ExpectedPublicSignals(t, bids[t][k].nullifier,
                                                     bids[t][k].commitment)
    BY <1>3
  <2>1. b.bids[k].proof = b.bids[k].signals
    BY <1>3 DEF RootsStandSinceProved, BidPart
  <2>2. BoundToRules(b, b.bids[k])
    BY <1>2, <2>0 DEF BoundToRules, RulesPart, RootsPart, ExpectedPublicSignals
  <2> QED
    BY <1>2, <2>1, <2>2 DEF ProofVerifies, AllKeys
<1>6. NullifiersDistinct(b)
  BY <1>1, <1>3 DEF NullifiersDistinct, BidsDistinctAndBound
<1> QED
  BY <1>4, <1>5, <1>6 DEF b

\* Checks 6 and 7: the receipts of then against the list of now, the times of then
\* against the rules of now.
LEMMA HonestReceipts ==
    ASSUME EvidenceInv, NEW t \in Tenders, bids[t] # << >>
    PROVE  ReceiptsSigned(Bundle(t, AllKeys)) /\ MinedInWindow(Bundle(t, AllKeys))
<1> DEFINE b == Bundle(t, AllKeys)
<1>1. bids[t] \in Seq(Bids) /\ ReceiptsStand(t) /\ BidsMined(t)
  BY DEF EvidenceInv, PipelineInv, MinedAt, SealedInv, BidsTyped
<1>2. b.rules.fields = fields[t] /\ b.replicas = ReplicasPart
  BY DEF Bundle, RulesPart
<1>3. /\ DOMAIN b.bids = DOMAIN bids[t]
      /\ \A i \in DOMAIN bids[t] :
           /\ b.bids[i].at = calldata[t].bids[i].at
           /\ b.bids[i].ciphertext = bids[t][i].ciphertext
           /\ b.bids[i].receiptRoot = bids[t][i].receipts
           /\ b.bids[i].receipts = ReceiptPart(t, i)
  BY <1>1, BundleBids
<1> HIDE DEF b
<1>0. b.bids # << >>
  BY <1>1, <1>3
<1>4. ASSUME NEW i \in DOMAIN bids[t]
      PROVE  /\ \A x \in b.bids[i].receipts :
                  /\ [replica |-> x.replica, signer |-> x.signer] \in RegisteredSigners(b)
                  /\ x.content = b.bids[i].ciphertext
             /\ {x.replica : x \in b.bids[i].receipts} = b.bids[i].receiptRoot
             /\ Cardinality({x.replica : x \in b.bids[i].receipts}) >= STORAGE_QUORUM
  <2>1. bids[t][i] \in Bids
    BY <1>1
  <2>2. /\ bids[t][i].receipts \subseteq ReplicaIds
        /\ \A r \in bids[t][i].receipts : replicas[r] # NoReplica
        /\ Cardinality(bids[t][i].receipts) >= STORAGE_QUORUM
    BY <1>1, <2>1 DEF Bids, ReceiptsStand
  <2>3. ASSUME NEW r \in bids[t][i].receipts
        PROVE  [replica |-> r, signer |-> replicas[r].signer] \in RegisteredSigners(b)
    <3>1. [replica |-> r, signer |-> replicas[r].signer, active |-> replicas[r].active]
            \in b.replicas
      BY <1>2, <2>2 DEF ReplicasPart
    <3> QED
      BY <3>1 DEF RegisteredSigners
  <2>4. /\ b.bids[i].receipts
             = {[replica |-> r, signer |-> replicas[r].signer,
                 content |-> bids[t][i].ciphertext] : r \in bids[t][i].receipts}
        /\ b.bids[i].ciphertext = bids[t][i].ciphertext
        /\ b.bids[i].receiptRoot = bids[t][i].receipts
    BY <1>3 DEF ReceiptPart
  <2>5. \A x \in b.bids[i].receipts :
          /\ [replica |-> x.replica, signer |-> x.signer] \in RegisteredSigners(b)
          /\ x.content = b.bids[i].ciphertext
    BY <2>3, <2>4
  <2>6. {x.replica : x \in b.bids[i].receipts} = bids[t][i].receipts
    <3>1. ASSUME NEW r \in bids[t][i].receipts
          PROVE  \E x \in b.bids[i].receipts : x.replica = r
      <4>1. [replica |-> r, signer |-> replicas[r].signer,
             content |-> bids[t][i].ciphertext] \in b.bids[i].receipts
        BY <2>4
      <4> QED
        BY <4>1
    <3>2. \A x \in b.bids[i].receipts : x.replica \in bids[t][i].receipts
      BY <2>4
    <3> QED
      BY <3>1, <3>2
  <2> QED
    BY <2>2, <2>4, <2>5, <2>6
<1>5. ReceiptsSigned(b)
  BY <1>0, <1>3, <1>4 DEF ReceiptsSigned
<1>6. MinedInWindow(b)
  BY <1>0, <1>1, <1>2, <1>3 DEF MinedInWindow, BidsMined
<1> QED
  BY <1>5, <1>6 DEF b

\* Check 8: of an awarded tender every bid has its three shares.
LEMMA HonestOpening ==
    ASSUME EvidenceInv, NEW t \in Tenders, award[t] # NoAward
    PROVE  OpeningHolds(Bundle(t, AllKeys))
<1> DEFINE b == Bundle(t, AllKeys)
<1>1. /\ PipelineInv /\ SharesKept(t) /\ SealedAt(t) /\ CompleteAt(t)
      /\ shares \in [Tenders -> [BidIndices -> SUBSET MemberIndices]]
  BY DEF EvidenceInv, PipelineInv, MinedAt, OpenedInv, OpeningTypeOK
<1>2. /\ b.opening = calldata[t].shares /\ b.ciphertexts = revealed[t]
      /\ b.rules.fields = fields[t]
  BY DEF Bundle, RulesPart
<1> HIDE DEF b
<1>3. \A i \in DOMAIN bids[t] : i \in BidIndices /\ Cardinality(shares[t][i]) >= OPENING_THRESHOLD
  BY <1>1, WinnerIsBid DEF CompleteAt
<1>4. b.opening # {}
  <2>1. award[t].index \in DOMAIN bids[t]
    BY <1>1, WinnerIsBid
  <2>2. shares[t][award[t].index] # {}
    <3> DEFINE at == shares[t][award[t].index]
    <3>1. Cardinality(at) >= 3
      BY <1>3, <2>1 DEF OPENING_THRESHOLD
    <3> HIDE DEF at
    <3>2. ASSUME at = {} PROVE FALSE
      BY <3>1, <3>2, FS_EmptySet, SMT
    <3> QED
      BY <3>2 DEF at
  <2> QED
    BY <1>1, <1>2, <1>3, <2>1, <2>2 DEF SharesKept
<1>5. ASSUME NEW s \in b.opening
      PROVE  /\ s.member \in MemberIndices /\ s.bid \in b.ciphertexts
             /\ s.at >= b.rules.fields.deadline
             /\ Cardinality({x.member : x \in {y \in b.opening : y.bid = s.bid}})
                  >= OPENING_THRESHOLD
  <2>1. /\ s.bid \in BidIndices /\ s.member \in shares[t][s.bid]
        /\ s.at >= fields[t].deadline
    BY <1>1, <1>2 DEF SharesKept
  <2>2. s.bid \in revealed[t] /\ s.bid \in DOMAIN bids[t] /\ s.member \in MemberIndices
    BY <1>1, <2>1 DEF SealedAt
  <2>3. {x.member : x \in {y \in b.opening : y.bid = s.bid}} = shares[t][s.bid]
    BY <1>1, <1>2, <2>1 DEF SharesKept
  <2> QED
    BY <1>2, <1>3, <2>1, <2>2, <2>3
<1> QED
  BY <1>4, <1>5 DEF OpeningHolds, b

\* Check 9: a status proof that still stands is against the pinned root.
LEMMA HonestStatus ==
    ASSUME NEW t \in Tenders, RootsStandSinceProved(t)
    PROVE  StatusProved(Bundle(t, AllKeys))
<1> DEFINE b == Bundle(t, AllKeys)
<1>1. /\ b.keys = AllKeys /\ b.statusProofs = StatusPart(t)
      /\ b.roots.deadline = deadlineRevocationRoot[t]
  BY DEF Bundle, RootsPart
<1> HIDE DEF b
<1>2. ASSUME NEW s \in StatusPart(t)
      PROVE  s.proof = s.signals /\ s.signals.revocationRoot = deadlineRevocationRoot[t]
  <2>1. s.proof = s.signals
    BY DEF RootsStandSinceProved
  <2>2. PICK i, nullifier, commitment :
          s.signals = ExpectedDeadlineStatusSignals(t, nullifier, commitment)
    BY DEF StatusPart
  <2> QED
    BY <2>1, <2>2 DEF ExpectedDeadlineStatusSignals, ExpectedPublicSignals
<1> QED
  BY <1>1, <1>2 DEF StatusProved, ProofVerifies, AllKeys, b

\* The award and the name as a bundle has them.
LEMMA BundleResults ==
    ASSUME EvidenceInv, NEW t \in Tenders, award[t] # NoAward
    PROVE  LET b == Bundle(t, AllKeys) IN
           /\ b.award \in AwardParts
           /\ b.award.winner = award[t].winner /\ b.award.price = award[t].price
           /\ b.award.index = award[t].index
           /\ b.award.proof = calldata[t].award /\ b.award.signals = calldata[t].award
           /\ calldata[t].award = AwardSignals(t, award[t].winner, award[t].price)
           /\ identity[t] = NoIdentity => b.identity = NoIdentity
           /\ identity[t] # NoIdentity =>
                /\ b.identity \in IdentityParts
                /\ b.identity.credential = identity[t].credential
                /\ b.identity.record = identity[t].record
                /\ b.identity.proof = calldata[t].identity
                /\ b.identity.signals = ExpectedIdentitySignals(t, identity[t].credential,
                                                                identity[t].record)
<1> DEFINE b == Bundle(t, AllKeys)
<1>1. /\ PipelineInv /\ TenderInv /\ AwardMined(t) /\ NameMined(t)
      /\ bids[t] \in Seq(Bids)
      /\ identity \in [Tenders -> Identities \cup {NoIdentity}]
  BY DEF EvidenceInv, PipelineInv, MinedAt, NamedInv, IdentityTypeOK, SealedInv, BidsTyped
<1>2. b.award = AwardPart(t) /\ b.identity = IdentityPart(t)
  BY DEF Bundle
<1> HIDE DEF b
<1>3. /\ award[t].index \in BidIndices /\ DOMAIN bids[t] \subseteq BidIndices
      /\ award[t].winner \in Commitments /\ award[t].price \in Prices
  BY <1>1, WinnerIsBid DEF Bids
<1>4. BidSetRoot(t) \in Seq(Leaves) /\ SubmissionCount(t) \in Nat
  <2>1. ASSUME NEW i \in DOMAIN bids[t] PROVE Leaf(t, i) \in Leaves
    <3>1. bids[t][i] \in Bids
      BY <1>1
    <3> QED
      BY <1>3, <3>1 DEF Bids, Leaf, Leaves
  <2>2. DOMAIN bids[t] = 1 .. Len(bids[t]) /\ Len(bids[t]) \in Nat
    BY <1>1
  <2> HIDE DEF Leaves
  <2> QED
    BY <2>1, <2>2 DEF BidSetRoot, SubmissionCount
<1>5. calldata[t].award \in AwardStatements
  <2>1. /\ rulesHash[t] \in RuleDocuments \cup {EmptyDocument, NoDigest}
        /\ fields[t] \in CandidateFields \cup {NoFields}
    BY <1>1 DEF TenderInv, TenderTypeOK, TenderOnlyTypeOK
  <2>2. fields[t].disclosurePolicy \in Nat
    BY <2>1, TenderAssumption DEF RuleFields, NoFields
  <2> HIDE DEF Leaves
  <2> QED
    BY <1>1, <1>3, <1>4, <2>1, <2>2 DEF AwardMined, AwardSignals, AwardStatements
<1>6. /\ b.award = [winner |-> award[t].winner, price |-> award[t].price,
                     index |-> award[t].index, proof |-> calldata[t].award,
                     signals |-> calldata[t].award]
      /\ calldata[t].award = AwardSignals(t, award[t].winner, award[t].price)
  BY <1>1, <1>2 DEF AwardPart, AwardMined
<1>7. b.award \in AwardParts
  BY <1>3, <1>5, <1>6 DEF AwardParts
<1>8. ASSUME identity[t] # NoIdentity
      PROVE  /\ b.identity = [credential |-> identity[t].credential,
                              record |-> identity[t].record, proof |-> calldata[t].identity,
                              signals |-> ExpectedIdentitySignals(t, identity[t].credential,
                                                                 identity[t].record)]
             /\ b.identity \in IdentityParts
  <2>1. identity[t].credential \in Credentials /\ identity[t].record \in Records
    BY <1>1, <1>8 DEF Identities
  <2>2. ExpectedIdentitySignals(t, identity[t].credential, identity[t].record)
          \in IdentityStatements
    BY <2>1, IdentitySignalsTyped
  <2>3. calldata[t].identity \in IdentityStatements
    BY <1>1, <1>8 DEF NameMined
  <2> QED
    BY <1>2, <1>8, <2>1, <2>2, <2>3 DEF IdentityPart, IdentityParts
<1>9. identity[t] = NoIdentity => b.identity = NoIdentity
  BY <1>2 DEF IdentityPart
<1> QED
  BY <1>6, <1>7, <1>8, <1>9 DEF b

\* Checks 10 and 11.
LEMMA HonestResults ==
    ASSUME EvidenceInv, NEW t \in Tenders, award[t] # NoAward, RootsStandSinceProved(t)
    PROVE  AwardProved(Bundle(t, AllKeys)) /\ IdentityProved(Bundle(t, AllKeys))
<1> DEFINE b == Bundle(t, AllKeys)
<1>1. /\ PipelineInv /\ AwardMined(t) /\ StandingAt(t) /\ CompleteAt(t)
      /\ bids[t] \in Seq(Bids)
  BY DEF EvidenceInv, PipelineInv, MinedAt, OpenedInv, SealedInv, BidsTyped
<1>2. /\ b.keys = AllKeys /\ b.rules = RulesPart(t) /\ b.roots = RootsPart(t)
      /\ b.identity = IdentityPart(t)
  BY DEF Bundle
<1>3. /\ b.award \in AwardParts
      /\ b.award.winner = award[t].winner /\ b.award.price = award[t].price
      /\ b.award.index = award[t].index
      /\ b.award.proof = b.award.signals
      /\ b.award.signals = AwardSignals(t, award[t].winner, award[t].price)
      /\ identity[t] = NoIdentity => b.identity = NoIdentity
      /\ identity[t] # NoIdentity =>
           /\ b.identity.credential = identity[t].credential
           /\ b.identity.record = identity[t].record
           /\ b.identity.signals = ExpectedIdentitySignals(t, identity[t].credential,
                                                           identity[t].record)
  BY BundleResults
<1>4. /\ DOMAIN b.bids = DOMAIN bids[t]
      /\ \A i \in DOMAIN bids[t] : /\ b.bids[i].index = i
                                   /\ b.bids[i].nullifier = bids[t][i].nullifier
                                   /\ b.bids[i].commitment = bids[t][i].commitment
  BY <1>1, BundleBids
<1>5. award[t].index \in DOMAIN bids[t]
      /\ award[t].winner = bids[t][award[t].index].commitment
  BY <1>1, WinnerIsBid
<1> HIDE DEF b
<1>6. AwardProved(b)
  <2>1. ProofVerifies(b, "award", b.award)
    BY <1>2, <1>3 DEF ProofVerifies, AllKeys
  <2>2. BoundToSet(b)
    BY <1>2, <1>3 DEF BoundToSet, AwardSignals, RulesPart, RootsPart
  <2>3. (b.rules.fields.disclosurePolicy = CONCEAL_WINNING_PRICE) = (b.award.price = 0)
    <3>1. b.rules.fields.disclosurePolicy = fields[t].disclosurePolicy
      BY <1>2 DEF RulesPart
    <3> QED
      BY <1>1, <1>3, <3>1
         DEF AwardMined, PriceHonoursPolicy, CONCEAL_WINNING_PRICE, DISCLOSE_WINNING_PRICE
  <2>4. \E k \in DOMAIN b.bids :
          b.bids[k].index = b.award.index /\ b.bids[k].commitment = b.award.winner
    BY <1>3, <1>4, <1>5
  <2> QED
    BY <2>1, <2>2, <2>3, <2>4 DEF AwardProved
<1>7. IdentityProved(b)
  <2> SUFFICES ASSUME identity[t] # NoIdentity PROVE IdentityProved(b)
    BY <1>3 DEF IdentityProved
  <2>1. ProofVerifies(b, "winner_identity", b.identity)
    BY <1>2 DEF ProofVerifies, AllKeys, RootsStandSinceProved
  <2>2. /\ b.identity.signals.tender = b.rules.tender
        /\ b.identity.signals.commitment = b.award.winner
        /\ b.identity.signals.identity
             = IdentityCommitment(b.identity.credential, b.identity.record)
        /\ b.identity.signals.issuerRoot = b.roots.issuer
    BY <1>2, <1>3 DEF ExpectedIdentitySignals, RulesPart, RootsPart
  <2>3. \A k \in DOMAIN b.bids : b.bids[k].index = b.award.index =>
          b.identity.signals.nullifier = b.bids[k].nullifier
    BY <1>3, <1>4 DEF ExpectedIdentitySignals
  <2> QED
    BY <2>1, <2>2, <2>3 DEF IdentityProved
<1> QED
  BY <1>6, <1>7 DEF b

\* While the roots stand that its proofs were made against, an awarded tender exports
\* to a bundle that passes every check, whichever replicas were dismissed and whatever
\* else went on; the auditor's page finds the same.
THEOREM HonestBundlesVerify == EvidenceSpec => []HonestBundleVerifies
<1>1. EvidenceInv => HonestBundleVerifies
  <2> SUFFICES ASSUME EvidenceInv, NEW t \in Tenders, award[t] # NoAward,
                      RulesOf[ruleDocument[t]] = fields[t], RootsStandSinceProved(t)
               PROVE  Verified(Bundle(t, AllKeys)) /\ AuditorAgrees(t)
    BY DEF HonestBundleVerifies
  <2>1. /\ PipelineInv /\ TenderInv /\ CompleteAt(t) /\ RulesComplete(t)
        /\ deadlineRootPinned[t] /\ award[t].index \in DOMAIN bids[t]
    BY WinnerIsBid DEF EvidenceInv, PipelineInv, MinedAt, OpenedInv
  <2>2. Activated(t) /\ bids[t] # << >>
    BY <2>1 DEF RulesComplete
  <2>3. Verified(Bundle(t, AllKeys))
    BY <2>2, HonestRules, HonestBids, HonestReceipts, HonestOpening, HonestStatus,
       HonestResults DEF Verified
  <2>4. /\ rulesHash[t] = ruleDocument[t] /\ committee[t].consistent
    BY <2>1, <2>2 DEF TenderInv, FrozenAsStored, RulesComplete
  <2>5. award[t].bidSetRoot = BidSetRoot(t) /\ award[t].count = SubmissionCount(t)
    BY <2>1 DEF CompleteAt, SubmissionCount
  <2> QED
    BY <2>3, <2>4, <2>5 DEF AuditorAgrees
<1> QED
  BY <1>1, EvidenceInvariant, PTL

-----------------------------------------------------------------------------
(* Bundles that pass.                                                      *)

\* What the chain says of an awarded tender: who bid, who won at which price, and who
\* that is.
ChainSays(t) ==
    [bids |-> BidSetRoot(t), winner |-> award[t].winner, index |-> award[t].index,
     price |-> award[t].price,
     name |-> IF identity[t] = NoIdentity THEN NoIdentity ELSE identity[t].credential]

\* The proofs of the results in a bundle are those that were mined.
CarriesMinedProofs(x, t) ==
    /\ x.award # NoAward /\ x.award.proof = calldata[t].award
    /\ (x.identity = NoIdentity) <=> (identity[t] = NoIdentity)
    /\ x.identity # NoIdentity => x.identity.proof = calldata[t].identity

\* A bundle of any making, which the mined proofs are in and which verifies, says
\* what the chain says.
MinedProofsBind ==
    \A t \in Tenders : award[t] # NoAward =>
        \A x : CarriesMinedProofs(x, t) /\ Verified(x) => Says(x) = ChainSays(t)

\* The award proof binds the set: the leaves of the bundle are those of the chain.
LEMMA AwardProofBindsSet ==
    ASSUME NEW t \in Tenders, NEW x, x.award # NoAward, Verified(x),
           x.award.proof = AwardSignals(t, award[t].winner, award[t].price)
    PROVE  /\ x.award.winner = award[t].winner /\ x.award.price = award[t].price
           /\ DOMAIN x.bids = DOMAIN bids[t]
           /\ \A k \in DOMAIN bids[t] :
                /\ x.bids[k].leaf = Leaf(t, k)
                /\ x.bids[k].index = k /\ x.bids[k].commitment = bids[t][k].commitment
<1> DEFINE leaf == [k \in DOMAIN x.bids |->
              [nullifier |-> x.bids[k].nullifier, commitment |-> x.bids[k].commitment,
               ciphertext |-> x.bids[k].ciphertext, index |-> x.bids[k].index]]
<1>1. (\A k \in DOMAIN x.bids : leaf[k] = x.bids[k].leaf) /\ leaf = x.roots.bidSet
  BY DEF Verified, SetRebuilds
<1>2. x.award.proof = x.award.signals /\ BoundToSet(x)
  BY DEF Verified, AwardProved, ProofVerifies
<1>3. /\ x.roots.bidSet = BidSetRoot(t)
      /\ x.award.winner = award[t].winner /\ x.award.price = award[t].price
  BY <1>2 DEF BoundToSet, AwardSignals
<1>4. leaf = BidSetRoot(t)
  BY <1>1, <1>3
<1>5. DOMAIN x.bids = DOMAIN bids[t]
  BY <1>4 DEF BidSetRoot
<1>6. ASSUME NEW k \in DOMAIN bids[t]
      PROVE  /\ x.bids[k].leaf = Leaf(t, k)
             /\ x.bids[k].index = k /\ x.bids[k].commitment = bids[t][k].commitment
  <2>1. leaf[k] = Leaf(t, k) /\ x.bids[k].leaf = leaf[k]
    BY <1>1, <1>4, <1>5 DEF BidSetRoot
  <2>2. leaf[k].index = x.bids[k].index /\ leaf[k].commitment = x.bids[k].commitment
    BY <1>5
  <2>3. Leaf(t, k).index = k /\ Leaf(t, k).commitment = bids[t][k].commitment
    BY DEF Leaf
  <2> QED
    BY <2>1, <2>2, <2>3
<1> QED
  BY <1>3, <1>5, <1>6

\* The set binds the index, for no two bids have one commitment; the identity proof
\* binds the name.
LEMMA MinedProofsBindBundle ==
    ASSUME EvidenceInv, NEW t \in Tenders, award[t] # NoAward,
           NEW x, CarriesMinedProofs(x, t), Verified(x)
    PROVE  Says(x) = ChainSays(t)
<1>1. /\ AwardMined(t) /\ NameMined(t) /\ BidsDistinctAndBound
      /\ bids[t] \in Seq(Bids)
      /\ award[t].index \in DOMAIN bids[t]
      /\ award[t].winner = bids[t][award[t].index].commitment
  BY WinnerIsBid DEF EvidenceInv, PipelineInv, MinedAt, SealedInv, BidsTyped
<1>2. x.award.proof = AwardSignals(t, award[t].winner, award[t].price)
  BY <1>1 DEF CarriesMinedProofs, AwardMined
<1>3. /\ x.award.winner = award[t].winner /\ x.award.price = award[t].price
      /\ DOMAIN x.bids = DOMAIN bids[t]
      /\ \A k \in DOMAIN bids[t] :
           /\ x.bids[k].leaf = Leaf(t, k)
           /\ x.bids[k].index = k /\ x.bids[k].commitment = bids[t][k].commitment
  BY <1>2, AwardProofBindsSet DEF CarriesMinedProofs
<1>4. [k \in DOMAIN x.bids |-> x.bids[k].leaf] = BidSetRoot(t)
  BY <1>3 DEF BidSetRoot
<1>5. x.award.index = award[t].index
  <2>1. PICK k \in DOMAIN x.bids :
          x.bids[k].index = x.award.index /\ x.bids[k].commitment = x.award.winner
    BY DEF Verified, AwardProved, CarriesMinedProofs
  <2>2. bids[t][k].commitment = bids[t][award[t].index].commitment
    BY <1>1, <1>3, <2>1
  <2>3. k = award[t].index
    BY <1>1, <1>3, <2>1, <2>2 DEF BidsDistinctAndBound
  <2> QED
    BY <1>3, <2>1, <2>3
<1>6. ASSUME identity[t] # NoIdentity
      PROVE  x.identity # NoIdentity /\ x.identity.credential = identity[t].credential
  <2>1. x.identity # NoIdentity /\ x.identity.proof = calldata[t].identity
    BY <1>6 DEF CarriesMinedProofs
  <2>2. x.identity.proof.identity
          = IdentityCommitment(x.identity.credential, x.identity.record)
    BY <2>1 DEF Verified, IdentityProved, ProofVerifies
  <2> QED
    BY <1>1, <1>6, <2>1, <2>2 DEF NameMined, IdentityCommitment
<1>7. identity[t] = NoIdentity => x.identity = NoIdentity
  BY DEF CarriesMinedProofs
<1>8. (IF x.identity = NoIdentity THEN NoIdentity ELSE x.identity.credential)
        = (IF identity[t] = NoIdentity THEN NoIdentity ELSE identity[t].credential)
  BY <1>6, <1>7
<1> QED
  BY <1>3, <1>4, <1>5, <1>8 DEF Says, ChainSays

\* Every corruption the verifier is tried with leaves the mined proofs where they were.
LEMMA CorruptedCarriesProofs ==
    ASSUME EvidenceInv, NEW t \in Tenders, award[t] # NoAward,
           NEW x \in Corrupted(Bundle(t, AllKeys))
    PROVE  CarriesMinedProofs(x, t)
<1> DEFINE b == Bundle(t, AllKeys)
<1>1. /\ b.award \in AwardParts /\ b.award.proof = calldata[t].award
      /\ identity[t] = NoIdentity => b.identity = NoIdentity
      /\ identity[t] # NoIdentity => /\ b.identity \in IdentityParts
                                     /\ b.identity.proof = calldata[t].identity
  BY BundleResults
<1>2. b = [keys |-> b.keys, rules |-> b.rules, roots |-> b.roots, bids |-> b.bids,
           replicas |-> b.replicas, ciphertexts |-> b.ciphertexts, opening |-> b.opening,
           statusProofs |-> b.statusProofs, award |-> b.award, identity |-> b.identity]
  <2> HIDE DEF RulesPart, RootsPart, BidPart, ReplicasPart, StatusPart, AwardPart, IdentityPart
  <2> QED
    BY DEF Bundle
<1> HIDE DEF b
<1>3. /\ b.award # NoAward
      /\ identity[t] # NoIdentity => b.identity # NoIdentity
  BY <1>1, EvidenceAssumption
<1>4. CarriesMinedProofs(b, t)
  BY <1>1, <1>3 DEF CarriesMinedProofs
<1>5. ASSUME x.award = b.award, x.identity = b.identity PROVE CarriesMinedProofs(x, t)
  BY <1>4, <1>5 DEF CarriesMinedProofs
<1>6. ASSUME NEW s, x = WithBids(b, s) PROVE CarriesMinedProofs(x, t)
  <2>1. x.award = b.award /\ x.identity = b.identity
    BY <1>2, <1>6 DEF WithBids
  <2> QED
    BY <1>5, <2>1
<1>7. ASSUME NEW s, x = [b EXCEPT !.bids = s] PROVE CarriesMinedProofs(x, t)
  <2>1. x.award = b.award /\ x.identity = b.identity
    BY <1>2, <1>7
  <2> QED
    BY <1>5, <2>1
<1>8. ASSUME x.award.proof = b.award.proof, x.award # NoAward, x.identity = b.identity
      PROVE  CarriesMinedProofs(x, t)
  BY <1>4, <1>8 DEF CarriesMinedProofs
<1>9. ASSUME NEW i \in DOMAIN b.bids,
             x = [b EXCEPT !.award.index = i, !.award.winner = b.bids[i].commitment,
                           !.award.signals.winner = b.bids[i].commitment]
      PROVE  CarriesMinedProofs(x, t)
  <2>1. i \in BidIndices /\ b.bids[i].commitment \in Commitments
    <3>1. bids[t] \in Seq(Bids) /\ DOMAIN bids[t] \subseteq BidIndices
      BY WinnerIsBid DEF EvidenceInv, PipelineInv, SealedInv, BidsTyped
    <3>2. i \in DOMAIN bids[t] /\ b.bids[i].commitment = bids[t][i].commitment
      BY <1>9, <3>1, BundleBids DEF b
    <3>3. bids[t][i] \in Bids
      BY <3>1, <3>2
    <3> QED
      BY <3>1, <3>2, <3>3 DEF Bids
  <2> DEFINE c == b.bids[i].commitment
             a == [b.award EXCEPT !.index = i, !.winner = c, !.signals.winner = c]
  <2> HIDE DEF c
  <2>2. x.award = a /\ x.identity = b.identity
    BY <1>2, <1>9 DEF c
  <2>3. [b.award.signals EXCEPT !.winner = c] \in AwardStatements
    <3>1. b.award.signals \in AwardStatements
      BY <1>1 DEF AwardParts
    <3> QED
      BY <2>1, <3>1 DEF AwardStatements, c
  <2>4. a = [b.award EXCEPT !.index = i, !.winner = c,
                            !.signals = [b.award.signals EXCEPT !.winner = c]]
    BY <1>1 DEF AwardParts
  <2>5. a \in AwardParts /\ a.proof = b.award.proof
    BY <1>1, <2>1, <2>3, <2>4 DEF AwardParts, c
  <2> QED
    BY <1>8, <2>2, <2>5, EvidenceAssumption
<1>10. ASSUME x = [b EXCEPT !.award.price = 0, !.award.signals.price = 0]
       PROVE  CarriesMinedProofs(x, t)
  <2> DEFINE a == [b.award EXCEPT !.price = 0, !.signals.price = 0]
  <2>1. x.award = a /\ x.identity = b.identity
    BY <1>2, <1>10
  <2>2. 0 \in Prices
    BY DEF Prices
  <2>3. [b.award.signals EXCEPT !.price = 0] \in AwardStatements
    <3>1. b.award.signals \in AwardStatements
      BY <1>1 DEF AwardParts
    <3> QED
      BY <2>2, <3>1 DEF AwardStatements
  <2>4. a = [b.award EXCEPT !.price = 0, !.signals = [b.award.signals EXCEPT !.price = 0]]
    BY <1>1 DEF AwardParts
  <2>5. a \in AwardParts /\ a.proof = b.award.proof
    BY <1>1, <2>2, <2>3, <2>4 DEF AwardParts
  <2> QED
    BY <1>8, <2>1, <2>5, EvidenceAssumption
<1>11. ASSUME b.identity # NoIdentity, NEW c \in Credentials,
              x = [b EXCEPT !.identity.credential = c,
                     !.identity.signals.identity = IdentityCommitment(c, b.identity.record)]
       PROVE  CarriesMinedProofs(x, t)
  <2> DEFINE w == IdentityCommitment(c, b.identity.record)
             n == [b.identity EXCEPT !.credential = c, !.signals.identity = w]
  <2>1. identity[t] # NoIdentity /\ b.identity \in IdentityParts
    BY <1>1, <1>11
  <2>2. w \in Credentials \X Records
    BY <2>1 DEF IdentityCommitment, IdentityParts
  <2> HIDE DEF w
  <2>3. x.award = b.award /\ x.identity = n
    BY <1>2, <1>11 DEF w
  <2>4. [b.identity.signals EXCEPT !.identity = w] \in IdentityStatements
    <3>1. b.identity.signals \in IdentityStatements
      BY <2>1 DEF IdentityParts
    <3> QED
      BY <2>2, <3>1 DEF IdentityStatements
  <2>5. n = [b.identity EXCEPT !.credential = c,
                               !.signals = [b.identity.signals EXCEPT !.identity = w]]
    BY <2>1 DEF IdentityParts
  <2>6. n \in IdentityParts /\ n.proof = b.identity.proof
    BY <2>1, <2>4, <2>5 DEF IdentityParts
  <2> QED
    BY <1>4, <2>1, <2>3, <2>6, EvidenceAssumption DEF CarriesMinedProofs
<1>12. \/ \E s : x = WithBids(b, s)
       \/ \E s : x = [b EXCEPT !.bids = s]
       \/ \E i \in DOMAIN b.bids :
            x = [b EXCEPT !.award.index = i, !.award.winner = b.bids[i].commitment,
                          !.award.signals.winner = b.bids[i].commitment]
       \/ x = [b EXCEPT !.award.price = 0, !.award.signals.price = 0]
       \/ b.identity # NoIdentity /\ \E c \in Credentials :
            x = [b EXCEPT !.identity.credential = c,
                   !.identity.signals.identity = IdentityCommitment(c, b.identity.record)]
  <2>1. x \in Corrupted(b)
    BY DEF b
  <2> HIDE DEF WithBids, Without, Swapped, IdentityCommitment
  <2> QED
    BY <2>1, Zenon DEF Corrupted
<1> QED
  BY <1>6, <1>7, <1>9, <1>10, <1>11, <1>12

\* The proof that was mined decides what any bundle it is in can say: with the award
\* proof of the chain over another set, with another winner or price, or with the
\* identity proof under another name, a bundle does not verify.
THEOREM MinedProofsBindBundles == EvidenceSpec => []MinedProofsBind
<1>1. EvidenceInv => MinedProofsBind
  BY MinedProofsBindBundle DEF MinedProofsBind
<1> QED
  BY <1>1, EvidenceInvariant, PTL

\* The bundle itself says what the chain says, and no corruption of it that verifies
\* says anything else.
THEOREM VerifiedBundlesAreTrue == EvidenceSpec => []VerifiedIsTrue
<1>1. EvidenceInv => VerifiedIsTrue
  <2> SUFFICES ASSUME EvidenceInv, NEW t \in Tenders, award[t] # NoAward,
                      NEW x \in Corrupted(Bundle(t, AllKeys)), Verified(x)
               PROVE  Says(x) = Says(Bundle(t, AllKeys))
    BY DEF VerifiedIsTrue
  <2> DEFINE b == Bundle(t, AllKeys)
  <2>1. Says(x) = ChainSays(t)
    BY CorruptedCarriesProofs, MinedProofsBindBundle
  <2>2. bids[t] \in Seq(Bids)
    BY DEF EvidenceInv, PipelineInv, SealedInv, BidsTyped
  <2>3. DOMAIN b.bids = DOMAIN bids[t] /\ \A k \in DOMAIN bids[t] : b.bids[k].leaf = Leaf(t, k)
    BY <2>2, BundleBids
  <2>4. /\ b.award.winner = award[t].winner /\ b.award.price = award[t].price
        /\ b.award.index = award[t].index
        /\ identity[t] = NoIdentity => b.identity = NoIdentity
        /\ identity[t] # NoIdentity => /\ b.identity \in IdentityParts
                                       /\ b.identity.credential = identity[t].credential
    BY BundleResults
  <2> HIDE DEF b
  <2>5. [k \in DOMAIN b.bids |-> b.bids[k].leaf] = BidSetRoot(t)
    BY <2>3 DEF BidSetRoot
  <2>6. (IF b.identity = NoIdentity THEN NoIdentity ELSE b.identity.credential)
          = (IF identity[t] = NoIdentity THEN NoIdentity ELSE identity[t].credential)
    BY <2>4, EvidenceAssumption
  <2>7. Says(b) = ChainSays(t)
    BY <2>4, <2>5, <2>6 DEF Says, ChainSays
  <2> QED
    BY <2>1, <2>7 DEF b
<1> QED
  BY <1>1, EvidenceInvariant, PTL

=============================================================================
