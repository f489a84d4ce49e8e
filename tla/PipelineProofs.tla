---------------------------- MODULE PipelineProofs ----------------------------
(***************************************************************************)
(* Theorems of FairProof, for every set of tenders, bidders, bodies,       *)
(* issuers, rules, members that take part and council behaviour.           *)
(*                                                                         *)
(* The argument has three layers.  What the tender registry proves of      *)
(* itself holds in the composition, since every step of the pipeline is a  *)
(* step of it or leaves it alone.  A pinned tender stands still: its bids, *)
(* its rules and its root can no longer change.  What is revealed, opened, *)
(* re-proved, awarded and named is about a pinned tender, so it stays true.*)
(* From these the pipeline implements Procurement, step by step.           *)
(***************************************************************************)
EXTENDS FairProof, TenderRegistryProofs

-----------------------------------------------------------------------------
(* The steps of the pipeline.                                              *)

\* Every step is a step of the tender registry by itself, or one of another
\* contract that leaves the registry alone.
LEMMA StepCases ==
    ASSUME [Next]_vars
    PROVE  \/ [TenderNext]_tenderVars /\ UNCHANGED pipelineVars
           \/ \E c \in Council : ReplicaStep(c) /\
                UNCHANGED <<tenderVars, openingVars, awardVars, identityVars, ledgerVars, scenario>>
           \/ \E c \in Council : CouncilKeepsLedgers(c)
           \/ \E a \in Adapters, t \in Tenders : BankActs(a, t)
           \/ \E c \in Credentials, t \in Tenders : BidderBids(c, t)
           \/ \E t \in Tenders, i \in BidIndices : AnybodyReveals(t, i)
           \/ \E t \in Tenders, i \in BidIndices, m \in MemberIndices : MemberShares(t, i, m)
           \/ \E c \in Credentials, t \in Tenders, i \in BidIndices : BidderProvesStatus(c, t, i)
           \/ \E c \in Authorities, t \in Tenders : AuthorityAwards(c, t)
           \/ \E c \in Credentials, t \in Tenders : WinnerIsNamed(c, t)
<1>1. CASE TimePasses
  BY <1>1 DEF TimePasses, TenderNext, Environment, ControlNext
<1>2. ASSUME NEW c \in Council, CouncilInterferes(c)
      PROVE  \/ [TenderNext]_tenderVars /\ UNCHANGED pipelineVars
             \/ ReplicaStep(c) /\
                  UNCHANGED <<tenderVars, openingVars, awardVars, identityVars, ledgerVars, scenario>>
  <2>1. CASE TogglePause /\ UNCHANGED <<issuerVars, tenderOnlyVars, pipelineVars>>
    BY <2>1 DEF TenderNext, Environment, ControlNext
  <2>2. CASE /\ \E v \in Versions, impl \in Impls : ActivateVersion(v, impl)
             /\ UNCHANGED <<issuerVars, tenderOnlyVars, pipelineVars>>
    BY <2>2 DEF TenderNext, Environment, ControlNext
  <2>3. CASE /\ IssuerListStep(c) \/ IssuerRootStep(c)
             /\ UNCHANGED <<controlVars, tenderOnlyVars, pipelineVars>>
    BY <2>3 DEF TenderNext, Environment, IssuerCouncilStep
  <2>4. CASE PolicyStep(c) /\ UNCHANGED pipelineVars
    BY <2>4 DEF TenderNext
  <2>5. CASE (\E t \in Tenders : CancelTender(c, t)) /\ UNCHANGED pipelineVars
    BY <2>5 DEF TenderNext
  <2> QED
    BY <1>2, <2>1, <2>2, <2>3, <2>4, <2>5 DEF CouncilInterferes
<1>3. ASSUME NEW t \in Tenders, AnybodyCloses(t) \/ \E c \in Authorities : AuthorityDrafts(c, t)
      PROVE  TenderNext /\ UNCHANGED pipelineVars
  BY <1>3 DEF AnybodyCloses, AuthorityDrafts, TenderNext
<1>4. CASE UNCHANGED vars
  BY <1>4 DEF vars
<1> QED
  BY <1>1, <1>2, <1>3, <1>4 DEF Next

\* So the pipeline is a tender registry, whatever else happens around it.
LEMMA StepOfRegistry == [Next]_vars => [TenderNext]_tenderVars
<1> SUFFICES ASSUME [Next]_vars PROVE [TenderNext]_tenderVars
  OBVIOUS
<1> QED
  BY StepCases
     DEF CouncilKeepsLedgers, BankActs, BeforeLedgers, BidderBids, AnybodyReveals, MemberShares,
         BidderProvesStatus, AuthorityAwards, OthersStand, WinnerIsNamed

\* The deployment is one of the registry's good states, though not its initial one.
LEMMA DeploymentGood == Init => TenderInv
<1> SUFFICES ASSUME Init PROVE TenderInv
  OBVIOUS
<1>1. scenario \in Scenarios /\ DeployedInit
  BY DEF Init
<1>2. scenario \in ScenarioRecords /\ scenario.issuers \in IssuerRoots /\ {} \in RevocationRoots
  BY <1>1, FairProofAssumption
<1>3. 1 \in Epochs /\ 1 \in 1 .. MaxTime /\ 0 \in 0 .. MaxTime
  BY IssuerAssumption, ControlAssumption DEF Epochs
<1>4. ControlTypeOK
  BY <1>1, <1>3 DEF DeployedInit, ControlTypeOK
<1>5. IssuerTypeOK
  <2>1. [epoch |-> 1, active |-> TRUE] \in Issuers
    BY <1>3 DEF Issuers
  <2> QED
    BY <1>1, <1>2, <1>3, <2>1 DEF DeployedInit, IssuerTypeOK
<1>6. TenderOnlyTypeOK
  BY <1>1, <1>3 DEF DeployedInit, TenderOnlyTypeOK, State
<1>7. PhaseConsistent /\ FrozenAsStored /\ PinnedIffClosed
  BY <1>1 DEF DeployedInit, PhaseConsistent, FrozenAsStored, Activated, PinnedIffClosed
<1>8. FloorHolds
  BY <1>1, TenderAssumption DEF DeployedInit, FloorHolds
<1> QED
  BY <1>4, <1>5, <1>6, <1>7, <1>8 DEF TenderInv, TenderTypeOK

-----------------------------------------------------------------------------
(* The bid set.                                                            *)

\* What a bidder proves is about its own nullifier and one of its own offers.
OwnEligibility ==
    \A c \in Credentials : eligibilityProof[c] # NoProof =>
        \E t \in Tenders, amount \in Amounts :
            /\ eligibilityProof[c].tender = t
            /\ eligibilityProof[c].nullifier = Nullifier(c, t)
            /\ eligibilityProof[c].commitment = BidCommitment(c, t, amount)

\* The replicas that count.
ActiveReplicas == {r \in ReplicaIds : replicas[r] # NoReplica /\ replicas[r].active}

ReplicasCounted ==
    /\ replicas \in [ReplicaIds -> Replicas \cup {NoReplica}]
    /\ activeReplicaCount = Cardinality(ActiveReplicas)
    /\ \A q, r \in ReplicaIds :
         q # r /\ replicas[q] # NoReplica /\ replicas[r] # NoReplica
           => replicas[q].signer # replicas[r].signer

BidsTyped ==
    /\ bids \in [Tenders -> Seq(Bids)]
    /\ nullifierUsed \in [Tenders -> SUBSET Nullifiers]
    /\ ciphertextUsed \in [Tenders -> SUBSET Ciphertexts]
    /\ DOMAIN eligibilityProof = Credentials

SealedInv ==
    /\ scenario \in Scenarios
    /\ ReplicasCounted
    /\ BidsTyped
    /\ OwnEligibility
    /\ BidsDistinctAndBound

LEMMA SealedInvTyped == SealedInv => SealedTypeOK
<1> SUFFICES ASSUME SealedInv PROVE SealedTypeOK
  OBVIOUS
<1>1. {r \in {q \in ReplicaIds : replicas[q] # NoReplica} : replicas[r].active} = ActiveReplicas
  BY DEF ActiveReplicas
<1> QED
  BY <1>1 DEF SealedInv, ReplicasCounted, BidsTyped, SealedTypeOK

\* A set of replicas is small enough to count.
LEMMA ReplicasFinite ==
    ASSUME NEW S \in SUBSET ReplicaIds
    PROVE  IsFiniteSet(S) /\ Cardinality(S) \in Nat
<1>1. 1 \in Int /\ 3 \in Int
  OBVIOUS
<1>2. IsFiniteSet(1 .. 3)
  BY <1>1, FS_Interval, Zenon
<1>3. IsFiniteSet(S)
  BY <1>2, FS_Subset DEF ReplicaIds
<1> QED
  BY <1>3, FS_CardinalityType

\* The deployed replicas are the ones counted, each under a key of its own.
LEMMA SealedAtDeployment == Init => SealedInv
<1> SUFFICES ASSUME Init PROVE SealedInv
  OBVIOUS
<1>1. scenario \in Scenarios /\ ReplicasRegistered
  BY DEF Init
<1>2. /\ scenario \in ScenarioRecords
      /\ \A q, r \in ReplicaIds : q # r /\ scenario.deployed[q] # NoReplica
           => scenario.deployed[q] # scenario.deployed[r]
  BY <1>1, FairProofAssumption
<1>3. scenario.deployed \in [ReplicaIds -> Signers \cup {NoReplica}]
  BY <1>2 DEF ScenarioRecords
<1>4. \A r \in ReplicaIds :
        /\ scenario.deployed[r] = NoReplica => replicas[r] = NoReplica
        /\ scenario.deployed[r] # NoReplica =>
             /\ replicas[r] \in Replicas /\ replicas[r] # NoReplica
             /\ replicas[r].signer = scenario.deployed[r] /\ replicas[r].active
  <2> SUFFICES ASSUME NEW r \in ReplicaIds, scenario.deployed[r] # NoReplica
               PROVE  /\ replicas[r] \in Replicas /\ replicas[r] # NoReplica
                      /\ replicas[r].signer = scenario.deployed[r] /\ replicas[r].active
    BY <1>1 DEF ReplicasRegistered
  <2>1. replicas[r] = [signer |-> scenario.deployed[r], active |-> TRUE]
    BY <1>1 DEF ReplicasRegistered
  <2>2. scenario.deployed[r] \in Signers
    BY <1>3
  <2>3. replicas[r] \in Replicas
    BY <2>1, <2>2 DEF Replicas
  <2>4. replicas[r].signer = scenario.deployed[r] /\ replicas[r].active = TRUE
    BY <2>1
  <2> QED
    BY <2>3, <2>4, SealedBidAssumption DEF Replicas
<1>5. ActiveReplicas = {r \in ReplicaIds : scenario.deployed[r] # NoReplica}
  BY <1>4 DEF ActiveReplicas
<1>6. ReplicasCounted
  <2>1. replicas \in [ReplicaIds -> Replicas \cup {NoReplica}]
    BY <1>1, <1>4 DEF ReplicasRegistered
  <2>2. \A q, r \in ReplicaIds :
          q # r /\ replicas[q] # NoReplica /\ replicas[r] # NoReplica
            => replicas[q].signer # replicas[r].signer
    BY <1>2, <1>4
  <2> QED
    BY <1>1, <1>5, <2>1, <2>2 DEF ReplicasRegistered, ReplicasCounted
<1>7. BidsTyped /\ OwnEligibility
  BY <1>1 DEF ReplicasRegistered, BidsTyped, OwnEligibility
<1>8. BidsDistinctAndBound
  BY <1>1, SealedBidAssumption DEF ReplicasRegistered, BidsDistinctAndBound
<1> QED
  BY <1>1, <1>6, <1>7, <1>8 DEF SealedInv

\* registerReplica and setReplicaStatus count exactly the change they make.
LEMMA ReplicaStepCounts ==
    ASSUME ReplicasCounted, NEW c, ReplicaStep(c)
    PROVE  ReplicasCounted'
<1>1. /\ replicas \in [ReplicaIds -> Replicas \cup {NoReplica}]
      /\ IsFiniteSet(ActiveReplicas) /\ Cardinality(ActiveReplicas) \in Nat
  BY ReplicasFinite DEF ReplicasCounted, ActiveReplicas
<1>2. ASSUME NEW r \in ReplicaIds, NEW s \in Signers, RegisterReplica(c, r, s)
      PROVE  ReplicasCounted'
  <2>1. [signer |-> s, active |-> TRUE] \in Replicas
    BY DEF Replicas
  <2>2. ActiveReplicas' = ActiveReplicas \cup {r} /\ r \notin ActiveReplicas
    <3>1. /\ replicas[r] = NoReplica
          /\ replicas'[r] = [signer |-> s, active |-> TRUE]
          /\ \A q \in ReplicaIds : q # r => replicas'[q] = replicas[q]
      BY <1>1, <1>2 DEF RegisterReplica
    <3>2. replicas'[r] # NoReplica /\ replicas'[r].active
      BY <2>1, <3>1, SealedBidAssumption DEF Replicas
    <3> QED
      BY <3>1, <3>2 DEF ActiveReplicas
  <2>3. Cardinality(ActiveReplicas') = Cardinality(ActiveReplicas) + 1
    BY <1>1, <2>2, FS_AddElement
  <2>4. replicas' \in [ReplicaIds -> Replicas \cup {NoReplica}]
    BY <1>1, <1>2, <2>1 DEF RegisterReplica
  <2>5. ASSUME NEW q \in ReplicaIds, NEW p \in ReplicaIds, q # p,
               replicas'[q] # NoReplica, replicas'[p] # NoReplica
        PROVE  replicas'[q].signer # replicas'[p].signer
    BY <1>1, <1>2, <2>5 DEF RegisterReplica, ReplicasCounted
  <2> QED
    BY <1>2, <2>3, <2>4, <2>5 DEF RegisterReplica, ReplicasCounted
<1>3. ASSUME NEW r \in ReplicaIds, NEW active \in BOOLEAN, SetReplicaStatus(c, r, active)
      PROVE  ReplicasCounted'
  <2>1. replicas[r] \in Replicas /\ replicas[r] # NoReplica
    BY <1>1, <1>3 DEF SetReplicaStatus
  <2>2. /\ [replicas[r] EXCEPT !.active = active] \in Replicas
        /\ [replicas[r] EXCEPT !.active = active].active = active
        /\ [replicas[r] EXCEPT !.active = active].signer = replicas[r].signer
    BY <2>1 DEF Replicas
  <2>3. /\ replicas' = [replicas EXCEPT ![r] = [replicas[r] EXCEPT !.active = active]]
        /\ CountAfter(r, active)
    BY <1>3 DEF SetReplicaStatus
  <2>4. replicas' \in [ReplicaIds -> Replicas \cup {NoReplica}]
    BY <1>1, <2>2, <2>3
  <2>5. \A q \in ReplicaIds :
          /\ replicas'[q] # NoReplica <=> replicas[q] # NoReplica
          /\ replicas[q] # NoReplica => replicas'[q].signer = replicas[q].signer
          /\ q # r => replicas'[q] = replicas[q]
    BY <1>1, <2>1, <2>2, <2>3, SealedBidAssumption DEF Replicas
  <2>6. replicas'[r].active = active /\ replicas[r].active \in BOOLEAN
    BY <1>1, <2>1, <2>2, <2>3 DEF Replicas
  <2>7. activeReplicaCount' = Cardinality(ActiveReplicas')
    <3>1. CASE replicas[r].active = active
      <4>1. ActiveReplicas' = ActiveReplicas
        BY <2>5, <2>6, <3>1 DEF ActiveReplicas
      <4>2. activeReplicaCount' = activeReplicaCount
        BY <2>3, <3>1 DEF CountAfter
      <4> QED
        BY <4>1, <4>2 DEF ReplicasCounted
    <3>2. CASE replicas[r].active # active /\ active = TRUE
      <4>1. ActiveReplicas' = ActiveReplicas \cup {r} /\ r \notin ActiveReplicas
        BY <2>1, <2>5, <2>6, <3>2 DEF ActiveReplicas
      <4>2. Cardinality(ActiveReplicas') = Cardinality(ActiveReplicas) + 1
        BY <1>1, <4>1, FS_AddElement
      <4>3. activeReplicaCount' = activeReplicaCount + 1
        BY <2>3, <3>2 DEF CountAfter
      <4> QED
        BY <4>2, <4>3 DEF ReplicasCounted
    <3>3. CASE replicas[r].active # active /\ active = FALSE
      <4>1. ActiveReplicas' = ActiveReplicas \ {r} /\ r \in ActiveReplicas
        BY <2>1, <2>5, <2>6, <3>3 DEF ActiveReplicas
      <4>2. Cardinality(ActiveReplicas') = Cardinality(ActiveReplicas) - 1
        BY <1>1, <4>1, FS_RemoveElement
      <4>3. activeReplicaCount' = activeReplicaCount - 1
        BY <2>3, <3>3 DEF CountAfter
      <4> QED
        BY <4>2, <4>3 DEF ReplicasCounted
    <3> QED
      BY <3>1, <3>2, <3>3
  <2> QED
    BY <2>4, <2>5, <2>7 DEF ReplicasCounted
<1> QED
  BY <1>2, <1>3 DEF ReplicaStep

\* A bid b of credential c taken into the set of t: what submitBid has checked, and
\* all that it changes.
Accepts(c, t, b) ==
    /\ b \in Bids
    /\ b.nullifier = Nullifier(c, t) /\ b.commitment.nullifier = b.nullifier
    /\ ~paused /\ IsBiddingOpen(t) /\ ReceiptsValid(b.receipts)
    /\ SubmissionCount(t) < MaxBids
    /\ b.nullifier \notin nullifierUsed[t] /\ b.ciphertext \notin ciphertextUsed[t]
    /\ bids' = [bids EXCEPT ![t] = Append(@, b)]
    /\ nullifierUsed' = [nullifierUsed EXCEPT ![t] = @ \cup {b.nullifier}]
    /\ ciphertextUsed' = [ciphertextUsed EXCEPT ![t] = @ \cup {b.ciphertext}]
    /\ UNCHANGED <<replicaVars, eligibilityProof>>
    /\ UNCHANGED <<tenderVars, openingVars, awardVars, identityVars, ledgerVars, scenario>>

\* submitBid takes the bid its proof is about, because the expected signals name
\* the tender and the proof is the bidder's own.
LEMMA SubmissionAccepts ==
    ASSUME SealedInv, NEW c \in Credentials, NEW t \in Tenders,
           NEW ciphertext \in scenario.bodies, NEW receipts \in scenario.receipts,
           SubmitBid(c, t, ciphertext, receipts),
           UNCHANGED <<tenderVars, openingVars, awardVars, identityVars, ledgerVars, scenario>>
    PROVE  \E b : Accepts(c, t, b)
<1> DEFINE proof == eligibilityProof[c]
           b == [nullifier |-> proof.nullifier, commitment |-> proof.commitment,
                 ciphertext |-> ciphertext, receipts |-> receipts]
<1>1. /\ proof # NoProof
      /\ ~paused /\ IsBiddingOpen(t) /\ ReceiptsValid(receipts)
      /\ SubmissionCount(t) < MaxBids
      /\ proof.nullifier \notin nullifierUsed[t] /\ ciphertext \notin ciphertextUsed[t]
      /\ EligibilityAccepted(t, proof)
      /\ Accept(t, proof.nullifier, proof.commitment, ciphertext, receipts)
      /\ UNCHANGED <<replicaVars, eligibilityProof>>
  BY DEF SubmitBid, CapacityRemains, NullifierFresh, CiphertextFresh
<1>2. proof.tender = t
  BY <1>1 DEF EligibilityAccepted, Verifies, ExpectedPublicSignals
<1>3. PICK amount \in Amounts : /\ proof.nullifier = Nullifier(c, t)
                                /\ proof.commitment = BidCommitment(c, t, amount)
  BY <1>1, <1>2 DEF SealedInv, OwnEligibility
<1>4. /\ proof.nullifier \in Nullifiers /\ proof.commitment \in Commitments
      /\ proof.commitment.nullifier = proof.nullifier
  BY <1>3 DEF Nullifier, Nullifiers, BidCommitment, Commitments
<1>5. ciphertext \in Ciphertexts /\ receipts \in SUBSET ReplicaIds
  <2>1. scenario \in ScenarioRecords
    BY FairProofAssumption DEF SealedInv
  <2> QED
    BY <2>1, SealedBidAssumption DEF ScenarioRecords
<1>6. b \in Bids
  BY <1>4, <1>5 DEF Bids
<1>7. b.nullifier = proof.nullifier /\ b.commitment = proof.commitment
      /\ b.ciphertext = ciphertext /\ b.receipts = receipts
  OBVIOUS
<1>8. /\ bids' = [bids EXCEPT ![t] = Append(@, b)]
      /\ nullifierUsed' = [nullifierUsed EXCEPT ![t] = @ \cup {b.nullifier}]
      /\ ciphertextUsed' = [ciphertextUsed EXCEPT ![t] = @ \cup {b.ciphertext}]
  BY <1>1, <1>7 DEF Accept
<1> HIDE DEF b
<1>9. Accepts(c, t, b)
  BY <1>1, <1>3, <1>4, <1>6, <1>7, <1>8 DEF Accepts
<1> QED
  BY <1>9

\* What the steps of the pipeline do to the sealed bids.
LEMMA SealedCases ==
    ASSUME SealedInv, [Next]_vars
    PROVE  \/ UNCHANGED sealedOnlyVars
           \/ (\E c : ReplicaStep(c)) /\ UNCHANGED <<bidVars, eligibilityProof>>
           \/ \E c \in Credentials, t \in Tenders : \E amount \in scenario.amounts :
                ProveEligibility(c, t, amount)
           \/ \E c \in Credentials, t \in Tenders : \E b : Accepts(c, t, b)
<1>1. CASE UNCHANGED pipelineVars
  BY <1>1 DEF pipelineVars
<1>2. ASSUME NEW c \in Council, ReplicaStep(c)
      PROVE  (\E d : ReplicaStep(d)) /\ UNCHANGED <<bidVars, eligibilityProof>>
  BY <1>2 DEF ReplicaStep, RegisterReplica, SetReplicaStatus
<1>3. ASSUME NEW c \in Credentials, NEW t \in Tenders, BidderBids(c, t)
      PROVE  \/ \E amount \in scenario.amounts : ProveEligibility(c, t, amount)
             \/ \E b : Accepts(c, t, b)
  BY <1>3, SubmissionAccepts DEF BidderBids
<1> QED
  BY <1>1, <1>2, <1>3, StepCases
     DEF CouncilKeepsLedgers, BankActs, BeforeLedgers, AnybodyReveals, MemberShares,
         BidderProvesStatus, AuthorityAwards, OthersStand, WinnerIsNamed

\* Only the scenario of the beginning is played.
LEMMA ScenarioStands == [Next]_vars => scenario' = scenario
<1> SUFFICES ASSUME [Next]_vars PROVE scenario' = scenario
  OBVIOUS
<1> QED
  BY StepCases
     DEF pipelineVars, CouncilKeepsLedgers, BankActs, BidderBids, AnybodyReveals, MemberShares,
         BidderProvesStatus, AuthorityAwards, OthersStand, WinnerIsNamed

\* What a longer bid set has in common with the one before.
LEMMA AppendedBid ==
    ASSUME NEW s \in Seq(Bids), NEW b \in Bids
    PROVE  /\ Append(s, b) \in Seq(Bids)
           /\ Len(Append(s, b)) = Len(s) + 1 /\ Len(s) \in Nat
           /\ DOMAIN s = 1 .. Len(s) /\ DOMAIN Append(s, b) = 1 .. Len(s) + 1
           /\ \A i \in DOMAIN s : Append(s, b)[i] = s[i]
           /\ Append(s, b)[Len(s) + 1] = b
OBVIOUS

\* The bid accepted is told apart from the others by the two lists of what is used.
LEMMA AcceptedIsDistinct ==
    ASSUME BidsTyped, BidsDistinctAndBound, NEW c, NEW t \in Tenders, NEW b, Accepts(c, t, b)
    PROVE  BidsDistinctAndBound'
<1> SUFFICES ASSUME NEW u \in Tenders
             PROVE  /\ Len(bids'[u]) <= MaxBids
                    /\ \A i, j \in DOMAIN bids'[u] : i # j =>
                         /\ bids'[u][i].nullifier # bids'[u][j].nullifier
                         /\ bids'[u][i].ciphertext # bids'[u][j].ciphertext
                    /\ nullifierUsed'[u] = {bids'[u][i].nullifier : i \in DOMAIN bids'[u]}
                    /\ ciphertextUsed'[u] = {bids'[u][i].ciphertext : i \in DOMAIN bids'[u]}
                    /\ \A i \in DOMAIN bids'[u] :
                         bids'[u][i].commitment.nullifier = bids'[u][i].nullifier
  BY DEF BidsDistinctAndBound
<1>1. CASE u # t
  <2>1. /\ bids'[u] = bids[u] /\ nullifierUsed'[u] = nullifierUsed[u]
        /\ ciphertextUsed'[u] = ciphertextUsed[u]
    BY <1>1 DEF Accepts, BidsTyped
  <2> QED
    BY <2>1 DEF BidsDistinctAndBound
<1>2. CASE u = t
  <2> DEFINE s == bids[t]
             n == Len(s) + 1
             I == DOMAIN s
  <2>1. s \in Seq(Bids) /\ b \in Bids /\ bids'[t] = Append(s, b)
    BY DEF Accepts, BidsTyped
  <2>2. /\ Len(Append(s, b)) = n /\ Len(s) \in Nat /\ Len(s) < MaxBids
        /\ DOMAIN Append(s, b) = I \cup {n} /\ n \notin I
        /\ \A i \in I : Append(s, b)[i] = s[i]
        /\ Append(s, b)[n] = b
    BY <2>1, AppendedBid DEF Accepts, SubmissionCount
  <2>3. /\ \A i, j \in I : i # j => s[i].nullifier # s[j].nullifier
                                    /\ s[i].ciphertext # s[j].ciphertext
        /\ nullifierUsed[t] = {s[i].nullifier : i \in I}
        /\ ciphertextUsed[t] = {s[i].ciphertext : i \in I}
        /\ \A i \in I : s[i].commitment.nullifier = s[i].nullifier
    BY DEF BidsDistinctAndBound
  <2>4. /\ nullifierUsed'[t] = nullifierUsed[t] \cup {b.nullifier}
        /\ ciphertextUsed'[t] = ciphertextUsed[t] \cup {b.ciphertext}
        /\ b.nullifier \notin nullifierUsed[t] /\ b.ciphertext \notin ciphertextUsed[t]
        /\ b.commitment.nullifier = b.nullifier
    BY DEF Accepts, BidsTyped
  <2> HIDE DEF s, n, I
  <2>5. /\ \A i \in I : bids'[t][i] = s[i]
        /\ bids'[t][n] = b /\ DOMAIN bids'[t] = I \cup {n}
    BY <2>1, <2>2
  <2>6. \A i, j \in DOMAIN bids'[t] : i # j =>
          /\ bids'[t][i].nullifier # bids'[t][j].nullifier
          /\ bids'[t][i].ciphertext # bids'[t][j].ciphertext
    BY <2>3, <2>4, <2>5
  <2>7. nullifierUsed'[t] = {bids'[t][i].nullifier : i \in DOMAIN bids'[t]}
    BY <2>3, <2>4, <2>5
  <2>8. ciphertextUsed'[t] = {bids'[t][i].ciphertext : i \in DOMAIN bids'[t]}
    BY <2>3, <2>4, <2>5
  <2>9. \A i \in DOMAIN bids'[t] : bids'[t][i].commitment.nullifier = bids'[t][i].nullifier
    BY <2>3, <2>4, <2>5
  <2>10. Len(bids'[t]) <= MaxBids
    BY <2>1, <2>2, SealedBidAssumption DEF n
  <2> QED
    BY <1>2, <2>6, <2>7, <2>8, <2>9, <2>10
<1> QED
  BY <1>1, <1>2

\* The invariant of the sealed bids is kept by every step of the pipeline.
LEMMA NextKeepsSealed == SealedInv /\ [Next]_vars => SealedInv'
<1> SUFFICES ASSUME SealedInv, [Next]_vars PROVE SealedInv'
  OBVIOUS
<1>1. scenario' \in Scenarios
  BY ScenarioStands DEF SealedInv
<1>2. CASE UNCHANGED sealedOnlyVars
  BY <1>1, <1>2
     DEF SealedInv, sealedOnlyVars, replicaVars, bidVars, ReplicasCounted, ActiveReplicas,
         BidsTyped, OwnEligibility, BidsDistinctAndBound
<1>3. ASSUME NEW c, ReplicaStep(c), UNCHANGED <<bidVars, eligibilityProof>>
      PROVE  SealedInv'
  <2>1. ReplicasCounted'
    BY <1>3, ReplicaStepCounts DEF SealedInv
  <2> QED
    BY <1>1, <1>3, <2>1
       DEF SealedInv, bidVars, BidsTyped, OwnEligibility, BidsDistinctAndBound
<1>4. ASSUME NEW c \in Credentials, NEW t \in Tenders, NEW amount \in scenario.amounts,
             ProveEligibility(c, t, amount)
      PROVE  SealedInv'
  <2>1. amount \in Amounts
    <3>1. scenario \in ScenarioRecords
      BY FairProofAssumption DEF SealedInv
    <3> QED
      BY <3>1 DEF ScenarioRecords
  <2> DEFINE s == ExpectedPublicSignals(t, Nullifier(c, t), BidCommitment(c, t, amount))
  <2>2. /\ s.tender = t /\ s.nullifier = Nullifier(c, t)
        /\ s.commitment = BidCommitment(c, t, amount)
    BY DEF ExpectedPublicSignals
  <2>3. /\ eligibilityProof' = [eligibilityProof EXCEPT ![c] = s]
        /\ UNCHANGED <<replicaVars, bidVars>>
    BY <1>4 DEF ProveEligibility
  <2> HIDE DEF s
  <2>4. OwnEligibility'
    <3> SUFFICES ASSUME NEW d \in Credentials, eligibilityProof'[d] # NoProof
                 PROVE  \E u \in Tenders, a \in Amounts :
                          /\ eligibilityProof'[d].tender = u
                          /\ eligibilityProof'[d].nullifier = Nullifier(d, u)
                          /\ eligibilityProof'[d].commitment = BidCommitment(d, u, a)
      BY DEF OwnEligibility
    <3>1. CASE d = c
      <4>1. eligibilityProof'[d] = s
        BY <2>3, <3>1 DEF SealedInv, BidsTyped
      <4> QED
        BY <2>1, <2>2, <3>1, <4>1
    <3>2. CASE d # c
      <4>1. eligibilityProof'[d] = eligibilityProof[d]
        BY <2>3, <3>2 DEF SealedInv, BidsTyped
      <4> QED
        BY <4>1 DEF SealedInv, OwnEligibility
    <3> QED
      BY <3>1, <3>2
  <2> QED
    BY <1>1, <2>3, <2>4
       DEF SealedInv, replicaVars, bidVars, ReplicasCounted, ActiveReplicas, BidsTyped,
           BidsDistinctAndBound
<1>5. ASSUME NEW c \in Credentials, NEW t \in Tenders, NEW b, Accepts(c, t, b)
      PROVE  SealedInv'
  <2>1. BidsDistinctAndBound'
    BY <1>5, AcceptedIsDistinct DEF SealedInv
  <2>2. b.nullifier \in Nullifiers /\ b.ciphertext \in Ciphertexts
    BY <1>5 DEF Accepts, Bids
  <2>3. Append(bids[t], b) \in Seq(Bids)
    BY <1>5, AppendedBid DEF SealedInv, BidsTyped, Accepts
  <2>4. BidsTyped'
    BY <1>5, <2>2, <2>3 DEF SealedInv, BidsTyped, Accepts
  <2> QED
    BY <1>1, <1>5, <2>1, <2>4
       DEF SealedInv, Accepts, replicaVars, ReplicasCounted, ActiveReplicas, OwnEligibility
<1> QED
  BY <1>2, <1>3, <1>4, <1>5, SealedCases

-----------------------------------------------------------------------------
(* A pinned tender stands still.                                           *)

\* After the close no bid comes in, no rule changes and the root stays.
LEMMA PinnedStandsStill ==
    ASSUME TenderInv, SealedInv, [Next]_vars, NEW t \in Tenders, deadlineRootPinned[t]
    PROVE  /\ deadlineRootPinned'[t] /\ now' >= fields'[t].deadline
           /\ deadlineRevocationRoot'[t] = deadlineRevocationRoot[t]
           /\ fields'[t] = fields[t]
           /\ committee'[t] = committee[t]
           /\ bids'[t] = bids[t]
<1>1. [TenderNext]_tenderVars
  BY StepOfRegistry
<1>2. TenderInv'
  BY <1>1, NextPreservesTenderInv
<1>3. /\ state[t] \in {"CLOSED", "CANCELLED"}
      /\ deadlineRevocationRoot[t] # NoRoot
  BY DEF TenderInv, PinnedIffClosed
<1>4. deadlineRevocationRoot'[t] = deadlineRevocationRoot[t]
  BY <1>1, StepMovesForward DEF MovesForward
<1>5. deadlineRootPinned'[t] /\ now' >= fields'[t].deadline
  BY <1>2, <1>3, <1>4 DEF TenderInv, PinnedIffClosed
<1>6. fields'[t] = fields[t] /\ committee'[t] = committee[t]
  BY <1>1, <1>3, PastDraftKeepsRules DEF RulesKept
<1>7. bids'[t] = bids[t]
  <2>1. ASSUME NEW c \in Credentials, NEW u \in Tenders, NEW b, Accepts(c, u, b)
        PROVE  bids'[t] = bids[t]
    <3>1. u # t
      BY <1>3, <2>1 DEF Accepts, IsBiddingOpen
    <3> QED
      BY <2>1, <3>1 DEF Accepts, SealedInv, BidsTyped
  <2>2. CASE UNCHANGED bidVars
    BY <2>2 DEF bidVars
  <2>3. UNCHANGED sealedOnlyVars => UNCHANGED bidVars
    BY DEF sealedOnlyVars
  <2>4. ASSUME NEW c, NEW u, NEW amount, ProveEligibility(c, u, amount)
        PROVE  UNCHANGED bidVars
    BY <2>4 DEF ProveEligibility
  <2> QED
    BY <2>1, <2>2, <2>3, <2>4, SealedCases
<1> QED
  BY <1>4, <1>5, <1>6, <1>7

-----------------------------------------------------------------------------
(* The opening and the award.                                              *)

\* Somebody acted on the closed tender.
Touched(t) ==
    \/ revealed[t] # {} \/ proven[t] # {} \/ award[t] # NoAward
    \/ \E i \in BidIndices : shares[t][i] # {}

\* The parts of the properties, tender by tender.
SealedAt(t) ==
    /\ Touched(t) => deadlineRootPinned[t]
    /\ \A i \in BidIndices : shares[t][i] # {} => i \in revealed[t]
    /\ revealed[t] \cup proven[t] \subseteq DOMAIN bids[t]
    /\ \A i \in revealed[t] : bids[t][i].ciphertext.wellFormed

StandingAt(t) ==
    /\ \A i \in proven[t] : Bidder(t, i) \notin deadlineRevocationRoot[t]
    /\ award[t] # NoAward =>
         /\ award[t].index \in proven[t]
         /\ award[t].price = IF fields[t].disclosurePolicy = DISCLOSE_WINNING_PRICE
                             THEN award[t].winner.amount ELSE 0

LowestAt(t) ==
    \A j \in DOMAIN bids[t] :
        \/ award[t].winner.amount < Price(t, j)
        \/ award[t].winner.amount = Price(t, j) /\ award[t].index <= j

CompleteAt(t) ==
    award[t] # NoAward =>
        /\ award[t].bidSetRoot = BidSetRoot(t)
        /\ award[t].count = Len(bids[t])
        /\ award[t].winner = bids[t][award[t].index].commitment
        /\ LowestAt(t)
        /\ \A j \in DOMAIN bids[t] :
             /\ Cardinality(shares[t][j]) >= OPENING_THRESHOLD
             /\ bids[t][j].ciphertext = [commitment |-> bids[t][j].commitment,
                                        wellFormed |-> TRUE]

\* A status proof kept off-chain is of its maker, and not against a root that bars it.
OwnStanding ==
    \A c \in Credentials : statusProof[c] # NoProof =>
        /\ \E t \in Tenders : statusProof[c].nullifier = Nullifier(c, t)
        /\ c \notin statusProof[c].revocationRoot

OpenedInv ==
    /\ OpeningTypeOK
    /\ AwardTypeOK
    /\ OwnStanding
    /\ \A t \in Tenders : SealedAt(t) /\ StandingAt(t) /\ CompleteAt(t)

\* Nothing is opened at the beginning.
LEMMA OpenedAtDeployment == Init => OpenedInv
<1> SUFFICES ASSUME Init PROVE OpenedInv
  OBVIOUS
<1>1. OpeningInit /\ AwardInit
  BY DEF Init
<1>2. OpeningTypeOK /\ AwardTypeOK /\ OwnStanding
  BY <1>1 DEF OpeningInit, AwardInit, OpeningTypeOK, AwardTypeOK, OwnStanding
<1>3. \A t \in Tenders : ~Touched(t)
  BY <1>1 DEF OpeningInit, AwardInit, Touched
<1> QED
  BY <1>1, <1>2, <1>3
     DEF OpeningInit, AwardInit, OpenedInv, SealedAt, StandingAt, CompleteAt, Touched

\* A tender nobody acts on keeps what was said of it: either it is pinned and stands
\* still, or there is nothing to say.
LEMMA NothingOpens ==
    ASSUME TenderInv, SealedInv, OpenedInv, [Next]_vars, NEW t \in Tenders,
           revealed'[t] = revealed[t], shares'[t] = shares[t], proven'[t] = proven[t],
           award'[t] = award[t]
    PROVE  (SealedAt(t) /\ StandingAt(t) /\ CompleteAt(t))'
<1>1. SealedAt(t) /\ StandingAt(t) /\ CompleteAt(t)
  BY DEF OpenedInv
<1>2. Touched(t)' = Touched(t)
  BY DEF Touched
<1>3. CASE Touched(t)
  <2>1. /\ deadlineRootPinned'[t]
        /\ deadlineRevocationRoot'[t] = deadlineRevocationRoot[t]
        /\ fields'[t] = fields[t] /\ bids'[t] = bids[t]
    BY <1>1, <1>3, PinnedStandsStill DEF SealedAt
  <2>2. BidSetRoot(t)' = BidSetRoot(t)
    BY <2>1 DEF BidSetRoot, Leaf
  <2>3. LowestAt(t)' <=> LowestAt(t)
    BY <2>1 DEF LowestAt, Price
  <2>4. SealedAt(t)'
    BY <1>1, <2>1 DEF SealedAt
  <2>5. StandingAt(t)'
    BY <1>1, <2>1 DEF StandingAt, Bidder
  <2>6. CompleteAt(t)'
    BY <1>1, <2>1, <2>2, <2>3 DEF CompleteAt
  <2> QED
    BY <2>4, <2>5, <2>6
<1>4. CASE ~Touched(t)
  BY <1>2, <1>4 DEF SealedAt, StandingAt, CompleteAt, Touched
<1> QED
  BY <1>3, <1>4

\* Shares are of at most five members.
LEMMA MembersFinite ==
    ASSUME NEW S \in SUBSET MemberIndices
    PROVE  IsFiniteSet(S) /\ Cardinality(S) \in Nat
<1>1. 1 \in Int /\ 5 \in Int
  OBVIOUS
<1>2. IsFiniteSet(1 .. 5)
  BY <1>1, FS_Interval, Zenon
<1>3. IsFiniteSet(S)
  BY <1>2, FS_Subset DEF MemberIndices
<1> QED
  BY <1>3, FS_CardinalityType

\* revealCiphertext.
LEMMA RevealKeepsOpened ==
    ASSUME TenderInv, SealedInv, OpenedInv, [Next]_vars,
           NEW t \in Tenders, NEW i \in BidIndices, RevealCiphertext(t, i),
           UNCHANGED <<tenderVars, sealedOnlyVars, awardVars>>
    PROVE  OpenedInv'
<1>1. /\ state[t] = "CLOSED" /\ i \in DOMAIN bids[t] /\ bids[t][i].ciphertext.wellFormed
      /\ revealed' = [revealed EXCEPT ![t] = @ \cup {i}] /\ shares' = shares
      /\ UNCHANGED <<statusProof, proven, award>>
  BY DEF RevealCiphertext, OnlyClosed, awardVars
<1>2. bids' = bids /\ fields' = fields
      /\ UNCHANGED <<deadlineRootPinned, deadlineRevocationRoot>>
  BY DEF sealedOnlyVars, bidVars, tenderVars, tenderOnlyVars, ruleVars, issuerVars, pinVars
<1>3. deadlineRootPinned[t]
  BY <1>1 DEF TenderInv, PinnedIffClosed
<1>4. OpeningTypeOK' /\ AwardTypeOK' /\ OwnStanding'
  BY <1>1 DEF OpenedInv, OpeningTypeOK, AwardTypeOK, OwnStanding
<1>5. ASSUME NEW u \in Tenders PROVE (SealedAt(u) /\ StandingAt(u) /\ CompleteAt(u))'
  <2>1. CASE u # t
    <3>1. revealed'[u] = revealed[u]
      BY <1>1, <2>1 DEF OpenedInv, OpeningTypeOK
    <3> QED
      BY <1>1, <3>1, NothingOpens
  <2>2. CASE u = t
    <3>1. revealed'[t] = revealed[t] \cup {i}
      BY <1>1 DEF OpenedInv, OpeningTypeOK
    <3>2. SealedAt(t)'
      BY <1>1, <1>2, <1>3, <3>1 DEF OpenedInv, SealedAt
    <3>3. StandingAt(t)'
      BY <1>1, <1>2 DEF OpenedInv, StandingAt, Bidder
    <3>4. CompleteAt(t)'
      BY <1>1, <1>2 DEF OpenedInv, CompleteAt, LowestAt, Price, BidSetRoot, Leaf
    <3> QED
      BY <2>2, <3>2, <3>3, <3>4
  <2> QED
    BY <2>1, <2>2
<1> QED
  BY <1>4, <1>5 DEF OpenedInv

\* submitDecryptionShare: what was ready stays ready.
LEMMA ShareKeepsOpened ==
    ASSUME TenderInv, SealedInv, OpenedInv, [Next]_vars,
           NEW t \in Tenders, NEW i \in BidIndices, NEW m \in MemberIndices, NEW account,
           SubmitDecryptionShare(account, t, i, m),
           UNCHANGED <<tenderVars, sealedOnlyVars, awardVars>>
    PROVE  OpenedInv'
<1>1. /\ state[t] = "CLOSED" /\ i \in revealed[t]
      /\ shares' = [shares EXCEPT ![t][i] = @ \cup {m}] /\ revealed' = revealed
      /\ UNCHANGED <<statusProof, proven, award>>
  BY DEF SubmitDecryptionShare, OnlyClosed, awardVars
<1>2. bids' = bids /\ fields' = fields
      /\ UNCHANGED <<deadlineRootPinned, deadlineRevocationRoot>>
  BY DEF sealedOnlyVars, bidVars, tenderVars, tenderOnlyVars, ruleVars, issuerVars, pinVars
<1>3. deadlineRootPinned[t]
  BY <1>1 DEF TenderInv, PinnedIffClosed
<1>4. shares \in [Tenders -> [BidIndices -> SUBSET MemberIndices]]
  BY DEF OpenedInv, OpeningTypeOK
<1>5. shares' \in [Tenders -> [BidIndices -> SUBSET MemberIndices]]
  BY <1>1, <1>4
<1>6. OpeningTypeOK' /\ AwardTypeOK' /\ OwnStanding'
  BY <1>1, <1>5 DEF OpenedInv, OpeningTypeOK, AwardTypeOK, OwnStanding
<1>7. ASSUME NEW u \in Tenders PROVE (SealedAt(u) /\ StandingAt(u) /\ CompleteAt(u))'
  <2>1. CASE u # t
    <3>1. shares'[u] = shares[u]
      BY <1>1, <1>4, <2>1
    <3> QED
      BY <1>1, <3>1, NothingOpens
  <2>2. CASE u = t
    <3>1. \A j \in BidIndices : shares'[t][j] = IF j = i THEN shares[t][i] \cup {m} ELSE shares[t][j]
      BY <1>1, <1>4
    <3>2. SealedAt(t)'
      BY <1>1, <1>2, <1>3, <3>1 DEF OpenedInv, SealedAt
    <3>3. StandingAt(t)'
      BY <1>1, <1>2 DEF OpenedInv, StandingAt, Bidder
    <3>4. \A j \in DOMAIN bids[t] : j \in BidIndices
      BY AppendedBid, SealedBidAssumption
         DEF SealedInv, BidsTyped, BidsDistinctAndBound, BidIndices
    <3>5. ASSUME NEW j \in DOMAIN bids[t], Cardinality(shares[t][j]) >= OPENING_THRESHOLD
          PROVE  Cardinality(shares'[t][j]) >= OPENING_THRESHOLD
      <4>1. shares[t][j] \in SUBSET MemberIndices /\ shares'[t][j] \in SUBSET MemberIndices
            /\ shares[t][j] \subseteq shares'[t][j]
        BY <1>4, <1>5, <3>1, <3>4
      <4>2. Cardinality(shares[t][j]) <= Cardinality(shares'[t][j])
        BY <4>1, MembersFinite, FS_Subset
      <4>3. Cardinality(shares[t][j]) \in Nat /\ Cardinality(shares'[t][j]) \in Nat
        BY <4>1, MembersFinite
      <4> QED
        BY <3>5, <4>2, <4>3 DEF OPENING_THRESHOLD
    <3>6. CompleteAt(t)'
      BY <1>1, <1>2, <3>5 DEF OpenedInv, CompleteAt, LowestAt, Price, BidSetRoot, Leaf
    <3> QED
      BY <2>2, <3>2, <3>3, <3>6
  <2> QED
    BY <2>1, <2>2
<1> QED
  BY <1>6, <1>7 DEF OpenedInv

\* ProveStatus: off-chain only, by a bidder the pinned root does not bar.
LEMMA ProvingKeepsOpened ==
    ASSUME TenderInv, SealedInv, OpenedInv, [Next]_vars,
           NEW c \in Credentials, NEW t \in Tenders, NEW i \in BidIndices, ProveStatus(c, t, i),
           UNCHANGED openingVars
    PROVE  OpenedInv'
<1> DEFINE s == ExpectedDeadlineStatusSignals(t, bids[t][i].nullifier, bids[t][i].commitment)
<1>1. /\ statusProof' = [statusProof EXCEPT ![c] = s]
      /\ Provable(c, s)
      /\ UNCHANGED <<proven, award, revealed, shares>>
  BY DEF ProveStatus, openingVars
<1>2. s.tender = t
  BY DEF ExpectedDeadlineStatusSignals, ExpectedPublicSignals
<1>3. s.nullifier = Nullifier(c, t) /\ c \notin s.revocationRoot
  BY <1>1, <1>2 DEF Provable
<1> HIDE DEF s
<1>4. OwnStanding'
  BY <1>1, <1>3 DEF OpenedInv, AwardTypeOK, OwnStanding
<1>5. OpeningTypeOK' /\ AwardTypeOK'
  BY <1>1 DEF OpenedInv, OpeningTypeOK, AwardTypeOK
<1>6. \A u \in Tenders : (SealedAt(u) /\ StandingAt(u) /\ CompleteAt(u))'
  BY <1>1, NothingOpens
<1> QED
  BY <1>4, <1>5, <1>6 DEF OpenedInv

\* submitStatusProof: the proof is of the bidder of bid i and against the pinned root.
LEMMA StatusKeepsOpened ==
    ASSUME TenderInv, SealedInv, OpenedInv, [Next]_vars,
           NEW c \in Credentials, NEW t \in Tenders, NEW i \in BidIndices,
           SubmitStatusProof(c, t, i),
           UNCHANGED <<tenderVars, sealedOnlyVars, openingVars>>
    PROVE  OpenedInv'
<1>1. /\ state[t] = "CLOSED" /\ i \in DOMAIN bids[t] /\ statusProof[c] # NoProof
      /\ statusProof[c] =
           ExpectedDeadlineStatusSignals(t, bids[t][i].nullifier, bids[t][i].commitment)
      /\ proven' = [proven EXCEPT ![t] = @ \cup {i}]
      /\ UNCHANGED <<statusProof, award, revealed, shares>>
  BY DEF SubmitStatusProof, OnlyClosed, Verifies, openingVars
<1>2. bids' = bids /\ fields' = fields
      /\ UNCHANGED <<deadlineRootPinned, deadlineRevocationRoot>>
  BY DEF sealedOnlyVars, bidVars, tenderVars, tenderOnlyVars, ruleVars, issuerVars, pinVars
<1>3. deadlineRootPinned[t]
  BY <1>1 DEF TenderInv, PinnedIffClosed
<1>4. /\ statusProof[c].nullifier = bids[t][i].nullifier
      /\ statusProof[c].revocationRoot = deadlineRevocationRoot[t]
  BY <1>1 DEF ExpectedDeadlineStatusSignals, ExpectedPublicSignals
<1>5. Bidder(t, i) \notin deadlineRevocationRoot[t]
  <2>1. PICK u \in Tenders : statusProof[c].nullifier = Nullifier(c, u)
    BY <1>1 DEF OpenedInv, OwnStanding
  <2>2. c \notin statusProof[c].revocationRoot
    BY <1>1 DEF OpenedInv, OwnStanding
  <2> QED
    BY <1>4, <2>1, <2>2 DEF Bidder, Nullifier
<1>6. OpeningTypeOK' /\ AwardTypeOK' /\ OwnStanding'
  BY <1>1 DEF OpenedInv, OpeningTypeOK, AwardTypeOK, OwnStanding
<1>7. ASSUME NEW u \in Tenders PROVE (SealedAt(u) /\ StandingAt(u) /\ CompleteAt(u))'
  <2>1. CASE u # t
    <3>1. proven'[u] = proven[u]
      BY <1>1, <2>1 DEF OpenedInv, AwardTypeOK
    <3> QED
      BY <1>1, <3>1, NothingOpens
  <2>2. CASE u = t
    <3>1. proven'[t] = proven[t] \cup {i}
      BY <1>1 DEF OpenedInv, AwardTypeOK
    <3>2. SealedAt(t)'
      BY <1>1, <1>2, <1>3, <3>1 DEF OpenedInv, SealedAt
    <3>3. StandingAt(t)'
      BY <1>1, <1>2, <1>5, <3>1 DEF OpenedInv, StandingAt, Bidder
    <3>4. CompleteAt(t)'
      BY <1>1, <1>2 DEF OpenedInv, CompleteAt, LowestAt, Price, BidSetRoot, Leaf
    <3> QED
      BY <2>2, <3>2, <3>3, <3>4
  <2> QED
    BY <2>1, <2>2
<1> QED
  BY <1>6, <1>7 DEF OpenedInv

\* A bid that is ready and opens to its commitment is the body its bidder meant.
LEMMA OpenedBodyIsWhole ==
    ASSUME SealedInv, OpenedInv, NEW t \in Tenders, NEW j \in DOMAIN bids[t], Opens(t, j)
    PROVE  /\ Cardinality(shares[t][j]) >= OPENING_THRESHOLD
           /\ bids[t][j].ciphertext = [commitment |-> bids[t][j].commitment, wellFormed |-> TRUE]
<1>1. /\ Cardinality(shares[t][j]) >= OPENING_THRESHOLD
      /\ bids[t][j].ciphertext.commitment = bids[t][j].commitment
  BY DEF Opens, Ready
<1>2. j \in BidIndices /\ bids[t][j] \in Bids
  BY AppendedBid, SealedBidAssumption DEF SealedInv, BidsTyped, BidsDistinctAndBound, BidIndices
<1>3. shares[t][j] # {}
  <2>1. Cardinality({}) = 0
    BY FS_EmptySet
  <2> QED
    BY <1>1, <2>1 DEF OPENING_THRESHOLD
<1>4. bids[t][j].ciphertext.wellFormed
  BY <1>2, <1>3 DEF OpenedInv, SealedAt
<1>5. bids[t][j].ciphertext \in [commitment : Commitments, wellFormed : BOOLEAN]
  BY <1>2, SealedBidAssumption DEF Bids
<1> QED
  BY <1>1, <1>4, <1>5

\* recordAward, over the complete set.
LEMMA AwardKeepsOpened ==
    ASSUME TenderInv, SealedInv, OpenedInv, [Next]_vars,
           NEW c, NEW t \in Tenders, NEW i \in DOMAIN bids[t], NEW price,
           RecordAward(c, t, i, price),
           UNCHANGED <<tenderVars, sealedOnlyVars, openingVars>>
    PROVE  OpenedInv'
<1> DEFINE record ==
      [winner |-> bids[t][i].commitment, price |-> price,
       bidSetRoot |-> BidSetRoot(t), count |-> SubmissionCount(t), index |-> i]
<1>1. /\ state[t] = "CLOSED" /\ i \in proven[t]
      /\ \A j \in DOMAIN bids[t] : Opens(t, j)
      /\ Lowest(t, i)
      /\ price = IF fields[t].disclosurePolicy = DISCLOSE_WINNING_PRICE
                 THEN Price(t, i) ELSE 0
      /\ award' = [award EXCEPT ![t] = record]
      /\ UNCHANGED <<statusProof, proven, revealed, shares>>
  BY DEF RecordAward, OnlyClosed, WinnerProven, AwardProvable, openingVars
<1>2. bids' = bids /\ fields' = fields
      /\ UNCHANGED <<deadlineRootPinned, deadlineRevocationRoot>>
  BY DEF sealedOnlyVars, bidVars, tenderVars, tenderOnlyVars, ruleVars, issuerVars, pinVars
<1>3. deadlineRootPinned[t]
  BY <1>1 DEF TenderInv, PinnedIffClosed
<1>4. OpeningTypeOK' /\ AwardTypeOK' /\ OwnStanding'
  BY <1>1 DEF OpenedInv, OpeningTypeOK, AwardTypeOK, OwnStanding
<1>5. ASSUME NEW u \in Tenders PROVE (SealedAt(u) /\ StandingAt(u) /\ CompleteAt(u))'
  <2>1. CASE u # t
    <3>1. award'[u] = award[u]
      BY <1>1, <2>1 DEF OpenedInv, AwardTypeOK
    <3> QED
      BY <1>1, <3>1, NothingOpens
  <2>2. CASE u = t
    <3>1. award'[t] = record
      BY <1>1 DEF OpenedInv, AwardTypeOK
    <3>2. /\ record.winner = bids[t][i].commitment /\ record.price = price
          /\ record.bidSetRoot = BidSetRoot(t) /\ record.count = Len(bids[t])
          /\ record.index = i
      BY DEF SubmissionCount
    <3> HIDE DEF record
    <3>3. SealedAt(t)'
      BY <1>1, <1>2, <1>3 DEF OpenedInv, SealedAt
    <3>4. StandingAt(t)'
      BY <1>1, <1>2, <3>1, <3>2 DEF OpenedInv, StandingAt, Bidder, Price
    <3>5. ASSUME NEW j \in DOMAIN bids[t]
          PROVE  \/ record.winner.amount < Price(t, j)
                 \/ record.winner.amount = Price(t, j) /\ record.index <= j
      <4>1. bids[t][i] \in Bids /\ bids[t][j] \in Bids
        BY AppendedBid DEF SealedInv, BidsTyped
      <4>2. Price(t, i) \in Nat /\ Price(t, j) \in Nat
        BY <4>1, EligibilityAssumption DEF Bids, Commitments, Price
      <4>3. i \in Nat /\ j \in Nat
        BY AppendedBid DEF SealedInv, BidsTyped
      <4>4. Price(t, j) > Price(t, i) \/ (Price(t, j) = Price(t, i) /\ j >= i)
        BY <1>1 DEF Lowest
      <4>5. record.winner.amount = Price(t, i) /\ record.index = i
        BY <3>2 DEF Price
      <4> QED
        BY <4>2, <4>3, <4>4, <4>5
    <3>6. LowestAt(t)'
      BY <1>2, <3>1, <3>5 DEF LowestAt, Price
    <3>7. BidSetRoot(t)' = BidSetRoot(t)
      BY <1>2 DEF BidSetRoot, Leaf
    <3>8. CompleteAt(t)'
      BY <1>1, <1>2, <3>1, <3>2, <3>6, <3>7, OpenedBodyIsWhole DEF CompleteAt
    <3> QED
      BY <2>2, <3>3, <3>4, <3>8
  <2> QED
    BY <2>1, <2>2
<1> QED
  BY <1>4, <1>5 DEF OpenedInv

\* What the steps of the pipeline do to the opening and the award.
LEMMA OpeningCases ==
    ASSUME [Next]_vars
    PROVE  \/ UNCHANGED <<openingVars, awardVars>>
           \/ /\ \E t \in Tenders, i \in BidIndices : RevealCiphertext(t, i)
              /\ UNCHANGED <<tenderVars, sealedOnlyVars, awardVars>>
           \/ /\ \E t \in Tenders, i \in BidIndices, m \in MemberIndices : \E account :
                   SubmitDecryptionShare(account, t, i, m)
              /\ UNCHANGED <<tenderVars, sealedOnlyVars, awardVars>>
           \/ /\ \E c \in Credentials, t \in Tenders, i \in BidIndices :
                   ProveStatus(c, t, i) \/ SubmitStatusProof(c, t, i)
              /\ UNCHANGED <<tenderVars, sealedOnlyVars, openingVars>>
           \/ /\ \E c \in Authorities, t \in Tenders : \E i \in DOMAIN bids[t], price \in Prices :
                   RecordAward(c, t, i, price)
              /\ UNCHANGED <<tenderVars, sealedOnlyVars, openingVars>>
<1>1. UNCHANGED pipelineVars => UNCHANGED <<openingVars, awardVars>>
  BY DEF pipelineVars
<1>2. ASSUME NEW c \in Council, CouncilKeepsLedgers(c) PROVE UNCHANGED <<openingVars, awardVars>>
  BY <1>2 DEF CouncilKeepsLedgers, BeforeLedgers
<1>3. ASSUME NEW a \in Adapters, NEW t \in Tenders, BankActs(a, t)
      PROVE  UNCHANGED <<openingVars, awardVars>>
  BY <1>3 DEF BankActs, BeforeLedgers
<1>4. ASSUME NEW c \in Credentials, NEW t \in Tenders, BidderBids(c, t) \/ WinnerIsNamed(c, t)
      PROVE  UNCHANGED <<openingVars, awardVars>>
  BY <1>4 DEF BidderBids, WinnerIsNamed
<1>5. ASSUME NEW t \in Tenders, NEW i \in BidIndices, AnybodyReveals(t, i)
      PROVE  RevealCiphertext(t, i) /\ UNCHANGED <<tenderVars, sealedOnlyVars, awardVars>>
  BY <1>5 DEF AnybodyReveals
<1>6. ASSUME NEW t \in Tenders, NEW i \in BidIndices, NEW m \in MemberIndices,
             MemberShares(t, i, m)
      PROVE  /\ \E account : SubmitDecryptionShare(account, t, i, m)
             /\ UNCHANGED <<tenderVars, sealedOnlyVars, awardVars>>
  BY <1>6 DEF MemberShares
<1>7. ASSUME NEW c \in Credentials, NEW t \in Tenders, NEW i \in BidIndices,
             BidderProvesStatus(c, t, i)
      PROVE  /\ ProveStatus(c, t, i) \/ SubmitStatusProof(c, t, i)
             /\ UNCHANGED <<tenderVars, sealedOnlyVars, openingVars>>
  BY <1>7 DEF BidderProvesStatus, OthersStand
<1>8. ASSUME NEW c \in Authorities, NEW t \in Tenders, AuthorityAwards(c, t)
      PROVE  /\ \E i \in DOMAIN bids[t], price \in Prices : RecordAward(c, t, i, price)
             /\ UNCHANGED <<tenderVars, sealedOnlyVars, openingVars>>
  BY <1>8 DEF AuthorityAwards, OthersStand
<1> QED
  BY <1>1, <1>2, <1>3, <1>4, <1>5, <1>6, <1>7, <1>8, StepCases

\* The invariant of the opening and the award is kept by every step.
LEMMA NextKeepsOpened ==
    TenderInv /\ SealedInv /\ OpenedInv /\ [Next]_vars => OpenedInv'
<1> SUFFICES ASSUME TenderInv, SealedInv, OpenedInv, [Next]_vars PROVE OpenedInv'
  OBVIOUS
<1>1. CASE UNCHANGED <<openingVars, awardVars>>
  <2>1. UNCHANGED <<revealed, shares, statusProof, proven, award>>
    BY <1>1 DEF openingVars, awardVars
  <2>2. OpeningTypeOK' /\ AwardTypeOK' /\ OwnStanding'
    BY <2>1 DEF OpenedInv, OpeningTypeOK, AwardTypeOK, OwnStanding
  <2>3. \A t \in Tenders : (SealedAt(t) /\ StandingAt(t) /\ CompleteAt(t))'
    BY <2>1, NothingOpens
  <2> QED
    BY <2>2, <2>3 DEF OpenedInv
<1> QED
  BY <1>1, OpeningCases, RevealKeepsOpened, ShareKeepsOpened, ProvingKeepsOpened,
     StatusKeepsOpened, AwardKeepsOpened

-----------------------------------------------------------------------------
(* The name of the winner.                                                 *)

\* An identity proof kept off-chain is of its maker, whose issuer is in its root.
OwnIdentity ==
    \A c \in Credentials : identityProof[c] # NoProof =>
        /\ identityProof[c].nullifier = Nullifier(c, identityProof[c].tender)
        /\ identityProof[c].identity[1] = c
        /\ Attested[c].issuer \in identityProof[c].issuerRoot

NamedInv == IdentityTypeOK /\ OwnIdentity

\* What a step that names somebody has made sure of.
NamesWinner(t) ==
    /\ identity[t] = NoIdentity /\ award[t] # NoAward
    /\ identity'[t].credential = Bidder(t, award[t].index)
    /\ Attested[identity'[t].credential].issuer \in issuerRegistryRoot[fields[t].issuerEpoch]

\* What a submission does: for the tender named and for the others.
LEMMA SubmissionNames ==
    ASSUME NamedInv, NEW c \in Credentials, NEW t \in Tenders, NEW record \in Records,
           identityProof[c] # NoProof, SubmitIdentityProof(t, identityProof[c], c, record)
    PROVE  /\ NamedInv' /\ NamesWinner(t)
           /\ identity'[t] \in Identities
           /\ identity' = [identity EXCEPT ![t] = identity'[t]]
<1> DEFINE signals == ExpectedIdentitySignals(t, c, record)
<1>1. /\ award[t] # NoAward /\ identity[t] = NoIdentity
      /\ identityProof[c] = signals
      /\ identity' = [identity EXCEPT ![t] = [credential |-> c, record |-> record]]
      /\ identityProof' = identityProof
  BY DEF SubmitIdentityProof, NotYetProven, IdentityVerifies
<1>2. identity \in [Tenders -> Identities \cup {NoIdentity}]
  BY DEF NamedInv, IdentityTypeOK
<1>3. [credential |-> c, record |-> record] \in Identities
  BY DEF Identities
<1>4. /\ identity'[t] = [credential |-> c, record |-> record]
      /\ identity' \in [Tenders -> Identities \cup {NoIdentity}]
  BY <1>1, <1>2, <1>3
<1>5. /\ signals.tender = t /\ signals.nullifier = bids[t][award[t].index].nullifier
      /\ signals.issuerRoot = issuerRegistryRoot[fields[t].issuerEpoch]
  BY DEF ExpectedIdentitySignals
<1> HIDE DEF signals
<1>6. /\ bids[t][award[t].index].nullifier = Nullifier(c, t)
      /\ Attested[c].issuer \in issuerRegistryRoot[fields[t].issuerEpoch]
  BY <1>1, <1>5 DEF NamedInv, OwnIdentity
<1>7. NamesWinner(t)
  BY <1>1, <1>4, <1>6 DEF NamesWinner, Bidder, Nullifier
<1>8. NamedInv'
  BY <1>1, <1>4 DEF NamedInv, IdentityTypeOK, OwnIdentity
<1> QED
  BY <1>1, <1>3, <1>4, <1>7, <1>8

\* A proof is made for oneself.
LEMMA ProvingNames ==
    ASSUME NamedInv, NEW c \in Credentials, NEW t \in Tenders, NEW record \in Records,
           ProveIdentity(c, t, record)
    PROVE  NamedInv' /\ identity' = identity
<1> DEFINE signals == ExpectedIdentitySignals(t, c, record)
<1>1. /\ identityProof' = [identityProof EXCEPT ![c] = signals] /\ identity' = identity
      /\ IdentityProvable(c, signals)
  BY DEF ProveIdentity
<1>2. signals.nullifier = Nullifier(c, signals.tender) /\ signals.identity[1] = c
      /\ Attested[c].issuer \in signals.issuerRoot
  BY <1>1 DEF IdentityProvable
<1> HIDE DEF signals
<1> QED
  BY <1>1, <1>2 DEF NamedInv, IdentityTypeOK, OwnIdentity

\* What the steps of the pipeline do to the names.
LEMMA NamingCases ==
    ASSUME NamedInv, [Next]_vars
    PROVE  /\ NamedInv'
           /\ \/ identity' = identity
              \/ /\ UNCHANGED <<tenderVars, sealedOnlyVars, openingVars, awardVars>>
                 /\ \E t \in Tenders : /\ NamesWinner(t) /\ identity'[t] \in Identities
                                       /\ identity' = [identity EXCEPT ![t] = identity'[t]]
<1>1. CASE UNCHANGED identityVars
  BY <1>1 DEF identityVars, NamedInv, IdentityTypeOK, OwnIdentity
<1>2. ASSUME NEW c \in Credentials, NEW t \in Tenders, WinnerIsNamed(c, t)
      PROVE  /\ NamedInv'
             /\ \/ identity' = identity
                \/ /\ UNCHANGED <<tenderVars, sealedOnlyVars, openingVars, awardVars>>
                   /\ \E u \in Tenders : /\ NamesWinner(u) /\ identity'[u] \in Identities
                                         /\ identity' = [identity EXCEPT ![u] = identity'[u]]
  BY <1>2, SubmissionNames, ProvingNames DEF WinnerIsNamed
<1>3. UNCHANGED pipelineVars => UNCHANGED identityVars
  BY DEF pipelineVars
<1> QED
  BY <1>1, <1>2, <1>3, StepCases
     DEF CouncilKeepsLedgers, BankActs, BeforeLedgers, BidderBids, AnybodyReveals, MemberShares,
         BidderProvesStatus, AuthorityAwards, OthersStand

-----------------------------------------------------------------------------
(* Guarantees and checkpoints.                                             *)

\* The accepted bids behind which there is a bond, and nothing else has one.
Bonded(t) == {i \in DOMAIN bids[t] : bonds[t][bids[t][i].nullifier] # NoBond}

BondsCounted(t) ==
    /\ postedCount[t] = Cardinality(Bonded(t))
    /\ \A n \in Nullifiers : bonds[t][n] # NoBond => n \in nullifierUsed[t]

LedgerInv ==
    /\ BondTypeOK
    /\ \A t \in Tenders : BondsCounted(t)
    /\ CheckpointTypeOK
    /\ OneStatePerBlock

\* A tender has finitely many bids, so its bonds can be counted.
LEMMA BondedFinite ==
    ASSUME SealedInv, NEW t \in Tenders, NEW S \in SUBSET DOMAIN bids[t]
    PROVE  /\ IsFiniteSet(S) /\ Cardinality(S) \in Nat
           /\ Cardinality(S) <= SubmissionCount(t)
<1>1. bids[t] \in Seq(Bids)
  BY DEF SealedInv, BidsTyped
<1>2. DOMAIN bids[t] = 1 .. Len(bids[t]) /\ Len(bids[t]) \in Nat
  BY <1>1, AppendedBid
<1>3. IsFiniteSet(1 .. Len(bids[t])) /\ Cardinality(1 .. Len(bids[t])) = Len(bids[t])
  <2>1. 1 \in Int /\ Len(bids[t]) \in Int
    BY <1>2
  <2>2. /\ IsFiniteSet(1 .. Len(bids[t]))
        /\ Cardinality(1 .. Len(bids[t])) = IF 1 > Len(bids[t]) THEN 0 ELSE Len(bids[t]) - 1 + 1
    BY <2>1, FS_Interval, Zenon
  <2> QED
    BY <1>2, <2>2
<1>4. IsFiniteSet(S) /\ Cardinality(S) <= Len(bids[t])
  BY <1>2, <1>3, FS_Subset
<1> QED
  BY <1>4, FS_CardinalityType DEF SubmissionCount

\* The three ways a bond can stand add up to the bonds there are.
LEMMA BooksBalance == SealedInv /\ LedgerInv => BondBooksBalance
<1> SUFFICES ASSUME SealedInv, LedgerInv, NEW t \in Tenders
             PROVE  /\ postedCount[t] = Cardinality(WithStatus(t, "POSTED"))
                                      + Cardinality(WithStatus(t, "RELEASED"))
                                      + Cardinality(WithStatus(t, "FORFEITED"))
                    /\ postedCount[t] <= SubmissionCount(t)
  BY DEF BondBooksBalance
<1> DEFINE P == WithStatus(t, "POSTED")
           R == WithStatus(t, "RELEASED")
           F == WithStatus(t, "FORFEITED")
<1>1. P \subseteq DOMAIN bids[t] /\ R \subseteq DOMAIN bids[t] /\ F \subseteq DOMAIN bids[t]
  BY DEF WithStatus
<1>2. \A i \in DOMAIN bids[t] :
        bonds[t][bids[t][i].nullifier] \in BondRecords \cup {NoBond}
  <2>1. bids[t] \in Seq(Bids)
    BY DEF SealedInv, BidsTyped
  <2>2. \A i \in DOMAIN bids[t] : bids[t][i] \in Bids
    BY <2>1
  <2>3. \A i \in DOMAIN bids[t] : bids[t][i].nullifier \in Nullifiers
    BY <2>2 DEF Bids
  <2> QED
    BY <2>3 DEF LedgerInv, BondTypeOK
<1>3. Bonded(t) = (P \cup R) \cup F /\ P \cap R = {} /\ (P \cup R) \cap F = {}
  BY <1>2 DEF Bonded, WithStatus, BondRecords
<1> HIDE DEF P, R, F
<1>4. /\ IsFiniteSet(P) /\ Cardinality(P) \in Nat
      /\ IsFiniteSet(R) /\ Cardinality(R) \in Nat
      /\ IsFiniteSet(F) /\ Cardinality(F) \in Nat
      /\ IsFiniteSet(P \cup R)
  BY <1>1, BondedFinite
<1>5. Cardinality(P \cap R) = 0 /\ Cardinality((P \cup R) \cap F) = 0
  BY <1>3, FS_EmptySet
<1>6. Cardinality(P \cup R) = Cardinality(P) + Cardinality(R) - Cardinality(P \cap R)
  BY <1>4, FS_Union
<1>7. Cardinality((P \cup R) \cup F) =
        Cardinality(P \cup R) + Cardinality(F) - Cardinality((P \cup R) \cap F)
  BY <1>4, FS_Union
<1>8. Cardinality(Bonded(t)) = Cardinality(P) + Cardinality(R) + Cardinality(F)
  BY <1>3, <1>4, <1>5, <1>6, <1>7
<1>9. Cardinality(Bonded(t)) <= SubmissionCount(t)
  BY BondedFinite DEF Bonded
<1> QED
  BY <1>8, <1>9 DEF LedgerInv, BondsCounted, P, R, F

\* No bond, no bid and no checkpoint at the beginning.
LEMMA LedgersAtDeployment == Init => LedgerInv
<1> SUFFICES ASSUME Init PROVE LedgerInv
  OBVIOUS
<1>1. ReplicasRegistered /\ BondInit /\ CheckpointInit
  BY DEF Init
<1>2. BondTypeOK
  BY <1>1 DEF BondInit, BondTypeOK
<1>3. ASSUME NEW t \in Tenders PROVE BondsCounted(t)
  <2>1. Bonded(t) = {} /\ \A n \in Nullifiers : bonds[t][n] = NoBond
    BY <1>1 DEF ReplicasRegistered, BondInit, Bonded
  <2>2. postedCount[t] = 0
    BY <1>1 DEF BondInit
  <2> QED
    BY <2>1, <2>2, FS_EmptySet DEF BondsCounted
<1>4. CheckpointTypeOK /\ OneStatePerBlock
  BY <1>1 DEF CheckpointInit, CheckpointTypeOK, OneStatePerBlock
<1> QED
  BY <1>2, <1>3, <1>4 DEF LedgerInv

\* A bond once there stays what it is, and once settled it stays altogether.
BondsStand ==
    \A t \in Tenders, n \in Nullifiers : bonds[t][n] # NoBond =>
        /\ bonds'[t][n].guaranteeRef = bonds[t][n].guaranteeRef
        /\ bonds'[t][n].postedBy = bonds[t][n].postedBy
        /\ bonds[t][n].status # "POSTED" => bonds'[t][n] = bonds[t][n]

\* postBond: one bond more, behind one bid more.
LEMMA PostKeepsBonds ==
    ASSUME SealedInv, BondTypeOK, \A u \in Tenders : BondsCounted(u),
           NEW a \in Adapters, NEW t \in Tenders, NEW n \in Nullifiers, NEW ref \in GuaranteeRefs,
           PostBond(a, t, n, ref), UNCHANGED <<bids, nullifierUsed>>
    PROVE  BondTypeOK' /\ (\A u \in Tenders : BondsCounted(u)') /\ BondsStand
<1> DEFINE bond == [status |-> "POSTED", guaranteeRef |-> ref, postedBy |-> a, settledBy |-> NoBond]
<1>1. /\ n \in nullifierUsed[t] /\ bonds[t][n] = NoBond
      /\ bonds' = [bonds EXCEPT ![t][n] = bond]
      /\ postedCount' = [postedCount EXCEPT ![t] = @ + 1]
      /\ isBankAdapter' = isBankAdapter
  BY DEF PostBond, NullifierKnown
<1>2. bond \in BondRecords
  BY DEF BondRecords
<1> HIDE DEF bond
<1>3. bond # NoBond
  BY <1>2, BondAssumption
<1>4. /\ bonds \in [Tenders -> [Nullifiers -> BondRecords \cup {NoBond}]]
      /\ postedCount \in [Tenders -> Nat]
  BY DEF BondTypeOK
<1>5. \A u \in Tenders, m \in Nullifiers :
        bonds'[u][m] = IF u = t /\ m = n THEN bond ELSE bonds[u][m]
  BY <1>1, <1>4
<1>6. BondTypeOK'
  <2>1. bonds' \in [Tenders -> [Nullifiers -> BondRecords \cup {NoBond}]]
    BY <1>1, <1>2, <1>4
  <2>2. postedCount' \in [Tenders -> Nat]
    BY <1>1, <1>4
  <2> QED
    BY <1>1, <2>1, <2>2 DEF BondTypeOK
<1>7. ASSUME NEW u \in Tenders PROVE \A i \in DOMAIN bids[u] : bids[u][i].nullifier \in Nullifiers
  <2>1. bids[u] \in Seq(Bids)
    BY DEF SealedInv, BidsTyped
  <2>2. \A i \in DOMAIN bids[u] : bids[u][i] \in Bids
    BY <2>1
  <2> QED
    BY <2>2 DEF Bids
<1>8. ASSUME NEW u \in Tenders PROVE BondsCounted(u)'
  <2>1. CASE u # t
    <3>1. Bonded(u)' = Bonded(u)
      BY <1>5, <1>7, <2>1 DEF Bonded
    <3>2. postedCount'[u] = postedCount[u]
      BY <1>1, <1>4, <2>1
    <3> QED
      BY <1>5, <2>1, <3>1, <3>2 DEF BondsCounted
  <2>2. CASE u = t
    <3>1. PICK i \in DOMAIN bids[t] : n = bids[t][i].nullifier
      BY <1>1 DEF SealedInv, BidsDistinctAndBound
    <3>2. \A j \in DOMAIN bids[t] : bids[t][j].nullifier = n => j = i
      BY <3>1 DEF SealedInv, BidsDistinctAndBound
    <3>3. Bonded(t)' = Bonded(t) \cup {i} /\ i \notin Bonded(t)
      BY <1>1, <1>3, <1>5, <1>7, <3>1, <3>2 DEF Bonded
    <3>4. IsFiniteSet(Bonded(t)) /\ Cardinality(Bonded(t)) \in Nat
      BY BondedFinite DEF Bonded
    <3>5. Cardinality(Bonded(t)') = Cardinality(Bonded(t)) + 1
      BY <3>3, <3>4, FS_AddElement
    <3>6. postedCount'[t] = postedCount[t] + 1
      BY <1>1, <1>4
    <3> QED
      BY <1>1, <1>5, <2>2, <3>5, <3>6 DEF BondsCounted
  <2> QED
    BY <2>1, <2>2
<1>9. BondsStand
  BY <1>1, <1>5 DEF BondsStand
<1> QED
  BY <1>6, <1>8, <1>9

\* settleBond: the bond stays the same bond.
LEMMA SettleKeepsBonds ==
    ASSUME SealedInv, BondTypeOK, \A u \in Tenders : BondsCounted(u),
           NEW a \in Adapters, NEW t \in Tenders, NEW n \in Nullifiers, NEW released \in BOOLEAN,
           SettleBond(a, t, n, released), UNCHANGED <<bids, nullifierUsed>>
    PROVE  BondTypeOK' /\ (\A u \in Tenders : BondsCounted(u)') /\ BondsStand
<1> DEFINE settled == [bonds[t][n] EXCEPT !.status = IF released THEN "RELEASED" ELSE "FORFEITED",
                                          !.settledBy = a]
<1>1. /\ bonds[t][n] # NoBond /\ bonds[t][n].status = "POSTED"
      /\ bonds' = [bonds EXCEPT ![t][n] = settled]
      /\ UNCHANGED <<isBankAdapter, postedCount>>
  BY DEF SettleBond, AwaitsSettlement
<1>2. /\ bonds \in [Tenders -> [Nullifiers -> BondRecords \cup {NoBond}]]
      /\ postedCount \in [Tenders -> Nat]
  BY DEF BondTypeOK
<1>3. bonds[t][n] \in BondRecords
  BY <1>1, <1>2
<1>4. /\ settled \in BondRecords
      /\ settled.guaranteeRef = bonds[t][n].guaranteeRef
      /\ settled.postedBy = bonds[t][n].postedBy
  BY <1>3 DEF BondRecords
<1> HIDE DEF settled
<1>5. settled # NoBond
  BY <1>4, BondAssumption
<1>6. \A u \in Tenders, m \in Nullifiers :
        bonds'[u][m] = IF u = t /\ m = n THEN settled ELSE bonds[u][m]
  BY <1>1, <1>2
<1>7. BondTypeOK'
  BY <1>1, <1>2, <1>4 DEF BondTypeOK
<1>8. ASSUME NEW u \in Tenders PROVE BondsCounted(u)'
  <2>1. \A i \in DOMAIN bids[u] : bids[u][i].nullifier \in Nullifiers
    <3>1. bids[u] \in Seq(Bids)
      BY DEF SealedInv, BidsTyped
    <3>2. \A i \in DOMAIN bids[u] : bids[u][i] \in Bids
      BY <3>1
    <3> QED
      BY <3>2 DEF Bids
  <2>2. Bonded(u)' = Bonded(u)
    BY <1>1, <1>5, <1>6, <2>1 DEF Bonded
  <2> QED
    BY <1>1, <1>6, <2>2 DEF BondsCounted
<1>9. BondsStand
  BY <1>1, <1>4, <1>6 DEF BondsStand
<1> QED
  BY <1>7, <1>8, <1>9

\* A bid more has no bond yet: bonds are of nullifiers in use.
LEMMA AcceptKeepsBonds ==
    ASSUME SealedInv, BondTypeOK, \A u \in Tenders : BondsCounted(u),
           NEW c \in Credentials, NEW t \in Tenders, NEW b, Accepts(c, t, b)
    PROVE  BondTypeOK' /\ (\A u \in Tenders : BondsCounted(u)')
<1>1. UNCHANGED <<isBankAdapter, bonds, postedCount>>
  BY DEF Accepts, ledgerVars, bondVars
<1>2. BondTypeOK'
  BY <1>1 DEF BondTypeOK
<1>3. ASSUME NEW u \in Tenders PROVE BondsCounted(u)'
  <2>1. CASE u # t
    <3>1. bids'[u] = bids[u] /\ nullifierUsed'[u] = nullifierUsed[u]
      BY <2>1 DEF Accepts, SealedInv, BidsTyped
    <3> QED
      BY <1>1, <3>1 DEF BondsCounted, Bonded
  <2>2. CASE u = t
    <3> DEFINE s == bids[t]
               k == Len(s) + 1
    <3>1. s \in Seq(Bids) /\ b \in Bids /\ bids'[t] = Append(s, b)
      BY DEF Accepts, SealedInv, BidsTyped
    <3>2. /\ DOMAIN bids'[t] = DOMAIN s \cup {k}
          /\ \A i \in DOMAIN s : bids'[t][i] = s[i]
          /\ bids'[t][k] = b
      BY <3>1, AppendedBid
    <3>3. bonds[t][b.nullifier] = NoBond
      <4>1. b.nullifier \in Nullifiers /\ b.nullifier \notin nullifierUsed[t]
        BY <3>1 DEF Bids, Accepts
      <4> QED
        BY <4>1 DEF BondsCounted
    <3> HIDE DEF k
    <3>4. Bonded(t)' = Bonded(t)
      BY <1>1, <3>2, <3>3 DEF Bonded
    <3>5. nullifierUsed[t] \subseteq nullifierUsed'[t]
      BY DEF Accepts, SealedInv, BidsTyped
    <3> QED
      BY <1>1, <2>2, <3>4, <3>5 DEF BondsCounted
  <2> QED
    BY <2>1, <2>2
<1> QED
  BY <1>2, <1>3

\* recordCheckpoint and recordExternalAnchor.
LEMMA CheckpointStepAdvances ==
    ASSUME CheckpointTypeOK, OneStatePerBlock, NEW c \in Council, CheckpointStep(c)
    PROVE  CheckpointTypeOK' /\ OneStatePerBlock'
<1> DEFINE C == [block : 1 .. MaxBlock, stateRoot : StateRoots, recordedBy : Council,
                 anchored : BOOLEAN]
<1>0. checkpoints \in Seq(C)
  BY DEF CheckpointTypeOK
<1>1. ASSUME NEW block \in 1 .. MaxBlock, NEW root \in StateRoots, RecordCheckpoint(c, block, root)
      PROVE  CheckpointTypeOK' /\ OneStatePerBlock'
  <2> DEFINE new == [block |-> block, stateRoot |-> root, recordedBy |-> c, anchored |-> FALSE]
             k == Len(checkpoints) + 1
  <2>1. checkpoints' = Append(checkpoints, new) /\ Advances(block)
    BY <1>1 DEF RecordCheckpoint
  <2>2. new \in C /\ new.block = block
    OBVIOUS
  <2> HIDE DEF new, C
  <2>3. /\ checkpoints' \in Seq(C) /\ Len(checkpoints) \in Nat
        /\ DOMAIN checkpoints = 1 .. Len(checkpoints) /\ DOMAIN checkpoints' = 1 .. k
        /\ \A i \in DOMAIN checkpoints : checkpoints'[i] = checkpoints[i]
        /\ checkpoints'[k] = new
    BY <1>0, <2>1, <2>2
  <2>4. \A i \in DOMAIN checkpoints : checkpoints[i] \in C
    BY <1>0
  <2>5. \A i \in DOMAIN checkpoints : checkpoints[i].block \in Nat
    BY <2>4 DEF C
  <2>6. \A i \in DOMAIN checkpoints : checkpoints[i].block < block
    <3> SUFFICES ASSUME NEW i \in DOMAIN checkpoints PROVE checkpoints[i].block < block
      OBVIOUS
    <3>1. checkpoints # << >> /\ Len(checkpoints) \in DOMAIN checkpoints
      BY <2>3
    <3>2. checkpoints[Len(checkpoints)].block < block
      BY <2>1, <3>1 DEF Advances
    <3>3. i = Len(checkpoints) \/ checkpoints[i].block < checkpoints[Len(checkpoints)].block
      BY <2>3, <3>1 DEF OneStatePerBlock
    <3> QED
      BY <2>5, <3>1, <3>2, <3>3
  <2>7. OneStatePerBlock'
    <3> SUFFICES ASSUME NEW i \in DOMAIN checkpoints', NEW j \in DOMAIN checkpoints', i < j
                 PROVE  checkpoints'[i].block < checkpoints'[j].block
      BY DEF OneStatePerBlock
    <3>1. i \in DOMAIN checkpoints
      BY <2>3
    <3>2. CASE j = k
      BY <2>2, <2>3, <2>6, <3>1, <3>2
    <3>3. CASE j # k
      BY <2>3, <3>1, <3>3 DEF OneStatePerBlock
    <3> QED
      BY <3>2, <3>3
  <2> QED
    BY <2>3, <2>7 DEF CheckpointTypeOK, C
<1>2. ASSUME NEW i \in DOMAIN checkpoints, RecordExternalAnchor(c, i)
      PROVE  CheckpointTypeOK' /\ OneStatePerBlock'
  <2> DEFINE marked == [checkpoints[i] EXCEPT !.anchored = TRUE]
  <2>1. checkpoints' = [checkpoints EXCEPT ![i] = marked]
    BY <1>2 DEF RecordExternalAnchor
  <2>2. checkpoints[i] \in C
    <3> HIDE DEF C
    <3> QED
      BY <1>0
  <2>3. marked \in C /\ marked.block = checkpoints[i].block
    BY <2>2
  <2> HIDE DEF marked, C
  <2>4. checkpoints' \in Seq(C) /\ DOMAIN checkpoints' = DOMAIN checkpoints
    BY <1>0, <2>1, <2>3
  <2>5. \A j \in DOMAIN checkpoints : checkpoints'[j].block = checkpoints[j].block
    BY <1>0, <2>1, <2>3
  <2> QED
    BY <2>4, <2>5 DEF CheckpointTypeOK, OneStatePerBlock, C
<1> QED
  BY <1>1, <1>2 DEF CheckpointStep

\* Only the banks and the council write the ledgers.
LEMMA LedgerCases ==
    ASSUME [Next]_vars
    PROVE  \/ UNCHANGED ledgerVars
           \/ \E c \in Council : CouncilKeepsLedgers(c)
           \/ \E a \in Adapters, t \in Tenders : BankActs(a, t)
<1>1. UNCHANGED pipelineVars => UNCHANGED ledgerVars
  BY DEF pipelineVars
<1> QED
  BY <1>1, StepCases
     DEF BidderBids, AnybodyReveals, MemberShares, BidderProvesStatus, AuthorityAwards,
         OthersStand, WinnerIsNamed

\* Whatever the step, the books stay balanced and the bonds stay what they are.
LEMMA NextKeepsLedgers ==
    SealedInv /\ LedgerInv /\ [Next]_vars => LedgerInv' /\ BondsStand
<1> SUFFICES ASSUME SealedInv, LedgerInv, [Next]_vars PROVE LedgerInv' /\ BondsStand
  OBVIOUS
<1>0. /\ BondTypeOK /\ (\A t \in Tenders : BondsCounted(t))
      /\ CheckpointTypeOK /\ OneStatePerBlock
  BY DEF LedgerInv
<1>1. CASE UNCHANGED ledgerVars
  <2>1. UNCHANGED <<isBankAdapter, bonds, postedCount, checkpoints>>
    BY <1>1 DEF ledgerVars, bondVars
  <2>2. BondTypeOK' /\ CheckpointTypeOK' /\ OneStatePerBlock' /\ BondsStand
    BY <1>0, <2>1 DEF BondTypeOK, CheckpointTypeOK, OneStatePerBlock, BondsStand
  <2>3. CASE UNCHANGED <<bids, nullifierUsed>>
    BY <1>0, <2>1, <2>2, <2>3 DEF LedgerInv, BondsCounted, Bonded
  <2>4. ASSUME NEW c \in Credentials, NEW t \in Tenders, NEW b, Accepts(c, t, b)
        PROVE  LedgerInv'
    BY <1>0, <2>2, <2>4, AcceptKeepsBonds DEF LedgerInv
  <2>5. \/ UNCHANGED <<bids, nullifierUsed>>
        \/ \E c \in Credentials, t \in Tenders : \E b : Accepts(c, t, b)
    BY SealedCases DEF sealedOnlyVars, bidVars, ProveEligibility
  <2> QED
    BY <2>2, <2>3, <2>4, <2>5
<1>2. ASSUME NEW c \in Council, CouncilKeepsLedgers(c) PROVE LedgerInv' /\ BondsStand
  <2>1. UNCHANGED <<bids, nullifierUsed>>
    BY <1>2 DEF CouncilKeepsLedgers, BeforeLedgers, sealedOnlyVars, bidVars
  <2>2. ASSUME NEW a \in Adapters, NEW allowed \in BOOLEAN, SetBankAdapter(c, a, allowed),
               UNCHANGED checkpoints
        PROVE  LedgerInv' /\ BondsStand
    <3>1. isBankAdapter' \subseteq Adapters /\ UNCHANGED <<bonds, postedCount>>
      BY <1>0, <2>2 DEF SetBankAdapter, BondTypeOK
    <3> QED
      BY <1>0, <2>1, <2>2, <3>1
         DEF LedgerInv, BondTypeOK, BondsCounted, Bonded, CheckpointTypeOK, OneStatePerBlock,
             BondsStand
  <2>3. CASE CheckpointStep(c) /\ UNCHANGED bondVars
    <3>1. CheckpointTypeOK' /\ OneStatePerBlock'
      BY <1>0, <2>3, CheckpointStepAdvances
    <3> QED
      BY <1>0, <2>1, <2>3, <3>1
         DEF LedgerInv, bondVars, BondTypeOK, BondsCounted, Bonded, BondsStand
  <2> QED
    BY <1>2, <2>2, <2>3 DEF CouncilKeepsLedgers
<1>3. ASSUME NEW a \in Adapters, NEW t \in Tenders, BankActs(a, t) PROVE LedgerInv' /\ BondsStand
  <2>1. UNCHANGED <<bids, nullifierUsed, checkpoints>>
    BY <1>3 DEF BankActs, BeforeLedgers, sealedOnlyVars, bidVars
  <2>2. PICK n \in Nullifiers : BankStep(a, t, n)
    BY <1>3 DEF BankActs
  <2>3. BondTypeOK' /\ (\A u \in Tenders : BondsCounted(u)') /\ BondsStand
    BY <1>0, <2>1, <2>2, PostKeepsBonds, SettleKeepsBonds DEF BankStep
  <2> QED
    BY <1>0, <2>1, <2>3 DEF LedgerInv, CheckpointTypeOK, OneStatePerBlock
<1> QED
  BY <1>1, <1>2, <1>3, LedgerCases

-----------------------------------------------------------------------------
(* The invariant of the whole pipeline.                                    *)

PipelineInv ==
    /\ TenderInv
    /\ SealedInv
    /\ OpenedInv
    /\ NamedInv
    /\ LedgerInv

\* Each part is kept with the help of the parts before it.
LEMMA PipelineStep == PipelineInv /\ [Next]_vars => PipelineInv'
BY StepOfRegistry, NextPreservesTenderInv, NextKeepsSealed, NextKeepsOpened, NamingCases,
   NextKeepsLedgers
   DEF PipelineInv

\* The deployment satisfies all of them.
LEMMA PipelineAtDeployment == Init => PipelineInv
<1>1. Init => NamedInv
  BY DEF Init, IdentityInit, NamedInv, IdentityTypeOK, OwnIdentity
<1> QED
  BY <1>1, DeploymentGood, SealedAtDeployment, OpenedAtDeployment, LedgersAtDeployment
     DEF PipelineInv

\* What every state of every behaviour satisfies: the registry's own invariant, the
\* bid set, the opening and the award over it, the names and the ledgers.
THEOREM PipelineInvariant == Spec => []PipelineInv
BY PipelineAtDeployment, PipelineStep, PTL DEF Spec

\* Every variable of every contract keeps its type, and the tally of replicas is right.
THEOREM PipelineTyped == Spec => []TypeOK
<1>1. PipelineInv => TypeOK
  BY SealedInvTyped DEF PipelineInv, TenderInv, SealedInv, OpenedInv, NamedInv, LedgerInv, TypeOK
<1> QED
  BY <1>1, PipelineInvariant, PTL

\* Nothing is opened before the close, which is not before the deadline.
THEOREM NothingOpensEarly == Spec => []SealedUntilClose
<1>1. PipelineInv => SealedUntilClose
  BY DEF PipelineInv, OpenedInv, SealedAt, Touched, TenderInv, PinnedIffClosed, SealedUntilClose
<1> QED
  BY <1>1, PipelineInvariant, PTL

\* One bid per credential and per body, all of them marked, none over the capacity.
THEOREM BidsStayDistinct == Spec => []BidsDistinctAndBound
<1>1. PipelineInv => BidsDistinctAndBound
  BY DEF PipelineInv, SealedInv
<1> QED
  BY <1>1, PipelineInvariant, PTL

\* Nobody whom the pinned root bars is proven or awarded, whatever the live root does.
THEOREM WinnersInStanding == Spec => []WinnerInStanding
<1>1. PipelineInv => WinnerInStanding
  BY DEF PipelineInv, OpenedInv, StandingAt, WinnerInStanding
<1> QED
  BY <1>1, PipelineInvariant, PTL

\* An award is over the complete and final bid set, whatever was read and when.
THEOREM AwardsOverCompleteSet == Spec => []AwardOverCompleteSet
<1>1. PipelineInv => AwardOverCompleteSet
  BY DEF PipelineInv, OpenedInv, CompleteAt, LowestAt, AwardOverCompleteSet
<1> QED
  BY <1>1, PipelineInvariant, PTL

\* The counter of bonds agrees with the walk over the bid set.
THEOREM BooksAlwaysBalance == Spec => []BondBooksBalance
<1>1. PipelineInv => BondBooksBalance
  BY BooksBalance DEF PipelineInv
<1> QED
  BY <1>1, PipelineInvariant, PTL

\* No two checkpoints speak of one block, through any number of council members.
THEOREM CheckpointsAdvance == Spec => []OneStatePerBlock
<1>1. PipelineInv => OneStatePerBlock
  BY DEF PipelineInv, LedgerInv
<1> QED
  BY <1>1, PipelineInvariant, PTL

-----------------------------------------------------------------------------
(* What a step of the pipeline may never do.                               *)

\* A settled bond stays settled as it was, and the guarantee behind it is not rewritten.
THEOREM BondsSettledForGood == Spec => SettledForGood
<1>1. PipelineInv /\ [Next]_vars =>
        [\A t \in Tenders, n \in Nullifiers : bonds[t][n] # NoBond =>
           /\ bonds'[t][n].guaranteeRef = bonds[t][n].guaranteeRef
           /\ bonds'[t][n].postedBy = bonds[t][n].postedBy
           /\ bonds[t][n].status # "POSTED" => bonds'[t][n] = bonds[t][n]]_bondVars
  BY NextKeepsLedgers DEF PipelineInv, BondsStand
<1> QED
  BY <1>1, PipelineInvariant, PTL DEF Spec, SettledForGood

\* The bid that comes in, comes in at the end, in the window, behind two active replicas.
LEMMA StepGrowsInWindow ==
    ASSUME SealedInv, [Next]_vars, NEW t \in Tenders, bids'[t] # bids[t]
    PROVE  /\ \E b \in Bids : bids'[t] = Append(bids[t], b)
           /\ ~paused /\ state[t] = "ACTIVE"
           /\ fields[t].biddingStart <= now /\ now < fields[t].deadline
           /\ LET R == bids'[t][Len(bids'[t])].receipts IN
                Cardinality({r \in R : replicas[r].active}) >= STORAGE_QUORUM
<1>1. PICK c \in Credentials, u \in Tenders : \E b : Accepts(c, u, b)
  BY SealedCases DEF sealedOnlyVars, bidVars, ProveEligibility
<1>2. PICK b : Accepts(c, u, b)
  BY <1>1
<1>3. u = t /\ bids'[t] = Append(bids[t], b) /\ b \in Bids /\ bids[t] \in Seq(Bids)
  BY <1>2 DEF Accepts, SealedInv, BidsTyped
<1>4. ~paused /\ IsBiddingOpen(t) /\ ReceiptsValid(b.receipts)
  BY <1>2, <1>3 DEF Accepts
<1>5. bids'[t][Len(bids'[t])] = b
  <2> HIDE DEF Bids
  <2> QED
    BY <1>3, AppendedBid
<1>6. {r \in b.receipts : replicas[r].active} = b.receipts
  BY <1>4 DEF ReceiptsValid
<1> QED
  BY <1>3, <1>4, <1>5, <1>6 DEF IsBiddingOpen, ReceiptsValid

\* The bid set is append-only, whatever the council does to pauses and replicas.
THEOREM BidSetAppendOnly == Spec => BidSetGrowsInWindow
<1>1. PipelineInv /\ [Next]_vars =>
        [\A t \in Tenders : bids'[t] # bids[t] =>
           /\ \E b \in Bids : bids'[t] = Append(bids[t], b)
           /\ ~paused /\ state[t] = "ACTIVE"
           /\ fields[t].biddingStart <= now /\ now < fields[t].deadline
           /\ LET R == bids'[t][Len(bids'[t])].receipts IN
                Cardinality({r \in R : replicas[r].active}) >= STORAGE_QUORUM]_vars
  BY StepGrowsInWindow DEF PipelineInv
<1> QED
  BY <1>1, PipelineInvariant, PTL DEF Spec, BidSetGrowsInWindow

\* Only the winner is named, once, and while its issuer is attested by the live root.
THEOREM NamedOnce == Spec => NamedOnceWhileAttested
<1>1. PipelineInv /\ [Next]_vars =>
        [\A t \in Tenders : identity'[t] # identity[t] =>
           /\ identity[t] = NoIdentity
           /\ identity'[t].credential = Bidder(t, award[t].index)
           /\ Attested[identity'[t].credential].issuer
                \in issuerRegistryRoot[fields[t].issuerEpoch]]_vars
  <2> SUFFICES ASSUME PipelineInv, [Next]_vars, NEW t \in Tenders, identity'[t] # identity[t]
               PROVE  NamesWinner(t)
    BY DEF NamesWinner
  <2>1. PICK u \in Tenders : NamesWinner(u) /\ identity' = [identity EXCEPT ![u] = identity'[u]]
    BY NamingCases DEF PipelineInv
  <2>2. u = t
    BY <2>1 DEF PipelineInv, NamedInv, IdentityTypeOK
  <2> QED
    BY <2>1, <2>2
<1> QED
  BY <1>1, PipelineInvariant, PTL DEF Spec, NamedOnceWhileAttested

-----------------------------------------------------------------------------
(* The pipeline implements the procurement it promises: every step of the  *)
(* contracts, the bidders and the council is one step of Procurement or    *)
(* none at all, seen through the mapping of FairProof's Promised.          *)

\* What the mapping shows of one tender.
PhaseAt(t) == IF activatedAt[t] = 0 THEN "planned"
              ELSE IF deadlineRootPinned[t] THEN "closed" ELSE "open"
CancelledAt(t) == state[t] = "CANCELLED"
AcceptedAt(t) == [i \in DOMAIN bids[t] |-> [bidder |-> Bidder(t, i), amount |-> Price(t, i)]]
BarredAt(t) == IF deadlineRootPinned[t] THEN deadlineRevocationRoot[t] ELSE {}
WinnerAt(t) == IF award[t] = NoAward THEN 0 ELSE award[t].index
NamedAt(t) == IF identity[t] = NoIdentity THEN NoIdentity ELSE identity[t].credential

\* The bids of a tender are made for that tender.
OwnNullifiers == \A t \in Tenders : \A i \in DOMAIN bids[t] : bids[t][i].nullifier[2] = t

PromiseInv == PipelineInv /\ OwnNullifiers

LEMMA NextKeepsPromiseInv == PromiseInv /\ [Next]_vars => PromiseInv'
<1> SUFFICES ASSUME PromiseInv, [Next]_vars PROVE PromiseInv'
  OBVIOUS
<1>1. PipelineInv'
  BY PipelineStep DEF PromiseInv
<1>2. CASE bids' = bids
  BY <1>1, <1>2 DEF PromiseInv, OwnNullifiers
<1>3. ASSUME NEW c \in Credentials, NEW t \in Tenders, NEW b, Accepts(c, t, b)
      PROVE  OwnNullifiers'
  <2> SUFFICES ASSUME NEW u \in Tenders, NEW i \in DOMAIN bids'[u]
               PROVE  bids'[u][i].nullifier[2] = u
    BY DEF OwnNullifiers
  <2>1. b \in Bids /\ b.nullifier = Nullifier(c, t) /\ bids' = [bids EXCEPT ![t] = Append(@, b)]
        /\ bids \in [Tenders -> Seq(Bids)]
    BY <1>3 DEF Accepts, PromiseInv, PipelineInv, SealedInv, BidsTyped
  <2>2. b.nullifier[2] = t
    BY <2>1 DEF Nullifier
  <2> HIDE DEF Bids
  <2>3. CASE u = t
    BY <2>1, <2>2, <2>3, AppendedBid DEF PromiseInv, OwnNullifiers
  <2>4. CASE u # t
    BY <2>1, <2>4 DEF PromiseInv, OwnNullifiers
  <2> QED
    BY <2>3, <2>4
<1>4. bids' = bids \/ \E c \in Credentials, t \in Tenders : \E b : Accepts(c, t, b)
  BY SealedCases DEF PromiseInv, PipelineInv, sealedOnlyVars, bidVars, ProveEligibility
<1> QED
  BY <1>1, <1>2, <1>3, <1>4 DEF PromiseInv

\* The steps of Procurement, in terms of what the mapping shows.
LEMMA SeenUnchanged ==
    ASSUME \A u \in Tenders :
             /\ PhaseAt(u)' = PhaseAt(u) /\ CancelledAt(u)' = CancelledAt(u)
             /\ AcceptedAt(u)' = AcceptedAt(u) /\ BarredAt(u)' = BarredAt(u)
             /\ WinnerAt(u)' = WinnerAt(u) /\ NamedAt(u)' = NamedAt(u)
    PROVE  UNCHANGED Promised!procurementVars
BY DEF Promised!procurementVars, PhaseAt, CancelledAt, AcceptedAt, BarredAt, WinnerAt, NamedAt

\* Where a step leaves what it reads alone, it leaves what is seen alone.
LEMMA NothingSeen ==
    ASSUME UNCHANGED <<activatedAt, deadlineRootPinned, deadlineRevocationRoot, state, bids,
                       award, identity>>
    PROVE  UNCHANGED Promised!procurementVars
BY SeenUnchanged DEF PhaseAt, CancelledAt, AcceptedAt, BarredAt, WinnerAt, NamedAt, Bidder, Price

\* A phase is one of the three, by the state of the tender.
LEMMA PhasesOfStates ==
    ASSUME TenderInv, NEW t \in Tenders
    PROVE  /\ state[t] \in {"NONE", "DRAFT"} => PhaseAt(t) = "planned"
           /\ state[t] = "ACTIVE" => PhaseAt(t) = "open"
           /\ state[t] = "CLOSED" => PhaseAt(t) = "closed"
BY DEF TenderInv, PhaseConsistent, PinnedIffClosed, PhaseAt

\* activateTender opens the tender.
LEMMA ActivationPromised ==
    ASSUME TenderInv, NEW c, NEW t \in Tenders, NEW expected, ActivateTender(c, t, expected),
           UNCHANGED pipelineVars
    PROVE  Promised!OpenTender(t)
<1>1. /\ state[t] = "DRAFT" /\ state' = [state EXCEPT ![t] = "ACTIVE"]
      /\ activatedAt' = [activatedAt EXCEPT ![t] = now]
      /\ UNCHANGED <<deadlineRootPinned, deadlineRevocationRoot, bids, award, identity>>
  BY DEF ActivateTender, issuerVars, pinVars, pipelineVars, sealedOnlyVars, bidVars, awardVars,
         identityVars
<1>2. now # 0 /\ activatedAt \in [Tenders -> 0 .. MaxTime] /\ state \in [Tenders -> State]
  BY DEF TenderInv, TenderTypeOK, ControlTypeOK, TenderOnlyTypeOK
<1>3. ~deadlineRootPinned[t]
  BY <1>1 DEF TenderInv, PinnedIffClosed
<1>4. \A u \in Tenders : /\ PhaseAt(u)' = IF u = t THEN "open" ELSE PhaseAt(u)
                         /\ CancelledAt(u)' = CancelledAt(u)
  BY <1>1, <1>2, <1>3 DEF PhaseAt, CancelledAt
<1>5. PhaseAt(t) = "planned" /\ ~CancelledAt(t)
  BY <1>1, PhasesOfStates DEF CancelledAt
<1>6. \A u \in Tenders : /\ AcceptedAt(u)' = AcceptedAt(u) /\ BarredAt(u)' = BarredAt(u)
                         /\ WinnerAt(u)' = WinnerAt(u) /\ NamedAt(u)' = NamedAt(u)
  BY <1>1 DEF AcceptedAt, BarredAt, WinnerAt, NamedAt, Bidder, Price
<1> QED
  BY <1>4, <1>5, <1>6
     DEF Promised!OpenTender, PhaseAt, CancelledAt, AcceptedAt, BarredAt, WinnerAt, NamedAt

\* closeTender closes it, and fixes who is barred.
LEMMA ClosePromised ==
    ASSUME TenderInv, NEW t \in Tenders, CloseTender(t), UNCHANGED pipelineVars,
           NEW lost, lost = revocationRoot[currentEpoch]
    PROVE  lost \in SUBSET Credentials /\ Promised!Close(t, lost)
<1>1. /\ state[t] = "ACTIVE" /\ state' = [state EXCEPT ![t] = "CLOSED"]
      /\ lost # NoRoot
      /\ deadlineRevocationRoot' = [deadlineRevocationRoot EXCEPT ![t] = lost]
      /\ deadlineRootPinned' = [deadlineRootPinned EXCEPT ![t] = TRUE]
      /\ UNCHANGED <<activatedAt, bids, award, identity>>
  BY DEF CloseTender, PinDeadlineRevocationRoot, ruleVars, pipelineVars, sealedOnlyVars, bidVars,
         awardVars, identityVars
<1>2. /\ state \in [Tenders -> State]
      /\ deadlineRootPinned \in [Tenders -> BOOLEAN]
      /\ deadlineRevocationRoot \in [Tenders -> RevocationRoots \cup {NoRoot}]
      /\ revocationRoot \in [Epochs -> RevocationRoots \cup {NoRoot}] /\ currentEpoch \in Epochs
  BY DEF TenderInv, TenderTypeOK, IssuerTypeOK, TenderOnlyTypeOK
<1>3. lost \in SUBSET Credentials
  BY <1>1, <1>2, EligibilityAssumption
<1>4. PhaseAt(t) = "open" /\ ~CancelledAt(t)
  BY <1>1, PhasesOfStates DEF CancelledAt
<1>5. \A u \in Tenders : /\ PhaseAt(u)' = IF u = t THEN "closed" ELSE PhaseAt(u)
                         /\ CancelledAt(u)' = CancelledAt(u)
                         /\ BarredAt(u)' = IF u = t THEN lost ELSE BarredAt(u)
  BY <1>1, <1>2, <1>4 DEF PhaseAt, CancelledAt, BarredAt
<1>6. \A u \in Tenders : /\ AcceptedAt(u)' = AcceptedAt(u)
                         /\ WinnerAt(u)' = WinnerAt(u) /\ NamedAt(u)' = NamedAt(u)
  BY <1>1 DEF AcceptedAt, WinnerAt, NamedAt, Bidder, Price
<1>7. Promised!Close(t, lost)
  BY <1>4, <1>5, <1>6
     DEF Promised!Close, PhaseAt, CancelledAt, AcceptedAt, BarredAt, WinnerAt, NamedAt
<1> QED
  BY <1>3, <1>7

\* cancelTender cancels it, in whatever phase it is.
LEMMA CancelPromised ==
    ASSUME TenderInv, NEW c, NEW t \in Tenders, CancelTender(c, t), UNCHANGED pipelineVars
    PROVE  Promised!Cancel(t)
<1>1. /\ state[t] # "CANCELLED" /\ state' = [state EXCEPT ![t] = "CANCELLED"]
      /\ UNCHANGED <<activatedAt, deadlineRootPinned, deadlineRevocationRoot, bids, award, identity>>
  BY DEF CancelTender, issuerVars, pinVars, ruleVars, pipelineVars, sealedOnlyVars, bidVars,
         awardVars, identityVars
<1>2. state \in [Tenders -> State]
  BY DEF TenderInv, TenderTypeOK, TenderOnlyTypeOK
<1>3. ~CancelledAt(t) /\ \A u \in Tenders : CancelledAt(u)' = (IF u = t THEN TRUE ELSE CancelledAt(u))
  BY <1>1, <1>2 DEF CancelledAt
<1>4. \A u \in Tenders : /\ PhaseAt(u)' = PhaseAt(u)
                         /\ AcceptedAt(u)' = AcceptedAt(u) /\ BarredAt(u)' = BarredAt(u)
                         /\ WinnerAt(u)' = WinnerAt(u) /\ NamedAt(u)' = NamedAt(u)
  BY <1>1 DEF PhaseAt, AcceptedAt, BarredAt, WinnerAt, NamedAt, Bidder, Price
<1> QED
  BY <1>3, <1>4
     DEF Promised!Cancel, PhaseAt, CancelledAt, AcceptedAt, BarredAt, WinnerAt, NamedAt

\* The other steps of the registry are not seen: a draft is planned, and policy,
\* control and issuers are no part of what is promised.
LEMMA RegistryPromised ==
    ASSUME TenderInv, [TenderNext]_tenderVars, UNCHANGED pipelineVars
    PROVE  [Promised!ProcurementNext]_Promised!procurementVars
<1>0. UNCHANGED <<bids, award, identity>>
  BY DEF pipelineVars, sealedOnlyVars, bidVars, awardVars, identityVars
<1>1. CASE Environment \/ UNCHANGED tenderVars
  <2>1. UNCHANGED <<activatedAt, deadlineRootPinned, deadlineRevocationRoot, state>>
    BY <1>1 DEF Environment, IssuerCouncilStep, IssuerListStep, IssuerRootStep, RegisterIssuer,
       SetIssuerStatus, PublishIssuerRegistryRoot, PublishRevocationRoot, RollEpoch,
       SetTenderModule, tenderVars, tenderOnlyVars, ruleVars, issuerVars, pinVars
  <2> QED
    BY <1>0, <2>1, NothingSeen
<1>2. ASSUME NEW c, PolicyStep(c)
      PROVE  [Promised!ProcurementNext]_Promised!procurementVars
  <2>1. UNCHANGED <<activatedAt, deadlineRootPinned, deadlineRevocationRoot, state>>
    BY <1>2 DEF PolicyStep, SetMinReviewWindow, SetTenderAuthority, SetVerifierVersionRegistry,
       ruleVars, issuerVars, pinVars
  <2> QED
    BY <1>0, <2>1, NothingSeen
<1>3. ASSUME NEW c, NEW t \in Tenders, DraftStep(c, t)
      PROVE  [Promised!ProcurementNext]_Promised!procurementVars
  <2>1. ASSUME CreateTender(c, t) PROVE UNCHANGED Promised!procurementVars
    <3>1. /\ state[t] = "NONE" /\ state' = [state EXCEPT ![t] = "DRAFT"]
          /\ UNCHANGED <<activatedAt, deadlineRootPinned, deadlineRevocationRoot>>
      BY <2>1 DEF CreateTender, ruleVars, issuerVars, pinVars
    <3>2. \A u \in Tenders : CancelledAt(u)' = CancelledAt(u)
      BY <3>1 DEF TenderInv, TenderTypeOK, TenderOnlyTypeOK, CancelledAt
    <3>3. \A u \in Tenders : /\ PhaseAt(u)' = PhaseAt(u)
                             /\ AcceptedAt(u)' = AcceptedAt(u) /\ BarredAt(u)' = BarredAt(u)
                             /\ WinnerAt(u)' = WinnerAt(u) /\ NamedAt(u)' = NamedAt(u)
      BY <1>0, <3>1 DEF PhaseAt, AcceptedAt, BarredAt, WinnerAt, NamedAt, Bidder, Price
    <3> QED
      BY <3>2, <3>3, SeenUnchanged
  <2>2. ASSUME \/ \E doc \in RuleDocuments : SetRuleDocument(c, t, doc)
               \/ \E f \in CandidateFields : SetRuleFields(c, t, f)
               \/ \E d \in CandidateCommittees : SetCommitteeKey(c, t, d)
        PROVE  UNCHANGED Promised!procurementVars
    <3>1. UNCHANGED <<activatedAt, deadlineRootPinned, deadlineRevocationRoot, state>>
      BY <2>2 DEF SetRuleDocument, SetRuleFields, SetCommitteeKey, issuerVars, pinVars
    <3> QED
      BY <1>0, <3>1, NothingSeen
  <2>3. ASSUME NEW expected, ActivateTender(c, t, expected) PROVE Promised!ProcurementNext
    BY <2>3, ActivationPromised DEF Promised!ProcurementNext
  <2> QED
    BY <1>3, <2>1, <2>2, <2>3 DEF DraftStep
<1>4. ASSUME NEW c, NEW t \in Tenders, CancelTender(c, t) PROVE Promised!ProcurementNext
  BY <1>4, CancelPromised DEF Promised!ProcurementNext
<1>5. ASSUME NEW t \in Tenders, CloseTender(t) PROVE Promised!ProcurementNext
  <2>1. PICK lost : lost = revocationRoot[currentEpoch]
    OBVIOUS
  <2>2. lost \in SUBSET Credentials /\ Promised!Close(t, lost)
    BY <1>5, <2>1, ClosePromised
  <2> QED
    BY <2>2 DEF Promised!ProcurementNext
<1> QED
  BY <1>1, <1>2, <1>3, <1>4, <1>5 DEF TenderNext

-----------------------------------------------------------------------------
(* Bids, the award and the name.                                           *)

\* An accepted bid is the offer of a bidder that has made none.
LEMMA BidPromised ==
    ASSUME PromiseInv, NEW c \in Credentials, NEW t \in Tenders, NEW b, Accepts(c, t, b),
           NEW amount, amount = b.commitment.amount
    PROVE  amount \in Amounts /\ Promised!Receive(t, c, amount)
<1> DEFINE offer == [bidder |-> c, amount |-> amount]
<1>1. /\ b \in Bids /\ b.nullifier = Nullifier(c, t) /\ b.nullifier \notin nullifierUsed[t]
      /\ state[t] = "ACTIVE" /\ bids' = [bids EXCEPT ![t] = Append(@, b)]
      /\ UNCHANGED <<activatedAt, deadlineRootPinned, deadlineRevocationRoot, state, award, identity>>
  BY DEF Accepts, IsBiddingOpen, tenderVars, tenderOnlyVars, ruleVars, issuerVars, pinVars,
         awardVars, identityVars
<1>2. TenderInv /\ bids \in [Tenders -> Seq(Bids)] /\ BidsDistinctAndBound
  BY DEF PromiseInv, PipelineInv, SealedInv, BidsTyped
<1>3. PhaseAt(t) = "open" /\ ~CancelledAt(t)
  BY <1>1, <1>2, PhasesOfStates DEF CancelledAt
<1>4. amount \in Amounts
  BY <1>1 DEF Bids, Commitments
<1>5. \A i \in DOMAIN AcceptedAt(t) : AcceptedAt(t)[i].bidder # c
  <2> SUFFICES ASSUME NEW i \in DOMAIN bids[t], Bidder(t, i) = c PROVE FALSE
    BY DEF AcceptedAt
  <2>1. bids[t][i].nullifier \in Nullifiers
    <3>1. bids[t][i] \in Bids
      BY <1>2
    <3> QED
      BY <3>1 DEF Bids
  <2>2. bids[t][i].nullifier[2] = t /\ bids[t][i].nullifier[1] = c
    BY DEF PromiseInv, OwnNullifiers, Bidder
  <2>3. bids[t][i].nullifier = Nullifier(c, t)
    BY <2>1, <2>2 DEF Nullifiers, Nullifier
  <2>4. bids[t][i].nullifier \in nullifierUsed[t]
    BY <1>2 DEF BidsDistinctAndBound
  <2> QED
    BY <1>1, <2>3, <2>4
<1>6. AcceptedAt(t)' = Append(AcceptedAt(t), offer)
  <2> DEFINE s == bids[t]
             n == Len(s)
             O == [bidder : {Bidder(t, i) : i \in DOMAIN s} \cup {c},
                   amount : {Price(t, i) : i \in DOMAIN s} \cup {amount}]
  <2>1. s \in Seq(Bids) /\ bids'[t] = Append(s, b)
    BY <1>1, <1>2
  <2>2. /\ n \in Nat /\ DOMAIN s = 1 .. n /\ DOMAIN bids'[t] = 1 .. n + 1
        /\ \A i \in DOMAIN s : bids'[t][i] = s[i]
        /\ bids'[t][n + 1] = b
    <3> HIDE DEF Bids
    <3> QED
      BY <1>1, <2>1, AppendedBid
  <2>3. AcceptedAt(t)' = [i \in 1 .. n + 1 |-> IF i = n + 1 THEN offer ELSE AcceptedAt(t)[i]]
    <3>1. AcceptedAt(t)' = [i \in 1 .. n + 1 |->
            [bidder |-> bids'[t][i].nullifier[1], amount |-> bids'[t][i].commitment.amount]]
      BY <2>2 DEF AcceptedAt, Bidder, Price
    <3>2. \A i \in 1 .. n + 1 : i # n + 1 =>
            [bidder |-> bids'[t][i].nullifier[1], amount |-> bids'[t][i].commitment.amount]
              = AcceptedAt(t)[i]
      BY <2>2 DEF AcceptedAt, Bidder, Price
    <3>3. [bidder |-> bids'[t][n + 1].nullifier[1],
           amount |-> bids'[t][n + 1].commitment.amount] = offer
      BY <1>1, <2>2 DEF Nullifier
    <3> HIDE DEF offer, n
    <3> QED
      BY <3>1, <3>2, <3>3
  <2>4. AcceptedAt(t) \in Seq(O) /\ Len(AcceptedAt(t)) = n
    <3>1. AcceptedAt(t) \in [1 .. n -> O]
      BY <2>2 DEF AcceptedAt
    <3> HIDE DEF O, n
    <3> QED
      BY <2>2, <3>1
  <2>5. offer \in O
    OBVIOUS
  <2> HIDE DEF O, offer, n
  <2>6. Append(AcceptedAt(t), offer)
          = [i \in 1 .. n + 1 |-> IF i = n + 1 THEN offer ELSE AcceptedAt(t)[i]]
    <3> DEFINE longer == Append(AcceptedAt(t), offer)
    <3>1. /\ longer \in Seq(O) /\ Len(longer) = n + 1
          /\ \A i \in 1 .. n : longer[i] = AcceptedAt(t)[i]
          /\ longer[n + 1] = offer
      BY <2>2, <2>4, <2>5
    <3> HIDE DEF longer
    <3>2. longer = [i \in 1 .. n + 1 |-> longer[i]]
      BY <2>2, <3>1
    <3>3. \A i \in 1 .. n + 1 : longer[i] = IF i = n + 1 THEN offer ELSE AcceptedAt(t)[i]
      BY <2>2, <3>1
    <3> QED
      BY <3>2, <3>3 DEF longer
  <2> QED
    BY <2>3, <2>6
<1> HIDE DEF offer
<1>7. \A u \in Tenders : u # t => AcceptedAt(u)' = AcceptedAt(u)
  BY <1>1, <1>2 DEF AcceptedAt, Bidder, Price
<1>8. \A u \in Tenders : /\ PhaseAt(u)' = PhaseAt(u) /\ CancelledAt(u)' = CancelledAt(u)
                         /\ BarredAt(u)' = BarredAt(u)
                         /\ WinnerAt(u)' = WinnerAt(u) /\ NamedAt(u)' = NamedAt(u)
  BY <1>1 DEF PhaseAt, CancelledAt, BarredAt, WinnerAt, NamedAt
<1>9. [u \in Tenders |-> AcceptedAt(u)]' =
        [[u \in Tenders |-> AcceptedAt(u)] EXCEPT ![t] = Append(@, offer)]
  BY <1>6, <1>7
<1> QED
  BY <1>3, <1>4, <1>5, <1>8, <1>9
     DEF Promised!Receive, PhaseAt, CancelledAt, AcceptedAt, BarredAt, WinnerAt, NamedAt, offer

\* recordAward decides, for the lowest and earliest offer in good standing.
LEMMA AwardPromised ==
    ASSUME PromiseInv, PromiseInv', NEW c, NEW t \in Tenders, NEW i \in DOMAIN bids[t], NEW price,
           RecordAward(c, t, i, price),
           UNCHANGED <<tenderVars, sealedOnlyVars, identityVars>>
    PROVE  [Promised!ProcurementNext]_Promised!procurementVars
<1> DEFINE record ==
      [winner |-> bids[t][i].commitment, price |-> price,
       bidSetRoot |-> BidSetRoot(t), count |-> SubmissionCount(t), index |-> i]
<1>1. /\ state[t] = "CLOSED" /\ award[t] = NoAward /\ i \in proven[t] /\ Lowest(t, i)
      /\ award' = [award EXCEPT ![t] = record]
      /\ UNCHANGED <<activatedAt, deadlineRootPinned, deadlineRevocationRoot, state, bids, identity>>
  BY DEF RecordAward, OnlyClosed, WinnerProven, AwardProvable, tenderVars, tenderOnlyVars,
         ruleVars, issuerVars, pinVars, sealedOnlyVars, bidVars, identityVars
<1>2. record.index = i
  OBVIOUS
<1> HIDE DEF record
<1>3. TenderInv /\ DOMAIN award = Tenders /\ StandingAt(t) /\ bids[t] \in Seq(Bids)
  BY DEF PromiseInv, PipelineInv, OpenedInv, AwardTypeOK, SealedInv, BidsTyped
<1>4. CASE record = NoAward
  <2>1. \A u \in Tenders : WinnerAt(u)' = WinnerAt(u)
    BY <1>1, <1>3, <1>4 DEF WinnerAt
  <2>2. \A u \in Tenders :
           /\ PhaseAt(u)' = PhaseAt(u) /\ CancelledAt(u)' = CancelledAt(u)
           /\ AcceptedAt(u)' = AcceptedAt(u) /\ BarredAt(u)' = BarredAt(u)
           /\ NamedAt(u)' = NamedAt(u)
    BY <1>1 DEF PhaseAt, CancelledAt, AcceptedAt, BarredAt, NamedAt, Bidder, Price
  <2> QED
    BY <2>1, <2>2, SeenUnchanged
<1>5. CASE record # NoAward
  <2>1. PhaseAt(t) = "closed" /\ ~CancelledAt(t)
    BY <1>1, <1>3, PhasesOfStates DEF CancelledAt
  <2>2. WinnerAt(t) = 0 /\ \A u \in Tenders : WinnerAt(u)' = IF u = t THEN i ELSE WinnerAt(u)
    BY <1>1, <1>2, <1>3, <1>5 DEF WinnerAt
  <2>3. i \in DOMAIN AcceptedAt(t) /\ AcceptedAt(t)[i].bidder \notin BarredAt(t)
    BY <1>1, <1>3, <2>1 DEF AcceptedAt, BarredAt, StandingAt, PhaseAt
  <2>4. ASSUME NEW j \in DOMAIN AcceptedAt(t)
        PROVE  \/ AcceptedAt(t)[i].amount < AcceptedAt(t)[j].amount
               \/ AcceptedAt(t)[i].amount = AcceptedAt(t)[j].amount /\ i <= j
    <3>1. j \in DOMAIN bids[t]
      BY DEF AcceptedAt
    <3>2. Price(t, j) > Price(t, i) \/ (Price(t, j) = Price(t, i) /\ j >= i)
      BY <1>1, <3>1 DEF Lowest
    <3>3. Price(t, i) \in Nat /\ Price(t, j) \in Nat
      <4>1. bids[t][i] \in Bids /\ bids[t][j] \in Bids
        BY <1>3, <3>1
      <4> QED
        BY <4>1, EligibilityAssumption DEF Bids, Commitments, Price
    <3>4. i \in Nat /\ j \in Nat
      BY <1>3, <3>1
    <3>5. AcceptedAt(t)[i].amount = Price(t, i) /\ AcceptedAt(t)[j].amount = Price(t, j)
      BY <3>1 DEF AcceptedAt
    <3> QED
      BY <3>2, <3>3, <3>4, <3>5
  <2>5. \A u \in Tenders :
           /\ PhaseAt(u)' = PhaseAt(u) /\ CancelledAt(u)' = CancelledAt(u)
           /\ AcceptedAt(u)' = AcceptedAt(u) /\ BarredAt(u)' = BarredAt(u)
           /\ NamedAt(u)' = NamedAt(u)
    BY <1>1 DEF PhaseAt, CancelledAt, AcceptedAt, BarredAt, NamedAt, Bidder, Price
  <2>6. Promised!Decide(t, i)
    <3>1. [u \in Tenders |-> AcceptedAt(u)][t] = AcceptedAt(t)
      OBVIOUS
    <3>2. /\ [u \in Tenders |-> AcceptedAt(u)][t][i].bidder \notin [u \in Tenders |-> BarredAt(u)][t]
          /\ \A j \in DOMAIN [u \in Tenders |-> AcceptedAt(u)][t] : Promised!Beats(t, i, j)
      BY <2>3, <2>4, <3>1 DEF Promised!Beats, AcceptedAt
    <3>3. /\ [u \in Tenders |-> PhaseAt(u)][t] = "closed"
          /\ ~[u \in Tenders |-> CancelledAt(u)][t]
          /\ [u \in Tenders |-> WinnerAt(u)][t] = 0
      BY <2>1, <2>2
    <3>4. [u \in Tenders |-> WinnerAt(u)]' = [[u \in Tenders |-> WinnerAt(u)] EXCEPT ![t] = i]
      BY <2>2
    <3>5. UNCHANGED <<[u \in Tenders |-> PhaseAt(u)], [u \in Tenders |-> CancelledAt(u)],
                      [u \in Tenders |-> AcceptedAt(u)], [u \in Tenders |-> BarredAt(u)],
                      [u \in Tenders |-> NamedAt(u)]>>
      BY <2>5
    <3> QED
      BY <3>2, <3>3, <3>4, <3>5
         DEF Promised!Decide, PhaseAt, CancelledAt, AcceptedAt, BarredAt, WinnerAt, NamedAt
  <2>7. i \in DOMAIN AcceptedAt(t)
    BY <2>3
  <2> QED
    BY <2>6, <2>7 DEF Promised!ProcurementNext, AcceptedAt
<1> QED
  BY <1>4, <1>5

\* submitIdentityProof names the winner.
LEMMA NamePromised ==
    ASSUME PromiseInv, NEW t \in Tenders, NamesWinner(t), identity'[t] \in Identities,
           identity' = [identity EXCEPT ![t] = identity'[t]],
           UNCHANGED <<tenderVars, sealedOnlyVars, awardVars>>
    PROVE  Promised!Name(t)
<1>1. /\ identity[t] = NoIdentity /\ award[t] # NoAward
      /\ identity'[t].credential = Bidder(t, award[t].index)
      /\ UNCHANGED <<activatedAt, deadlineRootPinned, deadlineRevocationRoot, state, bids, award>>
  BY DEF NamesWinner, tenderVars, tenderOnlyVars, ruleVars, issuerVars, pinVars, sealedOnlyVars,
         bidVars, awardVars
<1>2. award[t].index \in DOMAIN bids[t] /\ award[t].index # 0
  <2>1. award[t].index \in DOMAIN bids[t] /\ bids[t] \in Seq(Bids)
    BY <1>1 DEF PromiseInv, PipelineInv, OpenedInv, StandingAt, SealedAt, SealedInv, BidsTyped
  <2> QED
    BY <2>1
<1>3. WinnerAt(t) # 0 /\ NamedAt(t) = NoIdentity /\ WinnerAt(t) = award[t].index
  BY <1>1, <1>2 DEF WinnerAt, NamedAt
<1>4. AcceptedAt(t)[WinnerAt(t)].bidder = Bidder(t, award[t].index)
  BY <1>2, <1>3 DEF AcceptedAt
<1>5. \A u \in Tenders :
        NamedAt(u)' = IF u = t THEN AcceptedAt(t)[WinnerAt(t)].bidder ELSE NamedAt(u)
  BY <1>1, <1>4, IdentityAssumption DEF NamedAt, PromiseInv, PipelineInv, NamedInv, IdentityTypeOK
<1>6. \A u \in Tenders :
        /\ PhaseAt(u)' = PhaseAt(u) /\ CancelledAt(u)' = CancelledAt(u)
        /\ AcceptedAt(u)' = AcceptedAt(u) /\ BarredAt(u)' = BarredAt(u)
        /\ WinnerAt(u)' = WinnerAt(u)
  BY <1>1 DEF PhaseAt, CancelledAt, AcceptedAt, BarredAt, WinnerAt, Bidder, Price
<1>7. [u \in Tenders |-> NamedAt(u)]' =
        [[u \in Tenders |-> NamedAt(u)] EXCEPT
          ![t] = [u \in Tenders |-> AcceptedAt(u)][t][[u \in Tenders |-> WinnerAt(u)][t]].bidder]
  BY <1>5
<1> QED
  BY <1>3, <1>6, <1>7
     DEF Promised!Name, PhaseAt, CancelledAt, AcceptedAt, BarredAt, WinnerAt, NamedAt

\* What the pipeline begins with is a procurement in which nothing has happened.
LEMMA DeploymentPromised == Init => Promised!ProcurementInit
<1> SUFFICES ASSUME Init PROVE Promised!ProcurementInit
  OBVIOUS
<1>1. /\ DeployedInit
      /\ bids = [t \in Tenders |-> << >>]
      /\ award = [t \in Tenders |-> NoAward] /\ identity = [t \in Tenders |-> NoIdentity]
  BY DEF Init, ReplicasRegistered, AwardInit, IdentityInit
<1>2. ASSUME NEW t \in Tenders PROVE AcceptedAt(t) = << >>
  <2>1. AcceptedAt(t) = [i \in {} |-> [bidder |-> Bidder(t, i), amount |-> Price(t, i)]]
    BY <1>1 DEF AcceptedAt
  <2> QED
    BY <2>1
<1>3. \A t \in Tenders : /\ PhaseAt(t) = "planned" /\ CancelledAt(t) = FALSE /\ BarredAt(t) = {}
                         /\ WinnerAt(t) = 0 /\ NamedAt(t) = NoIdentity
  BY <1>1 DEF DeployedInit, PhaseAt, CancelledAt, BarredAt, WinnerAt, NamedAt
<1>4. [t \in Tenders |-> AcceptedAt(t)] = [t \in Tenders |-> << >>]
  BY <1>2
<1> QED
  BY <1>3, <1>4
     DEF Promised!ProcurementInit, PhaseAt, CancelledAt, AcceptedAt, BarredAt, WinnerAt, NamedAt

\* The steps that are seen, and the others.
LEMMA StepPromised ==
    ASSUME PromiseInv, [Next]_vars
    PROVE  [Promised!ProcurementNext]_Promised!procurementVars
<1>0. SealedInv /\ NamedInv /\ TenderInv
  BY DEF PromiseInv, PipelineInv
<1>1. CASE [TenderNext]_tenderVars /\ UNCHANGED pipelineVars
  BY <1>0, <1>1, RegistryPromised
<1>2. ASSUME NEW c \in Credentials, NEW t \in Tenders, NEW b, Accepts(c, t, b)
      PROVE  Promised!ProcurementNext
  <2>1. PICK amount : amount = b.commitment.amount
    OBVIOUS
  <2>2. amount \in Amounts /\ Promised!Receive(t, c, amount)
    BY <1>2, <2>1, BidPromised
  <2> QED
    BY <2>2 DEF Promised!ProcurementNext
<1>3. ASSUME NEW c \in Authorities, NEW t \in Tenders, AuthorityAwards(c, t)
      PROVE  [Promised!ProcurementNext]_Promised!procurementVars
  BY <1>3, NextKeepsPromiseInv, AwardPromised DEF AuthorityAwards, OthersStand
<1>4. ASSUME NEW c \in Credentials, NEW t \in Tenders, WinnerIsNamed(c, t)
      PROVE  [Promised!ProcurementNext]_Promised!procurementVars
  <2>1. CASE identity' = identity
    BY <1>4, <2>1, NothingSeen
       DEF WinnerIsNamed, tenderVars, tenderOnlyVars, ruleVars, issuerVars, pinVars,
           sealedOnlyVars, bidVars, awardVars
  <2>2. CASE \E u \in Tenders : /\ NamesWinner(u) /\ identity'[u] \in Identities
                                /\ identity' = [identity EXCEPT ![u] = identity'[u]]
    BY <1>4, <2>2, NamePromised DEF WinnerIsNamed, Promised!ProcurementNext
  <2> QED
    BY <1>0, <2>1, <2>2, NamingCases
<1>5. ASSUME UNCHANGED <<tenderVars, bids, award, identity>>
      PROVE  UNCHANGED Promised!procurementVars
  BY <1>5, NothingSeen DEF tenderVars, tenderOnlyVars, ruleVars, issuerVars, pinVars
<1>6. ASSUME NEW c \in Credentials, NEW t \in Tenders, BidderBids(c, t)
      PROVE  [Promised!ProcurementNext]_Promised!procurementVars
  <2>1. UNCHANGED <<tenderVars, award, identity>>
    BY <1>6 DEF BidderBids, awardVars, identityVars
  <2>2. bids' = bids \/ \E d \in Credentials, u \in Tenders : \E b : Accepts(d, u, b)
    BY <1>0, SealedCases DEF sealedOnlyVars, bidVars, ProveEligibility
  <2> QED
    BY <1>2, <1>5, <2>1, <2>2
<1>7. ASSUME NEW c \in Council, ReplicaStep(c),
             UNCHANGED <<tenderVars, openingVars, awardVars, identityVars, ledgerVars, scenario>>
      PROVE  UNCHANGED Promised!procurementVars
  BY <1>5, <1>7 DEF ReplicaStep, RegisterReplica, SetReplicaStatus, bidVars, awardVars, identityVars
<1>8. ASSUME \/ \E c \in Council : CouncilKeepsLedgers(c)
             \/ \E a \in Adapters, t \in Tenders : BankActs(a, t)
             \/ \E t \in Tenders, i \in BidIndices : AnybodyReveals(t, i)
             \/ \E t \in Tenders, i \in BidIndices, m \in MemberIndices : MemberShares(t, i, m)
      PROVE  UNCHANGED Promised!procurementVars
  BY <1>5, <1>8
     DEF CouncilKeepsLedgers, BankActs, BeforeLedgers, AnybodyReveals, MemberShares,
         sealedOnlyVars, bidVars, awardVars, identityVars
<1>9. ASSUME NEW c \in Credentials, NEW t \in Tenders, NEW i \in BidIndices,
             BidderProvesStatus(c, t, i)
      PROVE  UNCHANGED Promised!procurementVars
  BY <1>5, <1>9
     DEF BidderProvesStatus, ProveStatus, SubmitStatusProof, OthersStand, sealedOnlyVars,
         bidVars, identityVars
<1> QED
  BY <1>1, <1>3, <1>4, <1>6, <1>7, <1>8, <1>9, StepCases

\* The contracts, with the bidders, the members, the authority and a meddling council
\* around them, do what a procurement promises and nothing else: offers while it is
\* open, one per bidder; a set and a bar fixed at the close; the lowest and earliest
\* offer of the whole set in good standing, once; and its bidder's name, once.
THEOREM ProcurementImplemented == Spec => ImplementsProcurement
<1>1. Init => PromiseInv
  BY PipelineAtDeployment DEF PromiseInv, OwnNullifiers, Init, ReplicasRegistered
<1>2. PromiseInv /\ [Next]_vars => PromiseInv'
  BY NextKeepsPromiseInv
<1>3. PromiseInv /\ [Next]_vars => [Promised!ProcurementNext]_Promised!procurementVars
  BY StepPromised
<1> QED
  BY <1>1, <1>2, <1>3, DeploymentPromised, PTL DEF Spec, ImplementsProcurement, Promised!Spec

=============================================================================
