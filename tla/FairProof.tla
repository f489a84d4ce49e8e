------------------------------ MODULE FairProof ------------------------------
(***************************************************************************)
(* The whole on-chain pipeline: the contracts composed, with the off-chain *)
(* bidders, committee members and authority that call them.  The contracts *)
(* call each other synchronously, so one transaction is one step.          *)
(***************************************************************************)
EXTENDS WinnerIdentity, BondEscrow, CheckpointAnchor

CONSTANTS
    Scenarios    \* bound: who takes part, and what the council does meanwhile

\* The replica keys deployed (NoReplica if registered later), the issuers registered
\* at deployment, the bidders and what they may offer, the members that take part in
\* the opening, and what the council and the banks do.
ScenarioRecords ==
    [deployed : [ReplicaIds -> Signers \cup {NoReplica}],
     bidders : SUBSET Credentials, amounts : SUBSET Amounts,
     bodies : SUBSET Ciphertexts, receipts : SUBSET ReceiptChoices,
     members : SUBSET MemberIndices,
     issuers : SUBSET IssuerIds,
     council : SUBSET {"pause", "issuers", "roots", "policy", "cancel", "replicas",
                       "versions", "bonds", "checkpoints"}]

ASSUME FairProofAssumption ==
    /\ Scenarios \subseteq ScenarioRecords
    /\ {} \in RevocationRoots
    /\ \A x \in Scenarios : /\ x.issuers \in IssuerRoots
                            /\ IsFiniteSet(x.issuers) /\ Cardinality(x.issuers) <= MaxIssuers
    /\ \A x \in Scenarios : \A q, r \in ReplicaIds :
         q # r /\ x.deployed[q] # NoReplica => x.deployed[q] # x.deployed[r]

VARIABLE scenario    \* bound: the one this behaviour is about

ledgerVars == <<bondVars, checkpoints>>
pipelineVars == <<sealedOnlyVars, openingVars, awardVars, identityVars,
                  ledgerVars, scenario>>
vars == <<tenderVars, pipelineVars>>

TypeOK ==
    /\ TenderTypeOK
    /\ SealedTypeOK
    /\ OpeningTypeOK
    /\ AwardTypeOK
    /\ IdentityTypeOK
    /\ BondTypeOK
    /\ CheckpointTypeOK
    /\ scenario \in Scenarios

\* scripts/deploy.mjs and the dashboard's one-off setup (Authority.tsx, prepare):
\* the contracts wired, version CircuitVersion registered, the issuers registered
\* and both roots of epoch 1 published, the floor at its hard minimum, and the
\* authority permitted.
DeployedInit ==
    /\ now = 1
    /\ paused = FALSE
    /\ verifier \in {f \in [Versions -> Impls \cup {NoImpl}] :
                       \A v \in Versions : f[v] # NoImpl <=> v = CircuitVersion}
    /\ issuers = [i \in IssuerIds |-> IF i \in scenario.issuers
                                    THEN [epoch |-> 1, active |-> TRUE] ELSE NoIssuer]
    /\ currentEpoch = 1
    /\ issuerRegistryRoot = [e \in Epochs |-> IF e = 1 THEN scenario.issuers ELSE NoRoot]
    /\ revocationRoot = [e \in Epochs |-> IF e = 1 THEN {} ELSE NoRoot]
    /\ deadlineRevocationRoot = [t \in Tenders |-> NoRoot]
    /\ deadlineRootPinned = [t \in Tenders |-> FALSE]
    /\ tenderModuleSet = TRUE
    /\ state = [t \in Tenders |-> "NONE"]
    /\ authority = [t \in Tenders |-> NoAccount]
    /\ ruleDocument = [t \in Tenders |-> EmptyDocument]
    /\ rulesHash = [t \in Tenders |-> NoDigest]
    /\ fields = [t \in Tenders |-> NoFields]
    /\ fieldsDigest = [t \in Tenders |-> NoDigest]
    /\ committee = [t \in Tenders |-> NoCommittee]
    /\ activatedAt = [t \in Tenders |-> 0]
    /\ minReviewWindow = AbsoluteMinReview
    /\ isTenderAuthority = Authorities
    /\ versionRegistrySet = TRUE

ReplicasRegistered ==
    /\ replicas = [r \in ReplicaIds |->
                    IF scenario.deployed[r] = NoReplica THEN NoReplica
                    ELSE [signer |-> scenario.deployed[r], active |-> TRUE]]
    /\ activeReplicaCount = Cardinality({r \in ReplicaIds : scenario.deployed[r] # NoReplica})
    /\ bids = [t \in Tenders |-> << >>]
    /\ nullifierUsed = [t \in Tenders |-> {}]
    /\ ciphertextUsed = [t \in Tenders |-> {}]
    /\ eligibilityProof = [c \in Credentials |-> NoProof]

Init ==
    /\ scenario \in Scenarios
    /\ DeployedInit
    /\ ReplicasRegistered
    /\ OpeningInit
    /\ AwardInit
    /\ IdentityInit
    /\ BondInit
    /\ CheckpointInit

-----------------------------------------------------------------------------
(* One transaction of one contract leaves the others' state alone.         *)

TimePasses == Tick /\ UNCHANGED <<issuerVars, tenderOnlyVars, pipelineVars>>

CouncilInterferes(c) ==
    \/ /\ "pause" \in scenario.council
       /\ TogglePause
       /\ UNCHANGED <<issuerVars, tenderOnlyVars, pipelineVars>>
    \/ /\ "versions" \in scenario.council
       /\ \E v \in Versions, impl \in Impls : ActivateVersion(v, impl)
       /\ UNCHANGED <<issuerVars, tenderOnlyVars, pipelineVars>>
    \/ /\ "issuers" \in scenario.council
       /\ IssuerListStep(c)
       /\ UNCHANGED <<controlVars, tenderOnlyVars, pipelineVars>>
    \/ /\ "roots" \in scenario.council
       /\ IssuerRootStep(c)
       /\ UNCHANGED <<controlVars, tenderOnlyVars, pipelineVars>>
    \/ "policy" \in scenario.council /\ PolicyStep(c) /\ UNCHANGED pipelineVars
    \/ /\ "cancel" \in scenario.council
       /\ \E t \in Tenders : CancelTender(c, t)
       /\ UNCHANGED pipelineVars
    \/ /\ "replicas" \in scenario.council
       /\ ReplicaStep(c)
       /\ UNCHANGED <<tenderVars, openingVars, awardVars, identityVars, ledgerVars, scenario>>

BeforeLedgers == <<tenderVars, sealedOnlyVars, openingVars, awardVars, identityVars>>

\* The contracts nothing else reads: guarantees and checkpoints.
CouncilKeepsLedgers(c) ==
    /\ \/ /\ "bonds" \in scenario.council
          /\ \E a \in Adapters, allowed \in BOOLEAN : SetBankAdapter(c, a, allowed)
          /\ UNCHANGED checkpoints
       \/ /\ "checkpoints" \in scenario.council
          /\ CheckpointStep(c)
          /\ UNCHANGED bondVars
    /\ UNCHANGED <<BeforeLedgers, scenario>>

BankActs(a, t) ==
    /\ "bonds" \in scenario.council
    /\ \E n \in Nullifiers : BankStep(a, t, n)
    /\ UNCHANGED <<BeforeLedgers, checkpoints, scenario>>

AuthorityDrafts(c, t) == DraftStep(c, t) /\ UNCHANGED pipelineVars

AnybodyCloses(t) == CloseTender(t) /\ UNCHANGED pipelineVars

\* Bound: a bidder makes new proofs until its bid is in.
BidderBids(c, t) ==
    /\ c \in scenario.bidders
    /\ \/ /\ Nullifier(c, t) \notin nullifierUsed[t]
          /\ \E amount \in scenario.amounts : ProveEligibility(c, t, amount)
       \/ \E ciphertext \in scenario.bodies, receipts \in scenario.receipts :
            SubmitBid(c, t, ciphertext, receipts)
    /\ UNCHANGED <<tenderVars, openingVars, awardVars, identityVars, ledgerVars, scenario>>

AnybodyReveals(t, i) ==
    RevealCiphertext(t, i) /\ UNCHANGED <<tenderVars, sealedOnlyVars, awardVars, identityVars, ledgerVars, scenario>>

MemberShares(t, i, m) ==
    /\ m \in scenario.members
    /\ committee[t] # NoCommittee
    /\ SubmitDecryptionShare(committee[t].members[m], t, i, m)
    /\ UNCHANGED <<tenderVars, sealedOnlyVars, awardVars, identityVars, ledgerVars, scenario>>

\* A step of the status and award contracts leaves everything before them alone.
OthersStand == UNCHANGED <<tenderVars, sealedOnlyVars, openingVars, identityVars, ledgerVars, scenario>>

BidderProvesStatus(c, t, i) ==
    /\ ProveStatus(c, t, i) \/ SubmitStatusProof(c, t, i)
    /\ OthersStand

AuthorityAwards(c, t) ==
    /\ \E i \in DOMAIN bids[t], price \in Prices : RecordAward(c, t, i, price)
    /\ OthersStand

WinnerIsNamed(c, t) ==
    /\ \E record \in Records :
         \/ ProveIdentity(c, t, record)
         \/ /\ identityProof[c] # NoProof
            /\ SubmitIdentityProof(t, identityProof[c], c, record)
    /\ UNCHANGED <<tenderVars, sealedOnlyVars, openingVars, awardVars, ledgerVars, scenario>>

Next ==
    \/ TimePasses
    \/ \E c \in Council : CouncilInterferes(c) \/ CouncilKeepsLedgers(c)
    \/ \E t \in Tenders :
         \/ AnybodyCloses(t)
         \/ \E a \in Adapters : BankActs(a, t)
         \/ \E c \in Authorities : AuthorityDrafts(c, t) \/ AuthorityAwards(c, t)
         \/ \E c \in Credentials : BidderBids(c, t) \/ WinnerIsNamed(c, t)
         \/ \E i \in BidIndices :
              \/ AnybodyReveals(t, i)
              \/ \E m \in MemberIndices : MemberShares(t, i, m)
              \/ \E c \in Credentials : BidderProvesStatus(c, t, i)

Spec == Init /\ [][Next]_vars

-----------------------------------------------------------------------------
(* Fairness.  Everybody who can move a closed tender on keeps trying: anyone *)
(* closes and reveals, the acting members file shares, the bidders prove     *)
(* their standing, the authority awards, the winner publishes its identity;  *)
(* the council lifts its pauses.                                             *)

Fairness ==
    /\ WF_vars(TimePasses)
    /\ WF_vars(paused /\ TogglePause /\ UNCHANGED <<issuerVars, tenderOnlyVars, pipelineVars>>)
    /\ \A t \in Tenders :
         /\ SF_vars(AnybodyCloses(t))
         /\ \A i \in BidIndices :
              /\ WF_vars(AnybodyReveals(t, i))
              /\ \A m \in MemberIndices : WF_vars(MemberShares(t, i, m))
              /\ SF_vars(\E c \in Credentials : ProveStatus(c, t, i) /\ OthersStand)
              /\ SF_vars(\E c \in Credentials : SubmitStatusProof(c, t, i) /\ OthersStand)
         /\ WF_vars(\E c \in Authorities : AuthorityAwards(c, t))
         /\ SF_vars(\E c \in Credentials : WinnerIsNamed(c, t))

FairSpec == Spec /\ Fairness

-----------------------------------------------------------------------------
(* Properties.                                                             *)

Bidder(t, i) == bids[t][i].nullifier[1]

\* Nothing of a bid is revealed, opened, re-proved or awarded before the close,
\* which is not before the deadline: once any of it exists, the deadline root is
\* pinned, and no share was filed for an unrevealed or missing bid.
SealedUntilClose ==
    \A t \in Tenders :
        /\ (\/ revealed[t] # {}
            \/ \E i \in BidIndices : shares[t][i] # {}
            \/ proven[t] # {}
            \/ award[t] # NoAward) => /\ deadlineRootPinned[t]
                                      /\ now >= fields[t].deadline
        /\ \A i \in BidIndices : shares[t][i] # {} => i \in revealed[t]
        /\ revealed[t] \cup proven[t] \subseteq DOMAIN bids[t]

\* The award stands over the complete and final bid set: the recorded root and
\* count are still the chain's, each bid in it was opened by three members to the
\* price it committed to, and the winner is the lowest, earliest of them all.
AwardOverCompleteSet ==
    \A t \in Tenders : award[t] # NoAward =>
        /\ award[t].bidSetRoot = BidSetRoot(t)
        /\ award[t].count = Len(bids[t])
        /\ award[t].winner = bids[t][award[t].index].commitment
        /\ \A j \in DOMAIN bids[t] :
             \/ award[t].winner.amount < Price(t, j)
             \/ award[t].winner.amount = Price(t, j) /\ award[t].index <= j
        /\ \A j \in DOMAIN bids[t] :
             /\ Cardinality(shares[t][j]) >= OPENING_THRESHOLD
             /\ bids[t][j].ciphertext = [commitment |-> bids[t][j].commitment,
                                        wellFormed |-> TRUE]

\* The winner's credential is not revoked in the root pinned at the close, however
\* the live root moved before, between or after (DeadlineStatus, WinnerProven), and
\* the price is shown exactly when the frozen policy says so.
WinnerInStanding ==
    \A t \in Tenders :
        /\ \A i \in proven[t] : Bidder(t, i) \notin deadlineRevocationRoot[t]
        /\ award[t] # NoAward =>
             /\ award[t].index \in proven[t]
             /\ award[t].price = IF fields[t].disclosurePolicy = DISCLOSE_WINNING_PRICE
                                 THEN award[t].winner.amount ELSE 0

\* The bid set only grows, by one bid at its end, while the window is open and the
\* protocol is not paused; the receipts behind the bid are of two active replicas.
BidSetGrowsInWindow ==
    [][\A t \in Tenders : bids'[t] # bids[t] =>
         /\ \E b \in Bids : bids'[t] = Append(bids[t], b)
         /\ ~paused /\ state[t] = "ACTIVE"
         /\ fields[t].biddingStart <= now /\ now < fields[t].deadline
         /\ LET R == bids'[t][Len(bids'[t])].receipts IN
              Cardinality({r \in R : replicas[r].active}) >= STORAGE_QUORUM]_vars

\* A name is published once, it is the winner's, and at that moment the winner's
\* issuer is in the live root of the tender's epoch: a proof made before the
\* council republished the root without it counts for nothing (WinnerIdentity.sol).
NamedOnceWhileAttested ==
    [][\A t \in Tenders : identity'[t] # identity[t] =>
         /\ identity[t] = NoIdentity
         /\ identity'[t].credential = Bidder(t, award[t].index)
         /\ Attested[identity'[t].credential].issuer
              \in issuerRegistryRoot[fields[t].issuerEpoch]]_vars

Promised == INSTANCE Procurement WITH
    Bidders <- Credentials,
    Nobody <- NoIdentity,
    phase <- [t \in Tenders |-> IF activatedAt[t] = 0 THEN "planned"
                               ELSE IF deadlineRootPinned[t] THEN "closed" ELSE "open"],
    cancelled <- [t \in Tenders |-> state[t] = "CANCELLED"],
    accepted <- [t \in Tenders |-> [i \in DOMAIN bids[t] |->
                   [bidder |-> Bidder(t, i), amount |-> Price(t, i)]]],
    barred <- [t \in Tenders |-> IF deadlineRootPinned[t]
                                THEN deadlineRevocationRoot[t] ELSE {}],
    winner <- [t \in Tenders |-> IF award[t] = NoAward THEN 0 ELSE award[t].index],
    named <- [t \in Tenders |-> IF identity[t] = NoIdentity THEN NoIdentity
                               ELSE identity[t].credential]

\* The pipeline implements the procurement it promises (Procurement.tla).
ImplementsProcurement == Promised!Spec

\* A closed tender with nothing wrong in it: every body opens to its bid, the
\* lowest bidder can still prove its standing, and its price can be shown as the
\* policy demands.
Decidable(t) ==
    /\ state[t] = "CLOSED"
    /\ bids[t] # << >>
    /\ \A j \in DOMAIN bids[t] :
         bids[t][j].ciphertext = [commitment |-> bids[t][j].commitment, wellFormed |-> TRUE]
    /\ fields[t].verifierVersion = CircuitVersion
    /\ StatusSignalsAvailable(t)
    /\ \E i \in DOMAIN bids[t] :
         /\ Lowest(t, i)
         /\ Provable(Bidder(t, i), ExpectedDeadlineStatusSignals(t, bids[t][i].nullifier,
                                                               bids[t][i].commitment))
         /\ \E price \in Prices : PriceHonoursPolicy(t, price) /\
              price = IF fields[t].disclosurePolicy = DISCLOSE_WINNING_PRICE
                      THEN Price(t, i) ELSE 0

\* Such a tender is decided: three members are enough, and no pause stops it.
DecidableIsDecided ==
    \A t \in Tenders : Decidable(t) ~> (award[t] # NoAward \/ state[t] = "CANCELLED")

\* While the issuer roots stand, an award never stays anonymous for want of a step
\* of anybody but the winner (submitIdentityProof is open to all, pause or not).
AwardedIsNamed ==
    \A t \in Tenders : award[t] # NoAward ~> identity[t] # NoIdentity

=============================================================================
