----------------------------- MODULE SealedBid -----------------------------
(***************************************************************************)
(* SealedBid.sol: the replica keys, and the acceptance of bids into the    *)
(* append-only bid set of a tender.  The accumulator root of a set is the  *)
(* sequence of its leaves (the root is injective in them), so BidSetRoot   *)
(* stands for the incremental Merkle tree.                                 *)
(*                                                                         *)
(* A bidder makes its eligibility proof off-chain and submits it later:    *)
(* eligibilityProof holds what it made last, against the roots of then.    *)
(***************************************************************************)
EXTENDS EligibilityVerifier, Sequences

CONSTANTS
    Signers,          \* replica signing keys
    Ciphertexts,      \* [commitment, wellFormed]: what a body opens to, and
                      \* whether revealCiphertext can parse it
    ReceiptChoices,   \* sets of replicas whose receipts a bidder may present
    NoReplica,        \* an unregistered replica slot
    NoProof,          \* a bidder without a proof
    MaxBids           \* MAX_BIDS (32)

ReplicaIds == 1 .. 3          \* STORAGE_REPLICAS
STORAGE_QUORUM == 2

Nullifiers == Credentials \X Tenders
Commitments == [amount : Amounts, nullifier : Nullifiers]

ASSUME SealedBidAssumption ==
    /\ Ciphertexts \subseteq [commitment : Commitments, wellFormed : BOOLEAN]
    /\ ReceiptChoices \subseteq SUBSET ReplicaIds
    /\ NoReplica \notin [signer : Signers, active : BOOLEAN]
    /\ MaxBids \in Nat

VARIABLES
    replicas,             \* _replicas: [signer, active] or NoReplica
    activeReplicaCount,
    bids,                 \* _bids and the accumulator, by tender
    nullifierUsed,        \* by tender, as a set
    ciphertextUsed,       \* by tender, as a set
    eligibilityProof      \* off-chain: by credential

replicaVars == <<replicas, activeReplicaCount>>
bidVars == <<bids, nullifierUsed, ciphertextUsed>>
sealedOnlyVars == <<replicaVars, bidVars, eligibilityProof>>

Replicas == [signer : Signers, active : BOOLEAN]
Bids ==
    [nullifier : Nullifiers, commitment : Commitments,
     ciphertext : Ciphertexts, receipts : SUBSET ReplicaIds]

\* Beside the types: the tally is the number of active replicas, and no two
\* replicas are one key wearing two hats.
SealedTypeOK ==
    /\ replicas \in [ReplicaIds -> Replicas \cup {NoReplica}]
    /\ LET Known == {r \in ReplicaIds : replicas[r] # NoReplica} IN
       /\ activeReplicaCount = Cardinality({r \in Known : replicas[r].active})
       /\ \A q, r \in Known : q # r => replicas[q].signer # replicas[r].signer
    /\ bids \in [Tenders -> Seq(Bids)]
    /\ nullifierUsed \in [Tenders -> SUBSET Nullifiers]
    /\ ciphertextUsed \in [Tenders -> SUBSET Ciphertexts]
    /\ DOMAIN eligibilityProof = Credentials

SealedInit ==
    /\ replicas = [r \in ReplicaIds |-> NoReplica]
    /\ activeReplicaCount = 0
    /\ bids = [t \in Tenders |-> << >>]
    /\ nullifierUsed = [t \in Tenders |-> {}]
    /\ ciphertextUsed = [t \in Tenders |-> {}]
    /\ eligibilityProof = [c \in Credentials |-> NoProof]

-----------------------------------------------------------------------------
(* Replicas.                                                               *)

\* registerReplica: one-shot per id, and no two ids share a key.
RegisterReplica(c, r, signer) ==
    /\ IsCouncilMember(c)
    /\ replicas[r] = NoReplica
    /\ \A q \in ReplicaIds : replicas[q] # NoReplica => replicas[q].signer # signer
    /\ replicas' = [replicas EXCEPT ![r] = [signer |-> signer, active |-> TRUE]]
    /\ activeReplicaCount' = activeReplicaCount + 1
    /\ UNCHANGED <<bidVars, eligibilityProof>>

\* Faulty: counts the call, not the change.
CountedEveryTime(r, active) ==
    activeReplicaCount' = IF active THEN activeReplicaCount + 1 ELSE activeReplicaCount - 1

\* The count moves when the status does.
CountAfter(r, active) ==
    activeReplicaCount' = IF replicas[r].active = active THEN activeReplicaCount
                          ELSE IF active THEN activeReplicaCount + 1
                          ELSE activeReplicaCount - 1

\* setReplicaStatus; an empty reason reverts.
SetReplicaStatus(c, r, active) ==
    /\ IsCouncilMember(c)
    /\ replicas[r] # NoReplica
    /\ replicas' = [replicas EXCEPT ![r].active = active]
    /\ CountAfter(r, active)
    /\ UNCHANGED <<bidVars, eligibilityProof>>

-----------------------------------------------------------------------------
(* The bid set.                                                            *)

\* The leaf of bid i, which leaves the receipts out.
Leaf(t, i) ==
    [nullifier |-> bids[t][i].nullifier, commitment |-> bids[t][i].commitment,
     ciphertext |-> bids[t][i].ciphertext, index |-> i]

\* bidSetRoot and submissionCount.
BidSetRoot(t) == [i \in DOMAIN bids[t] |-> Leaf(t, i)]
SubmissionCount(t) == Len(bids[t])

\* Faulty: the receipt of a deactivated replica still counts.
RegisteredReceipts(receipts) ==
    /\ \A r \in receipts : replicas[r] # NoReplica
    /\ Cardinality(receipts) >= STORAGE_QUORUM

\* _verifyReceipts: registered, active, distinct replicas, two at least, whose
\* signatures cover the ciphertext.
ReceiptsValid(receipts) ==
    /\ \A r \in receipts : replicas[r] # NoReplica /\ replicas[r].active
    /\ Cardinality(receipts) >= STORAGE_QUORUM

\* Faulty: one bid too many.
OneOverCapacity(t) == SubmissionCount(t) <= MaxBids

\* BidCapacityReached, NullifierAlreadyUsed, CiphertextAlreadySubmitted.
CapacityRemains(t) == SubmissionCount(t) < MaxBids
NullifierFresh(t, nullifier) == nullifier \notin nullifierUsed[t]
CiphertextFresh(t, ciphertext) == ciphertext \notin ciphertextUsed[t]

\* Off-chain, apps/dashboard: a bidder is offered the active tenders, reads the
\* expected signals of one and proves them, if its credential can.
ProveEligibility(c, t, amount) ==
    LET s == ExpectedPublicSignals(t, Nullifier(c, t), BidCommitment(c, t, amount)) IN
    /\ state[t] = "ACTIVE"
    /\ SignalsAvailable(t)
    /\ Provable(c, s)
    /\ eligibilityProof' = [eligibilityProof EXCEPT ![c] = s]
    /\ UNCHANGED <<replicaVars, bidVars>>

\* _accept.
Accept(t, nullifier, commitment, ciphertext, receipts) ==
    /\ nullifierUsed' = [nullifierUsed EXCEPT ![t] = @ \cup {nullifier}]
    /\ ciphertextUsed' = [ciphertextUsed EXCEPT ![t] = @ \cup {ciphertext}]
    /\ bids' = [bids EXCEPT ![t] = Append(@,
         [nullifier |-> nullifier, commitment |-> commitment,
          ciphertext |-> ciphertext, receipts |-> receipts])]

\* requireEligibility, against the signals of the moment of submission.
EligibilityAccepted(t, proof) ==
    /\ SignalsAvailable(t)
    /\ Verifies(t, proof, ExpectedPublicSignals(t, proof.nullifier, proof.commitment))

\* submitBid, by anybody who holds the proof of credential c.
SubmitBid(c, t, ciphertext, receipts) ==
    LET proof == eligibilityProof[c] IN
    /\ proof # NoProof
    /\ ~paused
    /\ IsBiddingOpen(t)
    /\ CapacityRemains(t)
    /\ NullifierFresh(t, proof.nullifier)
    /\ CiphertextFresh(t, ciphertext)
    /\ ReceiptsValid(receipts)
    /\ EligibilityAccepted(t, proof)
    /\ Accept(t, proof.nullifier, proof.commitment, ciphertext, receipts)
    /\ UNCHANGED <<replicaVars, eligibilityProof>>

ReplicaStep(c) ==
    \/ \E r \in ReplicaIds, s \in Signers : RegisterReplica(c, r, s)
    \/ \E r \in ReplicaIds, active \in BOOLEAN : SetReplicaStatus(c, r, active)

-----------------------------------------------------------------------------
(* Properties.                                                             *)

\* The bid set, the nullifiers and the ciphertexts used tell one story: each bid
\* has its own credential and its own body, both marked as used, nothing else is
\* marked, the set fits the award circuit, and each bid's commitment is bound to
\* its nullifier (submitBid and _accept, over any order of submissions).
BidsDistinctAndBound ==
    \A t \in Tenders :
        LET I == DOMAIN bids[t] IN
        /\ Len(bids[t]) <= MaxBids
        /\ \A i, j \in I : i # j =>
             /\ bids[t][i].nullifier # bids[t][j].nullifier
             /\ bids[t][i].ciphertext # bids[t][j].ciphertext
        /\ nullifierUsed[t] = {bids[t][i].nullifier : i \in I}
        /\ ciphertextUsed[t] = {bids[t][i].ciphertext : i \in I}
        /\ \A i \in I : bids[t][i].commitment.nullifier = bids[t][i].nullifier

=============================================================================
