------------------------------ MODULE Evidence ------------------------------
(***************************************************************************)
(* services/evidence/src/bundle.mjs: a tender exported from the chain as   *)
(* one record.  Everything is read at one pinned block, so a bundle is a   *)
(* function of one state of the pipeline and of the calldata the chain     *)
(* keeps: proofs are not stored, they are recovered from the transactions  *)
(* that carried them.                                                      *)
(***************************************************************************)
EXTENDS FairProof

VARIABLE calldata    \* what the mined transactions carried, by tender

evidenceVars == <<vars, calldata>>

NoCalldata ==
    [bids |-> << >>, shares |-> {}, status |-> {}, award |-> NoProof, identity |-> NoProof]

\* AwardManager, expectedPublicSignals: all of a closed tender, so none of them moves.
AwardSignals(t, winner, price) ==
    [tender |-> t, rulesHash |-> rulesHash[t], bidSetRoot |-> BidSetRoot(t),
     count |-> SubmissionCount(t), winner |-> winner, price |-> price,
     disclosurePolicy |-> fields[t].disclosurePolicy]

SharesMined(t) ==
    {[bid |-> p[1], member |-> p[2], at |-> now] :
       p \in {q \in BidIndices \X MemberIndices : q[2] \in shares'[t][q[1]] \ shares[t][q[1]]}}

\* A mined transaction carried a proof of what its contract expected then; its
\* block carries the time.
Mined(t) ==
    [bids |-> calldata[t].bids \o
       [k \in 1 .. Len(bids'[t]) - Len(bids[t]) |->
          LET b == bids'[t][Len(bids[t]) + k] IN
          [proof |-> ExpectedPublicSignals(t, b.nullifier, b.commitment), at |-> now]],
     shares |-> calldata[t].shares \cup SharesMined(t),
     status |-> calldata[t].status \cup
       {[bid |-> i, proof |-> ExpectedDeadlineStatusSignals(
                                t, bids[t][i].nullifier, bids[t][i].commitment)] :
          i \in proven'[t] \ proven[t]},
     award |-> IF award'[t] = award[t] THEN calldata[t].award
               ELSE AwardSignals(t, award'[t].winner, award'[t].price),
     identity |-> IF identity'[t] = identity[t] THEN calldata[t].identity
                  ELSE ExpectedIdentitySignals(t, identity'[t].credential,
                                               identity'[t].record)]

EvidenceInit == Init /\ calldata = [t \in Tenders |-> NoCalldata]

EvidenceNext == Next /\ calldata' = [t \in Tenders |-> Mined(t)]

EvidenceSpec == EvidenceInit /\ [][EvidenceNext]_evidenceVars

\* The statements of the award and of the name, and what a bundle says of each.
Leaves == [nullifier : Nullifiers, commitment : Commitments, ciphertext : Ciphertexts,
           index : BidIndices]
AwardStatements ==
    [tender : Tenders, rulesHash : RuleDocuments \cup {EmptyDocument, NoDigest},
     bidSetRoot : Seq(Leaves), count : Nat, winner : Commitments, price : Prices,
     disclosurePolicy : Nat]
IdentityStatements ==
    [tender : Tenders, commitment : Commitments, nullifier : Nullifiers,
     identity : Credentials \X Records, issuerRoot : IssuerRoots \cup {NoRoot}]
AwardParts == [winner : Commitments, price : Prices, index : BidIndices,
               proof : AwardStatements, signals : AwardStatements]
IdentityParts == [credential : Credentials, record : Records,
                  proof : IdentityStatements, signals : IdentityStatements]

\* A part that is there is never taken for one that is not.
ASSUME EvidenceAssumption == NoAward \notin AwardParts /\ NoIdentity \notin IdentityParts

-----------------------------------------------------------------------------
(* The bundle.  The public signals beside each proof are asked of the chain  *)
(* at the pinned block, not recovered with the proof.                        *)

\* Without one of the roots, expectedPublicSignals reverts and there is no bundle.
Exportable(t) ==
    /\ state[t] # "NONE"
    /\ bids[t] # << >> => SignalsAvailable(t)
    /\ proven[t] # {} => StatusSignalsAvailable(t)

RulesPart(t) ==
    [tender |-> t, document |-> ruleDocument[t], rulesHash |-> rulesHash[t],
     fields |-> fields[t], activatedAt |-> activatedAt[t]]

RootsPart(t) ==
    [issuer |-> issuerRegistryRoot[fields[t].issuerEpoch],
     revocation |-> revocationRoot[fields[t].issuerEpoch],
     deadline |-> deadlineRevocationRoot[t],
     bidSet |-> BidSetRoot(t), count |-> SubmissionCount(t)]

\* A receipt names its replica and what it stored; whose signature it carries is
\* recovered from it.  The root of the receipts is what the contract computed of them.
BidPart(t, i) ==
    LET b == bids[t][i] IN
    [index |-> i, nullifier |-> b.nullifier, commitment |-> b.commitment,
     ciphertext |-> b.ciphertext, leaf |-> Leaf(t, i), at |-> calldata[t].bids[i].at,
     receipts |-> {[replica |-> r, signer |-> replicas[r].signer, content |-> b.ciphertext] :
                     r \in b.receipts},
     receiptRoot |-> b.receipts,
     proof |-> calldata[t].bids[i].proof,
     signals |-> ExpectedPublicSignals(t, b.nullifier, b.commitment)]

StatusPart(t) ==
    {[bid |-> s.bid, proof |-> s.proof,
      signals |-> ExpectedDeadlineStatusSignals(
                    t, bids[t][s.bid].nullifier, bids[t][s.bid].commitment)] :
       s \in calldata[t].status}

AwardPart(t) ==
    IF award[t] = NoAward THEN NoAward
    ELSE [winner |-> award[t].winner, price |-> award[t].price, index |-> award[t].index,
          proof |-> calldata[t].award,
          signals |-> AwardSignals(t, award[t].winner, award[t].price)]

IdentityPart(t) ==
    IF identity[t] = NoIdentity THEN NoIdentity
    ELSE [credential |-> identity[t].credential, record |-> identity[t].record,
          proof |-> calldata[t].identity,
          signals |-> ExpectedIdentitySignals(t, identity[t].credential, identity[t].record)]

ReplicasPart ==
    {[replica |-> r, signer |-> replicas[r].signer, active |-> replicas[r].active] :
       r \in {q \in ReplicaIds : replicas[q] # NoReplica}}

\* exportBundle, with the verification keys found on disk.
Bundle(t, keys) ==
    [keys |-> keys, rules |-> RulesPart(t), roots |-> RootsPart(t),
     bids |-> [i \in DOMAIN bids[t] |-> BidPart(t, i)],
     replicas |-> ReplicasPart, ciphertexts |-> revealed[t],
     opening |-> calldata[t].shares, statusProofs |-> StatusPart(t),
     award |-> AwardPart(t), identity |-> IdentityPart(t)]

-----------------------------------------------------------------------------

\* "Rebuilt from chain state by the verifier, and recorded here so a reader can see
\* exactly what statement was proved." (bundle.mjs, acceptedBids): the public
\* signals in a bundle are those of the proof beside them.
RecordedIsProved ==
    \A t \in Tenders : Exportable(t) =>
        \A i \in DOMAIN bids[t] : LET b == BidPart(t, i) IN b.proof = b.signals

=============================================================================
