------------------------ MODULE IndependentVerifier ------------------------
(***************************************************************************)
(* packages/verifier/src/verify.mjs: the checks an outsider runs over a    *)
(* bundle and nothing else.  A Groth16 proof verifies under its key        *)
(* against the signals it was made for and no others.  A check whose part  *)
(* is absent from the bundle is skipped, and a bundle is verified when no  *)
(* check failed.                                                           *)
(***************************************************************************)
EXTENDS Evidence

CONSTANT RulesOf    \* what a rule document parses to

ASSUME VerifierAssumption == RulesOf \in [RuleDocuments -> RuleFields]

ProofVerifies(b, circuit, x) == circuit \in b.keys /\ x.proof = x.signals

\* Checks 1 and 1b.  The disclosure policy of the document is not looked at.
RulesAgree(b) ==
    /\ b.rules.document = b.rules.rulesHash
    /\ b.rules.document \in DOMAIN RulesOf
    /\ \A f \in {"turnover", "experience", "certCode", "biddingStart", "deadline",
                 "reviewWindow", "issuerEpoch", "verifierVersion"} :
         RulesOf[b.rules.document][f] = b.rules.fields[f]

\* Check 2.
ReviewWindowHonoured(b) ==
    /\ b.rules.fields.biddingStart >= b.rules.activatedAt + b.rules.fields.reviewWindow
    /\ b.rules.fields.reviewWindow >= AbsoluteMinReview

\* Check 3: leaves from the recorded values, the root from the leaves.
SetRebuilds(b) ==
    LET leaf == [k \in DOMAIN b.bids |->
                   [nullifier |-> b.bids[k].nullifier, commitment |-> b.bids[k].commitment,
                    ciphertext |-> b.bids[k].ciphertext, index |-> b.bids[k].index]] IN
    /\ \A k \in DOMAIN b.bids : leaf[k] = b.bids[k].leaf
    /\ leaf = b.roots.bidSet
    /\ Len(b.bids) = b.roots.count

\* Checks 4 and 4b.
BoundToRules(b, bid) ==
    LET s == bid.signals IN
    /\ s.tender = b.rules.tender /\ s.rulesHash = b.rules.rulesHash
    /\ s.turnover = b.rules.fields.turnover /\ s.experience = b.rules.fields.experience
    /\ s.certCode = b.rules.fields.certCode
    /\ s.deadline = b.rules.fields.deadline /\ s.epoch = b.rules.fields.issuerEpoch
    /\ s.issuerRoot = b.roots.issuer /\ s.revocationRoot = b.roots.revocation
    /\ s.nullifier = bid.nullifier /\ s.commitment = bid.commitment

EligibilityProved(b) ==
    /\ b.bids # << >>
    /\ \A k \in DOMAIN b.bids :
         ProofVerifies(b, "eligibility", b.bids[k]) /\ BoundToRules(b, b.bids[k])

\* Check 5.
NullifiersDistinct(b) ==
    \A j, k \in DOMAIN b.bids : j # k => b.bids[j].nullifier # b.bids[k].nullifier

\* Faulty: only the replicas in use at the export.
SignersInUse(b) ==
    {[replica |-> x.replica, signer |-> x.signer] : x \in {y \in b.replicas : y.active}}

\* Check 6 compares with the registry of the bundle, deactivated replicas included.
RegisteredSigners(b) == {[replica |-> x.replica, signer |-> x.signer] : x \in b.replicas}

\* A receipt is for the body of its bid and by the replica it names, and the bid's root
\* is that of its receipts.
ReceiptsSigned(b) ==
    /\ b.bids # << >>
    /\ \A k \in DOMAIN b.bids :
         LET bid == b.bids[k]
             ids == {x.replica : x \in bid.receipts}
         IN /\ ids = bid.receiptRoot
            /\ \A x \in bid.receipts :
                 /\ [replica |-> x.replica, signer |-> x.signer] \in RegisteredSigners(b)
                 /\ x.content = bid.ciphertext
            /\ Cardinality(ids) >= STORAGE_QUORUM

\* Check 7.
MinedInWindow(b) ==
    /\ b.bids # << >>
    /\ \A k \in DOMAIN b.bids :
         b.rules.fields.biddingStart <= b.bids[k].at /\ b.bids[k].at < b.rules.fields.deadline

\* Check 8: of each bid that has shares at all.  A share in the bundle carries the proof
\* the contract took it by, and the same check of that proof, of a ciphertext that was
\* published, does not come out otherwise.
OpeningHolds(b) ==
    /\ b.opening # {}
    /\ \A s \in b.opening :
         /\ s.member \in MemberIndices
         /\ s.bid \in b.ciphertexts
         /\ s.at >= b.rules.fields.deadline
         /\ Cardinality({x.member : x \in {y \in b.opening : y.bid = s.bid}})
              >= OPENING_THRESHOLD

\* Check 9.
StatusProved(b) ==
    \A s \in b.statusProofs :
        /\ ProofVerifies(b, "eligibility", s)
        /\ s.signals.revocationRoot = b.roots.deadline

\* Faulty: the award is not bound to the set in the bundle.
BoundToAnySet(b) ==
    LET s == b.award.signals IN
    s.tender = b.rules.tender /\ s.rulesHash = b.rules.rulesHash

\* Check 10, the signals.
BoundToSet(b) ==
    LET s == b.award.signals IN
    /\ s.tender = b.rules.tender /\ s.rulesHash = b.rules.rulesHash
    /\ s.bidSetRoot = b.roots.bidSet /\ s.count = b.roots.count
    /\ s.winner = b.award.winner /\ s.price = b.award.price
    /\ s.disclosurePolicy = b.rules.fields.disclosurePolicy

\* Check 10.
AwardProved(b) ==
    b.award # NoAward =>
        /\ ProofVerifies(b, "award", b.award)
        /\ BoundToSet(b)
        /\ \E k \in DOMAIN b.bids :
             b.bids[k].index = b.award.index /\ b.bids[k].commitment = b.award.winner
        /\ (b.rules.fields.disclosurePolicy = CONCEAL_WINNING_PRICE) = (b.award.price = 0)

\* Check 11; a record is taken to name the credential it was published for.
IdentityProved(b) ==
    b.identity # NoIdentity =>
        /\ ProofVerifies(b, "winner_identity", b.identity)
        /\ b.identity.signals.tender = b.rules.tender
        /\ b.award # NoAward =>
             /\ b.identity.signals.commitment = b.award.winner
             /\ \A k \in DOMAIN b.bids : b.bids[k].index = b.award.index =>
                  b.identity.signals.nullifier = b.bids[k].nullifier
        /\ b.identity.signals.identity = IdentityCommitment(b.identity.credential, b.identity.record)
        /\ b.identity.signals.issuerRoot = b.roots.issuer

\* verifyBundle without --rpc, and the exit code of cli.mjs.
Verified(b) ==
    /\ RulesAgree(b) /\ ReviewWindowHonoured(b)
    /\ SetRebuilds(b) /\ EligibilityProved(b) /\ NullifiersDistinct(b)
    /\ ReceiptsSigned(b) /\ MinedInWindow(b)
    /\ OpeningHolds(b) /\ StatusProved(b)
    /\ AwardProved(b) /\ IdentityProved(b)

\* The dashboard's auditor re-runs what needs no proof against the chain itself.  What
\* it recomputes as the contract does from values the contract keeps (the leaves and the
\* root of the set, the commitment to the identity record) comes out the same; of the
\* document's text only the values it parses to are compared here.
AuditorAgrees(t) ==
    /\ rulesHash[t] = ruleDocument[t]
    /\ \A f \in {"turnover", "experience", "certCode", "biddingStart", "deadline",
                 "reviewWindow", "issuerEpoch"} : RulesOf[ruleDocument[t]][f] = fields[t][f]
    /\ committee[t].consistent
    /\ award[t] # NoAward => award[t].bidSetRoot = BidSetRoot(t)
                          /\ award[t].count = SubmissionCount(t)

-----------------------------------------------------------------------------
(* Corrupted bundles, as the verifier is meant to be given now and then.     *)

AllKeys == {"eligibility", "award", "winner_identity"}

\* A bundle whose list of bids is another, with root and count brought in line.
WithBids(b, s) ==
    [b EXCEPT !.bids = s,
              !.roots.bidSet = [k \in DOMAIN s |-> s[k].leaf],
              !.roots.count = Len(s)]

Without(s, i) == [k \in 1 .. Len(s) - 1 |-> IF k < i THEN s[k] ELSE s[k + 1]]
Swapped(s) == [k \in DOMAIN s |-> s[Len(s) + 1 - k]]

\* One bid lost, one twice, all in another order; another winner, another price,
\* another name; the award proof of one set over the bids of another.
Corrupted(b) ==
    {WithBids(b, Without(b.bids, i)) : i \in DOMAIN b.bids}
    \cup {[b EXCEPT !.bids = Without(b.bids, i)] : i \in DOMAIN b.bids}
    \cup {WithBids(b, Append(b.bids, b.bids[i])) : i \in DOMAIN b.bids}
    \cup {WithBids(b, Swapped(b.bids))}
    \cup {[b EXCEPT !.award.index = i, !.award.winner = b.bids[i].commitment,
                    !.award.signals.winner = b.bids[i].commitment] : i \in DOMAIN b.bids}
    \cup {[b EXCEPT !.award.price = 0, !.award.signals.price = 0]}
    \cup (IF b.identity = NoIdentity THEN {}
          ELSE {[b EXCEPT !.identity.credential = c,
                          !.identity.signals.identity = IdentityCommitment(c, b.identity.record)] :
                  c \in Credentials})

\* Who bid, who won at which price, and who that is.
Says(b) ==
    [bids |-> [k \in DOMAIN b.bids |-> b.bids[k].leaf], winner |-> b.award.winner,
     index |-> b.award.index, price |-> b.award.price,
     name |-> IF b.identity = NoIdentity THEN NoIdentity ELSE b.identity.credential]

-----------------------------------------------------------------------------

RootsStandSinceProved(t) ==
    /\ \A i \in DOMAIN bids[t] : LET b == BidPart(t, i) IN b.proof = b.signals
    /\ \A s \in StatusPart(t) : s.proof = s.signals
    /\ identity[t] # NoIdentity => IdentityPart(t).proof = IdentityPart(t).signals

\* As long as the roots of the tender's epoch are those its proofs were made against,
\* an awarded tender exports to a bundle that verifies, whatever else went on: bodies
\* that came in any order, replicas deactivated since, the name published or not.  The
\* auditor's page agrees.
HonestBundleVerifies ==
    \A t \in Tenders :
        /\ award[t] # NoAward
        /\ RulesOf[ruleDocument[t]] = fields[t]
        /\ Exportable(t) /\ RootsStandSinceProved(t)
        => Verified(Bundle(t, AllKeys)) /\ AuditorAgrees(t)

\* A bundle with an award that verifies tells the truth, though nothing of the chain
\* is asked: no corruption of the bundle of an awarded tender passes with another bid
\* set, winner, price or name.
VerifiedIsTrue ==
    \A t \in Tenders : award[t] # NoAward /\ Exportable(t) =>
        LET b == Bundle(t, AllKeys) IN
        \A x \in Corrupted(b) : Verified(x) => Says(x) = Says(b)

=============================================================================
