------------------------ MODULE EligibilityVerifier ------------------------
(***************************************************************************)
(* The statements of EligibilityVerifier.sol and eligibility.circom: the   *)
(* twelve public signals the chain derives for a tender, and which of them *)
(* a credential can prove.  A proof is the signals it was made for: the    *)
(* proof system is sound and complete, so a proof exists for the true      *)
(* statements only and verifies against its own signals only.              *)
(***************************************************************************)
EXTENDS TenderRegistry

CONSTANTS
    Credentials,   \* attested credentials, each with its own subject secret
    Attested,      \* what the issuer signed, by credential
    Amounts        \* prices a bidder may commit to

\* The certificate is valid until one date, the credential that attests it expires on
\* another.
Attestations ==
    [issuer : IssuerIds, epoch : Nat, turnover : Nat, experience : Nat, certCode : Nat,
     validUntil : Nat, expires : Nat]

ASSUME EligibilityAssumption ==
    /\ Attested \in [Credentials -> Attestations]
    /\ IssuerRoots \subseteq SUBSET IssuerIds
    /\ RevocationRoots \subseteq SUBSET Credentials
    /\ Amounts \subseteq Nat

\* Poseidon digests, injective in what they hash (clauses 8 and 9).
Nullifier(c, t) == <<c, t>>
BidCommitment(c, t, amount) == [amount |-> amount, nullifier |-> Nullifier(c, t)]

\* expectedPublicSignals reverts before activation and while a root is missing.
SignalsAvailable(t) ==
    /\ activatedAt[t] # 0
    /\ issuerRegistryRoot[fields[t].issuerEpoch] # NoRoot
    /\ revocationRoot[fields[t].issuerEpoch] # NoRoot

\* expectedPublicSignals: the tender's rules, and the roots of its epoch as they
\* stand now.
ExpectedPublicSignals(t, nullifier, commitment) ==
    [tender |-> t, rulesHash |-> rulesHash[t],
     turnover |-> fields[t].turnover, experience |-> fields[t].experience,
     certCode |-> fields[t].certCode,
     deadline |-> fields[t].deadline,
     issuerRoot |-> issuerRegistryRoot[fields[t].issuerEpoch],
     revocationRoot |-> revocationRoot[fields[t].issuerEpoch],
     epoch |-> fields[t].issuerEpoch,
     nullifier |-> nullifier, commitment |-> commitment]

\* DeadlineRootNotPinned.
StatusSignalsAvailable(t) ==
    SignalsAvailable(t) /\ deadlineRevocationRoot[t] # NoRoot

\* Faulty: the live root in place of the pinned one.
LiveStatusSignals(t, nullifier, commitment) ==
    ExpectedPublicSignals(t, nullifier, commitment)

\* expectedDeadlineStatusSignals: signal 8 is the pinned root.
ExpectedDeadlineStatusSignals(t, nullifier, commitment) ==
    [ExpectedPublicSignals(t, nullifier, commitment) EXCEPT
       !.revocationRoot = deadlineRevocationRoot[t]]

\* The clauses of eligibility.circom, for credential c and the signals s.
Provable(c, s) ==
    LET a == Attested[c] IN
    /\ a.issuer \in s.issuerRoot
    /\ c \notin s.revocationRoot
    /\ a.turnover >= s.turnover
    /\ a.experience >= s.experience
    /\ a.certCode = s.certCode
    /\ a.validUntil >= s.deadline
    /\ a.expires >= s.deadline
    /\ a.epoch = s.epoch
    /\ s.nullifier = Nullifier(c, s.tender)
    /\ s.commitment.nullifier = s.nullifier

\* _verify: under the version the tender pinned, with no fallback.
Verifies(t, proof, signals) ==
    /\ VersionRegistered(fields[t].verifierVersion)
    /\ proof = signals

=============================================================================
