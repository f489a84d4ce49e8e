--------------------------- MODULE WinnerIdentity ---------------------------
(***************************************************************************)
(* WinnerIdentity.sol and winner_identity.circom: after the award, whoever *)
(* holds the winning bid's secret publishes one record and is named.  The  *)
(* statement binds the bid, the credential and the record; its issuer root *)
(* is the live one of the tender's epoch, so the council can move it       *)
(* between the making of a proof and its submission.                       *)
(***************************************************************************)
EXTENDS AwardManager

CONSTANTS
    Records,      \* identity records, of 1 to MAX_RECORD_BYTES bytes
    NoIdentity

Identities == [credential : Credentials, record : Records]

ASSUME IdentityAssumption == NoIdentity \notin Identities \cup Credentials

VARIABLES
    identityProof,   \* off-chain: the identity proof of a credential, made last
    identity         \* _identities, NoIdentity where not proven

identityVars == <<identityProof, identity>>

IdentityTypeOK ==
    /\ DOMAIN identityProof = Credentials
    /\ identity \in [Tenders -> Identities \cup {NoIdentity}]

IdentityInit ==
    /\ identityProof = [c \in Credentials |-> NoProof]
    /\ identity = [t \in Tenders |-> NoIdentity]

\* identityCommitment: Poseidon over the credential id and the record's hash.
IdentityCommitment(c, record) == <<c, record>>

\* expectedPublicSignals: the award's commitment, the nullifier of the bid at the
\* award's index, and the issuer root of the tender's epoch as it stands now.
ExpectedIdentitySignals(t, c, record) ==
    [tender |-> t, commitment |-> award[t].winner,
     nullifier |-> bids[t][award[t].index].nullifier,
     identity |-> IdentityCommitment(c, record),
     issuerRoot |-> issuerRegistryRoot[fields[t].issuerEpoch]]

IssuerRootPublished(t) == issuerRegistryRoot[fields[t].issuerEpoch] # NoRoot

\* The constraints of winner_identity.circom, for credential c: one secret is
\* behind the nullifier, the credential and the commitment.
IdentityProvable(c, s) ==
    /\ s.nullifier = Nullifier(c, s.tender)
    /\ s.commitment.nullifier = s.nullifier
    /\ s.identity[1] = c
    /\ Attested[c].issuer \in s.issuerRoot

\* Off-chain, publishIdentity up to the proof: offered to the bidder whose own
\* receipt carries the award's commitment, while the record is unpublished.
ProveIdentity(c, t, record) ==
    LET s == ExpectedIdentitySignals(t, c, record) IN
    /\ award[t] # NoAward
    /\ award[t].winner.nullifier = Nullifier(c, t)
    /\ identity[t] = NoIdentity
    /\ IssuerRootPublished(t)
    /\ IdentityProvable(c, s)
    /\ identityProof' = [identityProof EXCEPT ![c] = s]
    /\ UNCHANGED identity

\* Faulty: the proof is checked against the root it was made for.
VerifiesAsMade(proof, signals) ==
    proof = [signals EXCEPT !.issuerRoot = proof.issuerRoot]

\* IdentityProofRejected: the verifier contract, on the signals of this moment.
IdentityVerifies(proof, signals) == proof = signals

\* Faulty: a recorded award counts as a published identity.
NotOnceAwarded(t) == award[t] = NoAward

\* AlreadyProven.
NotYetProven(t) == identity[t] = NoIdentity

\* submitIdentityProof, by anybody, for any credential id and record.
SubmitIdentityProof(t, proof, c, record) ==
    /\ award[t] # NoAward
    /\ NotYetProven(t)
    /\ fields[t].verifierVersion = CircuitVersion
    /\ IssuerRootPublished(t)
    /\ IdentityVerifies(proof, ExpectedIdentitySignals(t, c, record))
    /\ identity' = [identity EXCEPT ![t] = [credential |-> c, record |-> record]]
    /\ UNCHANGED identityProof

=============================================================================
