--------------------------- MODULE OpeningManager ---------------------------
(***************************************************************************)
(* OpeningManager.sol: after the close, anybody publishes the committed    *)
(* ciphertext body of a bid, and committee members publish decryption      *)
(* shares for it, each under its own index and with a valid proof.         *)
(***************************************************************************)
EXTENDS SealedBid

VARIABLES
    revealed,   \* _ciphertexts[t][i].revealed, as the set of revealed bids
    shares      \* shareSubmitted and _shares, by tender and bid

openingVars == <<revealed, shares>>

BidIndices == 1 .. MaxBids

OpeningTypeOK ==
    /\ revealed \in [Tenders -> SUBSET BidIndices]
    /\ shares \in [Tenders -> [BidIndices -> SUBSET MemberIndices]]

OpeningInit ==
    /\ revealed = [t \in Tenders |-> {}]
    /\ shares = [t \in Tenders |-> [i \in BidIndices |-> {}]]

-----------------------------------------------------------------------------

\* Faulty: any tender past activation may be opened.
ActiveOrClosed(t) == state[t] \in {"ACTIVE", "CLOSED"}

\* onlyClosed.
OnlyClosed(t) == state[t] = "CLOSED"

\* revealCiphertext: the body hashes to the committed ciphertextHash, so it is
\* the body of bid i; it must parse, and its R must be a subgroup point.
RevealCiphertext(t, i) ==
    /\ OnlyClosed(t)
    /\ i \in DOMAIN bids[t]
    /\ i \notin revealed[t]
    /\ bids[t][i].ciphertext.wellFormed
    /\ revealed' = [revealed EXCEPT ![t] = @ \cup {i}]
    /\ UNCHANGED shares

\* The caller is the member whose share it is.
IsMember(t, m, account) == committee[t].members[m] = account

\* submitDecryptionShare with a valid proof; shares past the third are accepted.
SubmitDecryptionShare(account, t, i, m) ==
    /\ OnlyClosed(t)
    /\ i \in revealed[t]
    /\ m \notin shares[t][i]
    /\ IsMember(t, m, account)
    /\ shares' = [shares EXCEPT ![t][i] = @ \cup {m}]
    /\ UNCHANGED revealed

\* Faulty: one share more than the threshold.
OneShareMore(t, i) == Cardinality(shares[t][i]) > OPENING_THRESHOLD

\* openingStatus(...).ready.
Ready(t, i) == Cardinality(shares[t][i]) >= OPENING_THRESHOLD

\* Off-chain, openSealedBid: three shares decrypt the body, and what it says is
\* accepted only if it reproduces the commitment on chain.
Opens(t, i) ==
    /\ Ready(t, i)
    /\ bids[t][i].ciphertext.commitment = bids[t][i].commitment

\* _requireAllOpened.
AllOpened(t) == \A i \in DOMAIN bids[t] : Ready(t, i)

=============================================================================
