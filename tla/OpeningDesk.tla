---------------------------- MODULE OpeningDesk ----------------------------
(***************************************************************************)
(* The algebra behind a tender at work: a committee key is dealt, bids are *)
(* sealed to it and put into the contract's tree, members file decryption  *)
(* shares in any order, right ones or whatever else the check of a share   *)
(* lets through, the desk combines what is filed, opens the bids, and      *)
(* builds the award witness over what it opened.  Meanwhile the council    *)
(* revokes credentials, and bidders prove they are not revoked.            *)
(***************************************************************************)
EXTENDS FeldmanVSS, MerkleTree

CONSTANTS
    Desks,        \* bound: what is dealt, sealed, filed and revoked in a behaviour
    BidDepth,     \* BID_TREE_DEPTH
    RevDepth,     \* REVOCATION_TREE_DEPTH
    NoWitness

MaxBids == Capacity(BidDepth)
BidIndices == 1 .. MaxBids
Amounts == 1 .. 2
CredentialIds == 0 .. Capacity(RevDepth) - 1

\* The coefficients dealt, the most bids, whether bidders may seal another amount
\* than they commit to, the members that act, what of small order their shares may have
\* in them, and whose credentials may be revoked.
DeskRecords ==
    [coefficients : SUBSET [1 .. COMMITTEE_THRESHOLD -> Scalars], ephemerals : SUBSET Scalars,
     most : 0 .. MaxBids, honest : BOOLEAN, members : SUBSET CommitteeIndices,
     strays : SUBSET (0 .. COFACTOR - 1), revocable : SUBSET CredentialIds]

ASSUME DeskAssumption == BidDepth \in Nat /\ RevDepth \in Nat /\ Desks \subseteq DeskRecords

VARIABLES
    desk,       \* bound: the desk of this behaviour
    dealing,    \* the dealt key, checked by verifyDealing before it is used
    bids,       \* accepted bids: [commitment, envelope]
    tree,       \* the contract's tree of their leaves
    closed,     \* the tender is closed: no more bids, and opening may start
    filed,      \* accepted decryption shares, by bid and member
    opened,     \* openings made, in the order they were made
    witness,    \* the award witness last built and compared with the chain's root
    revoked     \* the credential the published revocation root is about

deskVars == <<desk, dealing, bids, tree, closed, filed, opened, witness, revoked>>

Leaf(i, commitment) == <<"leaf", i, commitment>>
Leaves == [i \in DOMAIN bids |-> Leaf(i, bids[i].commitment)]

DeskInit ==
    /\ desk \in Desks
    /\ dealing \in {Deal(c) : c \in desk.coefficients}
    /\ VerifyDealing(dealing)
    /\ bids = << >>
    /\ tree = EmptyTree(BidDepth)
    /\ closed = FALSE
    /\ filed = [i \in BidIndices |-> << >>]
    /\ opened = << >>
    /\ witness = NoWitness
    /\ revoked = NoneRevoked

\* A bidder seals a payload under its own key and ephemeral scalar, and the chain
\* takes its commitment and leaf.
SubmitSealed(sealed, committed, r) ==
    /\ ~closed
    /\ Len(bids) < desk.most
    /\ desk.honest => sealed = committed
    /\ bids' = Append(bids, [commitment |-> committed,
                 envelope |-> SealBid(dealing.publicKey, sealed, Len(bids) + 1, r)])
    /\ tree' = Insert(tree, Leaf(Len(bids) + 1, committed), BidDepth)
    /\ UNCHANGED <<desk, dealing, closed, filed, opened, witness, revoked>>

\* closeTender, once the deadline has passed.
CloseTender ==
    /\ ~closed
    /\ closed' = TRUE
    /\ UNCHANGED <<desk, dealing, bids, tree, filed, opened, witness, revoked>>

\* Faulty: the desk trusts what members file.
AnyPoint(i, m, point) == TRUE

\* The check a share must pass, by the key the member was dealt and the bid's ephemeral
\* point, which was found to be in the subgroup.
ShareProved(i, m, point) ==
    VerifyDleq(ExpectedPublicShare(m, dealing.commitments), bids[i].envelope.ephemeral, point)

\* submitDecryptionShare: a member sends any point of the curve, its share of the bid,
\* one made from a stale file or another.  What is taken is not taken again.
FileShare(i, m, point) ==
    /\ closed
    /\ i \in DOMAIN bids /\ m \in desk.members
    /\ m \notin DOMAIN filed[i]
    /\ point.small \in desk.strays
    /\ ShareProved(i, m, point)
    /\ filed' = [filed EXCEPT ![i] =
                   [k \in DOMAIN @ \cup {m} |-> IF k = m THEN point ELSE @[k]]]
    /\ UNCHANGED <<desk, dealing, bids, tree, closed, opened, witness, revoked>>

Shared(i) == CombineInExponent(filed[i])

\* openBid, over all the shares on the chain.
OpenBid(i) ==
    /\ i \in DOMAIN bids
    /\ Cardinality(DOMAIN filed[i]) >= COMMITTEE_THRESHOLD
    /\ \A k \in DOMAIN opened : opened[k].index # i
    /\ Opens(bids[i].envelope, Shared(i), bids[i].commitment)
    /\ opened' = Append(opened, [index |-> i, amount |-> bids[i].envelope.ct.plain])
    /\ UNCHANGED <<desk, dealing, bids, tree, closed, filed, witness, revoked>>

-----------------------------------------------------------------------------
(* award.ts.                                                               *)

\* selectWinner: one pass, keeping the best so far.
SelectWinner(s) ==
    LET Better(a, b) == \/ a.amount < b.amount
                        \/ a.amount = b.amount /\ a.index < b.index
        best[k \in 1 .. Len(s)] ==
          IF k = 1 THEN s[1] ELSE IF Better(s[k], best[k - 1]) THEN s[k] ELSE best[k - 1]
    IN best[Len(s)]

\* buildAwardWitness sorts its openings and refuses gaps.
NoGaps(s) == {s[k].index : k \in DOMAIN s} = 1 .. Len(s)

\* proveAward refuses a witness whose root is not the chain's.
AwardWitness ==
    /\ opened # << >>
    /\ NoGaps(opened)
    /\ LET ordered == [i \in DOMAIN opened |->
                         opened[CHOOSE k \in DOMAIN opened : opened[k].index = i]]
       IN /\ tree.root = RootFromLeaves([i \in DOMAIN ordered |-> Leaf(i, ordered[i].amount)],
                                        BidDepth)
          /\ witness' = [count |-> Len(ordered), winner |-> SelectWinner(ordered).index]
    /\ UNCHANGED <<desk, dealing, bids, tree, closed, filed, opened, revoked>>

\* publishRevocationRoot of revocationTreeWith(id).
Revoke(id) ==
    /\ id \in desk.revocable
    /\ revoked' = id
    /\ UNCHANGED <<desk, dealing, bids, tree, closed, filed, opened, witness>>

DeskNext ==
    \/ \E sealed, committed \in Amounts, r \in desk.ephemerals :
         SubmitSealed(sealed, committed, r)
    \/ CloseTender
    \/ \E i \in BidIndices, m \in CommitteeIndices, point \in CurvePoints :
         FileShare(i, m, point)
    \/ \E i \in BidIndices : OpenBid(i)
    \/ AwardWitness
    \/ \E id \in CredentialIds : Revoke(id)

DeskSpec == DeskInit /\ [][DeskNext]_deskVars

-----------------------------------------------------------------------------

\* A member's own share always passes the check, and whichever members filed, and
\* whatever they filed, any three of them or more combine to the point the bidder wrapped
\* its key under, but for what they have of small order: a stale or damaged share never
\* gets in the way, one outside the subgroup does.  So no choice of shares opens a bid to
\* anything but what its bidder sealed, and shares of the subgroup open it.
AcceptedSharesCombine ==
    \A i \in DOMAIN bids :
        LET R == bids[i].envelope.ephemeral
            wrapped == bids[i].envelope.wrapped.under
        IN /\ \A m \in CommitteeIndices :
                ShareProved(i, m, DecryptionShare(dealing.shares[m], R))
           /\ \A M \in SUBSET DOMAIN filed[i] : Cardinality(M) >= COMMITTEE_THRESHOLD =>
                LET shared == CombineInExponent([m \in M |-> filed[i][m]])
                IN /\ shared.log = wrapped.log
                   /\ (\A m \in M : InPrimeSubgroup(filed[i][m])) => shared = wrapped

\* A witness is of the chain's own complete set: what the contract accumulated with
\* one cached node per level is what the desk recomputes from what it opened, each
\* leaf has its inclusion proof, and the winner is the lowest, earliest of all the
\* bids, in whatever order they were opened.
WitnessOfCompleteSet ==
    /\ tree.root = RootFromLeaves(Leaves, BidDepth)
    /\ \A i \in DOMAIN bids :
         VerifyProof(Leaves[i], i - 1, Siblings(Leaves, i - 1, BidDepth), tree.root, BidDepth)
    /\ witness # NoWitness =>
         /\ witness.count = Len(bids)
         /\ \A j \in DOMAIN bids : LET w == witness.winner IN
              \/ bids[w].commitment < bids[j].commitment
              \/ bids[w].commitment = bids[j].commitment /\ w <= j

\* Under the root published last, every credential but the revoked one proves that
\* it is not revoked, and that one cannot (witness.ts, whose first version placed the
\* revoked subtree at the wrong level).
OnlyRevokedFail ==
    \A id \in CredentialIds :
        NonRevocationProves(id, SiblingsFor(revoked, id, RevDepth),
                            RevocationTreeRoot(revoked, RevDepth), RevDepth)
          <=> id # revoked

=============================================================================
