----------------------------- MODULE BondEscrow -----------------------------
(***************************************************************************)
(* BondEscrow.sol: bank adapters record the guarantee behind an accepted   *)
(* bid, by nullifier, and later settle it.  Amounts, dates and the texts   *)
(* of reasons are left out; an empty reference, amount or reason reverts.  *)
(***************************************************************************)
EXTENDS SealedBid

CONSTANTS
    Adapters,        \* accounts that may be bank adapters
    GuaranteeRefs,   \* non-zero references
    NoBond

BondRecords ==
    [status : {"POSTED", "RELEASED", "FORFEITED"}, guaranteeRef : GuaranteeRefs,
     postedBy : Adapters, settledBy : Adapters \cup {NoBond}]

ASSUME BondAssumption == NoBond \notin BondRecords

VARIABLES
    isBankAdapter,   \* as the set of adapters
    bonds,           \* _bonds, by tender and nullifier
    postedCount

bondVars == <<isBankAdapter, bonds, postedCount>>

BondTypeOK ==
    /\ isBankAdapter \subseteq Adapters
    /\ bonds \in [Tenders -> [Nullifiers -> BondRecords \cup {NoBond}]]
    /\ postedCount \in [Tenders -> Nat]

BondInit ==
    /\ isBankAdapter = {}
    /\ bonds = [t \in Tenders |-> [n \in Nullifiers |-> NoBond]]
    /\ postedCount = [t \in Tenders |-> 0]

\* setBankAdapter.
SetBankAdapter(c, a, allowed) ==
    /\ IsCouncilMember(c)
    /\ isBankAdapter' = IF allowed THEN isBankAdapter \cup {a} ELSE isBankAdapter \ {a}
    /\ UNCHANGED <<bonds, postedCount>>

\* Faulty: a bond for a nullifier nobody bid under.
AnyNullifier(t, n) == TRUE

\* UnknownNullifier.
NullifierKnown(t, n) == n \in nullifierUsed[t]

\* postBond.
PostBond(a, t, n, ref) ==
    /\ a \in isBankAdapter
    /\ NullifierKnown(t, n)
    /\ bonds[t][n] = NoBond
    /\ bonds' = [bonds EXCEPT ![t][n] =
         [status |-> "POSTED", guaranteeRef |-> ref, postedBy |-> a, settledBy |-> NoBond]]
    /\ postedCount' = [postedCount EXCEPT ![t] = @ + 1]
    /\ UNCHANGED isBankAdapter

\* Faulty: a settled bond may be settled the other way.
Posted(t, n) == bonds[t][n] # NoBond

\* BondNotPosted, BondAlreadySettled.
AwaitsSettlement(t, n) == bonds[t][n] # NoBond /\ bonds[t][n].status = "POSTED"

\* settleBond, by any adapter, whoever posted.
SettleBond(a, t, n, released) ==
    /\ a \in isBankAdapter
    /\ AwaitsSettlement(t, n)
    /\ bonds' = [bonds EXCEPT
         ![t][n].status = IF released THEN "RELEASED" ELSE "FORFEITED",
         ![t][n].settledBy = a]
    /\ UNCHANGED <<isBankAdapter, postedCount>>

BankStep(a, t, n) ==
    \/ \E ref \in GuaranteeRefs : PostBond(a, t, n, ref)
    \/ \E released \in BOOLEAN : SettleBond(a, t, n, released)

\* bondSummary: the accepted bids whose bond has the status.
WithStatus(t, status) ==
    {i \in DOMAIN bids[t] : LET b == bonds[t][bids[t][i].nullifier] IN
                              b # NoBond /\ b.status = status}

-----------------------------------------------------------------------------

\* The counter postBond keeps and the summary bondSummary walks the bid set for
\* agree: every bond is behind exactly one accepted bid, whatever was bid, posted
\* and settled in whatever order, and only settled bonds have a settler.
BondBooksBalance ==
    \A t \in Tenders :
        /\ postedCount[t] = Cardinality(WithStatus(t, "POSTED"))
                          + Cardinality(WithStatus(t, "RELEASED"))
                          + Cardinality(WithStatus(t, "FORFEITED"))
        /\ postedCount[t] <= SubmissionCount(t)

\* A settled bond stays as it was settled, and what a posted one says of the
\* guarantee is never rewritten (settleBond, through any adapters in any order).
SettledForGood ==
    [][\A t \in Tenders, n \in Nullifiers : bonds[t][n] # NoBond =>
         /\ bonds'[t][n].guaranteeRef = bonds[t][n].guaranteeRef
         /\ bonds'[t][n].postedBy = bonds[t][n].postedBy
         /\ bonds[t][n].status # "POSTED" => bonds'[t][n] = bonds[t][n]]_bondVars

=============================================================================
