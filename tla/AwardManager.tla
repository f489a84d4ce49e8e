---------------------------- MODULE AwardManager ----------------------------
(***************************************************************************)
(* DeadlineStatus.sol and AwardManager.sol: an accepted bidder proves its  *)
(* standing against the pinned deadline root, and the authority records    *)
(* the award with a proof that the winner is the lowest, earliest bid of   *)
(* the complete set.  The tender's own state does not change.              *)
(***************************************************************************)
EXTENDS OpeningManager

CONSTANTS
    NoAward,
    CircuitVersion     \* the version this AwardManager enforces

DISCLOSE_WINNING_PRICE == 1
CONCEAL_WINNING_PRICE == 2

VARIABLES
    statusProof,   \* off-chain: the status proof of a credential, made last
    proven,        \* _status[t][i].proven, as the set of proven bids
    award          \* _awards, NoAward where not recorded

awardVars == <<statusProof, proven, award>>

Prices == Amounts \cup {0}

AwardTypeOK ==
    /\ DOMAIN statusProof = Credentials
    /\ proven \in [Tenders -> SUBSET BidIndices]
    /\ DOMAIN award = Tenders

AwardInit ==
    /\ statusProof = [c \in Credentials |-> NoProof]
    /\ proven = [t \in Tenders |-> {}]
    /\ award = [t \in Tenders |-> NoAward]

-----------------------------------------------------------------------------
(* DeadlineStatus.sol.                                                     *)

\* Off-chain: the bidder of bid i proves the status signals, if it can.
ProveStatus(c, t, i) ==
    LET s == ExpectedDeadlineStatusSignals(t, bids[t][i].nullifier, bids[t][i].commitment) IN
    /\ i \in DOMAIN bids[t]
    /\ StatusSignalsAvailable(t)
    /\ Provable(c, s)
    /\ statusProof' = [statusProof EXCEPT ![c] = s]
    /\ UNCHANGED <<proven, award>>

\* submitStatusProof: about the accepted bid i, read from the chain.
SubmitStatusProof(c, t, i) ==
    /\ OnlyClosed(t)
    /\ i \in DOMAIN bids[t]
    /\ i \notin proven[t]
    /\ statusProof[c] # NoProof
    /\ StatusSignalsAvailable(t)
    /\ Verifies(t, statusProof[c],
         ExpectedDeadlineStatusSignals(t, bids[t][i].nullifier, bids[t][i].commitment))
    /\ proven' = [proven EXCEPT ![t] = @ \cup {i}]
    /\ UNCHANGED <<statusProof, award>>

-----------------------------------------------------------------------------
(* AwardManager.sol.                                                       *)

Price(t, i) == bids[t][i].commitment.amount

\* Faulty: the last of several equal lowest bids.
LatestLowest(t, i) ==
    \A j \in DOMAIN bids[t] :
        Price(t, j) > Price(t, i) \/ (Price(t, j) = Price(t, i) /\ j <= i)

\* selectWinner and the minimum constraints of award.circom: the lowest amount,
\* the earliest submission on a tie, over every accepted bid.
Lowest(t, i) ==
    \A j \in DOMAIN bids[t] :
        Price(t, j) > Price(t, i) \/ (Price(t, j) = Price(t, i) /\ j >= i)

\* What award.circom proves about (t, i, price): the authority knows an opening
\* of every leaf under the root, the winner is the lowest, and the price is
\* published exactly under policy 1.  It learns openings from the ceremony only.
AwardProvable(t, i, price) ==
    /\ \A j \in DOMAIN bids[t] : Opens(t, j)
    /\ Lowest(t, i)
    /\ price = IF fields[t].disclosurePolicy = DISCLOSE_WINNING_PRICE
               THEN Price(t, i) ELSE 0

\* PriceMustBeConcealed, PriceMustBePublished, UnsupportedDisclosurePolicy.
PriceHonoursPolicy(t, price) ==
    \/ fields[t].disclosurePolicy = CONCEAL_WINNING_PRICE /\ price = 0
    \/ fields[t].disclosurePolicy = DISCLOSE_WINNING_PRICE /\ price # 0

\* Faulty: the standing of the winner is not asked for.
AnyStanding(t, i) == TRUE

\* WinnerStatusNotProven.
WinnerProven(t, i) == i \in proven[t]

\* recordAward, for the bid whose commitment the authority names.
RecordAward(c, t, i, price) ==
    /\ OnlyAuthorityOf(c, t)
    /\ OnlyClosed(t)
    /\ award[t] = NoAward
    /\ fields[t].verifierVersion = CircuitVersion
    /\ i \in DOMAIN bids[t]
    /\ AllOpened(t)
    /\ WinnerProven(t, i)
    /\ PriceHonoursPolicy(t, price)
    /\ AwardProvable(t, i, price)
    /\ award' = [award EXCEPT ![t] =
         [winner |-> bids[t][i].commitment, price |-> price,
          bidSetRoot |-> BidSetRoot(t), count |-> SubmissionCount(t), index |-> i]]
    /\ UNCHANGED <<statusProof, proven>>

=============================================================================
