---------------------------- MODULE BidderClient ----------------------------
(***************************************************************************)
(* The bidder's browser (Bidder.tsx, lib/receipts.ts) against the chain:   *)
(* a press of submit draws a nonce, proves and seals, uploads, estimates   *)
(* and sends, waits for the transaction, reads the bid count and only then *)
(* keeps the receipt, each step an await that others may come between.     *)
(*                                                                         *)
(* Any await may throw although what it waited for has happened or still   *)
(* will, and the tab may be closed at any moment; what localStorage holds  *)
(* survives.  An attempt stands for the nonce drawn for it; the credential *)
(* gives every attempt of a bidder at one tender the same nullifier.       *)
(***************************************************************************)
EXTENDS Naturals, Sequences

CONSTANTS
    Bidders,       \* one browser, one firm, one credential each
    Tenders,       \* active when a behaviour starts
    NoReceipt,
    NoTender,      \* what a browser that never pressed submit works on
    MaxBids,       \* MAX_BIDS
    MaxAttempts    \* bound: how often one bidder presses submit

Attempts == 1 .. MaxAttempts
Submissions == [bidder : Bidders, tender : Tenders, attempt : Attempts]
Receipts == [attempt : Attempts, submissionIndex : 1 .. MaxBids]

ASSUME ClientAssumption ==
    /\ MaxBids \in Nat /\ MaxAttempts \in Nat
    /\ NoReceipt \notin Receipts

VARIABLES
    open,          \* isBiddingOpen, by tender; a tender that is not is closed
    bids,          \* SealedBid._bids, by tender
    pool,          \* submissions sent and not mined
    proven,        \* DeadlineStatus._status, as the set of proven bids
    phase,         \* Phase, with the awaits of "submitting" told apart
    target,        \* the tender of the submission under way
    attempt,       \* the last nonce drawn
    submitted,     \* the `submitted` state of the tab
    receipts,      \* localStorage, keyed by tender and nullifier
    interrupted    \* history: an await threw or the tab closed on a submission

chainVars == <<open, bids, pool, proven>>
tabVars == <<phase, target, attempt, submitted>>
clientVars == <<chainVars, tabVars, receipts, interrupted>>

Resting == {"idle", "done", "failed"}
Awaiting == {"uploading", "sending", "waiting", "counting"}

ClientTypeOK ==
    /\ open \in [Tenders -> BOOLEAN]
    /\ bids \in [Tenders -> Seq(Submissions)]
    /\ pool \subseteq Submissions
    /\ proven \in [Tenders -> SUBSET (1 .. MaxBids)]
    /\ phase \in [Bidders -> Resting \cup Awaiting]
    /\ target \in [Bidders -> Tenders \cup {NoTender}]
    /\ attempt \in [Bidders -> 0 .. MaxAttempts]
    /\ submitted \in [Bidders -> BOOLEAN]
    /\ receipts \in [Bidders -> [Tenders -> Receipts \cup {NoReceipt}]]
    /\ interrupted \in [Bidders -> [Tenders -> BOOLEAN]]

ClientInit ==
    /\ open = [t \in Tenders |-> TRUE]
    /\ bids = [t \in Tenders |-> << >>]
    /\ pool = {}
    /\ proven = [t \in Tenders |-> {}]
    /\ phase = [b \in Bidders |-> "idle"]
    /\ target = [b \in Bidders |-> NoTender]
    /\ attempt = [b \in Bidders |-> 0]
    /\ submitted = [b \in Bidders |-> FALSE]
    /\ receipts = [b \in Bidders |-> [t \in Tenders |-> NoReceipt]]
    /\ interrupted = [b \in Bidders |-> [t \in Tenders |-> FALSE]]

-----------------------------------------------------------------------------
(* The chain.                                                              *)

\* What submitBid, and estimateGas before it, asks of a submission with a valid
\* proof and two receipts (SealedBid.tla has the whole of it).
Acceptable(b, t) ==
    /\ open[t]
    /\ \A i \in DOMAIN bids[t] : bids[t][i].bidder # b
    /\ Len(bids[t]) < MaxBids

\* A submission is mined: accepted, or reverted and gone.
Mine(s) ==
    /\ s \in pool
    /\ pool' = pool \ {s}
    /\ bids' = IF Acceptable(s.bidder, s.tender)
               THEN [bids EXCEPT ![s.tender] = Append(@, s)] ELSE bids
    /\ UNCHANGED <<open, proven, tabVars, receipts, interrupted>>

\* The window lapses and the tender is closed.
Close(t) ==
    /\ open[t]
    /\ open' = [open EXCEPT ![t] = FALSE]
    /\ UNCHANGED <<bids, pool, proven, tabVars, receipts, interrupted>>

-----------------------------------------------------------------------------
(* submit.                                                                 *)

Current(b) == [bidder |-> b, tender |-> target[b], attempt |-> attempt[b]]

\* canSubmit and the first half of submit: a nonce is drawn, the eligibility
\* proved and the price sealed, all within the tab.
Press(b, t) ==
    /\ phase[b] \in Resting
    /\ ~submitted[b]
    /\ open[t]
    /\ attempt[b] < MaxAttempts
    /\ attempt' = [attempt EXCEPT ![b] = @ + 1]
    /\ target' = [target EXCEPT ![b] = t]
    /\ phase' = [phase EXCEPT ![b] = "uploading"]
    /\ UNCHANGED <<chainVars, submitted, receipts, interrupted>>

\* uploadToReplicas met its quorum (CiphertextStore.tla has the whole of it).
Upload(b) ==
    /\ phase[b] = "uploading"
    /\ phase' = [phase EXCEPT ![b] = "sending"]
    /\ UNCHANGED <<chainVars, target, attempt, submitted, receipts, interrupted>>

\* estimateGas and the send: refused where the chain would revert now.
Send(b) ==
    /\ phase[b] = "sending"
    /\ \/ /\ Acceptable(b, target[b])
          /\ pool' = pool \cup {Current(b)}
          /\ phase' = [phase EXCEPT ![b] = "waiting"]
       \/ /\ ~Acceptable(b, target[b])
          /\ phase' = [phase EXCEPT ![b] = "failed"]
          /\ UNCHANGED pool
    /\ UNCHANGED <<open, bids, proven, target, attempt, submitted, receipts, interrupted>>

\* Faulty: a reverted transaction passes for a mined one.
AnyAnswer(b) ==
    /\ phase[b] = "waiting"
    /\ Current(b) \notin pool
    /\ phase' = [phase EXCEPT ![b] = "counting"]
    /\ UNCHANGED <<chainVars, target, attempt, submitted, receipts, interrupted>>

\* tx.wait: returns once the transaction is in, throws if it reverted.
Answer(b) ==
    /\ phase[b] = "waiting"
    /\ Current(b) \notin pool
    /\ phase' = [phase EXCEPT ![b] =
         IF \E i \in DOMAIN bids[target[b]] : bids[target[b]][i] = Current(b)
         THEN "counting" ELSE "failed"]
    /\ UNCHANGED <<chainVars, target, attempt, submitted, receipts, interrupted>>

\* Faulty: kept only while the tender still takes bids.
SaveWhileOpen(b) ==
    /\ phase[b] = "counting"
    /\ open[target[b]]
    /\ receipts' = [receipts EXCEPT ![b][target[b]] =
         [attempt |-> attempt[b], submissionIndex |-> Len(bids[target[b]])]]
    /\ submitted' = [submitted EXCEPT ![b] = TRUE]
    /\ phase' = [phase EXCEPT ![b] = "done"]
    /\ UNCHANGED <<chainVars, target, attempt, interrupted>>

\* The bid count is read, its last place taken for the bid's own, and the receipt
\* kept (indices count from 1 here, from 0 in the code).
SaveReceipt(b) ==
    /\ phase[b] = "counting"
    /\ receipts' = [receipts EXCEPT ![b][target[b]] =
         [attempt |-> attempt[b], submissionIndex |-> Len(bids[target[b]])]]
    /\ submitted' = [submitted EXCEPT ![b] = TRUE]
    /\ phase' = [phase EXCEPT ![b] = "done"]
    /\ UNCHANGED <<chainVars, target, attempt, interrupted>>

-----------------------------------------------------------------------------
(* Trouble.                                                                *)

\* The current await throws: an upload short of its quorum, a dropped connection.
\* A send may throw after the node has taken the transaction.
Throw(b) ==
    /\ phase[b] \in Awaiting
    /\ phase' = [phase EXCEPT ![b] = "failed"]
    /\ interrupted' = [interrupted EXCEPT ![b][target[b]] = TRUE]
    /\ \/ UNCHANGED pool
       \/ /\ phase[b] = "sending" /\ Acceptable(b, target[b])
          /\ pool' = pool \cup {Current(b)}
    /\ UNCHANGED <<open, bids, proven, target, attempt, submitted, receipts>>

\* The tab is closed or reloaded: React state is gone, localStorage is not.
Reload(b) ==
    /\ phase[b] # "idle"
    /\ phase' = [phase EXCEPT ![b] = "idle"]
    /\ submitted' = [submitted EXCEPT ![b] = FALSE]
    /\ interrupted' = IF phase[b] \in Awaiting
                      THEN [interrupted EXCEPT ![b][target[b]] = TRUE] ELSE interrupted
    /\ UNCHANGED <<chainVars, target, attempt, receipts>>

-----------------------------------------------------------------------------
(* confirmStatus.                                                          *)


\* Faulty: any slot will do for a bid the chain has.
AnySlotFits(b, t) ==
    LET r == receipts[b][t] IN
    /\ r # NoReceipt
    /\ \E i \in DOMAIN bids[t] :
         bids[t][i] = [bidder |-> b, tender |-> t, attempt |-> r.attempt]

\* The status proof made from the receipt verifies against the bid it names.
ReceiptFits(b, t) ==
    LET r == receipts[b][t] IN
    /\ r # NoReceipt
    /\ r.submissionIndex \in DOMAIN bids[t]
    /\ bids[t][r.submissionIndex] = [bidder |-> b, tender |-> t, attempt |-> r.attempt]

\* confirmStatus and the submitStatusProof it sends; one that reverts is no step.
ConfirmStatus(b, t) ==
    /\ phase[b] \in Resting
    /\ ~open[t]
    /\ ReceiptFits(b, t)
    /\ receipts[b][t].submissionIndex \notin proven[t]
    /\ proven' = [proven EXCEPT ![t] = @ \cup {receipts[b][t].submissionIndex}]
    /\ UNCHANGED <<open, bids, pool, tabVars, receipts, interrupted>>

-----------------------------------------------------------------------------

Proceed(b) == Upload(b) \/ Send(b) \/ Answer(b) \/ SaveReceipt(b)

ClientNext ==
    \/ \E s \in pool : Mine(s)
    \/ \E t \in Tenders : Close(t)
    \/ \E b \in Bidders :
         \/ Proceed(b)
         \/ Throw(b)
         \/ Reload(b)
         \/ \E t \in Tenders : Press(b, t) \/ ConfirmStatus(b, t)

ClientSpec == ClientInit /\ [][ClientNext]_clientVars

\* Blocks are made, a submission under way proceeds, and a bidder who can confirm
\* its standing does.
ClientFairness ==
    /\ WF_clientVars(\E s \in pool : Mine(s))
    /\ \A b \in Bidders :
         /\ WF_clientVars(Proceed(b))
         /\ \A t \in Tenders : WF_clientVars(ConfirmStatus(b, t))

ClientFairSpec == ClientSpec /\ ClientFairness

-----------------------------------------------------------------------------
(* Properties.                                                             *)

\* A receipt is of a bid the chain accepted, with the nonce that very bid was
\* made with, through retries, late transactions and reloads; the place it names
\* exists and is never before the bid's own (submit's order: wait, count, keep).
ReceiptOfAcceptedBid ==
    \A b \in Bidders, t \in Tenders :
        LET r == receipts[b][t] IN r # NoReceipt =>
            \E i \in DOMAIN bids[t] :
                /\ bids[t][i] = [bidder |-> b, tender |-> t, attempt |-> r.attempt]
                /\ i <= r.submissionIndex
                /\ r.submissionIndex <= Len(bids[t])

\* Nobody's standing is proved but from its own receipt: a proven bid is one its
\* bidder keeps the nonce and the right place of (confirmStatus).
ProvenFromReceipt ==
    \A t \in Tenders : \A i \in proven[t] :
        /\ ~open[t]
        /\ i \in DOMAIN bids[t]
        /\ receipts[bids[t][i].bidder][t] =
             [attempt |-> bids[t][i].attempt, submissionIndex |-> i]

\* An accepted bid gets its receipt unless an await of a submission for that
\* tender threw or its tab was closed: nothing else loses it (submit, saveReceipt).
AcceptedIsKept ==
    \A b \in Bidders, t \in Tenders :
        (\E i \in DOMAIN bids[t] : bids[t][i].bidder = b)
            ~> (receipts[b][t] # NoReceipt \/ interrupted[b][t])

PointsAtOwnBid(b, t) ==
    /\ receipts[b][t] # NoReceipt
    /\ receipts[b][t].submissionIndex \in DOMAIN bids[t]
    /\ bids[t][receipts[b][t].submissionIndex].bidder = b


\* lib/receipts.ts, header: the receipt is "the only thing that lets them prove
\* later which bid was theirs", so the place it names is its bidder's bid.
ReceiptPointsAtItsBid ==
    \A b \in Bidders, t \in Tenders :
        receipts[b][t] # NoReceipt => PointsAtOwnBid(b, t)

=============================================================================
