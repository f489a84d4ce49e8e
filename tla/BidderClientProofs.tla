------------------------- MODULE BidderClientProofs -------------------------
(***************************************************************************)
(* Theorems of BidderClient, for any number of browsers, tenders, presses  *)
(* and any capacity: what a browser remembers of its bid is true of it.    *)
(*                                                                         *)
(* That nobody's proven bid is overwritten in localStorage needs to know   *)
(* that a receipt is of an earlier press than the submission under way.    *)
(***************************************************************************)
EXTENDS BidderClient, TLAPS

\* One bid per bidder, within the capacity.
OneBidEach ==
    \A t \in Tenders :
        /\ Len(bids[t]) <= MaxBids
        /\ \A i, j \in DOMAIN bids[t] : bids[t][i].bidder = bids[t][j].bidder => i = j

\* A submission under way is for a tender, and once the wait is over it is in.
UnderWay ==
    \A b \in Bidders :
        /\ phase[b] \in Awaiting => target[b] \in Tenders /\ attempt[b] \in Attempts
        /\ phase[b] = "counting" =>
             \E i \in DOMAIN bids[target[b]] : bids[target[b]][i] = Current(b)

\* A receipt is of a press made, and not of the one under way.
ReceiptsBehind ==
    \A b \in Bidders, t \in Tenders : receipts[b][t] # NoReceipt =>
        /\ receipts[b][t].attempt <= attempt[b]
        /\ phase[b] \in Awaiting => receipts[b][t].attempt < attempt[b]

ClientInv ==
    /\ ClientTypeOK
    /\ OneBidEach
    /\ UnderWay
    /\ ReceiptsBehind
    /\ ReceiptOfAcceptedBid
    /\ ProvenFromReceipt

-----------------------------------------------------------------------------

\* What a longer list of bids has in common with the one before.
LEMMA OneBidMore ==
    ASSUME NEW q \in Seq(Submissions), NEW s \in Submissions
    PROVE  /\ Append(q, s) \in Seq(Submissions)
           /\ Len(Append(q, s)) = Len(q) + 1 /\ Len(q) \in Nat
           /\ DOMAIN q = 1 .. Len(q) /\ DOMAIN Append(q, s) = 1 .. Len(q) + 1
           /\ \A i \in DOMAIN q : Append(q, s)[i] = q[i]
           /\ Append(q, s)[Len(q) + 1] = s
OBVIOUS

LEMMA ClientStarts == ClientInit => ClientInv
<1> SUFFICES ASSUME ClientInit PROVE ClientInv
  OBVIOUS
<1>1. ClientTypeOK
  BY ClientAssumption DEF ClientInit, ClientTypeOK, Resting
<1>2. OneBidEach /\ UnderWay /\ ReceiptsBehind
  BY ClientAssumption DEF ClientInit, OneBidEach, UnderWay, ReceiptsBehind, Awaiting
<1>3. ReceiptOfAcceptedBid /\ ProvenFromReceipt
  BY DEF ClientInit, ReceiptOfAcceptedBid, ProvenFromReceipt
<1> QED
  BY <1>1, <1>2, <1>3 DEF ClientInv

\* submitBid, as the client meets it: the chain's list only grows.
LEMMA MineKeeps ==
    ASSUME ClientInv, NEW s \in pool, Mine(s) PROVE ClientInv'
<1>1. /\ s \in Submissions /\ pool' \subseteq Submissions
      /\ UNCHANGED <<open, proven, phase, target, attempt, submitted, receipts, interrupted>>
  BY DEF ClientInv, ClientTypeOK, Mine, tabVars
<1>2. CASE bids' = bids
  <2>1. ClientTypeOK'
    BY <1>1, <1>2 DEF ClientInv, ClientTypeOK
  <2> QED
    BY <1>1, <1>2, <2>1
       DEF ClientInv, OneBidEach, UnderWay, Current, ReceiptsBehind, ReceiptOfAcceptedBid,
           ProvenFromReceipt
<1>3. CASE Acceptable(s.bidder, s.tender) /\ bids' = [bids EXCEPT ![s.tender] = Append(@, s)]
  <2>1. s.tender \in Tenders /\ bids \in [Tenders -> Seq(Submissions)]
    BY <1>1 DEF Submissions, ClientInv, ClientTypeOK
  <2> DEFINE t == s.tender
  <2>2. /\ bids'[t] = Append(bids[t], s) /\ bids[t] \in Seq(Submissions)
        /\ \A u \in Tenders : u # t => bids'[u] = bids[u]
    BY <1>3, <2>1
  <2> HIDE DEF t
  <2>3. /\ bids'[t] \in Seq(Submissions)
        /\ Len(bids'[t]) = Len(bids[t]) + 1 /\ Len(bids[t]) \in Nat
        /\ DOMAIN bids[t] = 1 .. Len(bids[t]) /\ DOMAIN bids'[t] = 1 .. Len(bids[t]) + 1
        /\ \A i \in DOMAIN bids[t] : bids'[t][i] = bids[t][i]
        /\ bids'[t][Len(bids[t]) + 1] = s
    <3> HIDE DEF Submissions
    <3> QED
      BY <1>1, <2>2, OneBidMore
  <2>4. \A u \in Tenders : /\ DOMAIN bids[u] \subseteq DOMAIN bids'[u]
                           /\ Len(bids[u]) <= Len(bids'[u])
                           /\ \A i \in DOMAIN bids[u] : bids'[u][i] = bids[u][i]
    <3>1. \A u \in Tenders : Len(bids[u]) \in Nat
      BY <2>1
    <3> QED
      BY <2>2, <2>3, <3>1
  <2>5. ClientTypeOK'
    <3>1. bids' \in [Tenders -> Seq(Submissions)]
      BY <1>3, <2>1, <2>2, <2>3 DEF t
    <3> QED
      BY <1>1, <3>1 DEF ClientInv, ClientTypeOK
  <2>6. OneBidEach'
    <3> SUFFICES ASSUME NEW u \in Tenders
                 PROVE  /\ Len(bids'[u]) <= MaxBids
                        /\ \A i, j \in DOMAIN bids'[u] :
                             bids'[u][i].bidder = bids'[u][j].bidder => i = j
      BY DEF OneBidEach
    <3>1. CASE u # t
      BY <2>2, <3>1 DEF ClientInv, OneBidEach
    <3>2. CASE u = t
      <4>1. \A i \in DOMAIN bids[t] : bids[t][i].bidder # s.bidder
        BY <1>3 DEF Acceptable, t
      <4>2. Len(bids[t]) < MaxBids
        BY <1>3 DEF Acceptable, t
      <4>3. \A i, j \in DOMAIN bids[t] : bids[t][i].bidder = bids[t][j].bidder => i = j
        BY <3>2 DEF ClientInv, OneBidEach
      <4>4. Len(bids'[t]) <= MaxBids
        BY <2>3, <4>2, ClientAssumption
      <4>5. ASSUME NEW i \in DOMAIN bids'[t], NEW j \in DOMAIN bids'[t],
                   bids'[t][i].bidder = bids'[t][j].bidder
            PROVE  i = j
        <5> DEFINE k == Len(bids[t]) + 1
        <5>1. /\ i \in DOMAIN bids[t] \/ i = k
              /\ j \in DOMAIN bids[t] \/ j = k
              /\ bids'[t][k] = s
          BY <2>3
        <5> HIDE DEF k
        <5> QED
          BY <2>3, <4>1, <4>3, <4>5, <5>1
      <4> QED
        BY <3>2, <4>4, <4>5
    <3> QED
      BY <3>1, <3>2
  <2>7. UnderWay'
    BY <1>1, <2>4 DEF ClientInv, UnderWay, Current, Awaiting
  <2>8. ReceiptsBehind' /\ ProvenFromReceipt'
    <3>1. ReceiptsBehind'
      BY <1>1 DEF ClientInv, ReceiptsBehind
    <3>2. \A u \in Tenders : \A i \in proven[u] : i \in DOMAIN bids[u]
      BY DEF ClientInv, ProvenFromReceipt
    <3>3. \A u \in Tenders : \A i \in proven[u] : i \in DOMAIN bids'[u] /\ bids'[u][i] = bids[u][i]
      BY <2>4, <3>2
    <3>4. ProvenFromReceipt'
      BY <1>1, <3>3 DEF ClientInv, ProvenFromReceipt
    <3> QED
      BY <3>1, <3>4
  <2>9. ReceiptOfAcceptedBid'
    <3> SUFFICES ASSUME NEW b \in Bidders, NEW u \in Tenders, receipts[b][u] # NoReceipt
                 PROVE  \E i \in DOMAIN bids'[u] :
                          /\ bids'[u][i] = [bidder |-> b, tender |-> u,
                                            attempt |-> receipts[b][u].attempt]
                          /\ i <= receipts[b][u].submissionIndex
                          /\ receipts[b][u].submissionIndex <= Len(bids'[u])
      BY <1>1 DEF ReceiptOfAcceptedBid
    <3>1. PICK i \in DOMAIN bids[u] :
            /\ bids[u][i] = [bidder |-> b, tender |-> u, attempt |-> receipts[b][u].attempt]
            /\ i <= receipts[b][u].submissionIndex
            /\ receipts[b][u].submissionIndex <= Len(bids[u])
      BY DEF ClientInv, ReceiptOfAcceptedBid
    <3>2. receipts[b][u].submissionIndex \in Nat /\ Len(bids[u]) \in Nat /\ Len(bids'[u]) \in Nat
      <4>1. receipts[b][u] \in Receipts
        BY DEF ClientInv, ClientTypeOK
      <4>2. bids[u] \in Seq(Submissions) /\ bids'[u] \in Seq(Submissions)
        BY <2>1, <2>5 DEF ClientTypeOK
      <4> QED
        BY <4>1, <4>2 DEF Receipts
    <3> QED
      BY <2>4, <3>1, <3>2
  <2> QED
    BY <2>5, <2>6, <2>7, <2>8, <2>9 DEF ClientInv
<1> QED
  BY <1>2, <1>3 DEF Mine

\* The close, and the awaits that write nothing but the phase and the pool.
LEMMA QuietStepKeeps ==
    ASSUME ClientInv,
           \/ \E t \in Tenders : Close(t)
           \/ \E b \in Bidders : Upload(b) \/ Send(b) \/ Answer(b) \/ Throw(b) \/ Reload(b)
    PROVE  ClientInv'
<1>1. CASE \E t \in Tenders : Close(t)
  <2>1. /\ open' \in [Tenders -> BOOLEAN] /\ \A u \in Tenders : ~open[u] => ~open'[u]
        /\ UNCHANGED <<bids, pool, proven, phase, target, attempt, submitted, receipts, interrupted>>
    BY <1>1 DEF Close, ClientInv, ClientTypeOK, tabVars
  <2> QED
    BY <2>1 DEF ClientInv, ClientTypeOK, OneBidEach, UnderWay, Current, ReceiptsBehind,
                ReceiptOfAcceptedBid, ProvenFromReceipt
<1>2. ASSUME NEW b \in Bidders, Upload(b) \/ Send(b) \/ Answer(b) \/ Throw(b) \/ Reload(b)
      PROVE  ClientInv'
  <2>1. UNCHANGED <<open, bids, proven, target, attempt, receipts>>
    BY <1>2 DEF Upload, Send, Answer, Throw, Reload, chainVars
  <2>2. /\ phase' = [phase EXCEPT ![b] = phase'[b]]
        /\ phase'[b] \in Resting \cup Awaiting
        /\ phase'[b] \in Awaiting => phase[b] \in Awaiting
    BY <1>2 DEF Upload, Send, Answer, Throw, Reload, ClientInv, ClientTypeOK, Resting, Awaiting
  <2>3. \A d \in Bidders : d # b => phase'[d] = phase[d]
    BY <2>2 DEF ClientInv, ClientTypeOK
  <2>4. phase[b] \in Awaiting => Current(b) \in Submissions
    BY DEF ClientInv, UnderWay, Current, Submissions
  <2>5. pool' \subseteq Submissions
    BY <1>2, <2>4 DEF Upload, Send, Answer, Throw, Reload, chainVars, ClientInv, ClientTypeOK,
                      Awaiting
  <2>6. submitted' \in [Bidders -> BOOLEAN] /\ interrupted' \in [Bidders -> [Tenders -> BOOLEAN]]
    <3>1. submitted' = submitted \/ submitted' = [submitted EXCEPT ![b] = FALSE]
      BY <1>2 DEF Upload, Send, Answer, Throw, Reload
    <3>2. \/ interrupted' = interrupted
          \/ interrupted' = [interrupted EXCEPT ![b][target[b]] = TRUE]
      BY <1>2 DEF Upload, Send, Answer, Throw, Reload
    <3>3. submitted \in [Bidders -> BOOLEAN] /\ interrupted \in [Bidders -> [Tenders -> BOOLEAN]]
      BY DEF ClientInv, ClientTypeOK
    <3>4. submitted' \in [Bidders -> BOOLEAN]
      BY <3>1, <3>3
    <3>5. interrupted' \in [Bidders -> [Tenders -> BOOLEAN]]
      <4> DEFINE noted == [interrupted[b] EXCEPT ![target[b]] = TRUE]
      <4>1. noted \in [Tenders -> BOOLEAN]
        BY <3>3
      <4>2. interrupted' = interrupted \/ interrupted' = [interrupted EXCEPT ![b] = noted]
        BY <3>2
      <4> HIDE DEF noted
      <4> QED
        BY <3>3, <4>1, <4>2
    <3> QED
      BY <3>4, <3>5
  <2>7. ClientTypeOK'
    BY <2>1, <2>2, <2>5, <2>6 DEF ClientInv, ClientTypeOK
  <2>8. phase'[b] = "counting" =>
          \E i \in DOMAIN bids[target[b]] : bids[target[b]][i] = Current(b)
    BY <1>2 DEF Upload, Send, Answer, Throw, Reload, ClientInv, ClientTypeOK
  <2>9. UnderWay'
    BY <2>1, <2>2, <2>3, <2>8 DEF ClientInv, UnderWay, Current
  <2>10. ReceiptsBehind'
    BY <2>1, <2>2, <2>3 DEF ClientInv, ReceiptsBehind
  <2> QED
    BY <2>1, <2>7, <2>9, <2>10
       DEF ClientInv, OneBidEach, ReceiptOfAcceptedBid, ProvenFromReceipt
<1> QED
  BY <1>1, <1>2

\* A press draws a nonce of its own.
LEMMA PressKeeps ==
    ASSUME ClientInv, NEW b \in Bidders, NEW t \in Tenders, Press(b, t) PROVE ClientInv'
<1>1. /\ phase[b] \in Resting /\ attempt[b] < MaxAttempts
      /\ attempt' = [attempt EXCEPT ![b] = @ + 1]
      /\ target' = [target EXCEPT ![b] = t]
      /\ phase' = [phase EXCEPT ![b] = "uploading"]
      /\ UNCHANGED <<open, bids, pool, proven, submitted, receipts, interrupted>>
  BY DEF Press, chainVars
<1>2. /\ phase \in [Bidders -> Resting \cup Awaiting]
      /\ target \in [Bidders -> Tenders \cup {NoTender}]
      /\ attempt \in [Bidders -> 0 .. MaxAttempts]
  BY DEF ClientInv, ClientTypeOK
<1>3. attempt[b] + 1 \in 1 .. MaxAttempts
  BY <1>1, <1>2, ClientAssumption
<1>4. ClientTypeOK'
  BY <1>1, <1>2, <1>3, ClientAssumption DEF ClientInv, ClientTypeOK, Awaiting
<1>5. /\ phase'[b] = "uploading" /\ target'[b] = t /\ attempt'[b] = attempt[b] + 1
      /\ \A d \in Bidders : d # b =>
           /\ phase'[d] = phase[d] /\ target'[d] = target[d] /\ attempt'[d] = attempt[d]
  BY <1>1, <1>2
<1>6. UnderWay'
  BY <1>1, <1>3, <1>5 DEF ClientInv, UnderWay, Current, Attempts
<1>7. ReceiptsBehind'
  <2> SUFFICES ASSUME NEW d \in Bidders, NEW u \in Tenders, receipts[d][u] # NoReceipt
               PROVE  /\ receipts[d][u].attempt <= attempt'[d]
                      /\ phase'[d] \in Awaiting => receipts[d][u].attempt < attempt'[d]
    BY <1>1 DEF ReceiptsBehind
  <2>1. /\ receipts[d][u].attempt <= attempt[d]
        /\ phase[d] \in Awaiting => receipts[d][u].attempt < attempt[d]
    BY DEF ClientInv, ReceiptsBehind
  <2>2. receipts[d][u].attempt \in Nat /\ attempt[d] \in Nat
    <3>1. receipts[d][u] \in Receipts /\ attempt[d] \in 0 .. MaxAttempts
      BY DEF ClientInv, ClientTypeOK
    <3> QED
      BY <3>1, ClientAssumption DEF Receipts, Attempts
  <2>3. CASE d = b
    BY <1>5, <2>1, <2>2, <2>3
  <2>4. CASE d # b
    BY <1>5, <2>1, <2>4
  <2> QED
    BY <2>3, <2>4
<1> QED
  BY <1>1, <1>4, <1>6, <1>7 DEF ClientInv, OneBidEach, ReceiptOfAcceptedBid, ProvenFromReceipt

\* saveReceipt: the receipt is of the bid that is in, and no proven bid had it.
LEMMA SaveKeeps ==
    ASSUME ClientInv, NEW b \in Bidders, SaveReceipt(b) PROVE ClientInv'
<1> DEFINE t == target[b]
           r == [attempt |-> attempt[b], submissionIndex |-> Len(bids[t])]
<1>1. /\ phase[b] = "counting"
      /\ receipts' = [receipts EXCEPT ![b][t] = r]
      /\ submitted' = [submitted EXCEPT ![b] = TRUE]
      /\ phase' = [phase EXCEPT ![b] = "done"]
      /\ UNCHANGED <<open, bids, pool, proven, target, attempt, interrupted>>
  BY DEF SaveReceipt, chainVars
<1>2. t \in Tenders /\ attempt[b] \in Attempts
  BY <1>1 DEF ClientInv, UnderWay, Awaiting
<1>3. PICK k \in DOMAIN bids[t] :
        bids[t][k] = [bidder |-> b, tender |-> t, attempt |-> attempt[b]]
  BY <1>1 DEF ClientInv, UnderWay, Current
<1>4. /\ bids[t] \in Seq(Submissions) /\ Len(bids[t]) \in 1 .. MaxBids
      /\ k \in Nat /\ k <= Len(bids[t])
  <2>1. bids[t] \in Seq(Submissions) /\ Len(bids[t]) <= MaxBids
    BY <1>2 DEF ClientInv, ClientTypeOK, OneBidEach
  <2> QED
    BY <1>3, <2>1, ClientAssumption
<1>5. r \in Receipts /\ r.attempt = attempt[b] /\ r.submissionIndex = Len(bids[t])
  BY <1>2, <1>4 DEF Receipts
<1> HIDE DEF t, r
<1>6. receipts \in [Bidders -> [Tenders -> Receipts \cup {NoReceipt}]]
  BY DEF ClientInv, ClientTypeOK
<1>7. \A d \in Bidders, u \in Tenders :
        receipts'[d][u] = IF d = b /\ u = t THEN r ELSE receipts[d][u]
  BY <1>1, <1>2, <1>6
<1>8. /\ phase \in [Bidders -> Resting \cup Awaiting]
      /\ phase'[b] = "done" /\ \A d \in Bidders : d # b => phase'[d] = phase[d]
  BY <1>1 DEF ClientInv, ClientTypeOK
<1>9. ClientTypeOK'
  <2>1. receipts' \in [Bidders -> [Tenders -> Receipts \cup {NoReceipt}]]
    BY <1>1, <1>2, <1>5, <1>6
  <2>2. phase' \in [Bidders -> Resting \cup Awaiting]
    BY <1>1, <1>8 DEF Resting
  <2>3. submitted' \in [Bidders -> BOOLEAN]
    BY <1>1 DEF ClientInv, ClientTypeOK
  <2> QED
    BY <1>1, <2>1, <2>2, <2>3 DEF ClientInv, ClientTypeOK
<1>10. UnderWay'
  BY <1>1, <1>8 DEF ClientInv, UnderWay, Current, Awaiting
<1>11. ReceiptsBehind'
  <2>1. attempt[b] \in Nat
    BY <1>2, ClientAssumption DEF Attempts
  <2> QED
    BY <1>1, <1>5, <1>7, <1>8, <2>1 DEF ClientInv, ReceiptsBehind, Awaiting
<1>12. ReceiptOfAcceptedBid'
  <2> SUFFICES ASSUME NEW d \in Bidders, NEW u \in Tenders, receipts'[d][u] # NoReceipt
               PROVE  \E i \in DOMAIN bids[u] :
                        /\ bids[u][i] = [bidder |-> d, tender |-> u,
                                         attempt |-> receipts'[d][u].attempt]
                        /\ i <= receipts'[d][u].submissionIndex
                        /\ receipts'[d][u].submissionIndex <= Len(bids[u])
    BY <1>1 DEF ReceiptOfAcceptedBid
  <2>1. CASE d = b /\ u = t
    <3>1. receipts'[d][u] = r
      BY <1>7, <2>1
    <3> QED
      BY <1>3, <1>4, <1>5, <2>1, <3>1
  <2>2. CASE ~(d = b /\ u = t)
    <3>1. receipts'[d][u] = receipts[d][u]
      BY <1>7, <2>2
    <3> QED
      BY <3>1 DEF ClientInv, ReceiptOfAcceptedBid
  <2> QED
    BY <2>1, <2>2
<1>13. ProvenFromReceipt'
  <2> SUFFICES ASSUME NEW u \in Tenders, NEW i \in proven[u]
               PROVE  /\ ~open[u] /\ i \in DOMAIN bids[u]
                      /\ receipts'[bids[u][i].bidder][u] =
                           [attempt |-> bids[u][i].attempt, submissionIndex |-> i]
    BY <1>1 DEF ProvenFromReceipt
  <2>1. /\ ~open[u] /\ i \in DOMAIN bids[u]
        /\ receipts[bids[u][i].bidder][u] =
             [attempt |-> bids[u][i].attempt, submissionIndex |-> i]
    BY DEF ClientInv, ProvenFromReceipt
  <2>2. bids[u][i] \in Submissions
    <3>1. bids[u] \in Seq(Submissions)
      BY DEF ClientInv, ClientTypeOK
    <3> HIDE DEF Submissions
    <3> QED
      BY <2>1, <3>1
  <2>3. bids[u][i].bidder \in Bidders
    BY <2>2 DEF Submissions
  <2>4. ~(bids[u][i].bidder = b /\ u = t)
    <3> SUFFICES ASSUME bids[u][i].bidder = b, u = t PROVE FALSE
      OBVIOUS
    <3>1. i = k
      BY <1>2, <1>3, <2>1 DEF ClientInv, OneBidEach
    <3>2. receipts[b][t].attempt = attempt[b] /\ receipts[b][t] \in Receipts \cup {NoReceipt}
      BY <1>2, <1>3, <1>6, <2>1, <3>1
    <3>3. receipts[b][t] # NoReceipt
      <4>1. attempt[b] \in Attempts /\ i \in 1 .. MaxBids
        BY <1>2, <1>4, <3>1, ClientAssumption
      <4>2. receipts[b][t] \in Receipts
        BY <1>3, <2>1, <3>1, <4>1 DEF Receipts
      <4> QED
        BY <4>2, ClientAssumption
    <3>4. receipts[b][t].attempt < attempt[b]
      BY <1>1, <1>2, <3>3 DEF ClientInv, ReceiptsBehind, Awaiting
    <3>5. attempt[b] \in Nat
      BY <1>2, ClientAssumption DEF Attempts
    <3> QED
      BY <3>2, <3>4, <3>5
  <2> QED
    BY <1>7, <2>1, <2>3, <2>4
<1> QED
  BY <1>1, <1>9, <1>10, <1>11, <1>12, <1>13 DEF ClientInv, OneBidEach

\* confirmStatus proves the bid the receipt names, which is the bidder's own.
LEMMA ConfirmKeeps ==
    ASSUME ClientInv, NEW b \in Bidders, NEW t \in Tenders, ConfirmStatus(b, t)
    PROVE  ClientInv'
<1> DEFINE k == receipts[b][t].submissionIndex
<1>1. /\ ~open[t] /\ receipts[b][t] # NoReceipt /\ k \in DOMAIN bids[t]
      /\ bids[t][k] = [bidder |-> b, tender |-> t, attempt |-> receipts[b][t].attempt]
      /\ proven' = [proven EXCEPT ![t] = @ \cup {k}]
      /\ UNCHANGED <<open, bids, pool, phase, target, attempt, submitted, receipts, interrupted>>
  BY DEF ConfirmStatus, ReceiptFits, tabVars
<1>2. receipts[b][t] \in Receipts
  BY <1>1 DEF ClientInv, ClientTypeOK
<1>3. k \in 1 .. MaxBids /\ receipts[b][t] = [attempt |-> receipts[b][t].attempt, submissionIndex |-> k]
  BY <1>2 DEF Receipts
<1> HIDE DEF k
<1>4. ClientTypeOK'
  BY <1>1, <1>3 DEF ClientInv, ClientTypeOK
<1>5. ProvenFromReceipt'
  BY <1>1, <1>3 DEF ClientInv, ClientTypeOK, ProvenFromReceipt
<1> QED
  BY <1>1, <1>4, <1>5
     DEF ClientInv, OneBidEach, UnderWay, Current, ReceiptsBehind, ReceiptOfAcceptedBid

LEMMA ClientNextKeeps == ClientInv /\ [ClientNext]_clientVars => ClientInv'
<1> SUFFICES ASSUME ClientInv, [ClientNext]_clientVars PROVE ClientInv'
  OBVIOUS
<1>1. CASE UNCHANGED clientVars
  BY <1>1 DEF clientVars, chainVars, tabVars, ClientInv, ClientTypeOK, OneBidEach, UnderWay,
              Current, ReceiptsBehind, ReceiptOfAcceptedBid, ProvenFromReceipt
<1>2. CASE ClientNext
  BY <1>2, MineKeeps, QuietStepKeeps, PressKeeps, SaveKeeps, ConfirmKeeps
     DEF ClientNext, Proceed
<1> QED
  BY <1>1, <1>2

-----------------------------------------------------------------------------

\* The inductive invariant holds through retries, late transactions and reloads.
THEOREM ClientInvariant == ClientSpec => []ClientInv
BY ClientStarts, ClientNextKeeps, PTL DEF ClientSpec

\* Chain, tab and localStorage keep their types.
THEOREM ClientTyped == ClientSpec => []ClientTypeOK
BY ClientInvariant, PTL DEF ClientInv

\* A receipt is of a bid the chain has, with its nonce, and its place is never too low.
THEOREM ReceiptsAreOfBids == ClientSpec => []ReceiptOfAcceptedBid
BY ClientInvariant, PTL DEF ClientInv

\* Nobody's standing is proved but from the receipt its own browser still keeps.
THEOREM ProofsAreOfReceipts == ClientSpec => []ProvenFromReceipt
BY ClientInvariant, PTL DEF ClientInv

=============================================================================
