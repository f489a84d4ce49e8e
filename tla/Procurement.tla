---------------------------- MODULE Procurement ----------------------------
(***************************************************************************)
(* What the system promises, with no chain, proofs or committees: offers   *)
(* come in while a tender is open, one per bidder; the set is fixed at the *)
(* close, and so is who has lost its standing; the winner, if there is     *)
(* ever one, is the lowest and earliest offer of the whole set and in good *)
(* standing; there is one winner at most and no second thoughts, and the   *)
(* name published for a tender is its winner's.                            *)
(***************************************************************************)
EXTENDS Naturals, Sequences

CONSTANTS Tenders, Bidders, Amounts, Nobody

VARIABLES
    phase,       \* "planned", "open" or "closed"
    cancelled,
    accepted,    \* the offers, in order of arrival
    barred,      \* the bidders without standing, fixed at the close
    winner,      \* position of the winning offer, 0 for none
    named        \* the bidder named as the winner, Nobody before

procurementVars == <<phase, cancelled, accepted, barred, winner, named>>

ProcurementInit ==
    /\ phase = [t \in Tenders |-> "planned"]
    /\ cancelled = [t \in Tenders |-> FALSE]
    /\ accepted = [t \in Tenders |-> << >>]
    /\ barred = [t \in Tenders |-> {}]
    /\ winner = [t \in Tenders |-> 0]
    /\ named = [t \in Tenders |-> Nobody]

OpenTender(t) ==
    /\ phase[t] = "planned" /\ ~cancelled[t]
    /\ phase' = [phase EXCEPT ![t] = "open"]
    /\ UNCHANGED <<cancelled, accepted, barred, winner, named>>

Receive(t, b, amount) ==
    /\ phase[t] = "open" /\ ~cancelled[t]
    /\ \A i \in DOMAIN accepted[t] : accepted[t][i].bidder # b
    /\ accepted' = [accepted EXCEPT ![t] = Append(@, [bidder |-> b, amount |-> amount])]
    /\ UNCHANGED <<phase, cancelled, barred, winner, named>>

Close(t, lost) ==
    /\ phase[t] = "open" /\ ~cancelled[t]
    /\ phase' = [phase EXCEPT ![t] = "closed"]
    /\ barred' = [barred EXCEPT ![t] = lost]
    /\ UNCHANGED <<cancelled, accepted, winner, named>>

Beats(t, i, j) ==
    \/ accepted[t][i].amount < accepted[t][j].amount
    \/ accepted[t][i].amount = accepted[t][j].amount /\ i <= j

Decide(t, i) ==
    /\ phase[t] = "closed" /\ ~cancelled[t]
    /\ winner[t] = 0
    /\ \A j \in DOMAIN accepted[t] : Beats(t, i, j)
    /\ accepted[t][i].bidder \notin barred[t]
    /\ winner' = [winner EXCEPT ![t] = i]
    /\ UNCHANGED <<phase, cancelled, accepted, barred, named>>

Name(t) ==
    /\ winner[t] # 0
    /\ named[t] = Nobody
    /\ named' = [named EXCEPT ![t] = accepted[t][winner[t]].bidder]
    /\ UNCHANGED <<phase, cancelled, accepted, barred, winner>>

Cancel(t) ==
    /\ ~cancelled[t]
    /\ cancelled' = [cancelled EXCEPT ![t] = TRUE]
    /\ UNCHANGED <<phase, accepted, barred, winner, named>>

ProcurementNext ==
    \E t \in Tenders :
        \/ OpenTender(t)
        \/ \E b \in Bidders, amount \in Amounts : Receive(t, b, amount)
        \/ \E lost \in SUBSET Bidders : Close(t, lost)
        \/ \E i \in DOMAIN accepted[t] : Decide(t, i)
        \/ Name(t)
        \/ Cancel(t)

Spec == ProcurementInit /\ [][ProcurementNext]_procurementVars

=============================================================================
