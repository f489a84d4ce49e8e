-------------------------- MODULE MCTenderRegistry --------------------------
(* Instances of TenderRegistry for TLC.                                      *)
EXTENDS TenderRegistry

CONSTANTS a1, m1, doc1, doc2, p1, p2, p3, p4, p5, impl, root1, root2, t1, t2

Fields(start, deadline, version, review) ==
    [turnover |-> 1, experience |-> 0, certCode |-> 1,
     biddingStart |-> start, deadline |-> deadline,
     issuerEpoch |-> 1, verifierVersion |-> version, disclosurePolicy |-> 1,
     reviewWindow |-> review]

\* A tight tender, a roomier one, a window that ends before it starts, and one
\* whose turnover threshold is zero.
MCFields ==
    {Fields(2, 3, 1, 1), Fields(4, 5, 1, 2), Fields(3, 3, 1, 1),
     [Fields(2, 3, 1, 1) EXCEPT !.turnover = 0]}
NoFieldChoices == {}

Members == <<p1, p2, p3, p4, p5>>
MCCommittees ==
    {[members |-> Members, consistent |-> TRUE],
     [members |-> Members, consistent |-> FALSE],
     [members |-> <<p1, p2, p3, p4, p4>>, consistent |-> TRUE]}

MCFloors == {0, 1, 2}

=============================================================================
