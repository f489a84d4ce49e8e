---------------------------- MODULE MCFairProof ----------------------------
(* Instances of FairProof for TLC: one tender and three credentials of one    *)
(* issuer; each scenario opens the part of the system it is about.            *)
EXTENDS FairProof

CONSTANTS a1, m1, t1, n1, doc1, p1, p2, p3, p4, p5, impl, i1, i2, i3, b1, b2, c1, c2, c3, s1, s2, s3

MCCredentials == {c1, c2, c3}
MCAttested ==
    [c \in Credentials |->
       [issuer |-> i1, epoch |-> 1, turnover |-> 1, experience |-> 1, certCode |-> 1,
        validUntil |-> 9, expires |-> 9]]
MCTenders == {t1}

MCFields(disclosure) ==
    [turnover |-> 1, experience |-> 1, certCode |-> 1, biddingStart |-> 2, deadline |-> 3,
     issuerEpoch |-> 1, verifierVersion |-> 1, disclosurePolicy |-> disclosure,
     reviewWindow |-> 1]
Disclosing == {MCFields(1)}
Policies == {MCFields(0), MCFields(1), MCFields(2)}

MCCommittees == {[members |-> <<p1, p2, p3, p4, p5>>, consistent |-> TRUE]}

Body(c, amount, ok) ==
    [commitment |-> BidCommitment(c, t1, amount), wellFormed |-> ok]
HonestBodies == {Body(c, amount, TRUE) : c \in Credentials, amount \in Amounts}
FewBodies == {Body(c1, 1, TRUE), Body(c1, 2, TRUE), Body(c2, 1, TRUE)}
AllBodies == HonestBodies \cup {Body(c1, 1, FALSE), Body(c2, 1, FALSE)}

MCSigners == {s1, s2, s3}
AllDeployed == <<s1, s2, s3>>
TwoDeployed == <<s1, s2, NoReplica>>

MCIssuerRoots == {{i1}, {i2}}
MCRevocationRoots == {{}, {c1}}

Quiet ==
    [deployed |-> AllDeployed, issuers |-> {i1}, bidders |-> {c1, c2}, amounts |-> {1},
     bodies |-> {Body(c1, 1, TRUE), Body(c2, 1, TRUE)}, receipts |-> {{1, 2}},
     members |-> {1, 2, 3}, council |-> {}]

\* Two bidders, two prices, a body that opens to the wrong bid.
Contest == [Quiet EXCEPT !.amounts = {1, 2}, !.bodies = FewBodies]
\* One bid more than the set holds.
Crowd == [Quiet EXCEPT !.bidders = Credentials, !.bodies = HonestBodies, !.members = {}]
\* A tender cancelled at any time, the authority and the floor changed.
Cancelled == [Quiet EXCEPT !.bidders = {c1}, !.council = {"cancel", "policy"}]
\* The council at work while bids come in, replicas coming and going.
Busy ==
    [Quiet EXCEPT !.deployed = TwoDeployed, !.bidders = {c1},
                  !.bodies = {Body(c1, 1, TRUE), Body(c1, 1, FALSE)},
                  !.receipts = {{1, 2}, {1, 3}, {3}}, !.members = {},
                  !.council = {"pause", "replicas", "cancel", "versions"}]
\* The issuers' roots republished at any time, to the very end.
Roots == [Quiet EXCEPT !.bidders = {c1}, !.bodies = {Body(c1, 1, TRUE)},
                       !.council = {"roots"}]
\* Issuers listed, delisted and listed again, one more than there is room for.
Listing == [Quiet EXCEPT !.bidders = {}, !.council = {"issuers", "pause"}]
\* Banks that post and settle while bids come in, appointed and dismissed.
Bonded == [Quiet EXCEPT !.members = {}, !.council = {"bonds"},
                        !.bodies = {Body(c1, 1, FALSE), Body(c2, 1, FALSE)}]
\* Checkpoints recorded and anchored.
Anchored == [Quiet EXCEPT !.bidders = {}, !.council = {"checkpoints"}]
\* Any three of the five members, and pauses.
Others == [Quiet EXCEPT !.members = {2, 4, 5}, !.council = {"pause"},
                        !.bodies = Quiet.bodies \cup {Body(c1, 1, FALSE)}]

\* The council at its other duties while one bid makes its way.
Meddled == [Quiet EXCEPT !.bidders = {c1}, !.bodies = {Body(c1, 1, TRUE)},
                         !.council = {"policy", "cancel"}]
Dutiful == [Meddled EXCEPT !.council = {"versions", "replicas"}]
Recording == [Meddled EXCEPT !.bodies = {Body(c1, 1, FALSE)}, !.council = {"bonds"}]
Accrediting == [Meddled EXCEPT !.bidders = {}, !.council = {"issuers", "roots"}]

MCScenarios == {Contest, Crowd, Cancelled, Busy, Roots, Listing, Bonded, Anchored}
LiveScenarios == {Others, Meddled, Dutiful, Recording, Accrediting, Anchored}

=============================================================================
