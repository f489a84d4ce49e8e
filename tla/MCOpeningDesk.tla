--------------------------- MODULE MCOpeningDesk ---------------------------
(* Instance of OpeningDesk for TLC: the curve of 7 * 8 points, three of five. *)
EXTENDS OpeningDesk

Alone ==
    [coefficients |-> [1 .. COMMITTEE_THRESHOLD -> Scalars], ephemerals |-> {3}, most |-> 1,
     honest |-> TRUE, members |-> CommitteeIndices, strays |-> {0}, revocable |-> {}]
\* Several bids, some of which do not hold what they commit to.
Several ==
    [coefficients |-> {<<1, 2, 3>>}, ephemerals |-> {5}, most |-> 3, honest |-> TRUE,
     members |-> {1, 3, 4}, strays |-> {0}, revocable |-> {}]
Full == [Several EXCEPT !.most = 4, !.members = {}]
Deviant == [Several EXCEPT !.honest = FALSE, !.most = 2]
Revoking == [Several EXCEPT !.most = 0, !.revocable = CredentialIds]
\* Shares with a component of order two or eight, among others.
Straying == [Alone EXCEPT !.coefficients = {<<1, 2, 3>>}, !.strays = {0, 1, 4}]

MCDesks == {Alone, Several, Full, Deviant, Revoking, Straying}

=============================================================================
