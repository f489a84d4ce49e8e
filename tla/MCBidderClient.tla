--------------------------- MODULE MCBidderClient ---------------------------
(* Instances of BidderClient for TLC: two browsers after one tender.         *)
EXTENDS BidderClient

CONSTANTS b1, b2, t1

TwoBidders == {b1, b2}
OneTender == {t1}

=============================================================================
