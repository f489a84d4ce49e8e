SPECIFICATION ClientFairSpec
CONSTANTS
  b1 = b1
  b2 = b2
  t1 = t1
  NoReceipt = NoReceipt
  NoTender = NoTender
  Bidders <- TwoBidders
  Tenders <- OneTender
  MaxBids = 2
  MaxAttempts = 2
CHECK_DEADLOCK FALSE
INVARIANTS
  ReceiptOfAcceptedBid
  ProvenFromReceipt
PROPERTIES
  AcceptedIsKept
  
