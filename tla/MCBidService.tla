---------------------------- MODULE MCBidService ----------------------------
EXTENDS BidService

CONSTANTS o1, o2

MCEvents == {"created", "ended"} \X Orders
=============================================================================
