------------------------------ MODULE MCBidOrder ------------------------------
(* Instance of BidOrder for TLC. *)
EXTENDS BidOrder
=============================================================================
