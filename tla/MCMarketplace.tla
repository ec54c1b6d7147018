---------------------------- MODULE MCMarketplace ----------------------------
(* Instances of Marketplace for TLC. *)
EXTENDS Marketplace

CONSTANTS d1
=============================================================================
