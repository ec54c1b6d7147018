---------------------------- MODULE MCBroadcaster ----------------------------
(* Instance of Broadcaster for TLC. *)
EXTENDS Broadcaster
=============================================================================
