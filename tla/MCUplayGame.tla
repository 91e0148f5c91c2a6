---------------------------- MODULE MCUplayGame ----------------------------
(* Instances of UplayGame for TLC: two acceptances, of private rooms or of   *)
(* another kind, and a bridge that acts with the second heartbeat.           *)
EXTENDS UplayGame
=============================================================================
