------------------------------ MODULE MCHeartbeat ------------------------------
(* TLC instance of Heartbeat.                                                 *)
EXTENDS Heartbeat
=============================================================================
