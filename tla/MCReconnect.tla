----------------------------- MODULE MCReconnect -----------------------------
(* Reconnect with the times of the code, in units of 5 seconds.             *)
EXTENDS Reconnect
=============================================================================
