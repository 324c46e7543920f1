----------------------------- MODULE MCWatchdog -----------------------------
(* Two threads, registered in this order. *)
EXTENDS Watchdog

CONSTANTS t1, t2

Registry == <<t1, t2>>
=============================================================================
