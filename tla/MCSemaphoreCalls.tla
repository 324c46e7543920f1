-------------------------- MODULE MCSemaphoreCalls --------------------------
(* Timeouts on either side of a second of three units, zero, and one that  *)
(* is negative.                                                            *)
EXTENDS SemaphoreCalls

MCTimeouts == {-1, 0, 2, 4}
=============================================================================
