------------------------------ MODULE MCLogger ------------------------------
(* A thread with one operation and one that finds none left. *)
EXTENDS Logger

CONSTANTS t1, t2

MCOpsOf == [t \in {t1, t2} |-> IF t = t1 THEN 1 ELSE 0]
=============================================================================
