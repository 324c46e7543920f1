----------------------------- MODULE Semaphore ------------------------------
(***************************************************************************)
(* The two operations of class Semaphore that the locks use, on a family   *)
(* of named semaphores.  sem_wait blocks while the count is zero and takes *)
(* no account of arrival order: any waiting thread may be the next to      *)
(* decrement.  An EINTR return makes wait() call sem_wait again, which     *)
(* changes nothing and is a stuttering step.                               *)
(***************************************************************************)
EXTENDS Integers

VARIABLE sem    \* the count of each semaphore

wait(s) ==
    /\ sem[s] > 0
    /\ sem' = [sem EXCEPT ![s] = @ - 1]

post(s) == sem' = [sem EXCEPT ![s] = @ + 1]
=============================================================================
