------------------------------- MODULE RWLock -------------------------------
(***************************************************************************)
(* What every RWLockBase promises its callers, whatever the algorithm:     *)
(* any number of readers may be inside together, a writer is inside alone. *)
(* The three locks of the toolkit are shown to implement this module.      *)
(***************************************************************************)
CONSTANTS Readers, Writers

VARIABLE mode   \* where each thread stands with respect to the lock

Modes == {"out", "waiting", "in"}

Inside(S) == {t \in S : mode[t] = "in"}

Init == mode = [t \in Readers \cup Writers |-> "out"]

\* A thread calls readLock() or writeLock().
Request(t) ==
    /\ mode[t] = "out"
    /\ mode' = [mode EXCEPT ![t] = "waiting"]

\* readLock() takes effect.
AcquireRead(r) ==
    /\ mode[r] = "waiting"
    /\ Inside(Writers) = {}
    /\ mode' = [mode EXCEPT ![r] = "in"]

\* writeLock() takes effect.
AcquireWrite(w) ==
    /\ mode[w] = "waiting"
    /\ Inside(Readers \cup Writers) = {}
    /\ mode' = [mode EXCEPT ![w] = "in"]

\* readUnlock() or writeUnlock() takes effect.
Release(t) ==
    /\ mode[t] = "in"
    /\ mode' = [mode EXCEPT ![t] = "out"]

Next ==
    \/ \E t \in Readers \cup Writers : Request(t) \/ Release(t)
    \/ \E r \in Readers : AcquireRead(r)
    \/ \E w \in Writers : AcquireWrite(w)

Spec == Init /\ [][Next]_mode
=============================================================================
