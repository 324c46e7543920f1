----------------------------- MODULE RWLockBase -----------------------------
(***************************************************************************)
(* The part every lock of the toolkit shares: the reader and writer        *)
(* threads, the position of each inside the lock's methods, the published  *)
(* ThreadInfo::state, and the three transition helpers of RWLockBase that  *)
(* write it.  The log line each helper emits and the times it stamps do    *)
(* not influence the locks and are left out here, and so is the watchdog,  *)
(* which no lock reads from: it may store BLOCKED over state at any time,  *)
(* as the module Watchdog shows.                                           *)
(***************************************************************************)
EXTENDS Integers, FiniteSets

CONSTANTS Readers, Writers   \* the threads that run readerThread / writerThread

ASSUME ThreadsAssumption ==
    /\ Readers \cap Writers = {}
    /\ IsFiniteSet(Readers)
    /\ IsFiniteSet(Writers)

Threads == Readers \cup Writers

VARIABLES pc,      \* the statement a thread executes next
          state    \* ThreadInfo::state, as other threads see it

\* The values of enum ThreadState.
ThreadState == {"INIT", "WAITING", "ACTIVE", "BLOCKED", "RELEASING", "DONE"}

BaseInit ==
    /\ pc    = [t \in Threads |-> "idle"]
    /\ state = [t \in Threads |-> "INIT"]

Goto(t, from, to) ==
    /\ pc[t] = from
    /\ pc' = [pc EXCEPT ![t] = to]

transitionWaiting(t) == state' = [state EXCEPT ![t] = "WAITING"]

transitionActive(t) == state' = [state EXCEPT ![t] = "ACTIVE"]

transitionReleasing(t) == state' = [state EXCEPT ![t] = "RELEASING"]

\* The threads of S whose next statement is one of those in labels.
At(S, labels) == {t \in S : pc[t] \in labels}
=============================================================================
