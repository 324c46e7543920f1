------------------------- MODULE ReaderPriorityLock -------------------------
(***************************************************************************)
(* class ReaderPriorityLock: the first reader in takes wrt_ for all the    *)
(* readers, the last one out gives it back, and mutex_ protects the count  *)
(* that tells which reader is first or last.                               *)
(*                                                                         *)
(* A label names the statement a thread executes next: RL_ in readLock,    *)
(* RU_ in readUnlock, WL_ in writeLock, WU_ in writeUnlock.  Each access   *)
(* to shared memory is one step; the test on the local rc belongs to the   *)
(* step that computes it.  Callers follow the protocol of the thread       *)
(* functions in main.cpp: lock, work, unlock, again or never.              *)
(***************************************************************************)
EXTENDS RWLockBase, Semaphore

VARIABLES readCount_, writerActive_

vars == <<pc, state, sem, readCount_, writerActive_>>

Semaphores == {"mutex_", "wrt_"}

Labels == {"idle", "reading", "writing",
           "RL_wait_mutex", "RL_count", "RL_wait_wrt", "RL_post_mutex", "RL_active",
           "RU_count", "RU_post_wrt", "RU_post_mutex", "RU_releasing",
           "WL_wait_wrt", "WL_flag", "WL_active", "WU_post_wrt", "WU_releasing"}

Init ==
    /\ BaseInit
    /\ sem = [s \in Semaphores |-> 1]
    /\ readCount_ = 0
    /\ writerActive_ = FALSE
-----------------------------------------------------------------------------
(* readLock *)

readLock_waiting(r) ==
    /\ Goto(r, "idle", "RL_wait_mutex")
    /\ transitionWaiting(r)
    /\ UNCHANGED <<sem, readCount_, writerActive_>>

readLock_wait_mutex(r) ==
    /\ Goto(r, "RL_wait_mutex", "RL_count")
    /\ wait("mutex_")
    /\ UNCHANGED <<state, readCount_, writerActive_>>

\* Mutant: every reader, not only the first, queues for wrt_.
readLock_count_every(r) ==
    /\ Goto(r, "RL_count", "RL_wait_wrt")
    /\ readCount_' = readCount_ + 1
    /\ UNCHANGED <<state, sem, writerActive_>>

readLock_count(r) ==
    /\ Goto(r, "RL_count", IF readCount_ + 1 = 1 THEN "RL_wait_wrt"
                                                 ELSE "RL_post_mutex")
    /\ readCount_' = readCount_ + 1
    /\ UNCHANGED <<state, sem, writerActive_>>

readLock_wait_wrt(r) ==
    /\ Goto(r, "RL_wait_wrt", "RL_post_mutex")
    /\ wait("wrt_")
    /\ UNCHANGED <<state, readCount_, writerActive_>>

readLock_post_mutex(r) ==
    /\ Goto(r, "RL_post_mutex", "RL_active")
    /\ post("mutex_")
    /\ UNCHANGED <<state, readCount_, writerActive_>>

readLock_active(r) ==
    /\ Goto(r, "RL_active", "reading")
    /\ transitionActive(r)
    /\ UNCHANGED <<sem, readCount_, writerActive_>>
-----------------------------------------------------------------------------
(* readUnlock *)

\* Mutant: the unlocking reader does not wait for mutex_, yet posts it.
readUnlock_no_wait(r) ==
    /\ Goto(r, "reading", "RU_count")
    /\ UNCHANGED <<state, sem, readCount_, writerActive_>>

readUnlock_wait_mutex(r) ==
    /\ Goto(r, "reading", "RU_count")
    /\ wait("mutex_")
    /\ UNCHANGED <<state, readCount_, writerActive_>>

\* Mutant: the test for the last reader is off by one.
readUnlock_count_early(r) ==
    /\ Goto(r, "RU_count", IF readCount_ - 1 <= 1 THEN "RU_post_wrt"
                                                  ELSE "RU_post_mutex")
    /\ readCount_' = readCount_ - 1
    /\ UNCHANGED <<state, sem, writerActive_>>

\* Mutant: the last reader forgets to give wrt_ back.
readUnlock_count_never(r) ==
    /\ Goto(r, "RU_count", "RU_post_mutex")
    /\ readCount_' = readCount_ - 1
    /\ UNCHANGED <<state, sem, writerActive_>>

readUnlock_count(r) ==
    /\ Goto(r, "RU_count", IF readCount_ - 1 = 0 THEN "RU_post_wrt"
                                                 ELSE "RU_post_mutex")
    /\ readCount_' = readCount_ - 1
    /\ UNCHANGED <<state, sem, writerActive_>>

readUnlock_post_wrt(r) ==
    /\ Goto(r, "RU_post_wrt", "RU_post_mutex")
    /\ post("wrt_")
    /\ UNCHANGED <<state, readCount_, writerActive_>>

readUnlock_post_mutex(r) ==
    /\ Goto(r, "RU_post_mutex", "RU_releasing")
    /\ post("mutex_")
    /\ UNCHANGED <<state, readCount_, writerActive_>>

readUnlock_releasing(r) ==
    /\ Goto(r, "RU_releasing", "idle")
    /\ transitionReleasing(r)
    /\ UNCHANGED <<sem, readCount_, writerActive_>>
-----------------------------------------------------------------------------
(* writeLock and writeUnlock *)

writeLock_waiting(w) ==
    /\ Goto(w, "idle", "WL_wait_wrt")
    /\ transitionWaiting(w)
    /\ UNCHANGED <<sem, readCount_, writerActive_>>

\* Mutant: a writer goes ahead when some reader still holds wrt_.
writeLock_no_wait(w) ==
    /\ Goto(w, "WL_wait_wrt", "WL_flag")
    /\ IF readCount_ > 0 THEN UNCHANGED sem ELSE wait("wrt_")
    /\ UNCHANGED <<state, readCount_, writerActive_>>

writeLock_wait_wrt(w) ==
    /\ Goto(w, "WL_wait_wrt", "WL_flag")
    /\ wait("wrt_")
    /\ UNCHANGED <<state, readCount_, writerActive_>>

writeLock_flag(w) ==
    /\ Goto(w, "WL_flag", "WL_active")
    /\ writerActive_' = TRUE
    /\ UNCHANGED <<state, sem, readCount_>>

writeLock_active(w) ==
    /\ Goto(w, "WL_active", "writing")
    /\ transitionActive(w)
    /\ UNCHANGED <<sem, readCount_, writerActive_>>

writeUnlock_flag(w) ==
    /\ Goto(w, "writing", "WU_post_wrt")
    /\ writerActive_' = FALSE
    /\ UNCHANGED <<state, sem, readCount_>>

writeUnlock_post_wrt(w) ==
    /\ Goto(w, "WU_post_wrt", "WU_releasing")
    /\ post("wrt_")
    /\ UNCHANGED <<state, readCount_, writerActive_>>

writeUnlock_releasing(w) ==
    /\ Goto(w, "WU_releasing", "idle")
    /\ transitionReleasing(w)
    /\ UNCHANGED <<sem, readCount_, writerActive_>>
-----------------------------------------------------------------------------
\* What a reader does once it has called readLock.
readerStep(r) ==
    \/ readLock_wait_mutex(r) \/ readLock_count(r) \/ readLock_wait_wrt(r)
    \/ readLock_post_mutex(r) \/ readLock_active(r)
    \/ readUnlock_wait_mutex(r) \/ readUnlock_count(r) \/ readUnlock_post_wrt(r)
    \/ readUnlock_post_mutex(r) \/ readUnlock_releasing(r)

\* What a writer does once it has called writeLock.
writerStep(w) ==
    \/ writeLock_wait_wrt(w) \/ writeLock_flag(w) \/ writeLock_active(w)
    \/ writeUnlock_flag(w) \/ writeUnlock_post_wrt(w) \/ writeUnlock_releasing(w)

Next ==
    \/ \E r \in Readers : readLock_waiting(r) \/ readerStep(r)
    \/ \E w \in Writers : writeLock_waiting(w) \/ writerStep(w)

\* The scheduler runs every thread that can run; nobody is obliged to call
\* the lock again, and nothing is assumed of the order in which a semaphore
\* serves its waiters.
Fairness ==
    /\ \A r \in Readers : WF_vars(readerStep(r))
    /\ \A w \in Writers : WF_vars(writerStep(w))

Spec == Init /\ [][Next]_vars

FairSpec == Spec /\ Fairness
-----------------------------------------------------------------------------
(* Who owns what, by position in the code. *)

InMutex   == {"RL_count", "RL_wait_wrt", "RL_post_mutex",
              "RU_count", "RU_post_wrt", "RU_post_mutex"}
Counted   == {"RL_wait_wrt", "RL_post_mutex", "RL_active", "reading", "RU_count"}
ReadHeld  == {"RL_post_mutex", "RL_active", "reading", "RU_count", "RU_post_wrt"}
WriteHeld == {"WL_flag", "WL_active", "writing", "WU_post_wrt"}
ReaderLabels == {"idle", "reading", "RL_wait_mutex", "RL_count", "RL_wait_wrt",
                 "RL_post_mutex", "RL_active", "RU_count", "RU_post_wrt",
                 "RU_post_mutex", "RU_releasing"}

Asking    == {"RL_wait_mutex", "RL_count", "RL_wait_wrt", "WL_wait_wrt"}

Mode(t) == IF pc[t] \in ReadHeld \cup WriteHeld THEN "in"
           ELSE IF pc[t] \in Asking THEN "waiting"
           ELSE "out"

RW == INSTANCE RWLock WITH mode <- [t \in Threads |-> Mode(t)]
-----------------------------------------------------------------------------
(* Properties. *)

\* Every variable stays in its range; in particular readCount_ never goes
\* below zero and the two semaphores stay binary, so no sem_post can come
\* near SEM_VALUE_MAX and make post() throw.
TypeOK ==
    /\ pc \in [Threads -> Labels]
    /\ state \in [Threads -> ThreadState]
    /\ sem \in [Semaphores -> {0, 1}]
    /\ readCount_ \in Nat
    /\ writerActive_ \in BOOLEAN

\* While a writer is between the return of writeLock and its writeUnlock, no
\* other thread is between its own lock and unlock.
MutualExclusion ==
    \A w \in Writers : pc[w] = "writing" =>
        \A t \in Threads \ {w} : pc[t] \notin {"reading", "writing"}

\* mutex_ is a lock: taken exactly when some reader is between its wait and
\* its post, and then by one reader only.
MutexInv ==
    /\ sem["mutex_"] = 0 <=> At(Readers, InMutex) # {}
    /\ \A r, q \in At(Readers, InMutex) : r = q

\* wrt_ is either free, or held by one writer, or held by the readers that
\* are inside as a group.
WrtInv ==
    /\ sem["wrt_"] = 0 <=> At(Readers, ReadHeld) # {} \/ At(Writers, WriteHeld) # {}
    /\ At(Readers, ReadHeld) = {} \/ At(Writers, WriteHeld) = {}
    /\ \A w, v \in At(Writers, WriteHeld) : w = v

\* readCount_ is the number of readers between their increment and their
\* decrement, whoever runs in between.
CountInv == readCount_ = Cardinality(At(Readers, Counted))

\* The first reader is alone while it waits for wrt_, and the last one is
\* really the last when it gives wrt_ back.
EdgeInv ==
    /\ \A r \in Readers : pc[r] = "RL_wait_wrt" => readCount_ = 1
    /\ \A r \in Readers : pc[r] = "RU_post_wrt" => readCount_ = 0

\* Readers and writers stay in their own functions, and writerActive_ is
\* raised exactly while a writer is between its two stores.
PlaceInv ==
    /\ \A r \in Readers : pc[r] \in ReaderLabels
    /\ \A w \in Writers : pc[w] \notin ReaderLabels \ {"idle"}
    /\ writerActive_ <=> At(Writers, {"WL_active", "writing"}) # {}

\* The inductive invariant of the lock: what mutex_, wrt_ and readCount_
\* mean in terms of the positions of the threads.
IndInv == TypeOK /\ PlaceInv /\ MutexInv /\ CountInv /\ EdgeInv /\ WrtInv

\* "readers never wait while other readers hold lock" (config.hpp): a reader
\* is sent to queue for wrt_ only when no reader is inside.
ReadersJoinReaders ==
    At(Readers, {"RL_wait_wrt"}) # {} => At(Readers, ReadHeld) = {}

\* The lock implements the contract of RWLockBase: each of its steps is a
\* request, an acquisition that the contract allows, a release, or nothing.
RefinesRWLock == RW!Spec

\* No hang: when somebody has asked for the lock, somebody gets in, however
\* the scheduler and the semaphores choose.
SomeoneGetsIn ==
    (\E t \in Threads : Mode(t) = "waiting") ~> (\E t \in Threads : Mode(t) = "in")
==============================================================================
