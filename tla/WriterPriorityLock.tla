------------------------- MODULE WriterPriorityLock -------------------------
(***************************************************************************)
(* class WriterPriorityLock: readers pass the gate rsem_ one at a time,    *)
(* the first writer to arrive closes the gate for all the writers and the  *)
(* last one to leave opens it.  readTry_ lets at most one reader compete   *)
(* with a writer for the gate; mutex1_ and mutex2_ protect the two counts; *)
(* wrt_ is the exclusive lock proper.                                      *)
(*                                                                         *)
(* Labels and granularity are those of ReaderPriorityLock: a label names   *)
(* the statement a thread executes next, and each access to shared memory  *)
(* is one step.                                                            *)
(***************************************************************************)
EXTENDS RWLockBase, Semaphore

VARIABLES readCount_, writeCount_, writerActive_

shared == <<sem, readCount_, writeCount_, writerActive_>>
counts == <<readCount_, writeCount_>>
vars   == <<pc, state, sem, readCount_, writeCount_, writerActive_>>

Semaphores == {"mutex1_", "mutex2_", "rsem_", "wrt_", "readTry_"}

ReaderLabels == {"idle", "reading",
                 "RL_wait_readTry", "RL_wait_rsem", "RL_wait_mutex1", "RL_count",
                 "RL_wait_wrt", "RL_post_mutex1", "RL_post_rsem", "RL_post_readTry",
                 "RL_active", "RU_count", "RU_post_wrt", "RU_post_mutex1", "RU_releasing"}

WriterLabels == {"idle", "writing",
                 "WL_wait_mutex2", "WL_count", "WL_wait_rsem", "WL_post_mutex2",
                 "WL_wait_wrt", "WL_flag", "WL_active", "WU_post_wrt", "WU_wait_mutex2",
                 "WU_count", "WU_post_rsem", "WU_post_mutex2", "WU_releasing"}

Init ==
    /\ BaseInit
    /\ sem = [s \in Semaphores |-> 1]
    /\ readCount_ = 0
    /\ writeCount_ = 0
    /\ writerActive_ = FALSE

\* A statement s.wait() or s.post() of thread t.
Waits(t, s, from, to) ==
    Goto(t, from, to) /\ wait(s) /\ UNCHANGED <<state, counts, writerActive_>>

Posts(t, s, from, to) ==
    Goto(t, from, to) /\ post(s) /\ UNCHANGED <<state, counts, writerActive_>>
-----------------------------------------------------------------------------
(* readLock *)

readLock_waiting(r) ==
    Goto(r, "idle", "RL_wait_readTry") /\ transitionWaiting(r) /\ UNCHANGED shared

readLock_wait_readTry(r) == Waits(r, "readTry_", "RL_wait_readTry", "RL_wait_rsem")

\* Mutant: readers do not stop at the gate.
readLock_skip_rsem(r) ==
    /\ Goto(r, "RL_wait_rsem", "RL_wait_mutex1")
    /\ sem' = [sem EXCEPT !["rsem_"] = 0]
    /\ UNCHANGED <<state, counts, writerActive_>>

readLock_wait_rsem(r) == Waits(r, "rsem_", "RL_wait_rsem", "RL_wait_mutex1")

readLock_wait_mutex1(r) == Waits(r, "mutex1_", "RL_wait_mutex1", "RL_count")

readLock_count(r) ==
    /\ Goto(r, "RL_count", IF readCount_ + 1 = 1 THEN "RL_wait_wrt"
                                                 ELSE "RL_post_mutex1")
    /\ readCount_' = readCount_ + 1
    /\ UNCHANGED <<state, sem, writeCount_, writerActive_>>

readLock_wait_wrt(r) == Waits(r, "wrt_", "RL_wait_wrt", "RL_post_mutex1")

readLock_post_mutex1(r) == Posts(r, "mutex1_", "RL_post_mutex1", "RL_post_rsem")

readLock_post_rsem(r) == Posts(r, "rsem_", "RL_post_rsem", "RL_post_readTry")

\* Mutant: the reader leaves readTry_ taken.
readLock_keep_readTry(r) ==
    Goto(r, "RL_post_readTry", "RL_active") /\ UNCHANGED <<state, shared>>

readLock_post_readTry(r) == Posts(r, "readTry_", "RL_post_readTry", "RL_active")

readLock_active(r) ==
    Goto(r, "RL_active", "reading") /\ transitionActive(r) /\ UNCHANGED shared
-----------------------------------------------------------------------------
(* readUnlock *)

readUnlock_wait_mutex1(r) == Waits(r, "mutex1_", "reading", "RU_count")

\* Mutant: the test for the last reader is off by one.
readUnlock_count_early(r) ==
    /\ Goto(r, "RU_count", IF readCount_ - 1 <= 1 THEN "RU_post_wrt"
                                                  ELSE "RU_post_mutex1")
    /\ readCount_' = readCount_ - 1
    /\ UNCHANGED <<state, sem, writeCount_, writerActive_>>

readUnlock_count(r) ==
    /\ Goto(r, "RU_count", IF readCount_ - 1 = 0 THEN "RU_post_wrt"
                                                 ELSE "RU_post_mutex1")
    /\ readCount_' = readCount_ - 1
    /\ UNCHANGED <<state, sem, writeCount_, writerActive_>>

readUnlock_post_wrt(r) == Posts(r, "wrt_", "RU_post_wrt", "RU_post_mutex1")

readUnlock_post_mutex1(r) == Posts(r, "mutex1_", "RU_post_mutex1", "RU_releasing")

readUnlock_releasing(r) ==
    Goto(r, "RU_releasing", "idle") /\ transitionReleasing(r) /\ UNCHANGED shared
-----------------------------------------------------------------------------
(* writeLock *)

writeLock_waiting(w) ==
    Goto(w, "idle", "WL_wait_mutex2") /\ transitionWaiting(w) /\ UNCHANGED shared

writeLock_wait_mutex2(w) == Waits(w, "mutex2_", "WL_wait_mutex2", "WL_count")

\* Mutant: no writer closes the gate.
writeLock_count_open(w) ==
    /\ Goto(w, "WL_count", "WL_post_mutex2")
    /\ writeCount_' = writeCount_ + 1
    /\ UNCHANGED <<state, sem, readCount_, writerActive_>>

writeLock_count(w) ==
    /\ Goto(w, "WL_count", IF writeCount_ + 1 = 1 THEN "WL_wait_rsem"
                                                  ELSE "WL_post_mutex2")
    /\ writeCount_' = writeCount_ + 1
    /\ UNCHANGED <<state, sem, readCount_, writerActive_>>

writeLock_wait_rsem(w) == Waits(w, "rsem_", "WL_wait_rsem", "WL_post_mutex2")

writeLock_post_mutex2(w) == Posts(w, "mutex2_", "WL_post_mutex2", "WL_wait_wrt")

\* Mutant: a writer does not wait for the writer that is inside.
writeLock_skip_wrt(w) ==
    /\ Goto(w, "WL_wait_wrt", "WL_flag")
    /\ sem' = [sem EXCEPT !["wrt_"] = 0]
    /\ UNCHANGED <<state, counts, writerActive_>>

writeLock_wait_wrt(w) == Waits(w, "wrt_", "WL_wait_wrt", "WL_flag")

writeLock_flag(w) ==
    /\ Goto(w, "WL_flag", "WL_active")
    /\ writerActive_' = TRUE
    /\ UNCHANGED <<state, sem, counts>>

writeLock_active(w) ==
    Goto(w, "WL_active", "writing") /\ transitionActive(w) /\ UNCHANGED shared
-----------------------------------------------------------------------------
(* writeUnlock *)

writeUnlock_flag(w) ==
    /\ Goto(w, "writing", "WU_post_wrt")
    /\ writerActive_' = FALSE
    /\ UNCHANGED <<state, sem, counts>>

writeUnlock_post_wrt(w) == Posts(w, "wrt_", "WU_post_wrt", "WU_wait_mutex2")

writeUnlock_wait_mutex2(w) == Waits(w, "mutex2_", "WU_wait_mutex2", "WU_count")

\* Mutant: every leaving writer opens the gate.
writeUnlock_count_every(w) ==
    /\ Goto(w, "WU_count", "WU_post_rsem")
    /\ writeCount_' = writeCount_ - 1
    /\ UNCHANGED <<state, sem, readCount_, writerActive_>>

writeUnlock_count(w) ==
    /\ Goto(w, "WU_count", IF writeCount_ - 1 = 0 THEN "WU_post_rsem"
                                                  ELSE "WU_post_mutex2")
    /\ writeCount_' = writeCount_ - 1
    /\ UNCHANGED <<state, sem, readCount_, writerActive_>>

writeUnlock_post_rsem(w) == Posts(w, "rsem_", "WU_post_rsem", "WU_post_mutex2")

writeUnlock_post_mutex2(w) == Posts(w, "mutex2_", "WU_post_mutex2", "WU_releasing")

writeUnlock_releasing(w) ==
    Goto(w, "WU_releasing", "idle") /\ transitionReleasing(w) /\ UNCHANGED shared
-----------------------------------------------------------------------------
\* What a reader does once it has called readLock.
readerStep(r) ==
    \/ readLock_wait_readTry(r) \/ readLock_wait_rsem(r) \/ readLock_wait_mutex1(r)
    \/ readLock_count(r) \/ readLock_wait_wrt(r) \/ readLock_post_mutex1(r)
    \/ readLock_post_rsem(r) \/ readLock_post_readTry(r) \/ readLock_active(r)
    \/ readUnlock_wait_mutex1(r) \/ readUnlock_count(r) \/ readUnlock_post_wrt(r)
    \/ readUnlock_post_mutex1(r) \/ readUnlock_releasing(r)

\* What a writer does once it has called writeLock.
writerStep(w) ==
    \/ writeLock_wait_mutex2(w) \/ writeLock_count(w) \/ writeLock_wait_rsem(w)
    \/ writeLock_post_mutex2(w) \/ writeLock_wait_wrt(w) \/ writeLock_flag(w)
    \/ writeLock_active(w) \/ writeUnlock_flag(w) \/ writeUnlock_post_wrt(w)
    \/ writeUnlock_wait_mutex2(w) \/ writeUnlock_count(w) \/ writeUnlock_post_rsem(w)
    \/ writeUnlock_post_mutex2(w) \/ writeUnlock_releasing(w)

Next ==
    \/ \E r \in Readers : readLock_waiting(r) \/ readerStep(r)
    \/ \E w \in Writers : writeLock_waiting(w) \/ writerStep(w)

\* The scheduler runs every thread that can run.
Fairness ==
    /\ \A r \in Readers : WF_vars(readerStep(r))
    /\ \A w \in Writers : WF_vars(writerStep(w))

Spec == Init /\ [][Next]_vars

FairSpec == Spec /\ Fairness
-----------------------------------------------------------------------------
(* Who owns what, by position in the code. *)

InReadTry == {"RL_wait_rsem", "RL_wait_mutex1", "RL_count", "RL_wait_wrt",
              "RL_post_mutex1", "RL_post_rsem", "RL_post_readTry"}
InRsem    == {"RL_wait_mutex1", "RL_count", "RL_wait_wrt", "RL_post_mutex1", "RL_post_rsem"}
InMutex1  == {"RL_count", "RL_wait_wrt", "RL_post_mutex1",
              "RU_count", "RU_post_wrt", "RU_post_mutex1"}
InMutex2  == {"WL_count", "WL_wait_rsem", "WL_post_mutex2",
              "WU_count", "WU_post_rsem", "WU_post_mutex2"}
ReadHeld  == {"RL_post_mutex1", "RL_post_rsem", "RL_post_readTry", "RL_active",
              "reading", "RU_count", "RU_post_wrt"}
WriteHeld == {"WL_flag", "WL_active", "writing", "WU_post_wrt"}

\* The readers that readCount_ counts, the writers that writeCount_ counts,
\* and the writers for whom the gate is closed.
ReadCounted  == (ReadHeld \ {"RU_post_wrt"}) \cup {"RL_wait_wrt"}
GateHeld     == WriteHeld \cup {"WL_post_mutex2", "WL_wait_wrt", "WU_wait_mutex2",
                                "WU_count", "WU_post_rsem"}
WriteCounted == (GateHeld \ {"WU_post_rsem"}) \cup {"WL_wait_rsem"}

Asking       == {"RL_wait_readTry", "RL_wait_rsem", "RL_wait_mutex1", "RL_count", "RL_wait_wrt",
                 "WL_wait_mutex2", "WL_count", "WL_wait_rsem", "WL_post_mutex2", "WL_wait_wrt"}

Mode(t) == IF pc[t] \in ReadHeld \cup WriteHeld THEN "in"
           ELSE IF pc[t] \in Asking THEN "waiting"
           ELSE "out"

RW == INSTANCE RWLock WITH mode <- [t \in Threads |-> Mode(t)]
-----------------------------------------------------------------------------
(* Properties. *)

\* Every variable stays in its range: readers and writers stay in their own
\* functions, the counts are never negative, and the five semaphores stay
\* binary, so that post() never overflows one.
TypeOK ==
    /\ pc \in [Threads -> ReaderLabels \cup WriterLabels]
    /\ \A r \in Readers : pc[r] \in ReaderLabels
    /\ \A w \in Writers : pc[w] \in WriterLabels
    /\ state \in [Threads -> ThreadState]
    /\ sem \in [Semaphores -> {0, 1}]
    /\ readCount_ \in Nat
    /\ writeCount_ \in Nat
    /\ writerActive_ \in BOOLEAN

\* While a writer is between the return of writeLock and its writeUnlock, no
\* other thread is between its own lock and unlock.
MutualExclusion ==
    \A w \in Writers : pc[w] = "writing" =>
        \A t \in Threads \ {w} : pc[t] \notin {"reading", "writing"}

\* A semaphore used as a lock: taken exactly when one of the threads of S is
\* between its wait and its post, and then by one thread only.
GuardedBy(s, S, labels) ==
    /\ sem[s] = 0 <=> At(S, labels) # {}
    /\ \A x, y \in At(S, labels) : x = y

\* readTry_, mutex1_ and mutex2_ are such locks.
LockInv ==
    /\ GuardedBy("readTry_", Readers, InReadTry)
    /\ GuardedBy("mutex1_", Readers, InMutex1)
    /\ GuardedBy("mutex2_", Writers, InMutex2)

\* The counts are exact ...
CountInv ==
    /\ readCount_ = Cardinality(At(Readers, ReadCounted))
    /\ writeCount_ = Cardinality(At(Writers, WriteCounted))

\* ... and 1 and 0 really are the first and the last.
EdgeInv ==
    /\ \A r \in Readers : /\ pc[r] = "RL_wait_wrt" => readCount_ = 1
                          /\ pc[r] = "RU_post_wrt" => readCount_ = 0
    /\ \A w \in Writers : /\ pc[w] = "WL_wait_rsem" => writeCount_ = 1
                          /\ pc[w] = "WU_post_rsem" => writeCount_ = 0

\* The gate rsem_ belongs to nobody, to one reader that is passing it, or to
\* the writers as a group.
GateInv ==
    /\ sem["rsem_"] = 0 <=> At(Readers, InRsem) # {} \/ At(Writers, GateHeld) # {}
    /\ At(Readers, InRsem) = {} \/ At(Writers, GateHeld) = {}

\* wrt_ belongs to nobody, to one writer, or to the readers as a group.
WrtInv ==
    /\ sem["wrt_"] = 0 <=> At(Readers, ReadHeld) # {} \/ At(Writers, WriteHeld) # {}
    /\ At(Readers, ReadHeld) = {} \/ At(Writers, WriteHeld) = {}
    /\ \A w, v \in At(Writers, WriteHeld) : w = v

\* The inductive invariant of the lock: what its five semaphores and two
\* counts mean in terms of the positions of the threads.
IndInv == TypeOK /\ LockInv /\ CountInv /\ EdgeInv /\ GateInv /\ WrtInv

\* The gate protects the readers: a reader that got through rsem_ finds wrt_
\* free, so it never sleeps while it keeps rsem_, mutex1_ and readTry_.
FirstReaderNeverBlocks ==
    \A r \in Readers : pc[r] = "RL_wait_wrt" => sem["wrt_"] = 1

\* While the gate is closed for some writer, no further reader gets in.
GateClosedToReaders ==
    [][At(Writers, GateHeld) # {} =>
          At(Readers, ReadHeld)' \subseteq At(Readers, ReadHeld)]_vars

\* The lock implements the contract of RWLockBase.
RefinesRWLock == RW!Spec

\* No hang: when somebody has asked for the lock, somebody gets in.
SomeoneGetsIn ==
    (\E t \in Threads : Mode(t) = "waiting") ~> (\E t \in Threads : Mode(t) = "in")
=============================================================================
