--------------------------- MODULE FairMorrisLock ---------------------------
(***************************************************************************)
(* class FairMorrisLock: one pthread mutex, two condition variables, and   *)
(* counters of the readers and writers that are inside or waiting.         *)
(*                                                                         *)
(* Each pthread call is one step; the plain code between two of them runs  *)
(* with mtx_ held and is one step too.  A thread blocked in                *)
(* pthread_cond_wait is "asleep" until a signal, a broadcast or a spurious *)
(* wake-up makes it "woken"; it must then take mtx_ again like any other.  *)
(* Neither mtx_ nor the condition variables serve threads in any order.    *)
(***************************************************************************)
EXTENDS RWLockBase

CONSTANT NoThread          \* the owner of a free mutex

ASSUME NoThreadAssumption == NoThread \notin Threads

VARIABLES mtx_,                              \* the thread that holds the mutex
          activeReaders_, activeWriter_,
          waitingReaders_, waitingWriters_

counters == <<activeReaders_, activeWriter_, waitingReaders_, waitingWriters_>>
vars     == <<pc, state, mtx_, counters>>

ReaderLabels == {"idle", "reading", "RL_lock", "RL_test", "RL_asleep", "RL_woken",
                 "RL_unlock", "RL_active", "RU_count", "RU_unlock", "RU_releasing"}

WriterLabels == {"idle", "writing", "WL_lock", "WL_test", "WL_asleep", "WL_woken",
                 "WL_unlock", "WL_active", "WU_clear", "WU_unlock", "WU_releasing"}

Init ==
    /\ BaseInit
    /\ mtx_ = NoThread
    /\ activeReaders_ = 0
    /\ activeWriter_ = FALSE
    /\ waitingReaders_ = 0
    /\ waitingWriters_ = 0

\* pthread_mutex_lock(&mtx_) and pthread_mutex_unlock(&mtx_).
MutexLock(t)   == mtx_ = NoThread /\ mtx_' = t
MutexUnlock(t) == mtx_' = NoThread

\* pthread_cond_broadcast(&readCond_), by thread t on its way from from to to.
BroadcastReaders(t, from, to) ==
    /\ pc[t] = from
    /\ pc' = [u \in Threads |-> IF u = t THEN to
                                ELSE IF pc[u] = "RL_asleep" THEN "RL_woken"
                                ELSE pc[u]]

\* pthread_cond_signal(&writeCond_): wakes one sleeping writer, if there is one.
SignalWriter(t, from, to) ==
    /\ pc[t] = from
    /\ IF At(Writers, {"WL_asleep"}) = {}
       THEN pc' = [pc EXCEPT ![t] = to]
       ELSE \E w \in At(Writers, {"WL_asleep"}) :
               pc' = [pc EXCEPT ![t] = to, ![w] = "WL_woken"]
-----------------------------------------------------------------------------
(* readLock *)

ReaderMustWait == activeWriter_ \/ waitingWriters_ > 0

readLock_waiting(r) ==
    /\ Goto(r, "idle", "RL_lock")
    /\ transitionWaiting(r)
    /\ UNCHANGED <<mtx_, counters>>

readLock_lock(r) ==
    /\ Goto(r, "RL_lock", "RL_test")
    /\ MutexLock(r)
    /\ UNCHANGED <<state, counters>>

\* Mutant: the reader gives mtx_ up and tries again, without going to sleep.
readLock_cond_wait_spin(r) ==
    /\ Goto(r, "RL_test", "RL_lock")
    /\ ReaderMustWait
    /\ MutexUnlock(r)
    /\ UNCHANGED <<state, counters>>

readLock_cond_wait(r) ==
    /\ Goto(r, "RL_test", "RL_asleep")
    /\ ReaderMustWait
    /\ waitingReaders_' = waitingReaders_ + 1
    /\ MutexUnlock(r)
    /\ UNCHANGED <<state, activeReaders_, activeWriter_, waitingWriters_>>

\* Mutant: if instead of while, a woken reader does not test again.
readLock_woken_enters(r) ==
    /\ Goto(r, "RL_woken", "RL_unlock")
    /\ MutexLock(r)
    /\ waitingReaders_' = waitingReaders_ - 1
    /\ activeReaders_' = activeReaders_ + 1
    /\ UNCHANGED <<state, activeWriter_, waitingWriters_>>

readLock_woken(r) ==
    /\ Goto(r, "RL_woken", "RL_test")
    /\ MutexLock(r)
    /\ waitingReaders_' = waitingReaders_ - 1
    /\ UNCHANGED <<state, activeReaders_, activeWriter_, waitingWriters_>>

readLock_enter(r) ==
    /\ Goto(r, "RL_test", "RL_unlock")
    /\ ~ReaderMustWait
    /\ activeReaders_' = activeReaders_ + 1
    /\ UNCHANGED <<state, mtx_, activeWriter_, waitingReaders_, waitingWriters_>>

readLock_unlock(r) ==
    /\ Goto(r, "RL_unlock", "RL_active")
    /\ MutexUnlock(r)
    /\ UNCHANGED <<state, counters>>

readLock_active(r) ==
    /\ Goto(r, "RL_active", "reading")
    /\ transitionActive(r)
    /\ UNCHANGED <<mtx_, counters>>
-----------------------------------------------------------------------------
(* readUnlock *)

readUnlock_lock(r) ==
    /\ Goto(r, "reading", "RU_count")
    /\ MutexLock(r)
    /\ UNCHANGED <<state, counters>>

\* The last reader wakes a writer, or the readers when no writer waits.
readUnlock_count(r) ==
    /\ \/ /\ activeReaders_ - 1 = 0
          /\ waitingWriters_ > 0
          /\ SignalWriter(r, "RU_count", "RU_unlock")
       \/ /\ activeReaders_ - 1 = 0
          /\ waitingWriters_ = 0
          /\ waitingReaders_ > 0
          /\ BroadcastReaders(r, "RU_count", "RU_unlock")
       \/ /\ activeReaders_ - 1 # 0 \/ (waitingWriters_ = 0 /\ waitingReaders_ = 0)
          /\ Goto(r, "RU_count", "RU_unlock")
    /\ activeReaders_' = activeReaders_ - 1
    /\ UNCHANGED <<state, mtx_, activeWriter_, waitingReaders_, waitingWriters_>>

readUnlock_unlock(r) ==
    /\ Goto(r, "RU_unlock", "RU_releasing")
    /\ MutexUnlock(r)
    /\ UNCHANGED <<state, counters>>

readUnlock_releasing(r) ==
    /\ Goto(r, "RU_releasing", "idle")
    /\ transitionReleasing(r)
    /\ UNCHANGED <<mtx_, counters>>
-----------------------------------------------------------------------------
(* writeLock *)

WriterMustWait == activeReaders_ > 0 \/ activeWriter_

writeLock_waiting(w) ==
    /\ Goto(w, "idle", "WL_lock")
    /\ transitionWaiting(w)
    /\ UNCHANGED <<mtx_, counters>>

writeLock_lock(w) ==
    /\ Goto(w, "WL_lock", "WL_test")
    /\ MutexLock(w)
    /\ UNCHANGED <<state, counters>>

writeLock_cond_wait(w) ==
    /\ Goto(w, "WL_test", "WL_asleep")
    /\ WriterMustWait
    /\ waitingWriters_' = waitingWriters_ + 1
    /\ MutexUnlock(w)
    /\ UNCHANGED <<state, activeReaders_, activeWriter_, waitingReaders_>>

\* Mutant: a woken writer stays counted as waiting.
writeLock_woken_counted(w) ==
    /\ Goto(w, "WL_woken", "WL_test")
    /\ MutexLock(w)
    /\ UNCHANGED <<state, counters>>

writeLock_woken(w) ==
    /\ Goto(w, "WL_woken", "WL_test")
    /\ MutexLock(w)
    /\ waitingWriters_' = waitingWriters_ - 1
    /\ UNCHANGED <<state, activeReaders_, activeWriter_, waitingReaders_>>

\* Mutant: the writer only looks for another writer.
writeLock_enter_early(w) ==
    /\ Goto(w, "WL_test", "WL_unlock")
    /\ ~activeWriter_
    /\ activeWriter_' = TRUE
    /\ UNCHANGED <<state, mtx_, activeReaders_, waitingReaders_, waitingWriters_>>

writeLock_enter(w) ==
    /\ Goto(w, "WL_test", "WL_unlock")
    /\ ~WriterMustWait
    /\ activeWriter_' = TRUE
    /\ UNCHANGED <<state, mtx_, activeReaders_, waitingReaders_, waitingWriters_>>

writeLock_unlock(w) ==
    /\ Goto(w, "WL_unlock", "WL_active")
    /\ MutexUnlock(w)
    /\ UNCHANGED <<state, counters>>

writeLock_active(w) ==
    /\ Goto(w, "WL_active", "writing")
    /\ transitionActive(w)
    /\ UNCHANGED <<mtx_, counters>>
-----------------------------------------------------------------------------
(* writeUnlock *)

writeUnlock_lock(w) ==
    /\ Goto(w, "writing", "WU_clear")
    /\ MutexLock(w)
    /\ UNCHANGED <<state, counters>>

\* Mutant: a leaving writer tells the readers nothing.
writeUnlock_clear_silent(w) ==
    /\ IF waitingWriters_ > 0 THEN SignalWriter(w, "WU_clear", "WU_unlock")
                              ELSE Goto(w, "WU_clear", "WU_unlock")
    /\ activeWriter_' = FALSE
    /\ UNCHANGED <<state, mtx_, activeReaders_, waitingReaders_, waitingWriters_>>

\* A leaving writer wakes all the waiting readers, or one writer when no
\* reader waits.
writeUnlock_clear(w) ==
    /\ \/ /\ waitingReaders_ > 0
          /\ BroadcastReaders(w, "WU_clear", "WU_unlock")
       \/ /\ waitingReaders_ = 0
          /\ waitingWriters_ > 0
          /\ SignalWriter(w, "WU_clear", "WU_unlock")
       \/ /\ waitingReaders_ = 0
          /\ waitingWriters_ = 0
          /\ Goto(w, "WU_clear", "WU_unlock")
    /\ activeWriter_' = FALSE
    /\ UNCHANGED <<state, mtx_, activeReaders_, waitingReaders_, waitingWriters_>>

writeUnlock_unlock(w) ==
    /\ Goto(w, "WU_unlock", "WU_releasing")
    /\ MutexUnlock(w)
    /\ UNCHANGED <<state, counters>>

writeUnlock_releasing(w) ==
    /\ Goto(w, "WU_releasing", "idle")
    /\ transitionReleasing(w)
    /\ UNCHANGED <<mtx_, counters>>
-----------------------------------------------------------------------------
\* POSIX lets pthread_cond_wait return without any signal.
spurious_wakeup(t) ==
    /\ Goto(t, "RL_asleep", "RL_woken") \/ Goto(t, "WL_asleep", "WL_woken")
    /\ UNCHANGED <<state, mtx_, counters>>

\* What a reader does once it has called readLock.
readerStep(r) ==
    \/ readLock_lock(r) \/ readLock_cond_wait(r) \/ readLock_woken(r)
    \/ readLock_enter(r) \/ readLock_unlock(r) \/ readLock_active(r)
    \/ readUnlock_lock(r) \/ readUnlock_count(r) \/ readUnlock_unlock(r)
    \/ readUnlock_releasing(r)

\* What a writer does once it has called writeLock.
writerStep(w) ==
    \/ writeLock_lock(w) \/ writeLock_cond_wait(w) \/ writeLock_woken(w)
    \/ writeLock_enter(w) \/ writeLock_unlock(w) \/ writeLock_active(w)
    \/ writeUnlock_lock(w) \/ writeUnlock_clear(w) \/ writeUnlock_unlock(w)
    \/ writeUnlock_releasing(w)

\* What the code does of itself.
CodeNext ==
    \/ \E r \in Readers : readLock_waiting(r) \/ readerStep(r)
    \/ \E w \in Writers : writeLock_waiting(w) \/ writerStep(w)

Next == CodeNext \/ \E t \in Threads : spurious_wakeup(t)

Spec == Init /\ [][Next]_vars

\* The scheduler runs every thread that can run.  Nobody is obliged to call
\* the lock.  Spurious wake-ups may come at any time, but they do not go on
\* for ever and none is ever owed.
FairSpec ==
    /\ Spec
    /\ \A r \in Readers : WF_vars(readerStep(r))
    /\ \A w \in Writers : WF_vars(writerStep(w))
    /\ <>[][CodeNext]_vars

\* The executions without any spurious wake-up.
CodeSpec == Init /\ [][CodeNext]_vars

\* Without spurious wake-ups, and with a mutex kinder than any: it serves
\* everybody who keeps asking for it, and a woken thread that again and again
\* could have it at a moment when the lock is free for it does have it so.
StrongFairSpec ==
    /\ CodeSpec
    /\ \A r \in Readers :
          SF_vars(readerStep(r)) /\ SF_vars(readLock_woken(r) /\ ~ReaderMustWait)
    /\ \A w \in Writers :
          SF_vars(writerStep(w)) /\ SF_vars(writeLock_woken(w) /\ ~WriterMustWait)
-----------------------------------------------------------------------------
(* Who owns what, by position in the code. *)

InMtx     == {"RL_test", "RL_unlock", "RU_count", "RU_unlock",
              "WL_test", "WL_unlock", "WU_clear", "WU_unlock"}
ReadHeld  == {"RL_unlock", "RL_active", "reading", "RU_count"}
WriteHeld == {"WL_unlock", "WL_active", "writing", "WU_clear"}
Asleep    == {"RL_asleep", "WL_asleep"}
Asking    == {"RL_lock", "RL_test", "RL_asleep", "RL_woken",
              "WL_lock", "WL_test", "WL_asleep", "WL_woken"}

Mode(t) == IF pc[t] \in ReadHeld \cup WriteHeld THEN "in"
           ELSE IF pc[t] \in Asking THEN "waiting"
           ELSE "out"

RW == INSTANCE RWLock WITH mode <- [t \in Threads |-> Mode(t)]
-----------------------------------------------------------------------------
(* Properties. *)

\* Every variable stays in its range: readers and writers stay in their own
\* functions and no counter ever goes below zero.
TypeOK ==
    /\ pc \in [Threads -> ReaderLabels \cup WriterLabels]
    /\ \A r \in Readers : pc[r] \in ReaderLabels
    /\ \A w \in Writers : pc[w] \in WriterLabels
    /\ state \in [Threads -> ThreadState]
    /\ mtx_ \in Threads \cup {NoThread}
    /\ activeReaders_ \in Nat
    /\ activeWriter_ \in BOOLEAN
    /\ waitingReaders_ \in Nat
    /\ waitingWriters_ \in Nat

\* While a writer is between the return of writeLock and its writeUnlock, no
\* other thread is between its own lock and unlock.
MutualExclusion ==
    \A w \in Writers : pc[w] = "writing" =>
        \A t \in Threads \ {w} : pc[t] \notin {"reading", "writing"}

\* mtx_ belongs to the one thread that is between its lock and its unlock or
\* its pthread_cond_wait.
MtxInv == \A t \in Threads : pc[t] \in InMtx <=> mtx_ = t

\* The counters are exact: a woken thread stays counted as waiting until it
\* has mtx_ again, and activeReaders_ and activeWriter_ agree with who is in.
CountInv ==
    /\ activeReaders_  = Cardinality(At(Readers, ReadHeld))
    /\ waitingReaders_ = Cardinality(At(Readers, {"RL_asleep", "RL_woken"}))
    /\ waitingWriters_ = Cardinality(At(Writers, {"WL_asleep", "WL_woken"}))
    /\ activeWriter_ <=> At(Writers, WriteHeld) # {}

\* Readers and a writer are never inside together, nor are two writers; so
\* readerCount() > 0 and writerActive() exclude each other at every instant.
ExclusionInv ==
    /\ activeReaders_ = 0 \/ ~activeWriter_
    /\ \A w, v \in At(Writers, WriteHeld) : w = v

\* The inductive invariant of the lock.
IndInv == TypeOK /\ MtxInv /\ CountInv /\ ExclusionInv

\* The lock implements the contract of RWLockBase.
RefinesRWLock == RW!Spec

\* Threads have asked for the lock, nobody is inside or on the way in or out,
\* and all of those who asked are asleep with nobody left to wake them.
Stuck ==
    /\ At(Threads, Asking) # {}
    /\ At(Threads, Asleep \cup {"idle"}) = Threads

\* "Expected: No deadlock" (Readme.md, TC-06).
NoDeadlock == ~Stuck

\* The wake-ups that unlocking sends are enough within one kind of thread:
\* whenever everybody sleeps, readers and writers sleep together.
SleepersAreMixed ==
    Stuck => \A S \in {Readers, Writers} : At(S, Asleep) # {}

\* There is no hang but that one: when somebody has asked for the lock,
\* somebody gets in, or everybody ends up asleep.
SomeoneGetsInOrAllSleep ==
    (\E t \in Threads : Mode(t) = "waiting") ~> ((\E t \in Threads : Mode(t) = "in") \/ Stuck)

\* "no starvation of either side" (config.hpp): when readers have asked for
\* the lock a reader gets in, and when writers have asked a writer does, as
\* long as it does not come to the lasting hang of NoDeadlock.
NoSideStarves ==
    \/ <>[]Stuck
    \/ \A S \in {Readers, Writers} :
          (\E t \in S : Mode(t) = "waiting") ~> (\E t \in S : Mode(t) = "in")
=============================================================================
