---------------------- MODULE WriterPriorityLock_proofs ----------------------
(***************************************************************************)
(* Mutual exclusion of WriterPriorityLock, what its gate guarantees, and   *)
(* that it implements the contract, for any finite sets of readers and     *)
(* writers.                                                                *)
(***************************************************************************)
EXTENDS WriterPriorityLock, FiniteSetTheorems, TLAPS

\* A set of threads at given positions is finite, and its cardinality tells
\* the empty set and the singleton from the others: what an if (rc == 0) or
\* an if (rc == 1) of the code concludes from a count.
LEMMA AtCount ==
  ASSUME NEW S, IsFiniteSet(S), NEW L
  PROVE  /\ IsFiniteSet(At(S, L))
         /\ Cardinality(At(S, L)) \in Nat
         /\ Cardinality(At(S, L)) = 0 <=> At(S, L) = {}
         /\ \A x \in At(S, L) :
               Cardinality(At(S, L)) = 1 <=> \A y \in At(S, L) : x = y
<1>1. At(S, L) \in SUBSET S
  BY DEF At
<1>2. IsFiniteSet(At(S, L))
  BY <1>1, FS_Subset
<1>3. Cardinality(At(S, L)) \in Nat
  BY <1>2, FS_CardinalityType
<1>4. Cardinality(At(S, L)) = 0 <=> At(S, L) = {}
  BY <1>2, FS_EmptySet
<1>5. ASSUME NEW x \in At(S, L)
      PROVE  Cardinality(At(S, L)) = 1 <=> \A y \in At(S, L) : x = y
  BY <1>2, FS_Singleton
<1> QED
  BY <1>2, <1>3, <1>4, <1>5

\* One statement of thread t, from one label to the next, adds t to the set
\* of threads at L, removes it, or leaves the set alone, and the count
\* follows: what ++readCount_ and --readCount_ have to keep up with.
LEMMA MoveCount ==
  ASSUME NEW S, S \subseteq Threads, IsFiniteSet(S), NEW L,
         NEW t \in S, NEW from, NEW to,
         NEW P, pc \in [Threads -> P], Goto(t, from, to)
  PROVE  /\ At(S, L)' = IF to \in L THEN At(S, L) \cup {t} ELSE At(S, L) \ {t}
         /\ (from \in L <=> to \in L)    => Cardinality(At(S, L))' = Cardinality(At(S, L))
         /\ (from \notin L /\ to \in L)  => Cardinality(At(S, L))' = Cardinality(At(S, L)) + 1
         /\ (from \in L /\ to \notin L)  => Cardinality(At(S, L))' = Cardinality(At(S, L)) - 1
<1>1. /\ pc[t] = from
      /\ pc'[t] = to
      /\ \A u \in S \ {t} : pc'[u] = pc[u]
  BY DEF Goto
<1>2. At(S, L)' = IF to \in L THEN At(S, L) \cup {t} ELSE At(S, L) \ {t}
  BY <1>1 DEF At
<1>3. t \in At(S, L) <=> from \in L
  BY <1>1 DEF At
<1>4. IsFiniteSet(At(S, L))
  BY AtCount
<1>5. Cardinality(At(S, L))' = Cardinality(At(S, L)')
  OBVIOUS
<1>6. CASE to \in L
  <2>1. Cardinality(At(S, L))' = Cardinality(At(S, L) \cup {t})
    BY <1>2, <1>5, <1>6
  <2> QED
    BY <2>1, <1>2, <1>3, <1>4, <1>6, FS_AddElement
<1>7. CASE to \notin L
  <2>1. Cardinality(At(S, L))' = Cardinality(At(S, L) \ {t})
    BY <1>2, <1>5, <1>7
  <2> QED
    BY <2>1, <1>2, <1>3, <1>4, <1>7, FS_RemoveElement
<1> QED
  BY <1>6, <1>7

\* A step of a thread outside S moves nobody of S.
LEMMA MoveOther ==
  ASSUME NEW S, S \subseteq Threads, NEW L,
         NEW t \in Threads \ S, NEW from, NEW to,
         NEW P, pc \in [Threads -> P], Goto(t, from, to)
  PROVE  At(S, L)' = At(S, L)
BY DEF At, Goto

\* The labels, with the sets that say who owns what.
USE DEF ReaderLabels, WriterLabels, InReadTry, InRsem, InMutex1, InMutex2,
        ReadHeld, WriteHeld, ReadCounted, GateHeld, WriteCounted, Semaphores

\* What a count tells the thread that has just tested it.
LEMMA CountFacts ==
  ASSUME IndInv
  PROVE  /\ readCount_ = 0 <=> At(Readers, ReadCounted) = {}
         /\ \A r \in At(Readers, ReadCounted) :
               readCount_ = 1 <=> \A q \in At(Readers, ReadCounted) : r = q
         /\ writeCount_ = 0 <=> At(Writers, WriteCounted) = {}
         /\ \A w \in At(Writers, WriteCounted) :
               writeCount_ = 1 <=> \A v \in At(Writers, WriteCounted) : w = v
<1> HIDE DEF ReadCounted, WriteCounted
<1> QED
  BY AtCount, ThreadsAssumption DEF IndInv, CountInv

\* A statement of a reader changes the number of counted readers exactly when
\* it is one of the two that update readCount_, and moves no writer.
LEMMA ReaderMoves ==
  ASSUME IndInv, NEW r \in Readers, NEW from, NEW to, Goto(r, from, to)
  PROVE  /\ (from \in ReadCounted <=> to \in ReadCounted)
               => Cardinality(At(Readers, ReadCounted))' = readCount_
         /\ (from \notin ReadCounted /\ to \in ReadCounted)
               => Cardinality(At(Readers, ReadCounted))' = readCount_ + 1
         /\ (from \in ReadCounted /\ to \notin ReadCounted)
               => Cardinality(At(Readers, ReadCounted))' = readCount_ - 1
         /\ Cardinality(At(Writers, WriteCounted))' = writeCount_
<1>1. /\ Readers \subseteq Threads /\ Writers \subseteq Threads
      /\ IsFiniteSet(Readers) /\ r \in Threads \ Writers
      /\ pc \in [Threads -> ReaderLabels \cup WriterLabels]
      /\ Cardinality(At(Readers, ReadCounted)) = readCount_
      /\ Cardinality(At(Writers, WriteCounted)) = writeCount_
  BY ThreadsAssumption DEF IndInv, CountInv, TypeOK, Threads
<1> HIDE DEF ReaderLabels, WriterLabels, ReadCounted, WriteCounted
<1>2. At(Writers, WriteCounted)' = At(Writers, WriteCounted)
  BY <1>1, MoveOther
<1> QED
  BY <1>1, <1>2, MoveCount

\* The same of a writer and writeCount_.
LEMMA WriterMoves ==
  ASSUME IndInv, NEW w \in Writers, NEW from, NEW to, Goto(w, from, to)
  PROVE  /\ (from \in WriteCounted <=> to \in WriteCounted)
               => Cardinality(At(Writers, WriteCounted))' = writeCount_
         /\ (from \notin WriteCounted /\ to \in WriteCounted)
               => Cardinality(At(Writers, WriteCounted))' = writeCount_ + 1
         /\ (from \in WriteCounted /\ to \notin WriteCounted)
               => Cardinality(At(Writers, WriteCounted))' = writeCount_ - 1
         /\ Cardinality(At(Readers, ReadCounted))' = readCount_
<1>1. /\ Readers \subseteq Threads /\ Writers \subseteq Threads
      /\ IsFiniteSet(Writers) /\ w \in Threads \ Readers
      /\ pc \in [Threads -> ReaderLabels \cup WriterLabels]
      /\ Cardinality(At(Readers, ReadCounted)) = readCount_
      /\ Cardinality(At(Writers, WriteCounted)) = writeCount_
  BY ThreadsAssumption DEF IndInv, CountInv, TypeOK, Threads
<1> HIDE DEF ReaderLabels, WriterLabels, ReadCounted, WriteCounted
<1>2. At(Readers, ReadCounted)' = At(Readers, ReadCounted)
  BY <1>1, MoveOther
<1> QED
  BY <1>1, <1>2, MoveCount

\* The constructor establishes the invariant.
LEMMA InitInv == Init => IndInv
<1> SUFFICES ASSUME Init PROVE IndInv
  OBVIOUS
<1> USE DEF Init, BaseInit
<1>1. TypeOK
  BY DEF TypeOK, ThreadState, Threads
<1>2. /\ At(Readers, ReadCounted) = {} /\ At(Writers, WriteCounted) = {}
      /\ At(Readers, InReadTry) = {} /\ At(Readers, InRsem) = {}
      /\ At(Readers, InMutex1) = {} /\ At(Writers, InMutex2) = {}
      /\ At(Readers, ReadHeld) = {} /\ At(Writers, WriteHeld) = {}
      /\ At(Writers, GateHeld) = {}
  BY DEF At, Threads
<1>3. CountInv
  BY <1>2, FS_EmptySet DEF CountInv, Threads
<1>4. LockInv /\ EdgeInv /\ GateInv /\ WrtInv
  BY <1>2 DEF LockInv, GuardedBy, EdgeInv, GateInv, WrtInv, Threads
<1> QED
  BY <1>1, <1>3, <1>4 DEF IndInv

\* Every statement of the four functions keeps the invariant.
LEMMA NextInv == IndInv /\ [Next]_vars => IndInv'
<1> SUFFICES ASSUME IndInv, [Next]_vars PROVE IndInv'
  OBVIOUS
<1> USE ThreadsAssumption DEF IndInv
<1>1. ASSUME NEW r \in Readers, readLock_waiting(r) PROVE IndInv'
  <2> USE <1>1 DEF readLock_waiting, transitionWaiting, shared, counts
  <2>1. TypeOK'
    BY DEF TypeOK, ThreadState, Goto, At, Threads
  <2>2. CountInv'
    BY ReaderMoves DEF CountInv
  <2>3. LockInv' /\ EdgeInv'
    BY DEF TypeOK, LockInv, GuardedBy, EdgeInv, Goto, At, Threads
  <2>4. GateInv'
    BY DEF TypeOK, GateInv, Goto, At, Threads
  <2>5. WrtInv'
    BY DEF TypeOK, WrtInv, Goto, At, Threads
  <2> QED
    BY <2>1, <2>2, <2>3, <2>4, <2>5
<1>2. ASSUME NEW r \in Readers, readLock_wait_readTry(r) PROVE IndInv'
  <2> USE <1>2 DEF readLock_wait_readTry, Waits, wait, counts
  <2>1. TypeOK'
    BY DEF TypeOK, Goto, At, Threads
  <2>2. CountInv'
    BY ReaderMoves DEF CountInv
  <2>3. LockInv' /\ EdgeInv'
    BY DEF TypeOK, LockInv, GuardedBy, EdgeInv, Goto, At, Threads
  <2>4. GateInv'
    BY DEF TypeOK, GateInv, Goto, At, Threads
  <2>5. WrtInv'
    BY DEF TypeOK, WrtInv, Goto, At, Threads
  <2> QED
    BY <2>1, <2>2, <2>3, <2>4, <2>5
<1>3. ASSUME NEW r \in Readers, readLock_wait_rsem(r) PROVE IndInv'
  <2> USE <1>3 DEF readLock_wait_rsem, Waits, wait, counts
  <2>1. TypeOK'
    BY DEF TypeOK, Goto, At, Threads
  <2>2. CountInv'
    BY ReaderMoves DEF CountInv
  <2>3. LockInv' /\ EdgeInv'
    BY DEF TypeOK, LockInv, GuardedBy, EdgeInv, Goto, At, Threads
  <2>4. GateInv'
    BY DEF TypeOK, LockInv, GuardedBy, EdgeInv, GateInv, Goto, At, Threads
  <2>5. WrtInv'
    BY DEF TypeOK, WrtInv, Goto, At, Threads
  <2> QED
    BY <2>1, <2>2, <2>3, <2>4, <2>5
<1>4. ASSUME NEW r \in Readers, readLock_wait_mutex1(r) PROVE IndInv'
  <2> USE <1>4 DEF readLock_wait_mutex1, Waits, wait, counts
  <2>1. TypeOK'
    BY DEF TypeOK, Goto, At, Threads
  <2>2. CountInv'
    BY ReaderMoves DEF CountInv
  <2>3. LockInv' /\ EdgeInv'
    BY DEF TypeOK, LockInv, GuardedBy, EdgeInv, Goto, At, Threads
  <2>4. GateInv'
    BY DEF TypeOK, GateInv, Goto, At, Threads
  <2>5. WrtInv'
    BY DEF TypeOK, WrtInv, Goto, At, Threads
  <2> QED
    BY <2>1, <2>2, <2>3, <2>4, <2>5
<1>5. ASSUME NEW r \in Readers, readLock_count(r) PROVE IndInv'
  <2> USE <1>5 DEF readLock_count
  <2>1. TypeOK'
    BY DEF TypeOK, Goto, At, Threads
  <2>2. CountInv'
    BY ReaderMoves DEF CountInv
  <2>3. LockInv' /\ EdgeInv'
    BY DEF TypeOK, LockInv, GuardedBy, EdgeInv, Goto, At, Threads
  <2>4. GateInv'
    BY DEF TypeOK, GateInv, Goto, At, Threads
  <2>5. WrtInv'
    BY CountFacts DEF TypeOK, LockInv, GuardedBy, EdgeInv, WrtInv, Goto, At, Threads
  <2> QED
    BY <2>1, <2>2, <2>3, <2>4, <2>5
<1>6. ASSUME NEW r \in Readers, readLock_wait_wrt(r) PROVE IndInv'
  <2> USE <1>6 DEF readLock_wait_wrt, Waits, wait, counts
  <2>1. TypeOK'
    BY DEF TypeOK, Goto, At, Threads
  <2>2. CountInv'
    BY ReaderMoves DEF CountInv
  <2>3. LockInv' /\ EdgeInv'
    BY DEF TypeOK, LockInv, GuardedBy, EdgeInv, Goto, At, Threads
  <2>4. GateInv'
    BY DEF TypeOK, GateInv, Goto, At, Threads
  <2>5. WrtInv'
    BY DEF TypeOK, LockInv, GuardedBy, EdgeInv, WrtInv, Goto, At, Threads
  <2> QED
    BY <2>1, <2>2, <2>3, <2>4, <2>5
<1>7. ASSUME NEW r \in Readers, readLock_post_mutex1(r) PROVE IndInv'
  <2> USE <1>7 DEF readLock_post_mutex1, Posts, post, counts
  <2>1. TypeOK'
    BY DEF TypeOK, LockInv, GuardedBy, GateInv, WrtInv, Goto, At, Threads
  <2>2. CountInv'
    BY ReaderMoves DEF CountInv
  <2>3. LockInv' /\ EdgeInv'
    BY DEF TypeOK, LockInv, GuardedBy, EdgeInv, Goto, At, Threads
  <2>4. GateInv'
    BY DEF TypeOK, GateInv, Goto, At, Threads
  <2>5. WrtInv'
    BY DEF TypeOK, WrtInv, Goto, At, Threads
  <2> QED
    BY <2>1, <2>2, <2>3, <2>4, <2>5
<1>8. ASSUME NEW r \in Readers, readLock_post_rsem(r) PROVE IndInv'
  <2> USE <1>8 DEF readLock_post_rsem, Posts, post, counts
  <2>1. TypeOK'
    BY DEF TypeOK, LockInv, GuardedBy, GateInv, WrtInv, Goto, At, Threads
  <2>2. CountInv'
    BY ReaderMoves DEF CountInv
  <2>3. LockInv' /\ EdgeInv'
    BY DEF TypeOK, LockInv, GuardedBy, EdgeInv, Goto, At, Threads
  <2>4. GateInv'
    BY DEF TypeOK, LockInv, GuardedBy, EdgeInv, GateInv, Goto, At, Threads
  <2>5. WrtInv'
    BY DEF TypeOK, WrtInv, Goto, At, Threads
  <2> QED
    BY <2>1, <2>2, <2>3, <2>4, <2>5
<1>9. ASSUME NEW r \in Readers, readLock_post_readTry(r) PROVE IndInv'
  <2> USE <1>9 DEF readLock_post_readTry, Posts, post, counts
  <2>1. TypeOK'
    BY DEF TypeOK, LockInv, GuardedBy, GateInv, WrtInv, Goto, At, Threads
  <2>2. CountInv'
    BY ReaderMoves DEF CountInv
  <2>3. LockInv' /\ EdgeInv'
    BY DEF TypeOK, LockInv, GuardedBy, EdgeInv, Goto, At, Threads
  <2>4. GateInv'
    BY DEF TypeOK, GateInv, Goto, At, Threads
  <2>5. WrtInv'
    BY DEF TypeOK, WrtInv, Goto, At, Threads
  <2> QED
    BY <2>1, <2>2, <2>3, <2>4, <2>5
<1>10. ASSUME NEW r \in Readers, readLock_active(r) PROVE IndInv'
  <2> USE <1>10 DEF readLock_active, transitionActive, shared, counts
  <2>1. TypeOK'
    BY DEF TypeOK, ThreadState, Goto, At, Threads
  <2>2. CountInv'
    BY ReaderMoves DEF CountInv
  <2>3. LockInv' /\ EdgeInv'
    BY DEF TypeOK, LockInv, GuardedBy, EdgeInv, Goto, At, Threads
  <2>4. GateInv'
    BY DEF TypeOK, GateInv, Goto, At, Threads
  <2>5. WrtInv'
    BY DEF TypeOK, WrtInv, Goto, At, Threads
  <2> QED
    BY <2>1, <2>2, <2>3, <2>4, <2>5
<1>11. ASSUME NEW r \in Readers, readUnlock_wait_mutex1(r) PROVE IndInv'
  <2> USE <1>11 DEF readUnlock_wait_mutex1, Waits, wait, counts
  <2>1. TypeOK'
    BY DEF TypeOK, Goto, At, Threads
  <2>2. CountInv'
    BY ReaderMoves DEF CountInv
  <2>3. LockInv' /\ EdgeInv'
    BY DEF TypeOK, LockInv, GuardedBy, EdgeInv, Goto, At, Threads
  <2>4. GateInv'
    BY DEF TypeOK, GateInv, Goto, At, Threads
  <2>5. WrtInv'
    BY DEF TypeOK, WrtInv, Goto, At, Threads
  <2> QED
    BY <2>1, <2>2, <2>3, <2>4, <2>5
<1>12. ASSUME NEW r \in Readers, readUnlock_count(r) PROVE IndInv'
  <2> USE <1>12 DEF readUnlock_count
  <2>1. TypeOK'
    BY CountFacts DEF TypeOK, Goto, At, Threads
  <2>2. CountInv'
    BY ReaderMoves DEF CountInv
  <2>3. LockInv' /\ EdgeInv'
    BY DEF TypeOK, LockInv, GuardedBy, EdgeInv, Goto, At, Threads
  <2>4. GateInv'
    BY DEF TypeOK, GateInv, Goto, At, Threads
  <2>5. WrtInv'
    BY CountFacts DEF TypeOK, LockInv, GuardedBy, EdgeInv, WrtInv, Goto, At, Threads
  <2> QED
    BY <2>1, <2>2, <2>3, <2>4, <2>5
<1>13. ASSUME NEW r \in Readers, readUnlock_post_wrt(r) PROVE IndInv'
  <2> USE <1>13 DEF readUnlock_post_wrt, Posts, post, counts
  <2>1. TypeOK'
    BY DEF TypeOK, LockInv, GuardedBy, GateInv, WrtInv, Goto, At, Threads
  <2>2. CountInv'
    BY ReaderMoves DEF CountInv
  <2>3. LockInv' /\ EdgeInv'
    BY DEF TypeOK, LockInv, GuardedBy, EdgeInv, Goto, At, Threads
  <2>4. GateInv'
    BY DEF TypeOK, GateInv, Goto, At, Threads
  <2>5. WrtInv'
    BY CountFacts DEF TypeOK, LockInv, GuardedBy, EdgeInv, WrtInv, Goto, At, Threads
  <2> QED
    BY <2>1, <2>2, <2>3, <2>4, <2>5
<1>14. ASSUME NEW r \in Readers, readUnlock_post_mutex1(r) PROVE IndInv'
  <2> USE <1>14 DEF readUnlock_post_mutex1, Posts, post, counts
  <2>1. TypeOK'
    BY DEF TypeOK, LockInv, GuardedBy, GateInv, WrtInv, Goto, At, Threads
  <2>2. CountInv'
    BY ReaderMoves DEF CountInv
  <2>3. LockInv' /\ EdgeInv'
    BY DEF TypeOK, LockInv, GuardedBy, EdgeInv, Goto, At, Threads
  <2>4. GateInv'
    BY DEF TypeOK, GateInv, Goto, At, Threads
  <2>5. WrtInv'
    BY DEF TypeOK, WrtInv, Goto, At, Threads
  <2> QED
    BY <2>1, <2>2, <2>3, <2>4, <2>5
<1>15. ASSUME NEW r \in Readers, readUnlock_releasing(r) PROVE IndInv'
  <2> USE <1>15 DEF readUnlock_releasing, transitionReleasing, shared, counts
  <2>1. TypeOK'
    BY DEF TypeOK, ThreadState, Goto, At, Threads
  <2>2. CountInv'
    BY ReaderMoves DEF CountInv
  <2>3. LockInv' /\ EdgeInv'
    BY DEF TypeOK, LockInv, GuardedBy, EdgeInv, Goto, At, Threads
  <2>4. GateInv'
    BY DEF TypeOK, GateInv, Goto, At, Threads
  <2>5. WrtInv'
    BY DEF TypeOK, WrtInv, Goto, At, Threads
  <2> QED
    BY <2>1, <2>2, <2>3, <2>4, <2>5
<1>16. ASSUME NEW w \in Writers, writeLock_waiting(w) PROVE IndInv'
  <2> USE <1>16 DEF writeLock_waiting, transitionWaiting, shared, counts
  <2>1. TypeOK'
    BY DEF TypeOK, ThreadState, Goto, At, Threads
  <2>2. CountInv'
    BY WriterMoves DEF CountInv
  <2>3. LockInv' /\ EdgeInv'
    BY DEF TypeOK, LockInv, GuardedBy, EdgeInv, Goto, At, Threads
  <2>4. GateInv'
    BY DEF TypeOK, GateInv, Goto, At, Threads
  <2>5. WrtInv'
    BY DEF TypeOK, WrtInv, Goto, At, Threads
  <2> QED
    BY <2>1, <2>2, <2>3, <2>4, <2>5
<1>17. ASSUME NEW w \in Writers, writeLock_wait_mutex2(w) PROVE IndInv'
  <2> USE <1>17 DEF writeLock_wait_mutex2, Waits, wait, counts
  <2>1. TypeOK'
    BY DEF TypeOK, Goto, At, Threads
  <2>2. CountInv'
    BY WriterMoves DEF CountInv
  <2>3. LockInv' /\ EdgeInv'
    BY DEF TypeOK, LockInv, GuardedBy, EdgeInv, Goto, At, Threads
  <2>4. GateInv'
    BY DEF TypeOK, GateInv, Goto, At, Threads
  <2>5. WrtInv'
    BY DEF TypeOK, WrtInv, Goto, At, Threads
  <2> QED
    BY <2>1, <2>2, <2>3, <2>4, <2>5
<1>18. ASSUME NEW w \in Writers, writeLock_count(w) PROVE IndInv'
  <2> USE <1>18 DEF writeLock_count
  <2>1. TypeOK'
    BY DEF TypeOK, Goto, At, Threads
  <2>2. CountInv'
    BY WriterMoves DEF CountInv
  <2>3. LockInv' /\ EdgeInv'
    BY DEF TypeOK, LockInv, GuardedBy, EdgeInv, Goto, At, Threads
  <2>4. GateInv'
    BY CountFacts DEF TypeOK, LockInv, GuardedBy, EdgeInv, GateInv, Goto, At, Threads
  <2>5. WrtInv'
    BY DEF TypeOK, WrtInv, Goto, At, Threads
  <2> QED
    BY <2>1, <2>2, <2>3, <2>4, <2>5
<1>19. ASSUME NEW w \in Writers, writeLock_wait_rsem(w) PROVE IndInv'
  <2> USE <1>19 DEF writeLock_wait_rsem, Waits, wait, counts
  <2>1. TypeOK'
    BY DEF TypeOK, Goto, At, Threads
  <2>2. CountInv'
    BY WriterMoves DEF CountInv
  <2>3. LockInv' /\ EdgeInv'
    BY DEF TypeOK, LockInv, GuardedBy, EdgeInv, Goto, At, Threads
  <2>4. GateInv'
    BY DEF TypeOK, LockInv, GuardedBy, EdgeInv, GateInv, Goto, At, Threads
  <2>5. WrtInv'
    BY DEF TypeOK, WrtInv, Goto, At, Threads
  <2> QED
    BY <2>1, <2>2, <2>3, <2>4, <2>5
<1>20. ASSUME NEW w \in Writers, writeLock_post_mutex2(w) PROVE IndInv'
  <2> USE <1>20 DEF writeLock_post_mutex2, Posts, post, counts
  <2>1. TypeOK'
    BY DEF TypeOK, LockInv, GuardedBy, GateInv, WrtInv, Goto, At, Threads
  <2>2. CountInv'
    BY WriterMoves DEF CountInv
  <2>3. LockInv' /\ EdgeInv'
    BY DEF TypeOK, LockInv, GuardedBy, EdgeInv, Goto, At, Threads
  <2>4. GateInv'
    BY DEF TypeOK, GateInv, Goto, At, Threads
  <2>5. WrtInv'
    BY DEF TypeOK, WrtInv, Goto, At, Threads
  <2> QED
    BY <2>1, <2>2, <2>3, <2>4, <2>5
<1>21. ASSUME NEW w \in Writers, writeLock_wait_wrt(w) PROVE IndInv'
  <2> USE <1>21 DEF writeLock_wait_wrt, Waits, wait, counts
  <2>1. TypeOK'
    BY DEF TypeOK, Goto, At, Threads
  <2>2. CountInv'
    BY WriterMoves DEF CountInv
  <2>3. LockInv' /\ EdgeInv'
    BY DEF TypeOK, LockInv, GuardedBy, EdgeInv, Goto, At, Threads
  <2>4. GateInv'
    BY DEF TypeOK, GateInv, Goto, At, Threads
  <2>5. WrtInv'
    BY DEF TypeOK, LockInv, GuardedBy, EdgeInv, WrtInv, Goto, At, Threads
  <2> QED
    BY <2>1, <2>2, <2>3, <2>4, <2>5
<1>22. ASSUME NEW w \in Writers, writeLock_flag(w) PROVE IndInv'
  <2> USE <1>22 DEF writeLock_flag, counts
  <2>1. TypeOK'
    BY DEF TypeOK, Goto, At, Threads
  <2>2. CountInv'
    BY WriterMoves DEF CountInv
  <2>3. LockInv' /\ EdgeInv'
    BY DEF TypeOK, LockInv, GuardedBy, EdgeInv, Goto, At, Threads
  <2>4. GateInv'
    BY DEF TypeOK, GateInv, Goto, At, Threads
  <2>5. WrtInv'
    BY DEF TypeOK, WrtInv, Goto, At, Threads
  <2> QED
    BY <2>1, <2>2, <2>3, <2>4, <2>5
<1>23. ASSUME NEW w \in Writers, writeLock_active(w) PROVE IndInv'
  <2> USE <1>23 DEF writeLock_active, transitionActive, shared, counts
  <2>1. TypeOK'
    BY DEF TypeOK, ThreadState, Goto, At, Threads
  <2>2. CountInv'
    BY WriterMoves DEF CountInv
  <2>3. LockInv' /\ EdgeInv'
    BY DEF TypeOK, LockInv, GuardedBy, EdgeInv, Goto, At, Threads
  <2>4. GateInv'
    BY DEF TypeOK, GateInv, Goto, At, Threads
  <2>5. WrtInv'
    BY DEF TypeOK, WrtInv, Goto, At, Threads
  <2> QED
    BY <2>1, <2>2, <2>3, <2>4, <2>5
<1>24. ASSUME NEW w \in Writers, writeUnlock_flag(w) PROVE IndInv'
  <2> USE <1>24 DEF writeUnlock_flag, counts
  <2>1. TypeOK'
    BY DEF TypeOK, Goto, At, Threads
  <2>2. CountInv'
    BY WriterMoves DEF CountInv
  <2>3. LockInv' /\ EdgeInv'
    BY DEF TypeOK, LockInv, GuardedBy, EdgeInv, Goto, At, Threads
  <2>4. GateInv'
    BY DEF TypeOK, GateInv, Goto, At, Threads
  <2>5. WrtInv'
    BY DEF TypeOK, WrtInv, Goto, At, Threads
  <2> QED
    BY <2>1, <2>2, <2>3, <2>4, <2>5
<1>25. ASSUME NEW w \in Writers, writeUnlock_post_wrt(w) PROVE IndInv'
  <2> USE <1>25 DEF writeUnlock_post_wrt, Posts, post, counts
  <2>1. TypeOK'
    BY DEF TypeOK, LockInv, GuardedBy, GateInv, WrtInv, Goto, At, Threads
  <2>2. CountInv'
    BY WriterMoves DEF CountInv
  <2>3. LockInv' /\ EdgeInv'
    BY DEF TypeOK, LockInv, GuardedBy, EdgeInv, Goto, At, Threads
  <2>4. GateInv'
    BY DEF TypeOK, GateInv, Goto, At, Threads
  <2>5. WrtInv'
    BY DEF TypeOK, LockInv, GuardedBy, EdgeInv, WrtInv, Goto, At, Threads
  <2> QED
    BY <2>1, <2>2, <2>3, <2>4, <2>5
<1>26. ASSUME NEW w \in Writers, writeUnlock_wait_mutex2(w) PROVE IndInv'
  <2> USE <1>26 DEF writeUnlock_wait_mutex2, Waits, wait, counts
  <2>1. TypeOK'
    BY DEF TypeOK, Goto, At, Threads
  <2>2. CountInv'
    BY WriterMoves DEF CountInv
  <2>3. LockInv' /\ EdgeInv'
    BY DEF TypeOK, LockInv, GuardedBy, EdgeInv, Goto, At, Threads
  <2>4. GateInv'
    BY DEF TypeOK, GateInv, Goto, At, Threads
  <2>5. WrtInv'
    BY DEF TypeOK, WrtInv, Goto, At, Threads
  <2> QED
    BY <2>1, <2>2, <2>3, <2>4, <2>5
<1>27. ASSUME NEW w \in Writers, writeUnlock_count(w) PROVE IndInv'
  <2> USE <1>27 DEF writeUnlock_count
  <2>1. TypeOK'
    BY CountFacts DEF TypeOK, Goto, At, Threads
  <2>2. CountInv'
    BY WriterMoves DEF CountInv
  <2>3. LockInv' /\ EdgeInv'
    BY DEF TypeOK, LockInv, GuardedBy, EdgeInv, Goto, At, Threads
  <2>4. GateInv'
    BY CountFacts DEF TypeOK, LockInv, GuardedBy, EdgeInv, GateInv, Goto, At, Threads
  <2>5. WrtInv'
    BY DEF TypeOK, WrtInv, Goto, At, Threads
  <2> QED
    BY <2>1, <2>2, <2>3, <2>4, <2>5
<1>28. ASSUME NEW w \in Writers, writeUnlock_post_rsem(w) PROVE IndInv'
  <2> USE <1>28 DEF writeUnlock_post_rsem, Posts, post, counts
  <2>1. TypeOK'
    BY DEF TypeOK, LockInv, GuardedBy, GateInv, WrtInv, Goto, At, Threads
  <2>2. CountInv'
    BY WriterMoves DEF CountInv
  <2>3. LockInv' /\ EdgeInv'
    BY DEF TypeOK, LockInv, GuardedBy, EdgeInv, Goto, At, Threads
  <2>4. GateInv'
    BY CountFacts DEF TypeOK, LockInv, GuardedBy, EdgeInv, GateInv, Goto, At, Threads
  <2>5. WrtInv'
    BY DEF TypeOK, WrtInv, Goto, At, Threads
  <2> QED
    BY <2>1, <2>2, <2>3, <2>4, <2>5
<1>29. ASSUME NEW w \in Writers, writeUnlock_post_mutex2(w) PROVE IndInv'
  <2> USE <1>29 DEF writeUnlock_post_mutex2, Posts, post, counts
  <2>1. TypeOK'
    BY DEF TypeOK, LockInv, GuardedBy, GateInv, WrtInv, Goto, At, Threads
  <2>2. CountInv'
    BY WriterMoves DEF CountInv
  <2>3. LockInv' /\ EdgeInv'
    BY DEF TypeOK, LockInv, GuardedBy, EdgeInv, Goto, At, Threads
  <2>4. GateInv'
    BY DEF TypeOK, GateInv, Goto, At, Threads
  <2>5. WrtInv'
    BY DEF TypeOK, WrtInv, Goto, At, Threads
  <2> QED
    BY <2>1, <2>2, <2>3, <2>4, <2>5
<1>30. ASSUME NEW w \in Writers, writeUnlock_releasing(w) PROVE IndInv'
  <2> USE <1>30 DEF writeUnlock_releasing, transitionReleasing, shared, counts
  <2>1. TypeOK'
    BY DEF TypeOK, ThreadState, Goto, At, Threads
  <2>2. CountInv'
    BY WriterMoves DEF CountInv
  <2>3. LockInv' /\ EdgeInv'
    BY DEF TypeOK, LockInv, GuardedBy, EdgeInv, Goto, At, Threads
  <2>4. GateInv'
    BY DEF TypeOK, GateInv, Goto, At, Threads
  <2>5. WrtInv'
    BY DEF TypeOK, WrtInv, Goto, At, Threads
  <2> QED
    BY <2>1, <2>2, <2>3, <2>4, <2>5
<1>31. CASE UNCHANGED vars
  BY <1>31 DEF vars, TypeOK, LockInv, GuardedBy, CountInv, EdgeInv, GateInv, WrtInv, At
<1> QED
  BY <1>1, <1>2, <1>3, <1>4, <1>5, <1>6, <1>7, <1>8, <1>9, <1>10, <1>11, <1>12, <1>13, <1>14, <1>15, <1>16, <1>17, <1>18, <1>19, <1>20, <1>21, <1>22, <1>23, <1>24, <1>25, <1>26, <1>27, <1>28, <1>29, <1>30, <1>31
     DEF Next, readerStep, writerStep

\* The five semaphores and the two counts keep their meaning in every
\* execution; the semaphores stay binary, so no post() can throw.
THEOREM Invariance == Spec => []IndInv
<1> QED
  BY InitInv, NextInv, PTL DEF Spec

\* A writer between writeLock and writeUnlock is alone, for any number of
\* readers and writers.
THEOREM ExclusiveAccess == Spec => []MutualExclusion
<1>1. IndInv => MutualExclusion
  BY ThreadsAssumption DEF IndInv, TypeOK, WrtInv, MutualExclusion, At, Threads
<1> QED
  BY <1>1, Invariance, PTL

\* A reader that has got through the gate finds wrt_ free: it never sleeps
\* with rsem_, mutex1_ and readTry_ in its hands.
THEOREM GateProtectsReaders == Spec => []FirstReaderNeverBlocks
<1>1. IndInv => FirstReaderNeverBlocks
  <2> SUFFICES ASSUME IndInv, NEW r \in Readers, pc[r] = "RL_wait_wrt"
               PROVE  sem["wrt_"] = 1
    BY DEF FirstReaderNeverBlocks
  <2>1. At(Writers, WriteHeld) = {}
    BY DEF IndInv, GateInv, At
  <2>2. \A q \in At(Readers, ReadHeld) : q \in At(Readers, ReadCounted)
    BY DEF IndInv, LockInv, GuardedBy, At
  <2>3. At(Readers, ReadHeld) = {}
    BY <2>2, CountFacts DEF IndInv, EdgeInv, At
  <2> QED
    BY <2>1, <2>3 DEF IndInv, TypeOK, WrtInv
<1> QED
  BY <1>1, Invariance, PTL

\* While some writer keeps the gate closed, no step lets a further reader in.
THEOREM GateStaysClosed == Spec => GateClosedToReaders
<1>1. IndInv /\ [Next]_vars =>
        [At(Writers, GateHeld) # {} => At(Readers, ReadHeld)' \subseteq At(Readers, ReadHeld)]_vars
  <2> SUFFICES ASSUME IndInv, Next, At(Writers, GateHeld) # {},
                      NEW q \in Readers, pc'[q] \in ReadHeld
               PROVE  pc[q] \in ReadHeld
    BY DEF At
  <2>1. \A r \in Readers : pc[r] \notin InRsem
    BY DEF IndInv, GateInv, At
  <2>2. ASSUME NEW r \in Readers, readLock_waiting(r) \/ readerStep(r) PROVE pc[q] \in ReadHeld
    BY <2>1, <2>2 DEF Goto, IndInv, TypeOK, Threads, Waits, Posts, readerStep,
       readLock_waiting, readLock_wait_readTry, readLock_wait_rsem,
       readLock_wait_mutex1, readLock_count, readLock_wait_wrt, readLock_post_mutex1,
       readLock_post_rsem, readLock_post_readTry, readLock_active,
       readUnlock_wait_mutex1, readUnlock_count, readUnlock_post_wrt,
       readUnlock_post_mutex1, readUnlock_releasing
  <2>3. ASSUME NEW w \in Writers, writeLock_waiting(w) \/ writerStep(w) PROVE pc[q] \in ReadHeld
    BY <2>3 DEF Goto, IndInv, TypeOK, Threads, Waits, Posts, writerStep,
       writeLock_waiting, writeLock_wait_mutex2, writeLock_count, writeLock_wait_rsem,
       writeLock_post_mutex2, writeLock_wait_wrt, writeLock_flag, writeLock_active,
       writeUnlock_flag, writeUnlock_post_wrt, writeUnlock_wait_mutex2,
       writeUnlock_count, writeUnlock_post_rsem, writeUnlock_post_mutex2,
       writeUnlock_releasing
  <2> QED
    BY <2>2, <2>3 DEF Next
<1> QED
  BY <1>1, Invariance, PTL DEF Spec, GateClosedToReaders

-----------------------------------------------------------------------------
(* The contract. *)

\* A statement of thread t changes the mode of no other thread, and gives t
\* the mode of the place it goes to.
LEMMA ModeAfterMove ==
  ASSUME TypeOK, NEW t \in Threads, NEW from, NEW to, Goto(t, from, to)
  PROVE  /\ Mode(t)  = IF from \in ReadHeld \cup WriteHeld THEN "in"
                       ELSE IF from \in Asking THEN "waiting" ELSE "out"
         /\ Mode(t)' = IF to \in ReadHeld \cup WriteHeld THEN "in"
                       ELSE IF to \in Asking THEN "waiting" ELSE "out"
         /\ \A u \in Threads \ {t} : Mode(u)' = Mode(u)
<1> HIDE DEF ReaderLabels, WriterLabels, ReadHeld, WriteHeld, Asking
<1> QED
  BY DEF TypeOK, Goto, Mode

modes == [t \in Threads |-> Mode(t)]

\* How the mode of one thread may change while the others keep theirs, for
\* the contract to allow it.
LEMMA ContractStep ==
  ASSUME NEW t \in Threads, \A u \in Threads \ {t} : Mode(u)' = Mode(u)
  PROVE  /\ Mode(t)' = Mode(t) => modes' = modes
         /\ Mode(t) = "out" /\ Mode(t)' = "waiting" => RW!Next
         /\ Mode(t) = "in" /\ Mode(t)' = "out" => RW!Next
         /\ /\ t \in Readers /\ Mode(t) = "waiting" /\ Mode(t)' = "in"
            /\ \A w \in Writers : Mode(w) # "in"
            => RW!Next
         /\ /\ t \in Writers /\ Mode(t) = "waiting" /\ Mode(t)' = "in"
            /\ \A u \in Threads : Mode(u) # "in"
            => RW!Next
<1>1. modes' = [modes EXCEPT ![t] = Mode(t)']
  BY DEF modes
<1>2. modes[t] = Mode(t) /\ \A u \in Threads : modes[u] = Mode(u)
  BY DEF modes
<1>3. Mode(t)' = Mode(t) => modes' = modes
  BY DEF modes
<1>4. Mode(t) = "out" /\ Mode(t)' = "waiting" => RW!Request(t)
  BY <1>1, <1>2 DEF RW!Request, modes
<1>5. Mode(t) = "in" /\ Mode(t)' = "out" => RW!Release(t)
  BY <1>1, <1>2 DEF RW!Release, modes
<1>6. /\ Mode(t) = "waiting" /\ Mode(t)' = "in"
      /\ \A w \in Writers : Mode(w) # "in"
      => RW!AcquireRead(t)
  BY <1>1, <1>2 DEF RW!AcquireRead, RW!Inside, modes, Threads
<1>7. /\ Mode(t) = "waiting" /\ Mode(t)' = "in"
      /\ \A u \in Threads : Mode(u) # "in"
      => RW!AcquireWrite(t)
  BY <1>1, <1>2 DEF RW!AcquireWrite, RW!Inside, modes, Threads
<1> QED
  BY <1>3, <1>4, <1>5, <1>6, <1>7 DEF RW!Next, Threads

\* Every execution of the lock is one the contract RWLock allows, although a
\* reader here gets in by passing a gate that the contract does not know.
THEOREM Implementation == Spec => RefinesRWLock
<1> USE DEF Asking
<1>1. Init => RW!Init
  BY DEF Init, BaseInit, RW!Init, Mode, Threads
<1>2. IndInv /\ [Next]_vars => [RW!Next]_modes
  <2> SUFFICES ASSUME IndInv, [Next]_vars PROVE RW!Next \/ modes' = modes
    OBVIOUS
  <2>0. TypeOK /\ Readers \subseteq Threads /\ Writers \subseteq Threads
    BY DEF IndInv, Threads
  <2>1. ASSUME NEW r \in Readers, readLock_count(r) \/ readLock_wait_wrt(r)
        PROVE  RW!Next \/ modes' = modes
    <3>1. \A w \in Writers : Mode(w) # "in"
      BY <2>1 DEF IndInv, TypeOK, GateInv, At, Mode, readLock_count, readLock_wait_wrt, Waits, Goto
    <3> QED
      BY <3>1, <2>0, <2>1, ModeAfterMove, ContractStep DEF readLock_count, readLock_wait_wrt, Waits
  <2>2. ASSUME NEW r \in Readers,
               readLock_waiting(r) \/ (readerStep(r) /\ ~readLock_count(r) /\ ~readLock_wait_wrt(r))
        PROVE  RW!Next \/ modes' = modes
    BY <2>0, <2>2, ModeAfterMove, ContractStep DEF Waits, Posts, readerStep,
       readLock_waiting, readLock_wait_readTry, readLock_wait_rsem,
       readLock_wait_mutex1, readLock_post_mutex1, readLock_post_rsem,
       readLock_post_readTry, readLock_active, readUnlock_wait_mutex1, readUnlock_count,
       readUnlock_post_wrt, readUnlock_post_mutex1, readUnlock_releasing
  <2>3. ASSUME NEW w \in Writers, writeLock_wait_wrt(w)
        PROVE  RW!Next \/ modes' = modes
    <3>1. \A u \in Threads : Mode(u) # "in"
      BY <2>3 DEF IndInv, TypeOK, WrtInv, At, Mode, Threads, writeLock_wait_wrt, Waits, wait
    <3> QED
      BY <3>1, <2>0, <2>3, ModeAfterMove, ContractStep DEF writeLock_wait_wrt, Waits
  <2>4. ASSUME NEW w \in Writers,
               writeLock_waiting(w) \/ (writerStep(w) /\ ~writeLock_wait_wrt(w))
        PROVE  RW!Next \/ modes' = modes
    BY <2>0, <2>4, ModeAfterMove, ContractStep DEF Waits, Posts, writerStep,
       writeLock_waiting, writeLock_wait_mutex2, writeLock_count, writeLock_wait_rsem,
       writeLock_post_mutex2, writeLock_flag, writeLock_active, writeUnlock_flag,
       writeUnlock_post_wrt, writeUnlock_wait_mutex2, writeUnlock_count,
       writeUnlock_post_rsem, writeUnlock_post_mutex2, writeUnlock_releasing
  <2>5. CASE UNCHANGED vars
    BY <2>5 DEF vars, modes, Mode
  <2> QED
    BY <2>1, <2>2, <2>3, <2>4, <2>5 DEF Next, readerStep, writerStep
<1> QED
  BY <1>1, <1>2, Invariance, PTL DEF Spec, RefinesRWLock, RW!Spec, modes
==============================================================================
