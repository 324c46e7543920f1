------------------------ MODULE FairMorrisLock_proofs ------------------------
(***************************************************************************)
(* Mutual exclusion of FairMorrisLock, its order of readers and writers,   *)
(* the limits of its hang, and that it implements the contract, for any    *)
(* finite sets of readers and writers and with spurious wake-ups.          *)
(***************************************************************************)
EXTENDS FairMorrisLock, FiniteSetTheorems, TLAPS

\* The readers and the writers that their counters call waiting.
ReadWaits  == {"RL_asleep", "RL_woken"}
WriteWaits == {"WL_asleep", "WL_woken"}

\* The labels, with the sets that say who owns what.
USE DEF ReaderLabels, WriterLabels, InMtx, ReadHeld, WriteHeld, ReadWaits, WriteWaits

\* What a step does to the positions: thread t goes from one statement to
\* another, and threads that are asleep may be woken.
Moves(t, from, to) ==
  /\ pc[t] = from
  /\ pc' \in [Threads -> ReaderLabels \cup WriterLabels]
  /\ pc'[t] = to
  /\ \A u \in Threads \ {t} : \/ pc'[u] = pc[u]
                              \/ pc[u] = "RL_asleep" /\ pc'[u] = "RL_woken"
                              \/ pc[u] = "WL_asleep" /\ pc'[u] = "WL_woken"

\* A plain statement, a broadcast and a signal all move threads that way, and
\* a signal that finds a sleeping writer wakes one.
LEMMA StepsMove ==
  ASSUME TypeOK, NEW t \in Threads, NEW from, NEW to \in ReaderLabels \cup WriterLabels,
         from \notin {"RL_asleep", "WL_asleep"}
  PROVE  /\ Goto(t, from, to) => Moves(t, from, to)
         /\ BroadcastReaders(t, from, to) =>
               /\ Moves(t, from, to)
               /\ \A u \in Threads \ {t} : pc'[u] # "RL_asleep"
         /\ SignalWriter(t, from, to) =>
               /\ Moves(t, from, to)
               /\ \/ At(Writers, {"WL_asleep"}) = {}
                  \/ \E w \in Writers \ {t} : pc'[w] = "WL_woken"
<1> HIDE DEF ReadHeld, WriteHeld, InMtx
<1>1. Goto(t, from, to) => Moves(t, from, to)
  BY DEF TypeOK, Goto, Moves
<1>2. BroadcastReaders(t, from, to) =>
        /\ Moves(t, from, to)
        /\ \A u \in Threads \ {t} : pc'[u] # "RL_asleep"
  BY DEF TypeOK, BroadcastReaders, Moves
<1>3. ASSUME SignalWriter(t, from, to), At(Writers, {"WL_asleep"}) = {}
      PROVE  Moves(t, from, to)
  BY <1>3 DEF TypeOK, SignalWriter, Moves
<1>4. ASSUME SignalWriter(t, from, to), At(Writers, {"WL_asleep"}) # {}
      PROVE  /\ Moves(t, from, to)
             /\ \E w \in Writers \ {t} : pc'[w] = "WL_woken"
  <2>1. PICK w \in At(Writers, {"WL_asleep"}) :
               pc' = [pc EXCEPT ![t] = to, ![w] = "WL_woken"]
    BY <1>4 DEF SignalWriter
  <2>2. w \in Writers /\ w \in Threads /\ pc[w] = "WL_asleep" /\ w # t /\ pc[t] = from
    BY <1>4, <2>1 DEF SignalWriter, At, Threads
  <2> QED
    BY <2>1, <2>2 DEF TypeOK, Moves
<1> QED
  BY <1>1, <1>2, <1>3, <1>4

\* How such a step changes the number of threads of S at L, when waking up
\* does not lead into L or out of it.
LEMMA MovesCount ==
  ASSUME NEW S, S \subseteq Threads, IsFiniteSet(S), NEW L,
         "RL_asleep" \in L <=> "RL_woken" \in L, "WL_asleep" \in L <=> "WL_woken" \in L,
         NEW t \in Threads, NEW from, NEW to, Moves(t, from, to)
  PROVE  /\ IsFiniteSet(At(S, L))
         /\ t \notin S => At(S, L)' = At(S, L)
         /\ (from \in L <=> to \in L) => At(S, L)' = At(S, L)
         /\ (t \in S /\ from \notin L /\ to \in L)
               => Cardinality(At(S, L))' = Cardinality(At(S, L)) + 1
         /\ (t \in S /\ from \in L /\ to \notin L)
               => Cardinality(At(S, L))' = Cardinality(At(S, L)) - 1
<1> HIDE DEF ReaderLabels, WriterLabels
<1>1. IsFiniteSet(At(S, L))
  <2>1. At(S, L) \subseteq S
    BY DEF At
  <2> QED
    BY <2>1, FS_Subset
<1>2. /\ t \notin S => At(S, L)' = At(S, L)
      /\ (from \in L <=> to \in L) => At(S, L)' = At(S, L)
  BY DEF Moves, At
<1>3. ASSUME t \in S, from \notin L, to \in L
      PROVE  Cardinality(At(S, L))' = Cardinality(At(S, L)) + 1
  <2>1. At(S, L)' = At(S, L) \cup {t} /\ t \notin At(S, L)
    BY <1>3 DEF Moves, At
  <2>2. Cardinality(At(S, L))' = Cardinality(At(S, L)')
    OBVIOUS
  <2> QED
    BY <2>1, <2>2, <1>1, FS_AddElement
<1>4. ASSUME t \in S, from \in L, to \notin L
      PROVE  Cardinality(At(S, L))' = Cardinality(At(S, L)) - 1
  <2>1. At(S, L)' = At(S, L) \ {t} /\ t \in At(S, L)
    BY <1>4 DEF Moves, At
  <2>2. Cardinality(At(S, L))' = Cardinality(At(S, L)')
    OBVIOUS
  <2> QED
    BY <2>1, <2>2, <1>1, FS_RemoveElement
<1> QED
  BY <1>1, <1>2, <1>3, <1>4

\* What the counters tell the thread that holds mtx_.
LEMMA CountFacts ==
  ASSUME IndInv
  PROVE  /\ activeReaders_ = 0 <=> At(Readers, ReadHeld) = {}
         /\ \A r \in At(Readers, ReadHeld) :
               activeReaders_ = 1 <=> \A q \in At(Readers, ReadHeld) : r = q
         /\ waitingReaders_ = 0 <=> At(Readers, ReadWaits) = {}
         /\ waitingWriters_ = 0 <=> At(Writers, WriteWaits) = {}
<1>1. /\ activeReaders_ = Cardinality(At(Readers, ReadHeld))
      /\ waitingReaders_ = Cardinality(At(Readers, ReadWaits))
      /\ waitingWriters_ = Cardinality(At(Writers, WriteWaits))
  BY DEF IndInv, CountInv
<1> HIDE DEF ReadHeld, ReadWaits, WriteWaits
<1>2. ASSUME NEW S, IsFiniteSet(S), NEW L
      PROVE  /\ Cardinality(At(S, L)) = 0 <=> At(S, L) = {}
             /\ \A x \in At(S, L) :
                   Cardinality(At(S, L)) = 1 <=> \A y \in At(S, L) : x = y
  <2>1. At(S, L) \subseteq S
    BY DEF At
  <2>2. IsFiniteSet(At(S, L))
    BY <1>2, <2>1, FS_Subset
  <2> QED
    BY <2>2, FS_EmptySet, FS_Singleton
<1> QED
  BY <1>1, <1>2, ThreadsAssumption

\* A statement of a reader changes the numbers of readers inside and waiting
\* as it enters, leaves, goes to sleep or takes mtx_ again, and moves no
\* writer in or out.
LEMMA ReaderMoves ==
  ASSUME IndInv, NEW r \in Readers, NEW from, NEW to, Moves(r, from, to)
  PROVE  /\ (from \in ReadHeld <=> to \in ReadHeld)
               => Cardinality(At(Readers, ReadHeld))' = activeReaders_
         /\ (from \notin ReadHeld /\ to \in ReadHeld)
               => Cardinality(At(Readers, ReadHeld))' = activeReaders_ + 1
         /\ (from \in ReadHeld /\ to \notin ReadHeld)
               => Cardinality(At(Readers, ReadHeld))' = activeReaders_ - 1
         /\ (from \in ReadWaits <=> to \in ReadWaits)
               => Cardinality(At(Readers, ReadWaits))' = waitingReaders_
         /\ (from \notin ReadWaits /\ to \in ReadWaits)
               => Cardinality(At(Readers, ReadWaits))' = waitingReaders_ + 1
         /\ (from \in ReadWaits /\ to \notin ReadWaits)
               => Cardinality(At(Readers, ReadWaits))' = waitingReaders_ - 1
         /\ Cardinality(At(Writers, WriteWaits))' = waitingWriters_
         /\ At(Writers, WriteHeld)' = At(Writers, WriteHeld)
<1>1. /\ Readers \subseteq Threads /\ Writers \subseteq Threads
      /\ IsFiniteSet(Readers) /\ IsFiniteSet(Writers) /\ r \in Threads /\ r \notin Writers
      /\ Cardinality(At(Readers, ReadHeld)) = activeReaders_
      /\ Cardinality(At(Readers, ReadWaits)) = waitingReaders_
      /\ Cardinality(At(Writers, WriteWaits)) = waitingWriters_
  BY ThreadsAssumption DEF IndInv, CountInv, Threads
<1>2. \A L \in {ReadHeld, ReadWaits, WriteHeld, WriteWaits} :
        ("RL_asleep" \in L <=> "RL_woken" \in L) /\ ("WL_asleep" \in L <=> "WL_woken" \in L)
  OBVIOUS
<1> HIDE DEF ReadHeld, ReadWaits, WriteHeld, WriteWaits
<1>3. At(Writers, WriteHeld)' = At(Writers, WriteHeld) /\ At(Writers, WriteWaits)' = At(Writers, WriteWaits)
  BY <1>1, <1>2, MovesCount
<1>4. /\ (from \in ReadHeld <=> to \in ReadHeld) => At(Readers, ReadHeld)' = At(Readers, ReadHeld)
      /\ (from \in ReadWaits <=> to \in ReadWaits) => At(Readers, ReadWaits)' = At(Readers, ReadWaits)
  BY <1>1, <1>2, MovesCount
<1> QED
  BY <1>1, <1>2, <1>3, <1>4, MovesCount

\* The same of a writer.
LEMMA WriterMoves ==
  ASSUME IndInv, NEW w \in Writers, NEW from, NEW to, Moves(w, from, to)
  PROVE  /\ (from \in WriteWaits <=> to \in WriteWaits)
               => Cardinality(At(Writers, WriteWaits))' = waitingWriters_
         /\ (from \notin WriteWaits /\ to \in WriteWaits)
               => Cardinality(At(Writers, WriteWaits))' = waitingWriters_ + 1
         /\ (from \in WriteWaits /\ to \notin WriteWaits)
               => Cardinality(At(Writers, WriteWaits))' = waitingWriters_ - 1
         /\ Cardinality(At(Readers, ReadHeld))' = activeReaders_
         /\ Cardinality(At(Readers, ReadWaits))' = waitingReaders_
<1>1. /\ Readers \subseteq Threads /\ Writers \subseteq Threads
      /\ IsFiniteSet(Readers) /\ IsFiniteSet(Writers) /\ w \in Threads /\ w \notin Readers
      /\ Cardinality(At(Readers, ReadHeld)) = activeReaders_
      /\ Cardinality(At(Readers, ReadWaits)) = waitingReaders_
      /\ Cardinality(At(Writers, WriteWaits)) = waitingWriters_
  BY ThreadsAssumption DEF IndInv, CountInv, Threads
<1>2. \A L \in {ReadHeld, ReadWaits, WriteHeld, WriteWaits} :
        ("RL_asleep" \in L <=> "RL_woken" \in L) /\ ("WL_asleep" \in L <=> "WL_woken" \in L)
  OBVIOUS
<1> HIDE DEF ReadHeld, ReadWaits, WriteHeld, WriteWaits
<1>3. At(Readers, ReadHeld)' = At(Readers, ReadHeld) /\ At(Readers, ReadWaits)' = At(Readers, ReadWaits)
  BY <1>1, <1>2, MovesCount
<1>4. (from \in WriteWaits <=> to \in WriteWaits) => At(Writers, WriteWaits)' = At(Writers, WriteWaits)
  BY <1>1, <1>2, MovesCount
<1> QED
  BY <1>1, <1>2, <1>3, <1>4, MovesCount

\* The constructor establishes the invariant.
LEMMA InitInv == Init => IndInv
<1> SUFFICES ASSUME Init PROVE IndInv
  OBVIOUS
<1> USE DEF Init, BaseInit
<1>1. TypeOK
  BY DEF TypeOK, ThreadState, Threads
<1>2. /\ At(Readers, ReadHeld) = {} /\ At(Readers, ReadWaits) = {}
      /\ At(Writers, WriteHeld) = {} /\ At(Writers, WriteWaits) = {}
  BY DEF At, Threads
<1>3. CountInv
  BY <1>2, FS_EmptySet DEF CountInv
<1>4. MtxInv /\ ExclusionInv
  BY <1>2, NoThreadAssumption DEF MtxInv, ExclusionInv
<1> QED
  BY <1>1, <1>3, <1>4 DEF IndInv

\* Every statement of the four functions, and every spurious wake-up, keeps
\* the invariant.
LEMMA NextInv == IndInv /\ [Next]_vars => IndInv'
<1> SUFFICES ASSUME IndInv, [Next]_vars PROVE IndInv'
  OBVIOUS
<1> USE ThreadsAssumption, NoThreadAssumption DEF IndInv
<1>0. TypeOK /\ Readers \subseteq Threads /\ Writers \subseteq Threads
  BY DEF Threads
<1>1. ASSUME NEW r \in Readers, readLock_waiting(r) PROVE IndInv'
  <2> USE <1>1 DEF readLock_waiting, transitionWaiting, counters
  <2>1. Moves(r, "idle", "RL_lock")
    BY <1>0, StepsMove
  <2>2. TypeOK'
    BY <2>1 DEF TypeOK, Moves, At, Threads, ThreadState
  <2>3. CountInv'
    BY <2>1, ReaderMoves DEF CountInv
  <2>4. MtxInv'
    BY <1>0, <2>1 DEF TypeOK, MtxInv, Moves
  <2>5. ExclusionInv'
    BY <2>1 DEF ExclusionInv, Moves, At, Threads
  <2> QED
    BY <2>2, <2>3, <2>4, <2>5
<1>2. ASSUME NEW r \in Readers, readLock_lock(r) PROVE IndInv'
  <2> USE <1>2 DEF readLock_lock, MutexLock, counters
  <2>1. Moves(r, "RL_lock", "RL_test")
    BY <1>0, StepsMove
  <2>2. TypeOK'
    BY <2>1 DEF TypeOK, Moves, At, Threads
  <2>3. CountInv'
    BY <2>1, ReaderMoves DEF CountInv
  <2>4. MtxInv'
    BY <1>0, <2>1 DEF TypeOK, MtxInv, Moves
  <2>5. ExclusionInv'
    BY <2>1 DEF ExclusionInv, Moves, At, Threads
  <2> QED
    BY <2>2, <2>3, <2>4, <2>5
<1>3. ASSUME NEW r \in Readers, readLock_cond_wait(r) PROVE IndInv'
  <2> USE <1>3 DEF readLock_cond_wait, MutexUnlock, ReaderMustWait
  <2>1. Moves(r, "RL_test", "RL_asleep")
    BY <1>0, StepsMove
  <2>2. TypeOK'
    BY <2>1 DEF TypeOK, Moves, At, Threads
  <2>3. CountInv'
    BY <2>1, ReaderMoves DEF CountInv
  <2>4. MtxInv'
    BY <1>0, <2>1 DEF TypeOK, MtxInv, Moves
  <2>5. ExclusionInv'
    BY <2>1 DEF ExclusionInv, Moves, At, Threads
  <2> QED
    BY <2>2, <2>3, <2>4, <2>5
<1>4. ASSUME NEW r \in Readers, readLock_woken(r) PROVE IndInv'
  <2> USE <1>4 DEF readLock_woken, MutexLock, counters
  <2>1. Moves(r, "RL_woken", "RL_test")
    BY <1>0, StepsMove
  <2>2. TypeOK'
    BY <2>1, CountFacts DEF TypeOK, Moves, At, Threads
  <2>3. CountInv'
    BY <2>1, ReaderMoves DEF CountInv
  <2>4. MtxInv'
    BY <1>0, <2>1 DEF TypeOK, MtxInv, Moves
  <2>5. ExclusionInv'
    BY <2>1 DEF ExclusionInv, Moves, At, Threads
  <2> QED
    BY <2>2, <2>3, <2>4, <2>5
<1>5. ASSUME NEW r \in Readers, readLock_enter(r) PROVE IndInv'
  <2> USE <1>5 DEF readLock_enter, ReaderMustWait
  <2>1. Moves(r, "RL_test", "RL_unlock")
    BY <1>0, StepsMove
  <2>2. TypeOK'
    BY <2>1 DEF TypeOK, Moves, At, Threads
  <2>3. CountInv'
    BY <2>1, ReaderMoves DEF CountInv
  <2>4. MtxInv'
    BY <1>0, <2>1 DEF TypeOK, MtxInv, Moves
  <2>5. ExclusionInv'
    BY <2>1, CountFacts DEF ExclusionInv, Moves, At, Threads, TypeOK, CountInv
  <2> QED
    BY <2>2, <2>3, <2>4, <2>5
<1>6. ASSUME NEW r \in Readers, readLock_unlock(r) PROVE IndInv'
  <2> USE <1>6 DEF readLock_unlock, MutexUnlock, counters
  <2>1. Moves(r, "RL_unlock", "RL_active")
    BY <1>0, StepsMove
  <2>2. TypeOK'
    BY <2>1 DEF TypeOK, Moves, At, Threads
  <2>3. CountInv'
    BY <2>1, ReaderMoves DEF CountInv
  <2>4. MtxInv'
    BY <1>0, <2>1 DEF TypeOK, MtxInv, Moves
  <2>5. ExclusionInv'
    BY <2>1 DEF ExclusionInv, Moves, At, Threads
  <2> QED
    BY <2>2, <2>3, <2>4, <2>5
<1>7. ASSUME NEW r \in Readers, readLock_active(r) PROVE IndInv'
  <2> USE <1>7 DEF readLock_active, transitionActive, counters
  <2>1. Moves(r, "RL_active", "reading")
    BY <1>0, StepsMove
  <2>2. TypeOK'
    BY <2>1 DEF TypeOK, Moves, At, Threads, ThreadState
  <2>3. CountInv'
    BY <2>1, ReaderMoves DEF CountInv
  <2>4. MtxInv'
    BY <1>0, <2>1 DEF TypeOK, MtxInv, Moves
  <2>5. ExclusionInv'
    BY <2>1 DEF ExclusionInv, Moves, At, Threads
  <2> QED
    BY <2>2, <2>3, <2>4, <2>5
<1>8. ASSUME NEW r \in Readers, readUnlock_lock(r) PROVE IndInv'
  <2> USE <1>8 DEF readUnlock_lock, MutexLock, counters
  <2>1. Moves(r, "reading", "RU_count")
    BY <1>0, StepsMove
  <2>2. TypeOK'
    BY <2>1 DEF TypeOK, Moves, At, Threads
  <2>3. CountInv'
    BY <2>1, ReaderMoves DEF CountInv
  <2>4. MtxInv'
    BY <1>0, <2>1 DEF TypeOK, MtxInv, Moves
  <2>5. ExclusionInv'
    BY <2>1 DEF ExclusionInv, Moves, At, Threads
  <2> QED
    BY <2>2, <2>3, <2>4, <2>5
<1>9. ASSUME NEW r \in Readers, readUnlock_count(r) PROVE IndInv'
  <2> USE <1>9 DEF readUnlock_count
  <2>1. Moves(r, "RU_count", "RU_unlock")
    BY <1>0, StepsMove
  <2>2. TypeOK'
    BY <2>1, CountFacts DEF TypeOK, Moves, At, Threads
  <2>3. CountInv'
    BY <2>1, ReaderMoves DEF CountInv
  <2>4. MtxInv'
    BY <1>0, <2>1 DEF TypeOK, MtxInv, Moves
  <2>5. ExclusionInv'
    BY <2>1, CountFacts DEF ExclusionInv, Moves, At, Threads
  <2> QED
    BY <2>2, <2>3, <2>4, <2>5
<1>10. ASSUME NEW r \in Readers, readUnlock_unlock(r) PROVE IndInv'
  <2> USE <1>10 DEF readUnlock_unlock, MutexUnlock, counters
  <2>1. Moves(r, "RU_unlock", "RU_releasing")
    BY <1>0, StepsMove
  <2>2. TypeOK'
    BY <2>1 DEF TypeOK, Moves, At, Threads
  <2>3. CountInv'
    BY <2>1, ReaderMoves DEF CountInv
  <2>4. MtxInv'
    BY <1>0, <2>1 DEF TypeOK, MtxInv, Moves
  <2>5. ExclusionInv'
    BY <2>1 DEF ExclusionInv, Moves, At, Threads
  <2> QED
    BY <2>2, <2>3, <2>4, <2>5
<1>11. ASSUME NEW r \in Readers, readUnlock_releasing(r) PROVE IndInv'
  <2> USE <1>11 DEF readUnlock_releasing, transitionReleasing, counters
  <2>1. Moves(r, "RU_releasing", "idle")
    BY <1>0, StepsMove
  <2>2. TypeOK'
    BY <2>1 DEF TypeOK, Moves, At, Threads, ThreadState
  <2>3. CountInv'
    BY <2>1, ReaderMoves DEF CountInv
  <2>4. MtxInv'
    BY <1>0, <2>1 DEF TypeOK, MtxInv, Moves
  <2>5. ExclusionInv'
    BY <2>1 DEF ExclusionInv, Moves, At, Threads
  <2> QED
    BY <2>2, <2>3, <2>4, <2>5
<1>12. ASSUME NEW w \in Writers, writeLock_waiting(w) PROVE IndInv'
  <2> USE <1>12 DEF writeLock_waiting, transitionWaiting, counters
  <2>1. Moves(w, "idle", "WL_lock")
    BY <1>0, StepsMove
  <2>2. TypeOK'
    BY <2>1 DEF TypeOK, Moves, At, Threads, ThreadState
  <2>3. CountInv'
    BY <2>1, WriterMoves DEF CountInv, Moves, At, Threads
  <2>4. MtxInv'
    BY <1>0, <2>1 DEF TypeOK, MtxInv, Moves
  <2>5. ExclusionInv'
    BY <2>1 DEF ExclusionInv, Moves, At, Threads
  <2> QED
    BY <2>2, <2>3, <2>4, <2>5
<1>13. ASSUME NEW w \in Writers, writeLock_lock(w) PROVE IndInv'
  <2> USE <1>13 DEF writeLock_lock, MutexLock, counters
  <2>1. Moves(w, "WL_lock", "WL_test")
    BY <1>0, StepsMove
  <2>2. TypeOK'
    BY <2>1 DEF TypeOK, Moves, At, Threads
  <2>3. CountInv'
    BY <2>1, WriterMoves DEF CountInv, Moves, At, Threads
  <2>4. MtxInv'
    BY <1>0, <2>1 DEF TypeOK, MtxInv, Moves
  <2>5. ExclusionInv'
    BY <2>1 DEF ExclusionInv, Moves, At, Threads
  <2> QED
    BY <2>2, <2>3, <2>4, <2>5
<1>14. ASSUME NEW w \in Writers, writeLock_cond_wait(w) PROVE IndInv'
  <2> USE <1>14 DEF writeLock_cond_wait, MutexUnlock, WriterMustWait
  <2>1. Moves(w, "WL_test", "WL_asleep")
    BY <1>0, StepsMove
  <2>2. TypeOK'
    BY <2>1 DEF TypeOK, Moves, At, Threads
  <2>3. CountInv'
    BY <2>1, WriterMoves DEF CountInv, Moves, At, Threads
  <2>4. MtxInv'
    BY <1>0, <2>1 DEF TypeOK, MtxInv, Moves
  <2>5. ExclusionInv'
    BY <2>1 DEF ExclusionInv, Moves, At, Threads
  <2> QED
    BY <2>2, <2>3, <2>4, <2>5
<1>15. ASSUME NEW w \in Writers, writeLock_woken(w) PROVE IndInv'
  <2> USE <1>15 DEF writeLock_woken, MutexLock, counters
  <2>1. Moves(w, "WL_woken", "WL_test")
    BY <1>0, StepsMove
  <2>2. TypeOK'
    BY <2>1, CountFacts DEF TypeOK, Moves, At, Threads
  <2>3. CountInv'
    BY <2>1, WriterMoves DEF CountInv, Moves, At, Threads
  <2>4. MtxInv'
    BY <1>0, <2>1 DEF TypeOK, MtxInv, Moves
  <2>5. ExclusionInv'
    BY <2>1 DEF ExclusionInv, Moves, At, Threads
  <2> QED
    BY <2>2, <2>3, <2>4, <2>5
<1>16. ASSUME NEW w \in Writers, writeLock_enter(w) PROVE IndInv'
  <2> USE <1>16 DEF writeLock_enter, WriterMustWait
  <2>1. Moves(w, "WL_test", "WL_unlock")
    BY <1>0, StepsMove
  <2>2. TypeOK'
    BY <2>1 DEF TypeOK, Moves, At, Threads
  <2>3. CountInv'
    BY <2>1, WriterMoves DEF CountInv, Moves, At, Threads
  <2>4. MtxInv'
    BY <1>0, <2>1 DEF TypeOK, MtxInv, Moves
  <2>5. ExclusionInv'
    BY <2>1, CountFacts DEF ExclusionInv, Moves, At, Threads, TypeOK, CountInv
  <2> QED
    BY <2>2, <2>3, <2>4, <2>5
<1>17. ASSUME NEW w \in Writers, writeLock_unlock(w) PROVE IndInv'
  <2> USE <1>17 DEF writeLock_unlock, MutexUnlock, counters
  <2>1. Moves(w, "WL_unlock", "WL_active")
    BY <1>0, StepsMove
  <2>2. TypeOK'
    BY <2>1 DEF TypeOK, Moves, At, Threads
  <2>3. CountInv'
    BY <2>1, WriterMoves DEF CountInv, Moves, At, Threads
  <2>4. MtxInv'
    BY <1>0, <2>1 DEF TypeOK, MtxInv, Moves
  <2>5. ExclusionInv'
    BY <2>1 DEF ExclusionInv, Moves, At, Threads
  <2> QED
    BY <2>2, <2>3, <2>4, <2>5
<1>18. ASSUME NEW w \in Writers, writeLock_active(w) PROVE IndInv'
  <2> USE <1>18 DEF writeLock_active, transitionActive, counters
  <2>1. Moves(w, "WL_active", "writing")
    BY <1>0, StepsMove
  <2>2. TypeOK'
    BY <2>1 DEF TypeOK, Moves, At, Threads, ThreadState
  <2>3. CountInv'
    BY <2>1, WriterMoves DEF CountInv, Moves, At, Threads
  <2>4. MtxInv'
    BY <1>0, <2>1 DEF TypeOK, MtxInv, Moves
  <2>5. ExclusionInv'
    BY <2>1 DEF ExclusionInv, Moves, At, Threads
  <2> QED
    BY <2>2, <2>3, <2>4, <2>5
<1>19. ASSUME NEW w \in Writers, writeUnlock_lock(w) PROVE IndInv'
  <2> USE <1>19 DEF writeUnlock_lock, MutexLock, counters
  <2>1. Moves(w, "writing", "WU_clear")
    BY <1>0, StepsMove
  <2>2. TypeOK'
    BY <2>1 DEF TypeOK, Moves, At, Threads
  <2>3. CountInv'
    BY <2>1, WriterMoves DEF CountInv, Moves, At, Threads
  <2>4. MtxInv'
    BY <1>0, <2>1 DEF TypeOK, MtxInv, Moves
  <2>5. ExclusionInv'
    BY <2>1 DEF ExclusionInv, Moves, At, Threads
  <2> QED
    BY <2>2, <2>3, <2>4, <2>5
<1>20. ASSUME NEW w \in Writers, writeUnlock_clear(w) PROVE IndInv'
  <2> USE <1>20 DEF writeUnlock_clear
  <2>1. Moves(w, "WU_clear", "WU_unlock")
    BY <1>0, StepsMove
  <2>2. TypeOK'
    BY <2>1 DEF TypeOK, Moves, At, Threads
  <2>3. CountInv'
    <3>1. At(Writers, WriteHeld)' = {}
      BY <2>1 DEF ExclusionInv, Moves, At, Threads
    <3> QED
      BY <2>1, <3>1, WriterMoves DEF CountInv
  <2>4. MtxInv'
    BY <1>0, <2>1 DEF TypeOK, MtxInv, Moves
  <2>5. ExclusionInv'
    BY <2>1 DEF ExclusionInv, Moves, At, Threads
  <2> QED
    BY <2>2, <2>3, <2>4, <2>5
<1>21. ASSUME NEW w \in Writers, writeUnlock_unlock(w) PROVE IndInv'
  <2> USE <1>21 DEF writeUnlock_unlock, MutexUnlock, counters
  <2>1. Moves(w, "WU_unlock", "WU_releasing")
    BY <1>0, StepsMove
  <2>2. TypeOK'
    BY <2>1 DEF TypeOK, Moves, At, Threads
  <2>3. CountInv'
    BY <2>1, WriterMoves DEF CountInv, Moves, At, Threads
  <2>4. MtxInv'
    BY <1>0, <2>1 DEF TypeOK, MtxInv, Moves
  <2>5. ExclusionInv'
    BY <2>1 DEF ExclusionInv, Moves, At, Threads
  <2> QED
    BY <2>2, <2>3, <2>4, <2>5
<1>22. ASSUME NEW w \in Writers, writeUnlock_releasing(w) PROVE IndInv'
  <2> USE <1>22 DEF writeUnlock_releasing, transitionReleasing, counters
  <2>1. Moves(w, "WU_releasing", "idle")
    BY <1>0, StepsMove
  <2>2. TypeOK'
    BY <2>1 DEF TypeOK, Moves, At, Threads, ThreadState
  <2>3. CountInv'
    BY <2>1, WriterMoves DEF CountInv, Moves, At, Threads
  <2>4. MtxInv'
    BY <1>0, <2>1 DEF TypeOK, MtxInv, Moves
  <2>5. ExclusionInv'
    BY <2>1 DEF ExclusionInv, Moves, At, Threads
  <2> QED
    BY <2>2, <2>3, <2>4, <2>5
<1>23. ASSUME NEW t \in Threads, spurious_wakeup(t) PROVE IndInv'
  <2> USE <1>23 DEF spurious_wakeup, counters
  <2>1. \/ t \in Readers /\ Moves(t, "RL_asleep", "RL_woken")
        \/ t \in Writers /\ Moves(t, "WL_asleep", "WL_woken")
    BY <1>0 DEF TypeOK, Goto, Moves, Threads
  <2>2. TypeOK'
    BY <1>0 DEF TypeOK, Goto, Threads
  <2>3. CountInv'
    BY <2>1, ReaderMoves, WriterMoves DEF CountInv, Moves, At, Threads
  <2>4. MtxInv'
    BY <1>0, <2>1 DEF TypeOK, MtxInv, Moves
  <2>5. ExclusionInv'
    BY <2>1 DEF ExclusionInv, Moves, At, Threads
  <2> QED
    BY <2>2, <2>3, <2>4, <2>5
<1>24. CASE UNCHANGED vars
  BY <1>24 DEF vars, counters, TypeOK, MtxInv, CountInv, ExclusionInv, At
<1> QED
  BY <1>1, <1>2, <1>3, <1>4, <1>5, <1>6, <1>7, <1>8, <1>9, <1>10, <1>11, <1>12, <1>13,
     <1>14, <1>15, <1>16, <1>17, <1>18, <1>19, <1>20, <1>21, <1>22, <1>23, <1>24
     DEF Next, CodeNext, readerStep, writerStep

\* mtx_ and the counters keep their meaning in every execution.
THEOREM Invariance == Spec => []IndInv
<1> QED
  BY InitInv, NextInv, PTL DEF Spec

\* A writer between writeLock and writeUnlock is alone, for any number of
\* readers and writers, whatever wakes them up.
THEOREM ExclusiveAccess == Spec => []MutualExclusion
<1>1. IndInv => MutualExclusion
  BY CountFacts, ThreadsAssumption
     DEF IndInv, TypeOK, CountInv, ExclusionInv, MutualExclusion, At, Threads
<1> QED
  BY <1>1, Invariance, PTL

-----------------------------------------------------------------------------
(* What a step of the next-state relation does to the positions. *)

\* The steps that matter for who is inside and who is asleep, one by one, and
\* all the others together.
LEMMA StepCases ==
  ASSUME IndInv, Next
  PROVE  \/ \E r \in Readers : \/ readLock_cond_wait(r) /\ Moves(r, "RL_test", "RL_asleep")
                               \/ readLock_enter(r) /\ Moves(r, "RL_test", "RL_unlock")
                               \/ readUnlock_count(r) /\ Moves(r, "RU_count", "RU_unlock")
                               \/ Moves(r, "idle", "RL_lock")
                               \/ Moves(r, "RL_lock", "RL_test")
                               \/ Moves(r, "RL_asleep", "RL_woken")
                               \/ Moves(r, "RL_woken", "RL_test")
                               \/ Moves(r, "RL_unlock", "RL_active")
                               \/ Moves(r, "RL_active", "reading")
                               \/ Moves(r, "reading", "RU_count")
                               \/ Moves(r, "RU_unlock", "RU_releasing")
                               \/ Moves(r, "RU_releasing", "idle")
         \/ \E w \in Writers : \/ writeLock_cond_wait(w) /\ Moves(w, "WL_test", "WL_asleep")
                               \/ writeLock_enter(w) /\ Moves(w, "WL_test", "WL_unlock")
                               \/ writeUnlock_clear(w) /\ Moves(w, "WU_clear", "WU_unlock")
                               \/ Moves(w, "idle", "WL_lock")
                               \/ Moves(w, "WL_lock", "WL_test")
                               \/ Moves(w, "WL_asleep", "WL_woken")
                               \/ Moves(w, "WL_woken", "WL_test")
                               \/ Moves(w, "WL_unlock", "WL_active")
                               \/ Moves(w, "WL_active", "writing")
                               \/ Moves(w, "writing", "WU_clear")
                               \/ Moves(w, "WU_unlock", "WU_releasing")
                               \/ Moves(w, "WU_releasing", "idle")
<1>0. TypeOK /\ Readers \subseteq Threads /\ Writers \subseteq Threads
  BY DEF IndInv, Threads
<1>1. ASSUME NEW r \in Readers, readLock_waiting(r) \/ readerStep(r)
      PROVE  \/ readLock_cond_wait(r) /\ Moves(r, "RL_test", "RL_asleep")
             \/ readLock_enter(r) /\ Moves(r, "RL_test", "RL_unlock")
             \/ readUnlock_count(r) /\ Moves(r, "RU_count", "RU_unlock")
             \/ Moves(r, "idle", "RL_lock") \/ Moves(r, "RL_lock", "RL_test")
             \/ Moves(r, "RL_woken", "RL_test") \/ Moves(r, "RL_unlock", "RL_active")
             \/ Moves(r, "RL_active", "reading") \/ Moves(r, "reading", "RU_count")
             \/ Moves(r, "RU_unlock", "RU_releasing") \/ Moves(r, "RU_releasing", "idle")
  BY <1>0, <1>1, StepsMove DEF readerStep,
     readLock_waiting, readLock_lock, readLock_cond_wait, readLock_woken,
     readLock_enter, readLock_unlock, readLock_active, readUnlock_lock,
     readUnlock_count, readUnlock_unlock, readUnlock_releasing
<1>2. ASSUME NEW w \in Writers, writeLock_waiting(w) \/ writerStep(w)
      PROVE  \/ writeLock_cond_wait(w) /\ Moves(w, "WL_test", "WL_asleep")
             \/ writeLock_enter(w) /\ Moves(w, "WL_test", "WL_unlock")
             \/ writeUnlock_clear(w) /\ Moves(w, "WU_clear", "WU_unlock")
             \/ Moves(w, "idle", "WL_lock") \/ Moves(w, "WL_lock", "WL_test")
             \/ Moves(w, "WL_woken", "WL_test") \/ Moves(w, "WL_unlock", "WL_active")
             \/ Moves(w, "WL_active", "writing") \/ Moves(w, "writing", "WU_clear")
             \/ Moves(w, "WU_unlock", "WU_releasing") \/ Moves(w, "WU_releasing", "idle")
  BY <1>0, <1>2, StepsMove DEF writerStep,
     writeLock_waiting, writeLock_lock, writeLock_cond_wait, writeLock_woken,
     writeLock_enter, writeLock_unlock, writeLock_active, writeUnlock_lock,
     writeUnlock_clear, writeUnlock_unlock, writeUnlock_releasing
<1>3. ASSUME NEW t \in Threads, spurious_wakeup(t)
      PROVE  \/ t \in Readers /\ Moves(t, "RL_asleep", "RL_woken")
             \/ t \in Writers /\ Moves(t, "WL_asleep", "WL_woken")
  BY <1>0, <1>3 DEF spurious_wakeup, TypeOK, Goto, Moves, Threads
<1> QED
  BY <1>1, <1>2, <1>3 DEF Next, CodeNext

-----------------------------------------------------------------------------
(* The hang. *)

\* Whoever sleeps has somebody to hope for: a sleeping reader a writer that
\* is inside or on its way in, a sleeping writer a reader or a writer that
\* is.  A thread that is itself asleep counts for the other kind only, which
\* is why readers and writers can wait for each other.
SleepInv ==
  /\ (\E r \in Readers : pc[r] = "RL_asleep") =>
        \E w \in Writers : pc[w] \in WriteHeld \cup WriteWaits \cup {"WL_test"}
  /\ (\E w \in Writers : pc[w] = "WL_asleep") =>
        \/ \E r \in Readers : pc[r] \in ReadHeld \cup ReadWaits \cup {"RL_test"}
        \/ \E w \in Writers : pc[w] \in WriteHeld \cup {"WL_woken", "WL_test"}

\* Waking up apart, a step moves one thread; SleepInv can only fail when that
\* thread goes to sleep or leaves.
LEMMA SleepStep == IndInv /\ SleepInv /\ [Next]_vars => SleepInv'
<1> SUFFICES ASSUME IndInv, SleepInv, [Next]_vars PROVE SleepInv'
  OBVIOUS
<1> USE DEF SleepInv, Moves
<1>0. TypeOK /\ Readers \subseteq Threads /\ Writers \subseteq Threads /\ Readers \cap Writers = {}
  BY ThreadsAssumption DEF IndInv, Threads
<1>1. ASSUME NEW r \in Readers, readLock_cond_wait(r), Moves(r, "RL_test", "RL_asleep") PROVE SleepInv'
  <2>1. \E w \in Writers : pc[w] \in WriteHeld \cup WriteWaits
    BY <1>1, CountFacts DEF IndInv, TypeOK, CountInv, readLock_cond_wait, ReaderMustWait, At
  <2> QED
    BY <1>0, <1>1, <2>1
<1>2. ASSUME NEW r \in Readers, readUnlock_count(r), Moves(r, "RU_count", "RU_unlock") PROVE SleepInv'
  <2>1. (\E q \in Readers : pc'[q] = "RL_asleep") =>
           \E w \in Writers : pc'[w] \in WriteHeld \cup WriteWaits \cup {"WL_test"}
    BY <1>0, <1>2
  <2>2. ASSUME NEW v \in Writers, pc'[v] = "WL_asleep"
        PROVE  \/ \E q \in Readers : pc'[q] \in ReadHeld
               \/ \E w \in Writers : pc'[w] = "WL_woken"
    <3>1. pc[v] = "WL_asleep"
      BY <1>0, <1>2, <2>2
    <3>2. waitingWriters_ > 0 /\ At(Writers, {"WL_asleep"}) # {}
      BY <3>1, CountFacts DEF IndInv, TypeOK, At
    <3>3. CASE activeReaders_ - 1 = 0
      <4>1. SignalWriter(r, "RU_count", "RU_unlock")
        BY <1>2, <3>2, <3>3 DEF readUnlock_count
      <4> QED
        BY <1>0, <3>2, <4>1, StepsMove
    <3>4. CASE activeReaders_ - 1 # 0
      <4>1. PICK q \in Readers : q # r /\ pc[q] \in ReadHeld
        BY <1>2, <3>4, CountFacts DEF IndInv, TypeOK, At
      <4> QED
        BY <1>0, <1>2, <4>1
    <3> QED
      BY <3>3, <3>4
  <2> QED
    BY <2>1, <2>2
<1>3. ASSUME NEW w \in Writers, writeLock_cond_wait(w), Moves(w, "WL_test", "WL_asleep") PROVE SleepInv'
  <2>1. \/ \E q \in Readers : pc[q] \in ReadHeld
        \/ \E v \in Writers : pc[v] \in WriteHeld
    BY <1>3, CountFacts DEF IndInv, TypeOK, CountInv, writeLock_cond_wait, WriterMustWait, At
  <2> QED
    BY <1>0, <1>3, <2>1
<1>4. ASSUME NEW w \in Writers, writeUnlock_clear(w), Moves(w, "WU_clear", "WU_unlock") PROVE SleepInv'
  <2>1. CASE waitingReaders_ > 0
    <3>1. BroadcastReaders(w, "WU_clear", "WU_unlock")
      BY <1>4, <2>1 DEF writeUnlock_clear, IndInv, TypeOK
    <3>2. ~\E q \in Readers : pc'[q] = "RL_asleep"
      BY <1>0, <3>1, StepsMove
    <3>3. PICK q \in Readers : pc[q] \in ReadWaits
      BY <2>1, CountFacts DEF IndInv, TypeOK, At
    <3> QED
      BY <1>0, <1>4, <3>2, <3>3
  <2>2. CASE waitingReaders_ = 0
    <3>1. ~\E q \in Readers : pc'[q] = "RL_asleep"
      BY <1>0, <1>4, <2>2, CountFacts DEF At
    <3>2. ASSUME NEW v \in Writers, pc'[v] = "WL_asleep"
          PROVE  \E u \in Writers : pc'[u] = "WL_woken"
      <4>1. pc[v] = "WL_asleep"
        BY <1>0, <1>4, <3>2
      <4>2. waitingWriters_ > 0 /\ At(Writers, {"WL_asleep"}) # {}
        BY <4>1, CountFacts DEF IndInv, TypeOK, At
      <4>3. SignalWriter(w, "WU_clear", "WU_unlock")
        BY <1>4, <2>2, <4>2 DEF writeUnlock_clear
      <4> QED
        BY <1>0, <4>2, <4>3, StepsMove
    <3> QED
      BY <3>1, <3>2
  <2> QED
    BY <2>1, <2>2 DEF IndInv, TypeOK
<1>5. ASSUME NEW r \in Readers,
             \/ Moves(r, "RL_test", "RL_unlock") \/ Moves(r, "idle", "RL_lock")
             \/ Moves(r, "RL_lock", "RL_test") \/ Moves(r, "RL_asleep", "RL_woken")
             \/ Moves(r, "RL_woken", "RL_test") \/ Moves(r, "RL_unlock", "RL_active")
             \/ Moves(r, "RL_active", "reading") \/ Moves(r, "reading", "RU_count")
             \/ Moves(r, "RU_unlock", "RU_releasing") \/ Moves(r, "RU_releasing", "idle")
      PROVE SleepInv'
  BY <1>0, <1>5
<1>6. ASSUME NEW w \in Writers,
             \/ Moves(w, "WL_test", "WL_unlock") \/ Moves(w, "idle", "WL_lock")
             \/ Moves(w, "WL_lock", "WL_test") \/ Moves(w, "WL_asleep", "WL_woken")
             \/ Moves(w, "WL_woken", "WL_test") \/ Moves(w, "WL_unlock", "WL_active")
             \/ Moves(w, "WL_active", "writing") \/ Moves(w, "writing", "WU_clear")
             \/ Moves(w, "WU_unlock", "WU_releasing") \/ Moves(w, "WU_releasing", "idle")
      PROVE SleepInv'
  BY <1>0, <1>6
<1>7. CASE UNCHANGED vars
  BY <1>7 DEF vars
<1> HIDE DEF SleepInv, Moves
<1> QED
  BY <1>1, <1>2, <1>3, <1>4, <1>5, <1>6, <1>7, StepCases

\* A thread never hangs because of threads of its own kind: in every hang
\* readers and writers are asleep at the same time.
THEOREM HangsAreMixed == Spec => []SleepersAreMixed
<1>1. Init => SleepInv
  BY DEF Init, BaseInit, SleepInv, Threads
<1>2. IndInv /\ SleepInv => SleepersAreMixed
  <2> SUFFICES ASSUME IndInv, SleepInv, Stuck
               PROVE  At(Readers, Asleep) # {} /\ At(Writers, Asleep) # {}
    BY DEF SleepersAreMixed
  <2>1. /\ \A r \in Readers : pc[r] \in {"RL_asleep", "idle"}
        /\ \A w \in Writers : pc[w] \in {"WL_asleep", "idle"}
    BY DEF Stuck, Asleep, At, Threads, IndInv, TypeOK
  <2>2. (\E r \in Readers : pc[r] = "RL_asleep") \/ (\E w \in Writers : pc[w] = "WL_asleep")
    BY <2>1 DEF Stuck, Asking, At, Threads
  <2>3. (\E r \in Readers : pc[r] = "RL_asleep") /\ (\E w \in Writers : pc[w] = "WL_asleep")
    BY <2>1, <2>2 DEF SleepInv
  <2> QED
    BY <2>3 DEF At, Asleep
<1> QED
  BY <1>1, <1>2, SleepStep, Invariance, PTL DEF Spec

-----------------------------------------------------------------------------
(* The contract. *)

\* A step that moves thread t changes the mode of no other thread, for waking
\* up leaves a thread waiting, and gives t the mode of the place it goes to.
LEMMA ModeAfterMove ==
  ASSUME TypeOK, NEW t \in Threads, NEW from, NEW to, Moves(t, from, to)
  PROVE  /\ Mode(t)  = IF from \in ReadHeld \cup WriteHeld THEN "in"
                       ELSE IF from \in Asking THEN "waiting" ELSE "out"
         /\ Mode(t)' = IF to \in ReadHeld \cup WriteHeld THEN "in"
                       ELSE IF to \in Asking THEN "waiting" ELSE "out"
         /\ \A u \in Threads \ {t} : Mode(u)' = Mode(u)
BY DEF Moves, Mode, Asking

modes == [t \in Threads |-> Mode(t)]

\* How the mode of one thread may change while the others keep theirs, for
\* the contract to allow it.
LEMMA ContractStep ==
  ASSUME NEW t \in Threads, \A u \in Threads \ {t} : Mode(u)' = Mode(u)
  PROVE  /\ Mode(t)' = Mode(t) => modes' = modes
         /\ Mode(t) = "out" /\ Mode(t)' = "waiting" => RW!Next
         /\ Mode(t) = "in" /\ Mode(t)' = "out" => RW!Next
         /\ /\ t \in Readers /\ Mode(t) = "waiting" /\ Mode(t)' = "in"
            /\ \A w \in Writers : Mode(w) # "in"
            => RW!Next
         /\ /\ t \in Writers /\ Mode(t) = "waiting" /\ Mode(t)' = "in"
            /\ \A u \in Threads : Mode(u) # "in"
            => RW!Next
<1>1. modes' = [modes EXCEPT ![t] = Mode(t)']
  BY DEF modes
<1>2. modes[t] = Mode(t) /\ \A u \in Threads : modes[u] = Mode(u)
  BY DEF modes
<1>3. Mode(t)' = Mode(t) => modes' = modes
  BY DEF modes
<1>4. Mode(t) = "out" /\ Mode(t)' = "waiting" => RW!Request(t)
  BY <1>1, <1>2 DEF RW!Request, modes
<1>5. Mode(t) = "in" /\ Mode(t)' = "out" => RW!Release(t)
  BY <1>1, <1>2 DEF RW!Release, modes
<1>6. /\ Mode(t) = "waiting" /\ Mode(t)' = "in"
      /\ \A w \in Writers : Mode(w) # "in"
      => RW!AcquireRead(t)
  BY <1>1, <1>2 DEF RW!AcquireRead, RW!Inside, modes, Threads
<1>7. /\ Mode(t) = "waiting" /\ Mode(t)' = "in"
      /\ \A u \in Threads : Mode(u) # "in"
      => RW!AcquireWrite(t)
  BY <1>1, <1>2 DEF RW!AcquireWrite, RW!Inside, modes, Threads
<1> QED
  BY <1>3, <1>4, <1>5, <1>6, <1>7 DEF RW!Next, Threads

\* Every execution of the lock is one the contract RWLock allows.
THEOREM Implementation == Spec => RefinesRWLock
<1> USE DEF Asking
<1>1. Init => RW!Init
  BY DEF Init, BaseInit, RW!Init, Mode, Threads
<1>2. IndInv /\ [Next]_vars => [RW!Next]_modes
  <2> SUFFICES ASSUME IndInv, [Next]_vars PROVE RW!Next \/ modes' = modes
    OBVIOUS
  <2>0. TypeOK /\ Readers \subseteq Threads /\ Writers \subseteq Threads
    BY DEF IndInv, Threads
  <2>1. ASSUME NEW r \in Readers, readLock_enter(r), Moves(r, "RL_test", "RL_unlock")
        PROVE  RW!Next
    <3>1. \A w \in Writers : Mode(w) # "in"
      BY <2>1 DEF IndInv, TypeOK, CountInv, At, Mode, readLock_enter, ReaderMustWait
    <3> QED
      BY <3>1, <2>0, <2>1, ModeAfterMove, ContractStep
  <2>2. ASSUME NEW w \in Writers, writeLock_enter(w), Moves(w, "WL_test", "WL_unlock")
        PROVE  RW!Next
    <3>1. \A u \in Threads : Mode(u) # "in"
      BY <2>2, CountFacts DEF IndInv, TypeOK, CountInv, At, Mode, Threads, writeLock_enter, WriterMustWait
    <3> QED
      BY <3>1, <2>0, <2>2, ModeAfterMove, ContractStep
  <2>3. ASSUME NEW t \in Threads, NEW from, NEW to, Moves(t, from, to),
               <<from, to>> \in {<<"RU_count", "RU_unlock">>, <<"WU_clear", "WU_unlock">>,
                                 <<"idle", "RL_lock">>, <<"idle", "WL_lock">>}
        PROVE  RW!Next
    BY <2>0, <2>3, ModeAfterMove, ContractStep
  <2>4. ASSUME NEW t \in Threads, NEW from, NEW to, Moves(t, from, to),
               \/ from \in Asking /\ to \in Asking
               \/ from \in ReadHeld \cup WriteHeld /\ to \in ReadHeld \cup WriteHeld
               \/ /\ from \notin Asking \cup ReadHeld \cup WriteHeld
                  /\ to \notin Asking \cup ReadHeld \cup WriteHeld
        PROVE  modes' = modes
    BY <2>0, <2>4, ModeAfterMove, ContractStep
  <2>5. CASE UNCHANGED vars
    BY <2>5 DEF vars, modes, Mode
  <2> QED
    BY <2>0, <2>1, <2>2, <2>3, <2>4, <2>5, StepCases
<1> QED
  BY <1>1, <1>2, Invariance, PTL DEF Spec, RefinesRWLock, RW!Spec, modes
=============================================================================
