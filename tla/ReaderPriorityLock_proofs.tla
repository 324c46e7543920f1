---------------------- MODULE ReaderPriorityLock_proofs ----------------------
(***************************************************************************)
(* Mutual exclusion of ReaderPriorityLock for any finite sets of readers   *)
(* and writers.                                                            *)
(***************************************************************************)
EXTENDS ReaderPriorityLock, FiniteSetTheorems, TLAPS

\* The labels, with the sets that say who owns what.
USE DEF Labels, InMutex, Counted, ReadHeld, WriteHeld, ReaderLabels, Semaphores

\* What the count tells the reader that has just tested it.
LEMMA CountFacts ==
  ASSUME IndInv
  PROVE  /\ readCount_ = 0 <=> At(Readers, Counted) = {}
         /\ \A r \in At(Readers, Counted) :
               readCount_ = 1 <=> \A q \in At(Readers, Counted) : r = q
<1> DEFINE C == At(Readers, Counted)
<1>1. C \subseteq Readers /\ readCount_ = Cardinality(C)
  BY DEF IndInv, CountInv, At
<1> HIDE DEF C
<1>2. IsFiniteSet(C)
  BY <1>1, ThreadsAssumption, FS_Subset
<1>3. readCount_ = 0 <=> C = {}
  BY <1>1, <1>2, FS_EmptySet
<1>4. ASSUME NEW r \in C PROVE Cardinality(C) = 1 <=> \A q \in C : r = q
  BY <1>2, FS_Singleton
<1> QED
  BY <1>1, <1>3, <1>4 DEF C

\* The constructor establishes the invariant: nobody is inside any function,
\* both semaphores are 1 and the count is 0.
LEMMA InitInv == Init => IndInv
<1> SUFFICES ASSUME Init PROVE IndInv
  OBVIOUS
<1> USE DEF Init, BaseInit
<1>1. TypeOK
  BY DEF TypeOK, ThreadState
<1>2. At(Readers, Counted) = {} /\ At(Readers, InMutex) = {} /\ At(Readers, ReadHeld) = {}
      /\ At(Writers, WriteHeld) = {} /\ At(Writers, {"WL_active", "writing"}) = {}
  BY DEF At, Threads
<1>3. CountInv
  BY <1>2, FS_EmptySet DEF CountInv
<1>4. PlaceInv /\ MutexInv /\ EdgeInv /\ WrtInv
  BY <1>2 DEF PlaceInv, MutexInv, EdgeInv, WrtInv, Threads
<1> QED
  BY <1>1, <1>3, <1>4 DEF IndInv

\* A statement of a reader changes the number of counted readers exactly when
\* it is one of the two that update readCount_.
LEMMA CountAfterMove ==
  ASSUME IndInv, NEW r \in Readers, NEW from, NEW to, Goto(r, from, to)
  PROVE  /\ (from \in Counted <=> to \in Counted)
               => Cardinality(At(Readers, Counted))' = readCount_
         /\ (from \notin Counted /\ to \in Counted)
               => Cardinality(At(Readers, Counted))' = readCount_ + 1
         /\ (from \in Counted /\ to \notin Counted)
               => Cardinality(At(Readers, Counted))' = readCount_ - 1
<1>1. /\ Readers \subseteq Threads
      /\ IsFiniteSet(Readers)
      /\ pc \in [Threads -> Labels]
      /\ Cardinality(At(Readers, Counted)) = readCount_
  BY ThreadsAssumption DEF IndInv, CountInv, TypeOK, Threads
<1> HIDE DEF Labels, Counted
<1> DEFINE C == At(Readers, Counted)
<1>2. /\ C \subseteq Readers /\ (r \in C <=> from \in Counted)
      /\ C' = IF to \in Counted THEN C \cup {r} ELSE C \ {r}
  BY <1>1 DEF At, Goto
<1>3. Cardinality(C)' = Cardinality(C') /\ Cardinality(C) = readCount_
  BY <1>1
<1> HIDE DEF C
<1>4. IsFiniteSet(C)
  BY <1>1, <1>2, FS_Subset
<1>5. CASE to \in Counted
  BY <1>2, <1>3, <1>4, <1>5, FS_AddElement DEF C
<1>6. CASE to \notin Counted
  BY <1>2, <1>3, <1>4, <1>6, FS_RemoveElement DEF C
<1> QED
  BY <1>5, <1>6

\* A statement of a writer moves no reader.
LEMMA ReadersStay ==
  ASSUME IndInv, NEW w \in Writers, NEW from, NEW to, Goto(w, from, to)
  PROVE  Cardinality(At(Readers, Counted))' = Cardinality(At(Readers, Counted))
<1>1. At(Readers, Counted)' = At(Readers, Counted)
  BY ThreadsAssumption DEF IndInv, TypeOK, Threads, Goto, At
<1> QED
  BY <1>1

\* Every statement of the four functions keeps the invariant.
LEMMA NextInv == IndInv /\ [Next]_vars => IndInv'
<1> SUFFICES ASSUME IndInv, [Next]_vars PROVE IndInv'
  OBVIOUS
<1> USE ThreadsAssumption DEF IndInv
<1>1. ASSUME NEW r \in Readers, readLock_waiting(r) PROVE IndInv'
  <2> USE <1>1 DEF readLock_waiting, transitionWaiting
  <2>1. CountInv'
    BY CountAfterMove DEF CountInv
  <2>2. TypeOK' /\ PlaceInv'
    BY DEF TypeOK, ThreadState, PlaceInv, Goto, At, Threads
  <2>3. MutexInv' /\ EdgeInv'
    BY DEF MutexInv, EdgeInv, Goto, At
  <2>4. WrtInv'
    BY DEF WrtInv, Goto, At
  <2> QED
    BY <2>1, <2>2, <2>3, <2>4
<1>2. ASSUME NEW r \in Readers, readLock_wait_mutex(r) PROVE IndInv'
  <2> USE <1>2 DEF readLock_wait_mutex, wait
  <2>1. CountInv'
    BY CountAfterMove DEF CountInv
  <2>2. TypeOK' /\ PlaceInv'
    BY DEF TypeOK, PlaceInv, Goto, At, Threads
  <2>3. MutexInv' /\ EdgeInv'
    BY DEF TypeOK, MutexInv, EdgeInv, Goto, At, Threads
  <2>4. WrtInv'
    BY DEF WrtInv, Goto, At
  <2> QED
    BY <2>1, <2>2, <2>3, <2>4
<1>3. ASSUME NEW r \in Readers, readLock_count(r) PROVE IndInv'
  <2> USE <1>3 DEF readLock_count
  <2>1. CountInv'
    BY CountAfterMove DEF CountInv
  <2>2. TypeOK' /\ PlaceInv'
    BY DEF TypeOK, PlaceInv, Goto, At, Threads
  <2>3. MutexInv' /\ EdgeInv'
    BY DEF MutexInv, EdgeInv, Goto, At
  <2>4. WrtInv'
    BY CountFacts DEF MutexInv, WrtInv, Goto, At
  <2> QED
    BY <2>1, <2>2, <2>3, <2>4
<1>4. ASSUME NEW r \in Readers, readLock_wait_wrt(r) PROVE IndInv'
  <2> USE <1>4 DEF readLock_wait_wrt, wait
  <2>1. CountInv'
    BY CountAfterMove DEF CountInv
  <2>2. TypeOK' /\ PlaceInv'
    BY DEF TypeOK, PlaceInv, Goto, At, Threads
  <2>3. MutexInv' /\ EdgeInv'
    BY DEF MutexInv, EdgeInv, Goto, At
  <2>4. WrtInv'
    BY DEF TypeOK, WrtInv, Goto, At, Threads
  <2> QED
    BY <2>1, <2>2, <2>3, <2>4
<1>5. ASSUME NEW r \in Readers, readLock_post_mutex(r) PROVE IndInv'
  <2> USE <1>5 DEF readLock_post_mutex, post
  <2>1. CountInv'
    BY CountAfterMove DEF CountInv
  <2>2. TypeOK' /\ PlaceInv'
    BY DEF TypeOK, PlaceInv, MutexInv, Goto, At, Threads
  <2>3. MutexInv' /\ EdgeInv'
    BY DEF TypeOK, MutexInv, EdgeInv, Goto, At, Threads
  <2>4. WrtInv'
    BY DEF WrtInv, Goto, At
  <2> QED
    BY <2>1, <2>2, <2>3, <2>4
<1>6. ASSUME NEW r \in Readers, readLock_active(r) PROVE IndInv'
  <2> USE <1>6 DEF readLock_active, transitionActive
  <2>1. CountInv'
    BY CountAfterMove DEF CountInv
  <2>2. TypeOK' /\ PlaceInv'
    BY DEF TypeOK, ThreadState, PlaceInv, Goto, At, Threads
  <2>3. MutexInv' /\ EdgeInv'
    BY DEF MutexInv, EdgeInv, Goto, At
  <2>4. WrtInv'
    BY DEF WrtInv, Goto, At
  <2> QED
    BY <2>1, <2>2, <2>3, <2>4
<1>7. ASSUME NEW r \in Readers, readUnlock_wait_mutex(r) PROVE IndInv'
  <2> USE <1>7 DEF readUnlock_wait_mutex, wait
  <2>1. CountInv'
    BY CountAfterMove DEF CountInv
  <2>2. TypeOK' /\ PlaceInv'
    BY DEF TypeOK, PlaceInv, Goto, At, Threads
  <2>3. MutexInv' /\ EdgeInv'
    BY DEF TypeOK, MutexInv, EdgeInv, Goto, At, Threads
  <2>4. WrtInv'
    BY DEF WrtInv, Goto, At
  <2> QED
    BY <2>1, <2>2, <2>3, <2>4
<1>8. ASSUME NEW r \in Readers, readUnlock_count(r) PROVE IndInv'
  <2> USE <1>8 DEF readUnlock_count
  <2>1. CountInv'
    BY CountAfterMove DEF CountInv
  <2>2. TypeOK' /\ PlaceInv'
    BY CountFacts DEF TypeOK, PlaceInv, Goto, At, Threads
  <2>3. MutexInv' /\ EdgeInv'
    BY DEF MutexInv, EdgeInv, Goto, At
  <2>4. WrtInv'
    BY CountFacts DEF MutexInv, WrtInv, Goto, At
  <2> QED
    BY <2>1, <2>2, <2>3, <2>4
<1>9. ASSUME NEW r \in Readers, readUnlock_post_wrt(r) PROVE IndInv'
  <2> USE <1>9 DEF readUnlock_post_wrt, post
  <2>1. CountInv'
    BY CountAfterMove DEF CountInv
  <2>2. TypeOK' /\ PlaceInv'
    BY DEF TypeOK, PlaceInv, WrtInv, Goto, At, Threads
  <2>3. MutexInv' /\ EdgeInv'
    BY DEF MutexInv, EdgeInv, Goto, At
  <2>4. WrtInv'
    BY CountFacts DEF TypeOK, MutexInv, EdgeInv, WrtInv, Goto, At, Threads
  <2> QED
    BY <2>1, <2>2, <2>3, <2>4
<1>10. ASSUME NEW r \in Readers, readUnlock_post_mutex(r) PROVE IndInv'
  <2> USE <1>10 DEF readUnlock_post_mutex, post
  <2>1. CountInv'
    BY CountAfterMove DEF CountInv
  <2>2. TypeOK' /\ PlaceInv'
    BY DEF TypeOK, PlaceInv, MutexInv, Goto, At, Threads
  <2>3. MutexInv' /\ EdgeInv'
    BY DEF TypeOK, MutexInv, EdgeInv, Goto, At, Threads
  <2>4. WrtInv'
    BY DEF WrtInv, Goto, At
  <2> QED
    BY <2>1, <2>2, <2>3, <2>4
<1>11. ASSUME NEW r \in Readers, readUnlock_releasing(r) PROVE IndInv'
  <2> USE <1>11 DEF readUnlock_releasing, transitionReleasing
  <2>1. CountInv'
    BY CountAfterMove DEF CountInv
  <2>2. TypeOK' /\ PlaceInv'
    BY DEF TypeOK, ThreadState, PlaceInv, Goto, At, Threads
  <2>3. MutexInv' /\ EdgeInv'
    BY DEF MutexInv, EdgeInv, Goto, At
  <2>4. WrtInv'
    BY DEF WrtInv, Goto, At
  <2> QED
    BY <2>1, <2>2, <2>3, <2>4
<1>12. ASSUME NEW w \in Writers, writeLock_waiting(w) PROVE IndInv'
  <2> USE <1>12 DEF writeLock_waiting, transitionWaiting
  <2>1. CountInv'
    BY ReadersStay DEF CountInv
  <2>2. TypeOK' /\ PlaceInv'
    BY DEF TypeOK, ThreadState, PlaceInv, Goto, At, Threads
  <2>3. MutexInv' /\ EdgeInv'
    BY DEF MutexInv, EdgeInv, Goto, At
  <2>4. WrtInv'
    BY DEF WrtInv, Goto, At
  <2> QED
    BY <2>1, <2>2, <2>3, <2>4
<1>13. ASSUME NEW w \in Writers, writeLock_wait_wrt(w) PROVE IndInv'
  <2> USE <1>13 DEF writeLock_wait_wrt, wait
  <2>1. CountInv'
    BY ReadersStay DEF CountInv
  <2>2. TypeOK' /\ PlaceInv'
    BY DEF TypeOK, PlaceInv, Goto, At, Threads
  <2>3. MutexInv' /\ EdgeInv'
    BY DEF MutexInv, EdgeInv, Goto, At
  <2>4. WrtInv'
    BY DEF TypeOK, WrtInv, Goto, At, Threads
  <2> QED
    BY <2>1, <2>2, <2>3, <2>4
<1>14. ASSUME NEW w \in Writers, writeLock_flag(w) PROVE IndInv'
  <2> USE <1>14 DEF writeLock_flag
  <2>1. CountInv'
    BY ReadersStay DEF CountInv
  <2>2. TypeOK' /\ PlaceInv'
    BY DEF TypeOK, PlaceInv, Goto, At, Threads
  <2>3. MutexInv' /\ EdgeInv'
    BY DEF MutexInv, EdgeInv, Goto, At
  <2>4. WrtInv'
    BY DEF WrtInv, Goto, At
  <2> QED
    BY <2>1, <2>2, <2>3, <2>4
<1>15. ASSUME NEW w \in Writers, writeLock_active(w) PROVE IndInv'
  <2> USE <1>15 DEF writeLock_active, transitionActive
  <2>1. CountInv'
    BY ReadersStay DEF CountInv
  <2>2. TypeOK' /\ PlaceInv'
    BY DEF TypeOK, ThreadState, PlaceInv, Goto, At, Threads
  <2>3. MutexInv' /\ EdgeInv'
    BY DEF MutexInv, EdgeInv, Goto, At
  <2>4. WrtInv'
    BY DEF WrtInv, Goto, At
  <2> QED
    BY <2>1, <2>2, <2>3, <2>4
<1>16. ASSUME NEW w \in Writers, writeUnlock_flag(w) PROVE IndInv'
  <2> USE <1>16 DEF writeUnlock_flag
  <2>1. CountInv'
    BY ReadersStay DEF CountInv
  <2>2. TypeOK' /\ PlaceInv'
    <3>1. TypeOK'
      BY DEF TypeOK, Goto
    <3>2. At(Writers, {"WL_active", "writing"})' = {}
      BY DEF TypeOK, WrtInv, Goto, At, Threads
    <3>3. /\ \A q \in Readers : pc'[q] \in ReaderLabels
          /\ \A v \in Writers : pc'[v] \notin ReaderLabels \ {"idle"}
      BY DEF PlaceInv, Goto
    <3> QED
      BY <3>1, <3>2, <3>3 DEF PlaceInv
  <2>3. MutexInv' /\ EdgeInv'
    BY DEF MutexInv, EdgeInv, Goto, At
  <2>4. WrtInv'
    BY DEF WrtInv, Goto, At
  <2> QED
    BY <2>1, <2>2, <2>3, <2>4
<1>17. ASSUME NEW w \in Writers, writeUnlock_post_wrt(w) PROVE IndInv'
  <2> USE <1>17 DEF writeUnlock_post_wrt, post
  <2>1. CountInv'
    BY ReadersStay DEF CountInv
  <2>2. TypeOK' /\ PlaceInv'
    BY DEF TypeOK, PlaceInv, WrtInv, Goto, At, Threads
  <2>3. MutexInv' /\ EdgeInv'
    BY DEF MutexInv, EdgeInv, Goto, At
  <2>4. WrtInv'
    BY DEF TypeOK, WrtInv, Goto, At, Threads
  <2> QED
    BY <2>1, <2>2, <2>3, <2>4
<1>18. ASSUME NEW w \in Writers, writeUnlock_releasing(w) PROVE IndInv'
  <2> USE <1>18 DEF writeUnlock_releasing, transitionReleasing
  <2>1. CountInv'
    BY ReadersStay DEF CountInv
  <2>2. TypeOK' /\ PlaceInv'
    BY DEF TypeOK, ThreadState, PlaceInv, Goto, At, Threads
  <2>3. MutexInv' /\ EdgeInv'
    BY DEF MutexInv, EdgeInv, Goto, At
  <2>4. WrtInv'
    BY DEF WrtInv, Goto, At
  <2> QED
    BY <2>1, <2>2, <2>3, <2>4
<1>19. CASE UNCHANGED vars
  BY <1>19 DEF vars, TypeOK, PlaceInv, MutexInv, CountInv, EdgeInv, WrtInv, At
<1> QED
  BY <1>1, <1>2, <1>3, <1>4, <1>5, <1>6, <1>7, <1>8, <1>9, <1>10, <1>11,
     <1>12, <1>13, <1>14, <1>15, <1>16, <1>17, <1>18, <1>19
     DEF Next, readerStep, writerStep

\* The three synchronisation variables of the lock keep their meaning in
\* every execution: the conjunction IndInv is an invariant.
THEOREM Invariance == Spec => []IndInv
<1> QED
  BY InitInv, NextInv, PTL DEF Spec

\* readCount_ never goes below zero and mutex_ and wrt_ stay binary, for any
\* number of threads: no sem_post of the lock can fail with EOVERFLOW.
THEOREM TypeCorrect == Spec => []TypeOK
<1>1. IndInv => TypeOK
  BY DEF IndInv
<1> QED
  BY <1>1, Invariance, PTL

\* A writer between writeLock and writeUnlock is alone, for any number of
\* readers and writers.
THEOREM ExclusiveAccess == Spec => []MutualExclusion
<1>1. IndInv => MutualExclusion
  BY ThreadsAssumption DEF IndInv, PlaceInv, WrtInv, MutualExclusion, At, Threads
<1> QED
  BY <1>1, Invariance, PTL

\* A reader queues for wrt_ only when no reader is inside.
THEOREM ReadersNeverQueueBehindReaders == Spec => []ReadersJoinReaders
<1>1. IndInv => ReadersJoinReaders
  <2> SUFFICES ASSUME IndInv, NEW r \in Readers, pc[r] = "RL_wait_wrt",
                      NEW q \in Readers, pc[q] \in ReadHeld
               PROVE  FALSE
    BY DEF ReadersJoinReaders, At
  <2>1. pc[q] # "RU_post_wrt" /\ pc[q] \in Counted
    BY DEF IndInv, EdgeInv
  <2>2. r = q
    BY <2>1, CountFacts DEF IndInv, EdgeInv, At
  <2> QED
    BY <2>2
<1> QED
  BY <1>1, Invariance, PTL

-----------------------------------------------------------------------------
(* The contract. *)

\* A statement of thread t changes the mode of no other thread, and gives t
\* the mode of the place it goes to.
LEMMA ModeAfterMove ==
  ASSUME TypeOK, NEW t \in Threads, NEW from, NEW to, Goto(t, from, to)
  PROVE  /\ Mode(t)  = IF from \in ReadHeld \cup WriteHeld THEN "in"
                       ELSE IF from \in Asking THEN "waiting" ELSE "out"
         /\ Mode(t)' = IF to \in ReadHeld \cup WriteHeld THEN "in"
                       ELSE IF to \in Asking THEN "waiting" ELSE "out"
         /\ \A u \in Threads \ {t} : Mode(u)' = Mode(u)
<1> HIDE DEF Labels, ReadHeld, WriteHeld, Asking
<1> QED
  BY DEF TypeOK, Goto, Mode

modes == [t \in Threads |-> Mode(t)]

\* How the mode of one thread may change while the others keep theirs, for
\* the contract to allow it.
LEMMA ContractStep ==
  ASSUME NEW t \in Threads, \A u \in Threads \ {t} : Mode(u)' = Mode(u)
  PROVE  /\ Mode(t)' = Mode(t) => modes' = modes
         /\ Mode(t) = "out" /\ Mode(t)' = "waiting" => RW!Next
         /\ Mode(t) = "in" /\ Mode(t)' = "out" => RW!Next
         /\ /\ t \in Readers /\ Mode(t) = "waiting" /\ Mode(t)' = "in"
            /\ \A w \in Writers : Mode(w) # "in"
            => RW!Next
         /\ /\ t \in Writers /\ Mode(t) = "waiting" /\ Mode(t)' = "in"
            /\ \A u \in Threads : Mode(u) # "in"
            => RW!Next
<1>1. modes' = [modes EXCEPT ![t] = Mode(t)']
  BY DEF modes
<1>2. modes[t] = Mode(t) /\ \A u \in Threads : modes[u] = Mode(u)
  BY DEF modes
<1>3. Mode(t)' = Mode(t) => modes' = modes
  BY DEF modes
<1>4. Mode(t) = "out" /\ Mode(t)' = "waiting" => RW!Request(t)
  BY <1>1, <1>2 DEF RW!Request, modes
<1>5. Mode(t) = "in" /\ Mode(t)' = "out" => RW!Release(t)
  BY <1>1, <1>2 DEF RW!Release, modes
<1>6. /\ Mode(t) = "waiting" /\ Mode(t)' = "in"
      /\ \A w \in Writers : Mode(w) # "in"
      => RW!AcquireRead(t)
  BY <1>1, <1>2 DEF RW!AcquireRead, RW!Inside, modes, Threads
<1>7. /\ Mode(t) = "waiting" /\ Mode(t)' = "in"
      /\ \A u \in Threads : Mode(u) # "in"
      => RW!AcquireWrite(t)
  BY <1>1, <1>2 DEF RW!AcquireWrite, RW!Inside, modes, Threads
<1> QED
  BY <1>3, <1>4, <1>5, <1>6, <1>7 DEF RW!Next, Threads

\* Every execution of the lock is one the contract RWLock allows: a step of
\* the code is a request, an acquisition with nobody inside who excludes it,
\* a release, or nothing that the contract sees.
THEOREM Implementation == Spec => RefinesRWLock
<1> USE DEF Asking
<1>1. Init => RW!Init
  BY DEF Init, BaseInit, RW!Init, Mode, Threads
<1>2. IndInv /\ [Next]_vars => [RW!Next]_modes
  <2> SUFFICES ASSUME IndInv, [Next]_vars PROVE RW!Next \/ modes' = modes
    OBVIOUS
  <2>0. TypeOK /\ Readers \subseteq Threads /\ Writers \subseteq Threads
    BY DEF IndInv, Threads
  <2>1. ASSUME NEW r \in Readers, readLock_count(r)
        PROVE  RW!Next \/ modes' = modes
    <3>1. CASE readCount_ = 0
      BY <3>1, <2>0, <2>1, ModeAfterMove, ContractStep DEF readLock_count
    <3>2. CASE readCount_ # 0
      <4>1. PICK q \in Readers : pc[q] \in ReadHeld
        BY <3>2, <2>1, CountFacts DEF IndInv, MutexInv, readLock_count, Goto, At
      <4>2. \A w \in Writers : Mode(w) # "in"
        BY <4>1, ThreadsAssumption DEF IndInv, PlaceInv, WrtInv, At, Mode
      <4> QED
        BY <3>2, <4>2, <2>0, <2>1, ModeAfterMove, ContractStep
           DEF readLock_count, IndInv, TypeOK
    <3> QED
      BY <3>1, <3>2
  <2>2. ASSUME NEW r \in Readers, readLock_wait_wrt(r)
        PROVE  RW!Next \/ modes' = modes
    <3>1. \A w \in Writers : Mode(w) # "in"
      BY <2>2, ThreadsAssumption DEF IndInv, PlaceInv, WrtInv, At, Mode, readLock_wait_wrt, wait
    <3> QED
      BY <3>1, <2>0, <2>2, ModeAfterMove, ContractStep DEF readLock_wait_wrt
  <2>3. ASSUME NEW r \in Readers,
               readLock_waiting(r) \/ (readerStep(r) /\ ~readLock_count(r) /\ ~readLock_wait_wrt(r))
        PROVE  RW!Next \/ modes' = modes
    BY <2>0, <2>3, ModeAfterMove, ContractStep
       DEF readerStep, readLock_waiting, readLock_wait_mutex, readLock_post_mutex,
           readLock_active, readUnlock_wait_mutex, readUnlock_count, readUnlock_post_wrt,
           readUnlock_post_mutex, readUnlock_releasing
  <2>4. ASSUME NEW w \in Writers, writeLock_wait_wrt(w)
        PROVE  RW!Next \/ modes' = modes
    <3>1. \A u \in Threads : Mode(u) # "in"
      BY <2>4, ThreadsAssumption DEF IndInv, PlaceInv, WrtInv, At, Mode, Threads, writeLock_wait_wrt, wait
    <3> QED
      BY <3>1, <2>0, <2>4, ModeAfterMove, ContractStep DEF writeLock_wait_wrt
  <2>5. ASSUME NEW w \in Writers,
               writeLock_waiting(w) \/ (writerStep(w) /\ ~writeLock_wait_wrt(w))
        PROVE  RW!Next \/ modes' = modes
    BY <2>0, <2>5, ModeAfterMove, ContractStep
       DEF writerStep, writeLock_waiting, writeLock_flag, writeLock_active,
           writeUnlock_flag, writeUnlock_post_wrt, writeUnlock_releasing
  <2>6. CASE UNCHANGED vars
    BY <2>6 DEF vars, modes, Mode
  <2> QED
    BY <2>1, <2>2, <2>3, <2>4, <2>5, <2>6 DEF Next, readerStep, writerStep
<1> QED
  BY <1>1, <1>2, Invariance, PTL DEF Spec, RefinesRWLock, RW!Spec, modes
=============================================================================
