------------------------ MODULE SemaphoreCalls_proofs ------------------------
(***************************************************************************)
(* Class Semaphore gives out the units it has and no more, and timed_wait  *)
(* keeps its deadline, for any finite set of threads, any initial value,   *)
(* any timeouts and any length of a second.                                *)
(***************************************************************************)
EXTENDS SemaphoreCalls, FiniteSetTheorems, TLAPS

Places == {"out", "wait", "in", "timed", "asleep", "gave_up", "threw"}

Holders == {t \in Threads : pc[t] = "in"}

\* The clock is split into seconds and the rest, and put together again.
LEMMA DivMod ==
  ASSUME NEW n \in Int
  PROVE  /\ n \div Second \in Int /\ n % Second \in 0..Second - 1
         /\ (n \div Second) * Second + (n % Second) = n
BY SemaphoreCallsAssumption

\* What timed_wait computes is the time at which its timeout is over, whether
\* or not the nanoseconds carry; and it is a valid timespec unless the
\* timeout is negative.
LEMMA DeadlineIsDue ==
  ASSUME NEW clock \in Nat, NEW ms \in Int
  PROVE  /\ Deadline(clock, ms) \in [tv_sec : Int, tv_nsec : Int]
         /\ Deadline(clock, ms).tv_sec * Second + Deadline(clock, ms).tv_nsec = clock + ms
         /\ ms >= 0 => Valid(Deadline(clock, ms))
<1> DEFINE sec  == clock \div Second
           rest == clock % Second
           nsec == rest + ms
<1>1. /\ Second \in Int /\ sec \in Int /\ rest \in 0..Second - 1
      /\ sec * Second + rest = clock
  BY DivMod, SemaphoreCallsAssumption
<1>2. nsec \in Int
  BY <1>1
<1>3. /\ nsec \div Second \in Int /\ nsec % Second \in 0..Second - 1
      /\ (nsec \div Second) * Second + (nsec % Second) = nsec
  BY <1>2, DivMod
<1>4. CASE nsec >= Second
  <2>1. Deadline(clock, ms) = [tv_sec |-> sec + (nsec \div Second), tv_nsec |-> nsec % Second]
    BY <1>4 DEF Deadline
  <2>2. (sec + (nsec \div Second)) * Second = sec * Second + (nsec \div Second) * Second
    BY <1>1, <1>3
  <2> HIDE DEF sec, nsec
  <2> QED
    BY <1>1, <1>2, <1>3, <2>1, <2>2 DEF Valid, nsec
<1>5. CASE ~(nsec >= Second)
  <2>1. Deadline(clock, ms) = [tv_sec |-> sec, tv_nsec |-> nsec]
    BY <1>5 DEF Deadline
  <2> QED
    BY <1>1, <1>2, <1>5, <2>1 DEF Valid
<1> QED
  BY <1>4, <1>5

\* The inductive invariant: the types, the units, and for a call of
\* timed_wait under way that its deadline is still the one it began with.
TypeInv ==
  /\ sem \in [{"sem_"} -> Nat]
  /\ pc \in [Threads -> Places]
  /\ now \in Nat
  /\ timeoutMs \in [Threads -> Int]
  /\ abstime \in [Threads -> [tv_sec : Int, tv_nsec : Int]]
  /\ due \in [Threads -> Int]

DeadlineKept ==
  \A t \in Threads : pc[t] \in {"timed", "asleep"} =>
    /\ due[t] = abstime[t].tv_sec * Second + abstime[t].tv_nsec
    /\ timeoutMs[t] >= 0 => Valid(abstime[t])

IndInv == TypeInv /\ UnitsConserved /\ DeadlineKept /\ GivesUpOnTime
\* A call moves one thread: the number of those that hold a unit follows.
LEMMA HoldersMove ==
  ASSUME TypeInv, NEW t \in Threads, NEW from, NEW to, Goto(t, from, to)
  PROVE  /\ Cardinality(Holders) \in Nat
         /\ (from # "in" /\ to # "in") => Holders' = Holders
         /\ (from # "in" /\ to = "in") => Cardinality(Holders)' = Cardinality(Holders) + 1
         /\ (from = "in" /\ to # "in") => Cardinality(Holders)' = Cardinality(Holders) - 1
<1>1. IsFiniteSet(Holders)
  BY FS_Subset, SemaphoreCallsAssumption DEF Holders
<1>2. Cardinality(Holders) \in Nat
  BY <1>1, FS_CardinalityType
<1>3. pc[t] = from /\ pc'[t] = to /\ \A u \in Threads \ {t} : pc'[u] = pc[u]
  BY DEF TypeInv, Goto
<1>4. (from # "in" /\ to # "in") => Holders' = Holders
  BY <1>3 DEF Holders
<1>5. ASSUME from # "in", to = "in" PROVE Cardinality(Holders)' = Cardinality(Holders) + 1
  <2>1. Holders' = Holders \cup {t} /\ t \notin Holders
    BY <1>3, <1>5 DEF Holders
  <2>2. Cardinality(Holders)' = Cardinality(Holders')
    OBVIOUS
  <2> QED
    BY <1>1, <2>1, <2>2, FS_AddElement
<1>6. ASSUME from = "in", to # "in" PROVE Cardinality(Holders)' = Cardinality(Holders) - 1
  <2>1. Holders' = Holders \ {t} /\ t \in Holders
    BY <1>3, <1>6 DEF Holders
  <2>2. Cardinality(Holders)' = Cardinality(Holders')
    OBVIOUS
  <2> QED
    BY <1>1, <2>1, <2>2, FS_RemoveElement
<1> QED
  BY <1>2, <1>4, <1>5, <1>6

\* The constructor establishes the invariant: all units are in the semaphore.
LEMMA InitInv == Init => IndInv
<1> SUFFICES ASSUME Init PROVE IndInv
  OBVIOUS
<1>1. TypeInv /\ DeadlineKept /\ GivesUpOnTime
  BY SemaphoreCallsAssumption DEF Init, TypeInv, Places, DeadlineKept, GivesUpOnTime
<1>2. Holders = {}
  BY DEF Init, Holders
<1>3. UnitsConserved
  BY <1>2, FS_EmptySet, SemaphoreCallsAssumption DEF Init, UnitsConserved, Holders, count
<1> QED
  BY <1>1, <1>3 DEF IndInv

\* Every call, every return and every tick of the clock keeps the invariant.
LEMMA NextInv == IndInv /\ [Next]_vars => IndInv'
<1> SUFFICES ASSUME IndInv, [Next]_vars PROVE IndInv'
  OBVIOUS
<1> USE DEF IndInv, timed
<1>0. UnitsConserved <=> sem["sem_"] + Cardinality(Holders) = InitialValue
  BY DEF UnitsConserved, Holders, count
<1>1. CASE Tick
  <2>1. TypeInv' /\ DeadlineKept' /\ GivesUpOnTime'
    BY <1>1 DEF Tick, TypeInv, DeadlineKept, GivesUpOnTime, Valid
  <2>2. UnitsConserved'
    BY <1>1 DEF Tick, UnitsConserved, count
  <2> QED
    BY <2>1, <2>2
<1>2. ASSUME NEW t \in Threads, sem_wait(t) \/ try_wait(t) \/ sem_timedwait_ok(t)
      PROVE  IndInv'
  <2> USE <1>2 DEF sem_wait, try_wait, sem_timedwait_ok, wait
  <2>1. TypeInv' /\ DeadlineKept' /\ GivesUpOnTime'
    BY DEF TypeInv, Places, Goto, DeadlineKept, GivesUpOnTime, Valid
  <2>2. Cardinality(Holders)' = Cardinality(Holders) + 1 /\ Cardinality(Holders) \in Nat
    BY HoldersMove
  <2>3. UnitsConserved'
    BY <1>0, <2>2 DEF TypeInv, UnitsConserved, Holders, count
  <2> QED
    BY <2>1, <2>3
<1>3. ASSUME NEW t \in Threads, sem_post(t) PROVE IndInv'
  <2> USE <1>3 DEF sem_post, post
  <2>1. TypeInv' /\ DeadlineKept' /\ GivesUpOnTime'
    BY DEF TypeInv, Places, Goto, DeadlineKept, GivesUpOnTime, Valid
  <2>2. Cardinality(Holders)' = Cardinality(Holders) - 1 /\ Cardinality(Holders) \in Nat
    BY HoldersMove
  <2>3. UnitsConserved'
    BY <1>0, <2>2 DEF TypeInv, UnitsConserved, Holders, count
  <2> QED
    BY <2>1, <2>3
<1>4. ASSUME NEW t \in Threads, NEW ms \in Timeouts, timed_wait_call(t, ms) PROVE IndInv'
  <2> USE <1>4 DEF timed_wait_call
  <2>0. ms \in Int /\ now \in Nat
    BY SemaphoreCallsAssumption DEF TypeInv
  <2>1. TypeInv'
    <3>1. Deadline(now, ms) \in [tv_sec : Int, tv_nsec : Int] /\ now + ms \in Int
      BY <2>0, DeadlineIsDue
    <3> QED
      BY <2>0, <3>1 DEF TypeInv, Places, Goto
  <2>2. DeadlineKept'
    <3>1. /\ due'[t] = abstime'[t].tv_sec * Second + abstime'[t].tv_nsec
          /\ timeoutMs'[t] >= 0 => Valid(abstime'[t])
      BY <2>0, DeadlineIsDue DEF TypeInv
    <3>2. \A u \in Threads \ {t} : /\ pc'[u] = pc[u] /\ due'[u] = due[u]
                                   /\ abstime'[u] = abstime[u] /\ timeoutMs'[u] = timeoutMs[u]
      BY DEF TypeInv, Goto
    <3> QED
      BY <3>1, <3>2 DEF DeadlineKept, Valid
  <2>3. GivesUpOnTime'
    BY DEF TypeInv, Goto, GivesUpOnTime
  <2>4. UnitsConserved'
    <3>1. Cardinality(Holders)' = Cardinality(Holders) /\ sem' = sem
      BY HoldersMove
    <3> QED
      BY <1>0, <3>1 DEF UnitsConserved, Holders, count
  <2> QED
    BY <2>1, <2>2, <2>3, <2>4
<1>5. ASSUME NEW t \in Threads,
             \/ wait_call(t) \/ sem_timedwait_EINVAL(t) \/ sem_timedwait_ETIMEDOUT(t)
             \/ sem_timedwait_sleep(t) \/ sem_timedwait_EINTR(t) \/ resume(t)
      PROVE  IndInv'
  <2> USE <1>5 DEF wait_call, sem_timedwait_EINVAL, sem_timedwait_ETIMEDOUT,
                   sem_timedwait_sleep, sem_timedwait_EINTR, resume
  <2>1. TypeInv' /\ DeadlineKept'
    BY DEF TypeInv, Places, Goto, DeadlineKept, Valid
  <2>2. GivesUpOnTime'
    BY DEF TypeInv, Goto, DeadlineKept, GivesUpOnTime, Passed
  <2>3. UnitsConserved'
    <3>1. Cardinality(Holders)' = Cardinality(Holders) /\ sem' = sem
      BY HoldersMove
    <3> QED
      BY <1>0, <3>1 DEF UnitsConserved, Holders, count
  <2> QED
    BY <2>1, <2>2, <2>3
<1>6. CASE UNCHANGED vars
  BY <1>6 DEF vars, TypeInv, UnitsConserved, count, DeadlineKept, GivesUpOnTime, Valid
<1> QED
  BY <1>1, <1>2, <1>3, <1>4, <1>5, <1>6 DEF Next, timedStep

\* No call takes a unit without saying so, and none is given back twice: what
\* is not in the semaphore is with a thread, in every execution, however
\* often sem_timedwait is interrupted or times out.
THEOREM UnitsAlwaysConserved == Spec => []UnitsConserved
<1>1. IndInv => UnitsConserved
  BY DEF IndInv
<1> QED
  BY <1>1, InitInv, NextInv, PTL DEF Spec

\* timed_wait never gives up early, sleeps until exactly the end of its
\* timeout, and throws only when the timeout is negative, for every clock
\* reading and every length of a second.
THEOREM TimeoutsExact == Spec => []GivesUpOnTime
<1>1. IndInv => GivesUpOnTime
  BY DEF IndInv
<1> QED
  BY <1>1, InitInv, NextInv, PTL DEF Spec
==============================================================================
