--------------------------- MODULE Workload_proofs ---------------------------
(***************************************************************************)
(* The simulations of a process do what they promise for any finite sets   *)
(* of readers and writers, any totalOps, any number of simulations and any *)
(* moment at which SIGUSR1 comes, over any lock that implements RWLock.    *)
(***************************************************************************)
EXTENDS Workload, FiniteSetTheorems, TLAPS

\* Operations are counted as the pairs <<t, i>> of a thread and a number.
Tally(f, S) == UNION {{t} \X (1..f[t]) : t \in S}

\* The operations each thread has completed, plus the one it has brought as
\* far as the labels L; and the number of those of the threads of S.
Stage(L)    == [t \in Threads |-> opsCompleted[t] + (IF pc[t] \in L THEN 1 ELSE 0)]
Count(L, S) == Cardinality(Tally(Stage(L), S))

Taken   == Claimed \cup {"aborted"}
Holding == {"record_load", "record_store", "locked", "increment", "recordWrite", "unlock"}
Failing == Cardinality(At({"unclaim"}))

TypeInv ==
  /\ main \in {"create", "join", "finished"}
  /\ pc \in [Threads -> Claimed \cup {"unborn", "start", "loop", "claim", "unclaim", "exited", "aborted"}]
  /\ mode \in [Threads -> Lock!Modes]
  /\ opsRemaining \in Int
  /\ opsCompleted \in [Threads -> Nat]
  /\ seen \in [Threads -> Nat]
  /\ data_ \in Nat /\ readCount_ \in Nat /\ writeCount_ \in Nat
  /\ sim \in 1..Sims
  /\ handler \in BOOLEAN /\ g_abortSignalReceived \in BOOLEAN
  /\ signalSim \in 0..Sims
  /\ quota \in Nat

\* Readers and writers go different ways; only the abort target aborts.
PlaceInv ==
  /\ \A r \in Readers : pc[r] \notin {"locked", "increment", "recordWrite", "aborted"}
  /\ \A w \in Writers : pc[w] \notin {"record_load", "record_store"}
  /\ \A w \in Writers : pc[w] = "aborted" => w = AbortTarget
  /\ main = "finished" => \A t \in Threads : pc[t] \in {"exited", "aborted"}

\* A thread is inside the lock where its code says so, and a writer alone.
LockInv ==
  /\ \A t \in Threads : mode[t] = IF pc[t] = "blocked" THEN "waiting"
                                  ELSE IF pc[t] \in Holding THEN "in" ELSE "out"
  /\ \A w \in Writers, t \in Threads : (mode[w] = "in" /\ mode[t] = "in") => t = w

\* The counter, less the claims that failed and will be put back, is what is
\* left to claim; claims fail only when nothing is, and a thread that has
\* gone home without a signal has seen that.
ClaimInv ==
  /\ IsFiniteSet(Tally(Stage(Taken), Threads))
  /\ opsRemaining + Failing = TotalOps - Count(Taken, Threads)
  /\ opsRemaining + Failing >= 0
  /\ Failing > 0 => opsRemaining + Failing = 0
  /\ \A t \in Threads : pc[t] = "exited" =>
        opsRemaining + Failing = 0 \/ (t = AbortTarget /\ signalSim # 0)

\* The abort target goes on after a signal only when the signal came in this
\* simulation, after the target had last looked for it.
SignalInv ==
  /\ g_abortSignalReceived <=> signalSim # 0
  /\ (AbortTarget \in Threads /\ pc[AbortTarget] \in Taken \cup {"claim", "unclaim"}
        /\ g_abortSignalReceived) => signalSim = sim
  /\ (AbortTarget \in Threads /\ pc[AbortTarget] = "aborted") => g_abortSignalReceived

\* The handler is the abort target's; once it has run, the operation in which
\* the target is past its last test is within the quota, like those it has
\* completed.
QuotaInv ==
  /\ handler \/ g_abortSignalReceived => AbortTarget \in Threads
  /\ g_abortSignalReceived =>
        opsCompleted[AbortTarget] + (IF pc[AbortTarget] \in PastTest THEN 1 ELSE 0) <= quota

\* The counters of the resource hold the writes that were begun and made, and
\* no more than the reads that were made.
ResourceInv ==
  /\ data_ = Count(Writing, Writers)
  /\ writeCount_ = Count({"unlock"}, Writers)
  /\ readCount_ <= Count({"unlock"}, Readers)
  /\ \A t \in Threads : seen[t] <= Count({"unlock"}, Readers)

IndInv ==
  TypeInv /\ PlaceInv /\ LockInv /\ OpsBalance /\ ClaimInv /\ SignalInv /\ QuotaInv /\ ResourceInv
-----------------------------------------------------------------------------
(* Counting operations. *)

\* The pairs of a tally.
LEMMA TallyMember ==
  ASSUME NEW f \in [Threads -> Nat], NEW S \in SUBSET Threads, NEW x
  PROVE  x \in Tally(f, S) <=> \E t \in S : \E i \in 1..f[t] : x = <<t, i>>
BY DEF Tally

\* A larger count of more threads is a larger tally.
LEMMA TallyMonotone ==
  ASSUME NEW f \in [Threads -> Nat], NEW g \in [Threads -> Nat],
         NEW S \in SUBSET Threads, NEW T \in SUBSET Threads,
         S \subseteq T, \A t \in S : f[t] <= g[t]
  PROVE  Tally(f, S) \subseteq Tally(g, T)
<1> SUFFICES ASSUME NEW x \in Tally(f, S) PROVE x \in Tally(g, T)
  OBVIOUS
<1>1. PICK t \in S, i \in Int : i \in 1..f[t] /\ x = <<t, i>>
  BY TallyMember
<1>2. i \in 1..g[t]
  BY <1>1
<1> QED
  BY <1>1, <1>2, TallyMember

\* One more operation of one thread is one more pair.
LEMMA TallyGrows ==
  ASSUME NEW f \in [Threads -> Nat], NEW S \in SUBSET Threads, NEW t \in S,
         IsFiniteSet(Tally(f, S))
  PROVE  LET g == [f EXCEPT ![t] = f[t] + 1]
         IN  /\ IsFiniteSet(Tally(g, S))
             /\ Cardinality(Tally(g, S)) = Cardinality(Tally(f, S)) + 1
<1> DEFINE g == [f EXCEPT ![t] = f[t] + 1]
           p == <<t, f[t] + 1>>
<1>1. g \in [Threads -> Nat]
  OBVIOUS
<1>2. p \notin Tally(f, S)
  BY TallyMember
<1>3. Tally(g, S) = Tally(f, S) \cup {p}
  <2>1. ASSUME NEW x \in Tally(g, S) PROVE x \in Tally(f, S) \cup {p}
    <3>1. PICK u \in S, i \in Int : i \in 1..g[u] /\ x = <<u, i>>
      <4> HIDE DEF g
      <4> QED
        BY <1>1, <2>1, TallyMember
    <3>2. i \in 1..f[u] \/ (u = t /\ i = f[t] + 1)
      BY <3>1
    <3> QED
      BY <3>1, <3>2, TallyMember
  <2>2. Tally(f, S) \subseteq Tally(g, S)
    <3>1. \A u \in S : f[u] <= g[u]
      OBVIOUS
    <3> HIDE DEF g
    <3> QED
      BY <1>1, <3>1, TallyMonotone
  <2>3. p \in Tally(g, S)
    <3>1. f[t] + 1 \in 1..g[t]
      OBVIOUS
    <3> QED
      BY <1>1, <3>1, TallyMember
  <2> QED
    BY <2>1, <2>2, <2>3
<1> HIDE DEF p, g
<1>4. /\ IsFiniteSet(Tally(g, S))
      /\ Cardinality(Tally(g, S)) = Cardinality(Tally(f, S)) + 1
  BY <1>2, <1>3, FS_AddElement
<1> QED
  BY <1>4 DEF g

\* A thread has no more operations than there are.
LEMMA TallyOfOne ==
  ASSUME NEW f \in [Threads -> Nat], NEW S \in SUBSET Threads, NEW t \in S,
         IsFiniteSet(Tally(f, S))
  PROVE  f[t] <= Cardinality(Tally(f, S))
<1>1. f[t] \in Nat /\ IsFiniteSet(1..f[t]) /\ Cardinality(1..f[t]) = f[t]
  BY FS_Interval
<1>2. IsFiniteSet({t}) /\ Cardinality({t}) = 1
  BY FS_Singleton
<1>3. Cardinality({t} \X (1..f[t])) = Cardinality({t}) * Cardinality(1..f[t])
  BY <1>1, <1>2, FS_Product
<1>4. {t} \X (1..f[t]) \subseteq Tally(f, S)
  BY DEF Tally
<1>5. Cardinality({t} \X (1..f[t])) <= Cardinality(Tally(f, S))
  BY <1>4, FS_Subset
<1> QED
  BY <1>1, <1>2, <1>3, <1>5

\* A stage counts the operations of every thread.
LEMMA StageType ==
  ASSUME TypeInv, NEW L
  PROVE  Stage(L) \in [Threads -> Nat]
BY DEF TypeInv, Stage

\* The counts of operations that have been claimed are numbers, and a later
\* stage, or fewer threads, count less.
LEMMA CountOrder ==
  ASSUME TypeInv, IsFiniteSet(Tally(Stage(Taken), Threads)),
         NEW L \in SUBSET Taken, NEW M \in SUBSET Taken, L \subseteq M,
         NEW S \in SUBSET Threads, NEW T \in SUBSET Threads, S \subseteq T
  PROVE  /\ IsFiniteSet(Tally(Stage(L), S))
         /\ Count(L, S) \in Nat /\ Count(M, T) \in Nat
         /\ Count(L, S) <= Count(M, T)
<1>1. Stage(L) \in [Threads -> Nat] /\ Stage(M) \in [Threads -> Nat] /\ Stage(Taken) \in [Threads -> Nat]
  BY StageType
<1>2. \A t \in Threads : Stage(L)[t] <= Stage(M)[t] /\ Stage(M)[t] <= Stage(Taken)[t]
  BY DEF TypeInv, Stage
<1>3. Tally(Stage(M), T) \subseteq Tally(Stage(Taken), Threads)
  BY <1>1, <1>2, TallyMonotone
<1>4. Tally(Stage(L), S) \subseteq Tally(Stage(M), T)
  BY <1>1, <1>2, TallyMonotone
<1>5. IsFiniteSet(Tally(Stage(M), T))
  BY <1>3, FS_Subset
<1>6. IsFiniteSet(Tally(Stage(L), S)) /\ Count(L, S) <= Count(M, T)
  BY <1>4, <1>5, FS_Subset DEF Count
<1> QED
  BY <1>5, <1>6, FS_CardinalityType DEF Count

\* The operations completed are the first of the stages.
LEMMA OpsIsCount ==
  ASSUME TypeInv, NEW S \in SUBSET Threads
  PROVE  Ops(S) = Count({}, S)
<1>1. Stage({}) = opsCompleted
  BY DEF TypeInv, Stage
<1> QED
  BY <1>1 DEF Ops, Done, Count, Tally

\* The steps of a thread that leave its count of stage L as it is: it stays on
\* its side of L, or leaves L by completing the operation.
Kept(L, from, to) ==
  \/ opsCompleted' = opsCompleted /\ (from \in L <=> to \in L)
  \/ from \in L /\ to \notin L /\ from = "unlock"

\* A thread that leaves "unlock" has completed its operation.
Completes(t, from) ==
  opsCompleted' = IF from = "unlock" THEN [opsCompleted EXCEPT ![t] = @ + 1] ELSE opsCompleted

\* What a step of one thread does to a count: nothing, or one more.
LEMMA CountMove ==
  ASSUME TypeInv, IsFiniteSet(Tally(Stage(Taken), Threads)),
         NEW t \in Threads, NEW from, NEW to, Goto(t, from, to), Completes(t, from),
         NEW L \in SUBSET Taken, NEW S \in SUBSET Threads
  PROVE  /\ Count(L, S) \in Nat
         /\ Kept(L, from, to) => Tally(Stage(L), S)' = Tally(Stage(L), S) /\ Count(L, S)' = Count(L, S)
         /\ (from # "unlock" /\ from \notin L /\ to \in L) \/ (from = "unlock" /\ from \notin L /\ to \notin L) =>
               /\ IsFiniteSet(Tally(Stage(L), S))'
               /\ Count(L, S)' = Count(L, S) + (IF t \in S THEN 1 ELSE 0)
<1>1. Count(L, S) \in Nat /\ IsFiniteSet(Tally(Stage(L), S))
  BY CountOrder
<1>2. pc[t] = from /\ pc'[t] = to /\ \A u \in Threads \ {t} : pc'[u] = pc[u]
  BY DEF TypeInv, Goto
<1>3. ASSUME Kept(L, from, to) PROVE Stage(L)' = Stage(L)
  <2>1. \A u \in Threads : opsCompleted[u] \in Nat
    BY DEF TypeInv
  <2>2. opsCompleted'[t] = opsCompleted[t] + (IF from = "unlock" THEN 1 ELSE 0)
        /\ \A u \in Threads \ {t} : opsCompleted'[u] = opsCompleted[u]
    BY <2>1 DEF TypeInv, Completes
  <2>3. opsCompleted'[t] + (IF to \in L THEN 1 ELSE 0) = opsCompleted[t] + (IF from \in L THEN 1 ELSE 0)
    BY <1>3, <2>1, <2>2 DEF Kept
  <2>4. \A u \in Threads : opsCompleted'[u] + (IF pc'[u] \in L THEN 1 ELSE 0)
                           = opsCompleted[u] + (IF pc[u] \in L THEN 1 ELSE 0)
    BY <1>2, <2>2, <2>3
  <2> QED
    BY <2>4 DEF Stage
<1>4. ASSUME (from # "unlock" /\ from \notin L /\ to \in L) \/ (from = "unlock" /\ from \notin L /\ to \notin L)
      PROVE  Stage(L)' = [Stage(L) EXCEPT ![t] = Stage(L)[t] + 1]
  <2>1. \A u \in Threads : opsCompleted[u] \in Nat
    BY DEF TypeInv
  <2>2. opsCompleted'[t] = opsCompleted[t] + (IF from = "unlock" THEN 1 ELSE 0)
        /\ \A u \in Threads \ {t} : opsCompleted'[u] = opsCompleted[u]
    BY <2>1 DEF TypeInv, Completes
  <2>3. opsCompleted'[t] + (IF to \in L THEN 1 ELSE 0) = opsCompleted[t] + (IF from \in L THEN 1 ELSE 0) + 1
    BY <1>4, <2>1, <2>2
  <2>4. \A u \in Threads : opsCompleted'[u] + (IF pc'[u] \in L THEN 1 ELSE 0)
              = (IF u = t THEN Stage(L)[t] + 1 ELSE Stage(L)[u])
    BY <1>2, <2>2, <2>3 DEF Stage
  <2>5. [Stage(L) EXCEPT ![t] = Stage(L)[t] + 1]
         = [u \in Threads |-> IF u = t THEN Stage(L)[t] + 1 ELSE Stage(L)[u]]
    BY StageType
  <2>6. Stage(L)' = [u \in Threads |-> IF u = t THEN Stage(L)[t] + 1 ELSE Stage(L)[u]]
    BY <2>4 DEF Stage
  <2> QED
    BY <2>5, <2>6
<1>5. ASSUME (from # "unlock" /\ from \notin L /\ to \in L) \/ (from = "unlock" /\ from \notin L /\ to \notin L)
      PROVE  /\ IsFiniteSet(Tally(Stage(L), S))'
             /\ Count(L, S)' = Count(L, S) + (IF t \in S THEN 1 ELSE 0)
  <2>1. CASE t \in S
    BY <1>1, <1>4, <1>5, <2>1, StageType, TallyGrows DEF Count
  <2>2. CASE t \notin S
    <3>1. Tally(Stage(L)', S) = Tally(Stage(L), S)
      <4>1. \A u \in S : Stage(L)'[u] = Stage(L)[u]
        BY <1>4, <1>5, <2>2, StageType
      <4> QED
        BY <4>1 DEF Tally
    <3> QED
      BY <1>1, <2>2, <3>1 DEF Count
  <2> QED
    BY <2>1, <2>2
<1>6. ASSUME Kept(L, from, to)
      PROVE  Tally(Stage(L), S)' = Tally(Stage(L), S) /\ Count(L, S)' = Count(L, S)
  BY <1>3, <1>6 DEF Count
<1> QED
  BY <1>1, <1>5, <1>6

\* What a step of one thread does to the number of those at some labels.
LEMMA AtMove ==
  ASSUME TypeInv, NEW t \in Threads, NEW from, NEW to, Goto(t, from, to), NEW L
  PROVE  /\ Cardinality(At(L)) \in Nat
         /\ (from \in L <=> to \in L) => Cardinality(At(L))' = Cardinality(At(L))
         /\ (from \notin L /\ to \in L) => Cardinality(At(L))' = Cardinality(At(L)) + 1
         /\ (from \in L /\ to \notin L) => Cardinality(At(L))' = Cardinality(At(L)) - 1
<1>1. IsFiniteSet(At(L)) /\ Cardinality(At(L)) \in Nat
  BY FS_Subset, FS_CardinalityType, WorkloadAssumption DEF At
<1>2. pc[t] = from /\ pc'[t] = to /\ \A u \in Threads \ {t} : pc'[u] = pc[u]
  BY DEF TypeInv, Goto
<1>3. (from \in L <=> to \in L) => At(L)' = At(L)
  BY <1>2 DEF At
<1>4. (from \notin L /\ to \in L) => At(L)' = At(L) \cup {t} /\ t \notin At(L)
  BY <1>2 DEF At
<1>5. (from \in L /\ to \notin L) => At(L)' = At(L) \ {t} /\ t \in At(L)
  BY <1>2 DEF At
<1>6. Cardinality(At(L))' = Cardinality(At(L)')
  OBVIOUS
<1> QED
  BY <1>1, <1>3, <1>4, <1>5, <1>6, FS_AddElement, FS_RemoveElement
-----------------------------------------------------------------------------
(* What a step of one thread has to leave alone for each part of the         *)
(* invariant to be kept.                                                     *)

\* The threads' ways through the code.
LEMMA PlaceKept ==
  ASSUME TypeInv, PlaceInv, NEW t \in Threads, NEW from, NEW to, Goto(t, from, to), main' = main,
         from \notin {"exited", "aborted"},
         t \in Readers => to \notin {"locked", "increment", "recordWrite", "aborted"},
         t \in Writers => to \notin {"record_load", "record_store"},
         to = "aborted" => t = AbortTarget
  PROVE  PlaceInv'
<1>1. pc[t] = from /\ pc'[t] = to /\ \A u \in Threads \ {t} : pc'[u] = pc[u]
  BY DEF TypeInv, Goto
<1>2. main # "finished"
  BY <1>1 DEF PlaceInv
<1> QED
  BY <1>1, <1>2 DEF PlaceInv, Threads

\* A step that makes no claim and withdraws none.
LEMMA ClaimKept ==
  ASSUME TypeInv, OpsBalance, ClaimInv,
         NEW t \in Threads, NEW from, NEW to, Goto(t, from, to), Completes(t, from),
         UNCHANGED <<opsRemaining, signalSim>>,
         from # "unclaim", to # "unclaim", from = "unlock" => to = "loop",
         from # "unlock" => (from \in Taken <=> to \in Taken),
         to = "exited" => t = AbortTarget /\ signalSim # 0
  PROVE  OpsBalance' /\ ClaimInv'
<1> DEFINE Going == Claimed \cup {"unclaim", "aborted"}
<1>0. /\ "unlock" \in Taken /\ "loop" \notin Taken
      /\ Taken \in SUBSET Taken /\ {} \in SUBSET Taken
  BY DEF Taken, Claimed
<1>1. pc[t] = from /\ pc'[t] = to /\ \A u \in Threads \ {t} : pc'[u] = pc[u]
  BY DEF TypeInv, Goto
<1>2. IsFiniteSet(Tally(Stage(Taken), Threads))
  BY DEF ClaimInv
<1>3. Kept(Taken, from, to)
  BY <1>0 DEF Kept, Completes
<1>4. Tally(Stage(Taken), Threads)' = Tally(Stage(Taken), Threads)
      /\ Count(Taken, Threads)' = Count(Taken, Threads)
  BY <1>0, <1>2, <1>3, CountMove
<1>5. Failing' = Failing
  BY AtMove DEF Failing
<1>6. ClaimInv'
  BY <1>1, <1>2, <1>4, <1>5 DEF ClaimInv
<1>7. Count({}, Threads) \in Nat /\ Cardinality(At(Going)) \in Nat
  BY <1>0, <1>2, CountMove, AtMove
<1>8. Count({}, Threads)' + Cardinality(At(Going))' = Count({}, Threads) + Cardinality(At(Going))
  <2>1. CASE from = "unlock"
    <3>1. Count({}, Threads)' = Count({}, Threads) + 1
      BY <1>0, <1>2, <2>1, CountMove
    <3>2. Cardinality(At(Going))' = Cardinality(At(Going)) - 1
      <4>1. "unlock" \in Going /\ "loop" \notin Going
        BY DEF Claimed
      <4> HIDE DEF Going
      <4> QED
        BY <2>1, <4>1, AtMove
    <3> HIDE DEF Going
    <3> QED
      BY <1>7, <3>1, <3>2
  <2>2. CASE from # "unlock"
    <3>1. Kept({}, from, to)
      BY <2>2 DEF Kept, Completes
    <3>2. Count({}, Threads)' = Count({}, Threads)
      BY <1>0, <1>2, <3>1, CountMove
    <3>3. from \in Going <=> to \in Going
      BY <2>2 DEF Taken
    <3> HIDE DEF Going
    <3>4. Cardinality(At(Going))' = Cardinality(At(Going))
      BY <3>3, AtMove
    <3> QED
      BY <3>2, <3>4
  <2> QED
    BY <2>1, <2>2
<1>9. Ops(Threads) = Count({}, Threads) /\ Ops(Threads)' = Count({}, Threads)'
  <2>1. opsCompleted' \in [Threads -> Nat]
    <3>1. opsCompleted \in [Threads -> Nat] /\ opsCompleted[t] + 1 \in Nat
      BY DEF TypeInv
    <3> QED
      BY <3>1 DEF Completes
  <2>2. Stage({})' = opsCompleted'
    BY <2>1 DEF Stage
  <2> QED
    BY <2>2, OpsIsCount DEF Ops, Done, Count, Tally
<1>10. OpsBalance'
  BY <1>8, <1>9 DEF OpsBalance
<1> QED
  BY <1>6, <1>10

\* A step that leaves the signal alone: the target goes past its test of the
\* flag only while there is no signal.
LEMMA SignalKept ==
  ASSUME TypeInv, SignalInv, NEW t \in Threads, NEW from, NEW to, Goto(t, from, to),
         UNCHANGED <<sim, g_abortSignalReceived, signalSim>>,
         (t = AbortTarget /\ to \in Taken \cup {"claim", "unclaim"})
            => ~g_abortSignalReceived \/ from \in Taken \cup {"claim", "unclaim"},
         to = "aborted" => g_abortSignalReceived
  PROVE  SignalInv'
<1>1. pc[t] = from /\ pc'[t] = to /\ \A u \in Threads \ {t} : pc'[u] = pc[u]
  BY DEF TypeInv, Goto
<1> QED
  BY <1>1 DEF SignalInv

\* A step that leaves the quota alone: after a signal the target does not go
\* past its test under the lock.
LEMMA QuotaKept ==
  ASSUME TypeInv, QuotaInv, NEW t \in Threads, NEW from, NEW to, Goto(t, from, to), Completes(t, from),
         UNCHANGED <<g_abortSignalReceived, quota>>,
         handler' => handler \/ t = AbortTarget,
         (t = AbortTarget /\ g_abortSignalReceived /\ to \in PastTest) => from \in PastTest,
         from = "unlock" => to = "loop"
  PROVE  QuotaInv'
<1>1. pc[t] = from /\ pc'[t] = to /\ \A u \in Threads \ {t} : pc'[u] = pc[u]
  BY DEF TypeInv, Goto
<1>2. handler' \/ g_abortSignalReceived' => AbortTarget \in Threads
  BY DEF QuotaInv
<1>3. ASSUME g_abortSignalReceived, t = AbortTarget
      PROVE  opsCompleted'[t] + (IF to \in PastTest THEN 1 ELSE 0)
                <= opsCompleted[t] + (IF from \in PastTest THEN 1 ELSE 0)
  <2>1. opsCompleted[t] \in Nat
    BY DEF TypeInv
  <2>2. opsCompleted'[t] = opsCompleted[t] + (IF from = "unlock" THEN 1 ELSE 0)
    BY <2>1 DEF TypeInv, Completes
  <2>3. from = "unlock" => from \in PastTest /\ to \notin PastTest
    BY DEF PastTest
  <2> QED
    BY <1>3, <2>1, <2>2, <2>3
<1>4. ASSUME g_abortSignalReceived
      PROVE  opsCompleted'[AbortTarget] + (IF pc'[AbortTarget] \in PastTest THEN 1 ELSE 0) <= quota
  <2>1. AbortTarget \in Threads
    BY <1>4 DEF QuotaInv
  <2>2. CASE t = AbortTarget
    <3>1. /\ opsCompleted[t] \in Nat /\ quota \in Nat
          /\ opsCompleted[t] + (IF from \in PastTest THEN 1 ELSE 0) <= quota
      BY <1>1, <1>4, <2>2 DEF QuotaInv, TypeInv
    <3>2. opsCompleted'[t] \in Nat
      BY <3>1 DEF TypeInv, Completes
    <3> QED
      BY <1>1, <1>3, <1>4, <2>2, <3>1, <3>2
  <2>3. CASE t # AbortTarget
    <3>1. opsCompleted'[AbortTarget] = opsCompleted[AbortTarget] /\ pc'[AbortTarget] = pc[AbortTarget]
      BY <1>1, <2>1, <2>3 DEF TypeInv, Completes
    <3> QED
      BY <1>4, <3>1 DEF QuotaInv
  <2> QED
    BY <2>2, <2>3
<1> QED
  BY <1>2, <1>4 DEF QuotaInv

\* A step that leaves the resource alone.
LEMMA ResourceKept ==
  ASSUME TypeInv, ClaimInv, ResourceInv,
         NEW t \in Threads, NEW from, NEW to, Goto(t, from, to), Completes(t, from),
         UNCHANGED resource, from # "recordWrite", to \notin Writing, from = "unlock" => to = "loop"
  PROVE  ResourceInv'
<1>1. Writing \in SUBSET Taken /\ {"unlock"} \in SUBSET Taken
      /\ Readers \in SUBSET Threads /\ Writers \in SUBSET Threads
  BY DEF Writing, Taken, Claimed, Threads
<1>2. Kept(Writing, from, to) /\ Kept({"unlock"}, from, to)
  BY DEF Kept, Completes, Writing
<1>3. /\ Count(Writing, Writers)' = Count(Writing, Writers)
      /\ Count({"unlock"}, Writers)' = Count({"unlock"}, Writers)
      /\ Count({"unlock"}, Readers)' = Count({"unlock"}, Readers)
  BY <1>1, <1>2, CountMove DEF ClaimInv
<1> QED
  BY <1>3 DEF ResourceInv, resource

\* The four ways of a thread with the lock.
LEMMA LockKept ==
  ASSUME TypeInv, LockInv, NEW t \in Threads, NEW from, NEW to, Goto(t, from, to),
         \/ mode' = mode /\ from # "blocked" /\ to # "blocked" /\ (from \in Holding <=> to \in Holding)
         \/ Lock!Request(t) /\ to = "blocked"
         \/ Lock!AcquireRead(t) /\ t \in Readers /\ to \in Holding
         \/ Lock!AcquireWrite(t) /\ to \in Holding
         \/ Lock!Release(t) /\ to \notin Holding \cup {"blocked"}
  PROVE  LockInv'
<1>1. pc[t] = from /\ pc'[t] = to /\ \A u \in Threads \ {t} : pc'[u] = pc[u]
  BY DEF TypeInv, Goto
<1> USE WorkloadAssumption DEF LockInv, Threads, Lock!Request, Lock!AcquireRead, Lock!AcquireWrite,
        Lock!Release, Lock!Inside
<1>2. \A u \in Threads \ {t} : mode'[u] = mode[u]
  BY DEF TypeInv
<1>3. mode'[t] = IF to = "blocked" THEN "waiting" ELSE IF to \in Holding THEN "in" ELSE "out"
  <2>1. "blocked" \notin Holding
    BY DEF Holding
  <2> QED
    BY <1>1, <2>1 DEF TypeInv
<1>4. \A u \in Threads : mode'[u] = IF pc'[u] = "blocked" THEN "waiting"
                                    ELSE IF pc'[u] \in Holding THEN "in" ELSE "out"
  BY <1>1, <1>2, <1>3
<1>5. ASSUME NEW w \in Writers, NEW u \in Threads, mode'[w] = "in", mode'[u] = "in" PROVE u = w
  <2>1. CASE mode[t] = "in" \/ mode'[t] # "in"
    BY <1>2, <1>5, <2>1 DEF TypeInv
  <2>2. CASE Lock!AcquireRead(t) /\ t \in Readers
    BY <1>2, <1>5, <2>2 DEF TypeInv
  <2>3. CASE Lock!AcquireWrite(t)
    BY <1>2, <1>5, <2>3 DEF TypeInv
  <2> QED
    BY <1>1, <2>1, <2>2, <2>3 DEF TypeInv
<1> QED
  BY <1>4, <1>5
-----------------------------------------------------------------------------
(* The steps. *)

\* The state in which runSimulation begins.
Fresh ==
  /\ main = "create"
  /\ pc = [t \in Threads |-> "unborn"]
  /\ mode = [t \in Threads |-> "out"]
  /\ opsRemaining = TotalOps
  /\ opsCompleted = [t \in Threads |-> 0]
  /\ data_ = 0 /\ readCount_ = 0 /\ writeCount_ = 0
  /\ seen = [t \in Threads |-> 0]

\* A simulation begins with nothing claimed and nothing done.
LEMMA FreshInv == Fresh => PlaceInv /\ LockInv /\ OpsBalance /\ ClaimInv /\ ResourceInv
<1> SUFFICES ASSUME Fresh PROVE PlaceInv /\ LockInv /\ OpsBalance /\ ClaimInv /\ ResourceInv
  OBVIOUS
<1>1. PlaceInv /\ LockInv
  BY DEF Fresh, PlaceInv, LockInv, Holding, Threads
<1>2. ASSUME NEW L, "unborn" \notin L, NEW S \in SUBSET Threads PROVE Tally(Stage(L), S) = {}
  <2>1. \A t \in S : Stage(L)[t] = 0
    BY <1>2 DEF Fresh, Stage
  <2> QED
    BY <2>1 DEF Tally
<1>3. ASSUME NEW L, "unborn" \notin L PROVE At(L) = {}
  BY <1>3 DEF Fresh, At
<1>4. IsFiniteSet({}) /\ Cardinality({}) = 0
  BY FS_EmptySet
<1>5. /\ Tally(Stage(Taken), Threads) = {} /\ Tally(Stage(Writing), Writers) = {}
      /\ Tally(Stage({"unlock"}), Writers) = {} /\ Tally(Stage({"unlock"}), Readers) = {}
  BY <1>2 DEF Taken, Claimed, Writing, Threads
<1>6. At({"unclaim"}) = {} /\ At(Claimed \cup {"unclaim", "aborted"}) = {}
  BY <1>3 DEF Claimed
<1>7. Done(Threads) = {}
  BY DEF Fresh, Done
<1>8. OpsBalance
  BY <1>4, <1>6, <1>7, WorkloadAssumption DEF Fresh, OpsBalance, Ops
<1>9. ClaimInv
  <2>1. Failing = 0 /\ Count(Taken, Threads) = 0 /\ opsRemaining = TotalOps /\ TotalOps \in Nat
    BY <1>4, <1>5, <1>6, WorkloadAssumption DEF Fresh, Failing, Count
  <2>2. \A t \in Threads : pc[t] # "exited"
    BY DEF Fresh
  <2>3. IsFiniteSet(Tally(Stage(Taken), Threads))
    BY <1>4, <1>5
  <2> QED
    BY <2>1, <2>2, <2>3 DEF ClaimInv
<1>10. ResourceInv
  BY <1>4, <1>5 DEF Fresh, ResourceInv, Count
<1> QED
  BY <1>1, <1>8, <1>9, <1>10

\* The first simulation begins so, and without a signal.
LEMMA InitInv == Init => IndInv
<1> SUFFICES ASSUME Init PROVE IndInv
  OBVIOUS
<1>1. Fresh
  BY DEF Init, Fresh, Lock!Init, Threads
<1>2. TypeInv
  <2>1. sim = 1 /\ signalSim = 0 /\ quota = 0 /\ TotalOps \in Nat /\ Sims \in Nat \ {0}
    BY WorkloadAssumption DEF Init
  <2>2. sim \in 1..Sims /\ signalSim \in 0..Sims
    BY <2>1
  <2>3. handler \in BOOLEAN /\ g_abortSignalReceived \in BOOLEAN
    BY Zenon DEF Init
  <2>4. /\ main \in {"create", "join", "finished"} /\ opsRemaining \in Int
        /\ opsCompleted \in [Threads -> Nat] /\ seen \in [Threads -> Nat]
        /\ data_ \in Nat /\ readCount_ \in Nat /\ writeCount_ \in Nat
    BY <1>1, <2>1 DEF Fresh
  <2>5. mode \in [Threads -> Lock!Modes]
    BY <1>1 DEF Fresh, Lock!Modes
  <2> QED
    BY <1>1, <2>1, <2>2, <2>3, <2>4, <2>5 DEF Fresh, TypeInv
<1>3. SignalInv /\ QuotaInv
  BY DEF Init, SignalInv, QuotaInv, Taken, Claimed
<1> QED
  BY <1>1, <1>2, <1>3, FreshInv DEF IndInv

\* main: the creation of a thread, the join, the next simulation; the signal.
LEMMA MainKeepsInv ==
  ASSUME IndInv, mainStep \/ sigusr1
  PROVE  IndInv'
<1> USE DEF IndInv
<1>1. ASSUME NEW t \in Threads, create(t) PROVE IndInv'
  <2> USE <1>1 DEF create, resource, process
  <2>1. Goto(t, "unborn", "start") /\ Completes(t, "unborn")
    BY DEF Completes
  <2>2. TypeInv'
    BY DEF TypeInv, Goto
  <2>3. PlaceInv'
    BY <2>1, PlaceKept
  <2>4. OpsBalance' /\ ClaimInv'
    BY <2>1, ClaimKept DEF Taken, Claimed
  <2>5. SignalInv'
    BY <2>1, SignalKept DEF Taken, Claimed
  <2>6. LockInv'
    BY <2>1, LockKept DEF Holding
  <2>7. ResourceInv'
    BY <2>1, ResourceKept DEF Writing
  <2>8. QuotaInv'
    BY <2>1, QuotaKept DEF PastTest
  <2> QED
    BY <2>2, <2>3, <2>4, <2>5, <2>6, <2>7, <2>8
<1>2. CASE all_created \/ join
  <2> USE <1>2 DEF all_created, join, resource, process
  <2>1. UNCHANGED <<pc, mode, opsRemaining, opsCompleted, resource, process>>
    OBVIOUS
  <2>2. TypeInv' /\ LockInv' /\ SignalInv' /\ QuotaInv'
    BY DEF TypeInv, LockInv, SignalInv, QuotaInv
  <2>3. PlaceInv'
    BY DEF PlaceInv, At
  <2>4. \A L : At(L)' = At(L) /\ Stage(L)' = Stage(L)
    BY DEF At, Stage
  <2>5. OpsBalance' /\ ClaimInv' /\ ResourceInv'
    BY <2>4 DEF OpsBalance, Ops, Done, ClaimInv, Failing, Count, ResourceInv
  <2> QED
    BY <2>2, <2>3, <2>5
<1>3. CASE next_simulation
  <2> USE <1>3 DEF next_simulation
  <2>1. Fresh'
    BY DEF Fresh
  <2>2. PlaceInv' /\ LockInv' /\ OpsBalance' /\ ClaimInv' /\ ResourceInv'
    BY <2>1, FreshInv, PTL
  <2>3. TypeInv'
    BY WorkloadAssumption DEF TypeInv, Lock!Modes
  <2>4. SignalInv' /\ QuotaInv'
    BY DEF SignalInv, QuotaInv, PastTest, Taken, Claimed
  <2> QED
    BY <2>2, <2>3, <2>4
<1>4. CASE sigusr1
  <2> USE <1>4 DEF sigusr1
  <2>0. TypeInv'
    <3>1. sim \in 0..Sims /\ sim # 0
      BY WorkloadAssumption DEF TypeInv
    <3>2. signalSim' \in 0..Sims /\ g_abortSignalReceived' \in BOOLEAN
      BY <3>1
    <3>3. AbortTarget \in Threads /\ opsCompleted[AbortTarget] \in Nat
      BY DEF TypeInv, QuotaInv
    <3> QED
      BY <3>2, <3>3 DEF TypeInv, resource
  <2>1. SignalInv' /\ QuotaInv'
    <3>1. AbortTarget \in Threads /\ opsCompleted[AbortTarget] \in Nat
      BY DEF TypeInv, QuotaInv
    <3> QED
      BY <3>1 DEF SignalInv, QuotaInv, TypeInv
  <2>2. PlaceInv' /\ LockInv'
    BY DEF PlaceInv, LockInv
  <2>3. \A L : At(L)' = At(L) /\ Stage(L)' = Stage(L)
    BY DEF At, Stage
  <2>4. signalSim' # 0
    BY DEF TypeInv
  <2>5. OpsBalance' /\ ClaimInv' /\ ResourceInv'
    BY <2>3, <2>4 DEF OpsBalance, Ops, Done, ClaimInv, Failing, Count, ResourceInv, resource
  <2> QED
    BY <2>0, <2>1, <2>2, <2>5
<1> QED
  BY <1>1, <1>2, <1>3, <1>4 DEF mainStep

\* The head of the loop, and the call of the lock.
LEMMA LoopKeepsInv ==
  ASSUME IndInv, NEW t \in Threads,
         start(t) \/ loop_abort(t) \/ loop_continue(t) \/ lock_call(t)
  PROVE  IndInv'
<1> USE DEF IndInv, start, loop_abort, loop_continue, lock_call, process
<1> DEFINE Edge(from, to) ==
             \/ from = "start" /\ to = "loop" /\ mode' = mode /\ handler' = (handler \/ t = AbortTarget)
             \/ from = "loop" /\ to = "exited" /\ t = AbortTarget /\ g_abortSignalReceived /\ mode' = mode /\ handler' = handler
             \/ from = "loop" /\ to = "claim" /\ ~(t = AbortTarget /\ g_abortSignalReceived) /\ mode' = mode /\ handler' = handler
             \/ from = "call" /\ to = "blocked" /\ Lock!Request(t) /\ handler' = handler
<1>1. PICK from, to : Goto(t, from, to) /\ Edge(from, to)
  OBVIOUS
<1>2. /\ UNCHANGED <<main, opsRemaining, opsCompleted, resource, sim, g_abortSignalReceived, signalSim, quota>>
      /\ handler' \in BOOLEAN
  BY DEF TypeInv
<1>3. Completes(t, from)
  BY <1>1, <1>2 DEF Completes
<1>4. TypeInv'
  BY <1>1, <1>2 DEF TypeInv, Goto, Claimed, resource, Lock!Modes, Lock!Request
<1>5. PlaceInv'
  BY <1>1, <1>2, PlaceKept
<1>6. OpsBalance' /\ ClaimInv'
  BY <1>1, <1>2, <1>3, ClaimKept DEF Taken, Claimed, SignalInv
<1>7. SignalInv'
  BY <1>1, <1>2, SignalKept DEF Taken, Claimed
<1>8. LockInv'
  BY <1>1, LockKept DEF Holding
<1>9. ResourceInv'
  BY <1>1, <1>2, <1>3, ResourceKept DEF Writing
<1>10. QuotaInv'
  BY <1>1, <1>2, <1>3, QuotaKept DEF PastTest
<1> QED
  BY <1>4, <1>5, <1>6, <1>7, <1>8, <1>9, <1>10

\* A claim, and the withdrawal of one that failed.
LEMMA ClaimKeepsInv ==
  ASSUME IndInv, NEW t \in Threads, claim(t) \/ unclaim(t)
  PROVE  IndInv'
<1> USE DEF IndInv, claim, unclaim, process
<1> DEFINE Going == Claimed \cup {"unclaim", "aborted"}
           Edge(from, to) ==
             \/ from = "claim" /\ to = "call" /\ opsRemaining > 0 /\ opsRemaining' = opsRemaining - 1
             \/ from = "claim" /\ to = "unclaim" /\ opsRemaining <= 0 /\ opsRemaining' = opsRemaining - 1
             \/ from = "unclaim" /\ to = "exited" /\ opsRemaining' = opsRemaining + 1
<1>1. PICK from, to : Goto(t, from, to) /\ Edge(from, to)
  OBVIOUS
<1>2. UNCHANGED <<main, mode, opsCompleted, resource, process>>
  OBVIOUS
<1>3. Completes(t, from)
  BY <1>1, <1>2 DEF Completes
<1>4. TypeInv'
  <2>1. opsRemaining' \in Int
    BY <1>1 DEF TypeInv
  <2> QED
    BY <1>1, <1>2, <2>1 DEF TypeInv, Goto, Claimed, resource
<1>5. PlaceInv'
  BY <1>1, <1>2, PlaceKept
<1>6. SignalInv' /\ QuotaInv'
  BY <1>1, <1>2, <1>3, SignalKept, QuotaKept DEF Taken, Claimed, PastTest
<1>7. LockInv'
  BY <1>1, <1>2, LockKept DEF Holding
<1>8. ResourceInv'
  BY <1>1, <1>2, <1>3, ResourceKept DEF Writing
<1>9. /\ "claim" \notin Taken \cup Going /\ "call" \in Taken \cap Going
      /\ "unclaim" \notin Taken /\ "unclaim" \in Going /\ "exited" \notin Taken \cup Going
      /\ Taken \in SUBSET Taken
  BY DEF Taken, Claimed
<1>10. /\ IsFiniteSet(Tally(Stage(Taken), Threads)) /\ opsRemaining \in Int /\ TotalOps \in Nat
       /\ TypeInv
  BY WorkloadAssumption DEF ClaimInv, TypeInv
<1>11. /\ Count(Taken, Threads) \in Nat /\ Failing \in Nat /\ Cardinality(At(Going)) \in Nat
  BY <1>1, <1>3, <1>9, <1>10, CountMove, AtMove DEF Failing
<1>12. Ops(Threads)' = Ops(Threads)
  BY <1>2 DEF Ops, Done
<1>13. TotalOps - opsRemaining = Ops(Threads) + Cardinality(At(Going))
  BY DEF OpsBalance
<1>14. OpsBalance' <=> TotalOps - opsRemaining' = Ops(Threads)' + Cardinality(At(Going))'
  BY DEF OpsBalance
<1>15. Ops(Threads) \in Nat
  BY <1>9, <1>10, OpsIsCount, CountOrder
<1>16. pc[t] = from /\ pc'[t] = to /\ \A u \in Threads \ {t} : pc'[u] = pc[u]
  BY <1>1 DEF TypeInv, Goto
<1> HIDE DEF Going
<1>17. CASE from = "claim" /\ to = "call"
  <2>1. /\ IsFiniteSet(Tally(Stage(Taken), Threads))'
        /\ Count(Taken, Threads)' = Count(Taken, Threads) + 1
    BY <1>1, <1>3, <1>9, <1>10, <1>17, CountMove
  <2>2. Failing' = Failing
    BY <1>1, <1>10, <1>17, AtMove DEF Failing
  <2>3. Cardinality(At(Going))' = Cardinality(At(Going)) + 1
    BY <1>1, <1>9, <1>10, <1>17, AtMove
  <2>4. OpsBalance'
    BY <1>1, <1>10, <1>11, <1>12, <1>13, <1>14, <1>15, <1>17, <2>3
  <2>5. ClaimInv'
    <3>1. opsRemaining > 0 /\ opsRemaining' = opsRemaining - 1
      BY <1>1, <1>17
    <3>2. \A u \in Threads : pc'[u] = "exited" => u = AbortTarget /\ signalSim' # 0
      BY <1>2, <1>10, <1>11, <1>16, <1>17, <3>1 DEF ClaimInv
    <3> QED
      BY <1>10, <1>11, <2>1, <2>2, <3>1, <3>2 DEF ClaimInv
  <2> QED
    BY <1>4, <1>5, <1>6, <1>7, <1>8, <2>4, <2>5
<1>18. CASE to \in {"unclaim", "exited"}
  <2>1. Kept(Taken, from, to)
    BY <1>1, <1>2, <1>9, <1>18 DEF Kept
  <2>2. /\ Tally(Stage(Taken), Threads)' = Tally(Stage(Taken), Threads)
        /\ Count(Taken, Threads)' = Count(Taken, Threads)
    BY <1>1, <1>3, <1>9, <1>10, <2>1, CountMove
  <2>3. CASE to = "unclaim"
    <3>1. Failing' = Failing + 1
      BY <1>1, <1>10, <2>3, AtMove DEF Failing
    <3>2. Cardinality(At(Going))' = Cardinality(At(Going)) + 1
      BY <1>1, <1>9, <1>10, <2>3, AtMove
    <3>3. opsRemaining <= 0 /\ opsRemaining' = opsRemaining - 1
      BY <1>1, <2>3
    <3>4. OpsBalance'
      <4>1. TotalOps - opsRemaining' = Ops(Threads) + Cardinality(At(Going))'
        BY <1>10, <1>11, <1>13, <1>15, <3>2, <3>3
      <4> QED
        BY <1>12, <1>14, <4>1
    <3>5. opsRemaining' + Failing' = opsRemaining + Failing /\ opsRemaining + Failing = 0
      BY <1>10, <1>11, <3>1, <3>3 DEF ClaimInv
    <3>6. ClaimInv'
      BY <1>10, <1>11, <2>2, <3>5 DEF ClaimInv
    <3> QED
      BY <1>4, <1>5, <1>6, <1>7, <1>8, <3>4, <3>6
  <2>4. CASE to = "exited"
    <3>1. Failing' = Failing - 1
      BY <1>1, <1>10, <2>4, AtMove DEF Failing
    <3>2. Cardinality(At(Going))' = Cardinality(At(Going)) - 1
      BY <1>1, <1>9, <1>10, <2>4, AtMove
    <3>3. opsRemaining' = opsRemaining + 1
      BY <1>1, <2>4
    <3>4. OpsBalance'
      <4>1. TotalOps - opsRemaining' = Ops(Threads) + Cardinality(At(Going))'
        BY <1>10, <1>11, <1>13, <1>15, <3>2, <3>3
      <4> QED
        BY <1>12, <1>14, <4>1
    <3>5. Failing > 0
      <4>1. Cardinality(At({"unclaim"}))' \in Nat
        <5>1. IsFiniteSet(At({"unclaim"})')
          BY FS_Subset, WorkloadAssumption DEF At
        <5> QED
          BY <5>1, FS_CardinalityType
      <4> QED
        BY <1>11, <3>1, <4>1 DEF Failing
    <3>6. opsRemaining' + Failing' = opsRemaining + Failing /\ opsRemaining + Failing = 0
      BY <1>10, <1>11, <3>1, <3>3, <3>5 DEF ClaimInv
    <3>7. ClaimInv'
      BY <1>10, <1>11, <2>2, <3>6 DEF ClaimInv
    <3> QED
      BY <1>4, <1>5, <1>6, <1>7, <1>8, <3>4, <3>7
  <2> QED
    BY <1>18, <2>3, <2>4
<1> QED
  BY <1>1, <1>17, <1>18

\* An operation under the lock: its accesses to the resource one by one, and
\* its end, by the unlock or by the abort.
LEMMA OperationKeepsInv ==
  ASSUME IndInv, NEW t \in Threads,
         \/ /\ t \in Readers
            /\ readLock(t) \/ recordRead_load(t) \/ recordRead_store(t) \/ readUnlock(t)
         \/ /\ t \in Writers
            /\ \/ writeLock(t) \/ locked_abort(t) \/ locked_continue(t)
               \/ increment(t) \/ recordWrite(t) \/ writeUnlock(t)
  PROVE  IndInv'
<1> USE DEF IndInv
<1> DEFINE Enter(from, to) ==
             \/ t \in Readers /\ from = "blocked" /\ to = "record_load" /\ Lock!AcquireRead(t)
             \/ t \in Writers /\ from = "blocked" /\ to = "locked" /\ Lock!AcquireWrite(t)
           Leave(from, to) ==
             /\ Lock!Release(t)
             /\ \/ from = "unlock" /\ to = "loop"
                \/ from = "locked" /\ to = "aborted" /\ t \in Writers /\ t = AbortTarget /\ g_abortSignalReceived
           Pass(from, to) == /\ t \in Writers /\ from = "locked" /\ to = "increment" /\ mode' = mode
                             /\ ~(t = AbortTarget /\ g_abortSignalReceived)
           Load(from, to) == /\ t \in Readers /\ from = "record_load" /\ to = "record_store"
                             /\ seen' = [seen EXCEPT ![t] = readCount_]
                             /\ UNCHANGED <<data_, readCount_, writeCount_>>
           Store(from, to) == /\ t \in Readers /\ from = "record_store" /\ to = "unlock"
                              /\ readCount_' = seen[t] + 1 /\ UNCHANGED <<data_, writeCount_, seen>>
           Begin(from, to) == /\ t \in Writers /\ from = "increment" /\ to = "recordWrite"
                              /\ data_' = data_ + 1 /\ UNCHANGED <<readCount_, writeCount_, seen>>
           Record(from, to) == /\ t \in Writers /\ from = "recordWrite" /\ to = "unlock"
                               /\ writeCount_' = writeCount_ + 1 /\ UNCHANGED <<data_, readCount_, seen>>
           Access(from, to) == mode' = mode /\ (Load(from, to) \/ Store(from, to) \/ Begin(from, to) \/ Record(from, to))
           Edge(from, to) == \/ UNCHANGED resource /\ (Enter(from, to) \/ Leave(from, to) \/ Pass(from, to))
                             \/ Access(from, to)
<1>1. PICK from, to : Goto(t, from, to) /\ Edge(from, to) /\ Completes(t, from)
  <2> USE DEF Completes
  <2>1. CASE t \in Readers /\ readLock(t)
    BY <2>1 DEF readLock
  <2>2. CASE t \in Readers /\ recordRead_load(t)
    BY <2>2 DEF recordRead_load
  <2>3. CASE t \in Readers /\ recordRead_store(t)
    BY <2>3 DEF recordRead_store
  <2>4. CASE readUnlock(t) \/ writeUnlock(t)
    BY <2>4 DEF readUnlock, writeUnlock
  <2>5. CASE t \in Writers /\ writeLock(t)
    BY <2>5 DEF writeLock
  <2>6. CASE t \in Writers /\ locked_abort(t)
    BY <2>6 DEF locked_abort
  <2>7. CASE t \in Writers /\ locked_continue(t)
    BY <2>7 DEF locked_continue
  <2>8. CASE t \in Writers /\ increment(t)
    BY <2>8 DEF increment
  <2>9. CASE t \in Writers /\ recordWrite(t)
    BY <2>9 DEF recordWrite
  <2> QED
    BY <2>1, <2>2, <2>3, <2>4, <2>5, <2>6, <2>7, <2>8, <2>9
<1>2. UNCHANGED <<main, opsRemaining, sim, handler, g_abortSignalReceived, signalSim, quota>>
  BY DEF readLock, recordRead_load, recordRead_store, readUnlock, writeLock, locked_abort,
         locked_continue, increment, recordWrite, writeUnlock, process
<1>3. t \in Readers => t \notin Writers
  BY WorkloadAssumption
<1>4. PlaceInv'
  BY <1>1, <1>2, <1>3, PlaceKept
<1>5. OpsBalance' /\ ClaimInv'
  BY <1>1, <1>2, ClaimKept DEF Taken, Claimed
<1>6. SignalInv' /\ QuotaInv'
  <2>1. SignalInv'
    BY <1>1, <1>2, SignalKept DEF Taken, Claimed
  <2>2. (t = AbortTarget /\ g_abortSignalReceived /\ to \in PastTest) => from \in PastTest
    <3>1. t = AbortTarget => t \notin Readers
      BY WorkloadAssumption DEF Threads
    <3> QED
      BY <1>1, <3>1 DEF PastTest
  <2>3. from = "unlock" => to = "loop"
    BY <1>1
  <2>4. QuotaInv'
    BY <1>1, <1>2, <2>2, <2>3, QuotaKept
  <2> QED
    BY <2>1, <2>4
<1>7. LockInv'
  BY <1>1, LockKept DEF Holding
<1>8. TypeInv'
  <2>1. opsCompleted' \in [Threads -> Nat]
    <3>1. opsCompleted \in [Threads -> Nat] /\ opsCompleted[t] + 1 \in Nat
      BY DEF TypeInv
    <3> QED
      BY <1>1, <3>1 DEF Completes
  <2>2. mode' \in [Threads -> Lock!Modes]
    BY <1>1 DEF TypeInv, Lock!Modes, Lock!AcquireRead, Lock!AcquireWrite, Lock!Release
  <2>3. pc' \in [Threads -> Claimed \cup {"unborn", "start", "loop", "claim", "unclaim", "exited", "aborted"}]
    BY <1>1 DEF TypeInv, Goto, Claimed
  <2>4. /\ data_' \in Nat /\ readCount_' \in Nat /\ writeCount_' \in Nat
        /\ seen' \in [Threads -> Nat]
    <3>1. /\ data_ \in Nat /\ readCount_ \in Nat /\ writeCount_ \in Nat
          /\ seen \in [Threads -> Nat] /\ seen[t] \in Nat
      BY DEF TypeInv
    <3> QED
      BY <1>1, <3>1 DEF resource
  <2> QED
    BY <1>2, <2>1, <2>2, <2>3, <2>4 DEF TypeInv
<1>9. ResourceInv'
  <2>1. CASE UNCHANGED resource /\ (Enter(from, to) \/ Leave(from, to) \/ Pass(from, to))
    BY <1>1, <2>1, ResourceKept DEF Writing
  <2>2. /\ Writing \in SUBSET Taken /\ {"unlock"} \in SUBSET Taken
        /\ Readers \in SUBSET Threads /\ Writers \in SUBSET Threads
    BY DEF Writing, Taken, Claimed, Threads
  <2>3. TypeInv /\ IsFiniteSet(Tally(Stage(Taken), Threads))
    BY DEF ClaimInv
  <2>4. /\ Count(Writing, Writers) \in Nat /\ Count({"unlock"}, Writers) \in Nat
        /\ Count({"unlock"}, Readers) \in Nat
    BY <1>1, <2>2, <2>3, CountMove
  <2>5. CASE Load(from, to)
    <3>1. Kept(Writing, from, to) /\ Kept({"unlock"}, from, to)
      BY <1>1, <2>5 DEF Kept, Completes, Writing
    <3>2. /\ Count(Writing, Writers)' = Count(Writing, Writers)
          /\ Count({"unlock"}, Writers)' = Count({"unlock"}, Writers)
          /\ Count({"unlock"}, Readers)' = Count({"unlock"}, Readers)
      BY <1>1, <2>2, <2>3, <3>1, CountMove
    <3>3. \A u \in Threads : seen'[u] \in {seen[u], readCount_}
      BY <2>5 DEF TypeInv
    <3> QED
      BY <2>5, <3>2, <3>3 DEF ResourceInv
  <2>6. CASE Store(from, to)
    <3>1. from \notin Writing /\ to \in Writing /\ from # "unlock" /\ to \in {"unlock"} /\ t \notin Writers
      BY <1>3, <2>6 DEF Writing
    <3>2. /\ Count(Writing, Writers)' = Count(Writing, Writers) + 0
          /\ Count({"unlock"}, Writers)' = Count({"unlock"}, Writers) + 0
          /\ Count({"unlock"}, Readers)' = Count({"unlock"}, Readers) + 1
      BY <1>1, <2>2, <2>3, <2>6, <3>1, CountMove
    <3>3. seen[t] \in Nat /\ \A u \in Threads : seen[u] \in Nat
      BY DEF TypeInv
    <3> QED
      BY <2>4, <2>6, <3>2, <3>3 DEF ResourceInv
  <2>7. CASE Begin(from, to)
    <3>1. /\ from \notin Writing /\ to \in Writing /\ from # "unlock"
          /\ Kept({"unlock"}, from, to)
      BY <1>1, <2>7 DEF Kept, Completes, Writing
    <3>2. /\ Count(Writing, Writers)' = Count(Writing, Writers) + 1
          /\ Count({"unlock"}, Writers)' = Count({"unlock"}, Writers)
          /\ Count({"unlock"}, Readers)' = Count({"unlock"}, Readers)
      BY <1>1, <2>2, <2>3, <2>7, <3>1, CountMove
    <3> QED
      BY <2>7, <3>2 DEF ResourceInv
  <2>8. CASE Record(from, to)
    <3>1. /\ Kept(Writing, from, to) /\ t \notin Readers
          /\ from \notin {"unlock"} /\ to \in {"unlock"} /\ from # "unlock"
      BY <1>1, <1>3, <2>8 DEF Kept, Completes, Writing
    <3>2. /\ Count(Writing, Writers)' = Count(Writing, Writers)
          /\ Count({"unlock"}, Writers)' = Count({"unlock"}, Writers) + 1
          /\ Count({"unlock"}, Readers)' = Count({"unlock"}, Readers) + 0
      BY <1>1, <2>2, <2>3, <2>8, <3>1, CountMove
    <3> QED
      BY <2>4, <2>8, <3>2 DEF ResourceInv
  <2> QED
    BY <1>1, <2>1, <2>5, <2>6, <2>7, <2>8
<1> QED
  BY <1>4, <1>5, <1>6, <1>7, <1>8, <1>9

\* Every step of threads, main and signal keeps the invariant.
LEMMA NextInv == IndInv /\ [Next]_vars => IndInv'
<1> SUFFICES ASSUME IndInv, [Next]_vars PROVE IndInv'
  OBVIOUS
<1>1. ASSUME NEW r \in Readers, readerThread(r) PROVE IndInv'
  <2>1. r \in Threads
    BY DEF Threads
  <2> QED
    BY <1>1, <2>1, LoopKeepsInv, ClaimKeepsInv, OperationKeepsInv DEF readerThread, threadStep
<1>2. ASSUME NEW w \in Writers, writerThread(w) PROVE IndInv'
  <2>1. w \in Threads
    BY DEF Threads
  <2> QED
    BY <1>2, <2>1, LoopKeepsInv, ClaimKeepsInv, OperationKeepsInv DEF writerThread, threadStep
<1>3. CASE UNCHANGED vars
  <2> USE <1>3 DEF vars, resource, process
  <2>1. TypeInv' /\ PlaceInv' /\ LockInv' /\ SignalInv' /\ QuotaInv'
    BY DEF IndInv, TypeInv, PlaceInv, LockInv, SignalInv, QuotaInv
  <2>2. \A L : At(L)' = At(L) /\ Stage(L)' = Stage(L)
    BY DEF At, Stage
  <2>3. OpsBalance' /\ ClaimInv' /\ ResourceInv'
    BY <2>2 DEF IndInv, OpsBalance, Ops, Done, ClaimInv, Failing, Count, ResourceInv
  <2> QED
    BY <2>1, <2>3 DEF IndInv
<1> QED
  BY <1>1, <1>2, <1>3, MainKeepsInv DEF Next
-----------------------------------------------------------------------------
(* What follows from the invariant. *)

\* In a finished simulation every count of operations is that of the
\* completed ones, and no claim is left open.
LEMMA FinishedCounts ==
  ASSUME IndInv, main = "finished"
  PROVE  /\ \A L \in SUBSET Claimed, S \in SUBSET Threads : Count(L, S) = Ops(S)
         /\ Failing = 0
         /\ At(Claimed \cup {"unclaim", "aborted"}) = At({"aborted"})
<1>1. \A t \in Threads : pc[t] \in {"exited", "aborted"}
  BY DEF IndInv, PlaceInv
<1>2. ASSUME NEW L \in SUBSET Claimed, NEW S \in SUBSET Threads PROVE Count(L, S) = Ops(S)
  <2>1. \A t \in Threads : pc[t] \notin L
    BY <1>1 DEF Claimed
  <2>2. Stage(L) = opsCompleted
    BY <2>1 DEF Stage, IndInv, TypeInv
  <2> QED
    BY <2>2 DEF Ops, Done, Count, Tally
<1>3. At({"unclaim"}) = {}
  BY <1>1 DEF At
<1>4. At(Claimed \cup {"unclaim", "aborted"}) = At({"aborted"})
  BY <1>1 DEF At, Claimed
<1> QED
  BY <1>2, <1>3, <1>4, FS_EmptySet DEF Failing

\* The inductive invariant holds throughout every execution.
THEOREM Invariance == Spec => []IndInv
  BY InitInv, NextInv, PTL DEF Spec

\* Every variable stays in its range: opsRemaining never falls below what all
\* threads failing to claim at once make it, and neither the threads' counts
\* nor those of the resource exceed totalOps.
THEOREM TypeCorrect == Spec => []TypeOK
<1>1. IndInv => TypeOK
  <2> SUFFICES ASSUME IndInv PROVE TypeOK
    OBVIOUS
  <2> USE DEF IndInv
  <2>1. TypeInv /\ IsFiniteSet(Tally(Stage(Taken), Threads)) /\ TotalOps \in Nat
        /\ Readers \in SUBSET Threads /\ Writers \in SUBSET Threads /\ Threads \in SUBSET Threads
    BY WorkloadAssumption DEF ClaimInv, Threads
  <2>2. Failing \in Nat /\ Failing <= Cardinality(Threads) /\ Cardinality(Threads) \in Nat
    <3>1. At({"unclaim"}) \in SUBSET Threads
      BY DEF At
    <3> QED
      BY <3>1, FS_Subset, FS_CardinalityType, WorkloadAssumption DEF Failing
  <2>3. {"unlock"} \in SUBSET Taken /\ Writing \in SUBSET Taken /\ {} \in SUBSET Taken /\ Taken \in SUBSET Taken
    BY DEF Writing, Taken, Claimed
  <2>4. Count(Taken, Threads) \in Nat /\ Count(Taken, Threads) <= TotalOps
    <3>1. Count(Taken, Threads) \in Nat
      BY <2>1, <2>3, CountOrder
    <3> QED
      BY <2>1, <2>2, <3>1 DEF ClaimInv, TypeInv
  <2>5. opsRemaining \in -Cardinality(Threads)..TotalOps
    BY <2>1, <2>2, <2>4 DEF ClaimInv, TypeInv
  <2>6. ASSUME NEW L \in SUBSET Taken, NEW S \in SUBSET Threads
        PROVE  Count(L, S) \in 0..TotalOps /\ IsFiniteSet(Tally(Stage(L), S))
    <3>1. Count(L, S) \in Nat /\ Count(L, S) <= Count(Taken, Threads) /\ IsFiniteSet(Tally(Stage(L), S))
      BY <2>1, <2>3, CountOrder
    <3> QED
      BY <2>1, <2>4, <3>1
  <2>7. opsCompleted \in [Threads -> 0..TotalOps]
    <3>1. Stage({}) = opsCompleted /\ opsCompleted \in [Threads -> Nat]
      BY DEF TypeInv, Stage
    <3>2. Cardinality(Tally(opsCompleted, Threads)) \in 0..TotalOps
          /\ IsFiniteSet(Tally(opsCompleted, Threads))
      BY <2>1, <2>3, <2>6, <3>1 DEF Count
    <3>3. \A t \in Threads : opsCompleted[t] <= Cardinality(Tally(opsCompleted, Threads))
      BY <2>1, <3>1, <3>2, TallyOfOne
    <3> QED
      BY <2>1, <3>1, <3>2, <3>3
  <2>8. data_ \in 0..TotalOps /\ writeCount_ \in 0..TotalOps
    BY <2>1, <2>3, <2>6 DEF ResourceInv
  <2>9. readCount_ \in 0..TotalOps /\ seen \in [Threads -> 0..TotalOps]
    <3>1. Count({"unlock"}, Readers) \in 0..TotalOps
      BY <2>1, <2>3, <2>6
    <3> QED
      BY <2>1, <3>1 DEF ResourceInv, TypeInv
  <2> QED
    BY <2>1, <2>5, <2>7, <2>8, <2>9 DEF TypeInv, TypeOK
<1> QED
  BY <1>1, Invariance, PTL

\* The shared counter balances at every moment: no operation is lost between
\* a claim and its end but the one of an aborted writer, and none is handed
\* out twice.
THEOREM OpsAlwaysBalance == Spec => []OpsBalance
<1>1. IndInv => OpsBalance
  BY DEF IndInv
<1> QED
  BY <1>1, Invariance, PTL

\* When runSimulation returns, totalOps operations have been done, or one
\* less when SIGUSR1 of this simulation caught the abort target after its
\* claim; unless there was nobody else to do them.
THEOREM AllOpsAlwaysDone == Spec => []AllOpsDone
<1>1. IndInv => AllOpsDone
  <2> SUFFICES ASSUME IndInv, main = "finished", Threads # {},
                      ~(signalSim # 0 /\ Threads = {AbortTarget})
               PROVE  \/ Ops(Threads) = TotalOps
                      \/ signalSim = sim /\ Ops(Threads) = TotalOps - 1
    BY DEF AllOpsDone
  <2> USE DEF IndInv
  <2>1. \A t \in Threads : pc[t] \in {"exited", "aborted"}
    BY DEF PlaceInv
  <2>2. \A t \in Threads : pc[t] = "aborted" => t = AbortTarget
    BY DEF PlaceInv, Threads
  <2>3. opsRemaining = 0
    <3>1. PICK t \in Threads : ~(t = AbortTarget /\ signalSim # 0)
      OBVIOUS
    <3>2. pc[t] = "exited"
      BY <2>1, <2>2, <3>1 DEF SignalInv
    <3>3. Failing = 0
      BY FinishedCounts
    <3> QED
      BY <3>1, <3>2, <3>3 DEF ClaimInv, TypeInv
  <2>4. TotalOps = Ops(Threads) + Cardinality(At({"aborted"})) /\ Ops(Threads) \in Nat
    <3>1. At(Claimed \cup {"unclaim", "aborted"}) = At({"aborted"})
      BY FinishedCounts
    <3>2. Ops(Threads) \in Nat
      BY OpsIsCount, CountOrder DEF ClaimInv, Taken
    <3> QED
      BY <2>3, <3>1, <3>2, WorkloadAssumption DEF OpsBalance
  <2>5. CASE At({"aborted"}) = {}
    <3>1. Cardinality(At({"aborted"})) = 0
      BY <2>5, FS_EmptySet
    <3> QED
      BY <2>4, <3>1
  <2>6. CASE At({"aborted"}) # {}
    <3>1. At({"aborted"}) = {AbortTarget} /\ AbortTarget \in Threads /\ pc[AbortTarget] = "aborted"
      BY <2>2, <2>6 DEF At
    <3>2. signalSim = sim
      BY <3>1 DEF SignalInv, Taken
    <3>3. Cardinality(At({"aborted"})) = 1
      BY <3>1, FS_Singleton
    <3> QED
      BY <2>4, <3>2, <3>3
  <2> QED
    BY <2>5, <2>6
<1> QED
  BY <1>1, Invariance, PTL

\* No reader is inside while a write is half done, and in the end the
\* resource holds exactly the writes that were completed.
THEOREM WritesSeenWhole == Spec => []ReadersSeeWholeWrites
<1>1. IndInv => ReadersSeeWholeWrites
  <2> SUFFICES ASSUME IndInv PROVE ReadersSeeWholeWrites
    OBVIOUS
  <2> USE DEF IndInv
  <2>1. ASSUME NEW r \in Threads, pc[r] \in {"record_load", "record_store"} PROVE data_ = writeCount_
    <3>1. mode[r] = "in"
      BY <2>1 DEF LockInv, Holding
    <3>2. \A w \in Writers : pc[w] # "recordWrite"
      <4> SUFFICES ASSUME NEW w \in Writers, pc[w] = "recordWrite" PROVE FALSE
        OBVIOUS
      <4>1. w \in Threads /\ mode[w] = "in"
        BY DEF LockInv, Holding, Threads
      <4> QED
        BY <2>1, <3>1, <4>1 DEF LockInv
    <3>3. \A w \in Writers : Stage(Writing)[w] = Stage({"unlock"})[w]
      BY <3>2 DEF Stage, Writing, Threads
    <3>4. Tally(Stage(Writing), Writers) = Tally(Stage({"unlock"}), Writers)
      BY <3>3 DEF Tally
    <3> QED
      BY <3>4 DEF ResourceInv, Count
  <2>2. main = "finished" => data_ = Ops(Writers) /\ writeCount_ = Ops(Writers)
    <3>1. Writing \in SUBSET Claimed /\ {"unlock"} \in SUBSET Claimed /\ Writers \in SUBSET Threads
      BY DEF Writing, Claimed, Threads
    <3> QED
      BY <3>1, FinishedCounts DEF ResourceInv
  <2> QED
    BY <2>1, <2>2 DEF ReadersSeeWholeWrites, At
<1> QED
  BY <1>1, Invariance, PTL

\* A reader that has recorded a read has left something in the counter.
ReadInv ==
  \A r \in Readers : opsCompleted[r] > 0 \/ pc[r] = "unlock" => readCount_ > 0

\* Every step keeps that: a store puts a positive number into the counter,
\* and nothing but the next simulation, with no reads yet, takes it to zero.
LEMMA ReadStep == TypeInv /\ ReadInv /\ [Next]_vars => ReadInv'
<1> SUFFICES ASSUME TypeInv, ReadInv, [Next]_vars PROVE ReadInv'
  OBVIOUS
<1> USE DEF ReadInv, Goto
<1>1. ASSUME NEW t \in Threads, threadStep(t) PROVE ReadInv'
  <2>1. readCount_' = readCount_ /\ opsCompleted' = opsCompleted
    BY <1>1 DEF threadStep, start, loop_abort, loop_continue, claim, unclaim, lock_call, resource
  <2>2. \E to \in {"loop", "exited", "claim", "unclaim", "call", "blocked"} : pc' = [pc EXCEPT ![t] = to]
    BY <1>1 DEF threadStep, start, loop_abort, loop_continue, claim, unclaim, lock_call
  <2> QED
    BY <2>1, <2>2 DEF TypeInv, Threads
<1>2. ASSUME NEW r \in Readers, readerThread(r) PROVE ReadInv'
  <2>1. r \in Threads
    BY DEF Threads
  <2>2. CASE recordRead_store(r)
    BY <2>1, <2>2 DEF recordRead_store, TypeInv
  <2>3. CASE readLock(r) \/ recordRead_load(r)
    <3>1. readCount_' = readCount_ /\ opsCompleted' = opsCompleted
      BY <2>3 DEF readLock, recordRead_load, resource
    <3>2. \E to \in {"record_load", "record_store"} : pc' = [pc EXCEPT ![r] = to]
      BY <2>3 DEF readLock, recordRead_load
    <3> QED
      BY <2>1, <3>1, <3>2 DEF TypeInv, Threads
  <2>4. CASE readUnlock(r)
    <3>1. pc[r] = "unlock" /\ readCount_' = readCount_
      BY <2>4 DEF readUnlock, resource
    <3>2. pc' = [pc EXCEPT ![r] = "loop"] /\ opsCompleted' = [opsCompleted EXCEPT ![r] = @ + 1]
      BY <2>4 DEF readUnlock
    <3> QED
      BY <2>1, <3>1, <3>2 DEF TypeInv, Threads
  <2> QED
    BY <1>1, <1>2, <2>1, <2>2, <2>3, <2>4 DEF readerThread
<1>3. ASSUME NEW w \in Writers, writerThread(w) PROVE ReadInv'
  <2>1. w \in Threads /\ w \notin Readers
    BY WorkloadAssumption DEF Threads
  <2>2. CASE writeLock(w) \/ locked_abort(w) \/ locked_continue(w) \/ increment(w) \/ recordWrite(w) \/ writeUnlock(w)
    <3>1. readCount_' = readCount_ /\ \A r \in Readers : pc'[r] = pc[r] /\ opsCompleted'[r] = opsCompleted[r]
      BY <2>1, <2>2 DEF writeLock, locked_abort, locked_continue, increment, recordWrite, writeUnlock,
                        TypeInv, Threads, resource
    <3> QED
      BY <3>1
  <2> QED
    BY <1>1, <1>3, <2>1, <2>2 DEF writerThread
<1>4. CASE mainStep
  <2>1. CASE next_simulation
    BY <2>1 DEF next_simulation, Threads
  <2>2. CASE (\E t \in Threads : create(t)) \/ all_created \/ join
    <3>1. readCount_' = readCount_ /\ opsCompleted' = opsCompleted
      BY <2>2 DEF create, all_created, join, resource
    <3>2. pc' = pc \/ \E t \in Threads : pc' = [pc EXCEPT ![t] = "start"]
      BY <2>2 DEF create, all_created, join
    <3> QED
      BY <3>1, <3>2 DEF TypeInv, Threads
  <2> QED
    BY <1>4, <2>1, <2>2 DEF mainStep
<1>5. CASE sigusr1 \/ UNCHANGED vars
  BY <1>5 DEF sigusr1, vars, resource
<1> QED
  BY <1>2, <1>3, <1>4, <1>5 DEF Next

\* The lost updates of ++readCount_ only lose: the counter never shows more
\* reads than the readers have made, whatever the interleaving, and it shows
\* some as soon as there are some.
THEOREM ReadsOnlyLost == Spec => []ReadCountOnlyLoses
<1>1. Init => ReadInv
  BY DEF Init, ReadInv, Threads
<1>2. IndInv => TypeInv
  BY DEF IndInv
<1>3. Spec => []ReadInv
  BY <1>1, <1>2, ReadStep, Invariance, PTL DEF Spec
<1>4. IndInv /\ ReadInv => ReadCountOnlyLoses
  <2> SUFFICES ASSUME IndInv, ReadInv PROVE ReadCountOnlyLoses
    OBVIOUS
  <2>1. ReadsMade = Tally(Stage({"unlock"}), Readers)
    BY DEF ReadsMade, Tally, Stage, Threads
  <2>2. readCount_ <= Cardinality(ReadsMade)
    BY <2>1 DEF IndInv, ResourceInv, Count
  <2>3. ASSUME readCount_ = 0 PROVE ReadsMade = {}
    <3>1. \A r \in Readers : opsCompleted[r] = 0 /\ pc[r] # "unlock"
      BY <2>3 DEF ReadInv, IndInv, TypeInv, Threads
    <3>2. \A r \in Readers : 1..(opsCompleted[r] + (IF pc[r] = "unlock" THEN 1 ELSE 0)) = {}
      BY <3>1
    <3> QED
      BY <3>2 DEF ReadsMade
  <2> QED
    BY <2>2, <2>3 DEF ReadCountOnlyLoses
<1> QED
  BY <1>3, <1>4, Invariance, PTL

\* However the signal falls, the abort target completes nothing after it but
\* the operation in which it had passed its test under the lock.
THEOREM AbortedWriterAlwaysStops == Spec => []AbortedWriterStops
<1>1. IndInv => AbortedWriterStops
  <2> SUFFICES ASSUME IndInv, g_abortSignalReceived PROVE opsCompleted[AbortTarget] <= quota
    BY DEF AbortedWriterStops
  <2>1. opsCompleted[AbortTarget] \in Nat /\ quota \in Nat
    BY DEF IndInv, TypeInv, QuotaInv
  <2> QED
    BY <2>1 DEF IndInv, QuotaInv
<1> QED
  BY <1>1, Invariance, PTL
==============================================================================
