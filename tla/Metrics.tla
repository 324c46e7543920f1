------------------------------ MODULE Metrics -------------------------------
(***************************************************************************)
(* Metrics::compute: what a finished simulation is reported as.            *)
(*                                                                         *)
(* The doubles of the code are exact rationals <<numerator, denominator>>, *)
(* compared by cross multiplication; rounding is left out.  The two        *)
(* context switch counters are treated by the code exactly like the        *)
(* duration and are left out.                                              *)
(***************************************************************************)
EXTENDS Integers, FiniteSets

(* Rational arithmetic. *)

Rational      == Nat \X (Nat \ {0})
RatZero       == <<0, 1>>
RatOne        == <<1, 1>>
RatAdd(x, y)  == <<x[1] * y[2] + y[1] * x[2], x[2] * y[2]>>
RatOver(x, n) == <<x[1], x[2] * n>>
RatLeq(x, y)  == x[1] * y[2] <= y[1] * x[2]

(* The loops of the code that add up f[1], ..., f[n]. *)

Sum(f, n)    == LET s[i \in 0..n] == IF i = 0 THEN 0 ELSE s[i - 1] + f[i] IN s[n]
RatSum(f, n) == LET s[i \in 0..n] == IF i = 0 THEN RatZero ELSE RatAdd(s[i - 1], f[i]) IN s[n]
-----------------------------------------------------------------------------
(* The threads of a configuration, readers first, as in the registry. *)

Config == [numReaders : Nat, numWriters : Nat, totalOps : Nat]

NumThreads(cfg) == cfg.numReaders + cfg.numWriters
ReaderIds(cfg)  == 1..cfg.numReaders
WriterIds(cfg)  == cfg.numReaders + 1..NumThreads(cfg)
ThreadIds(cfg)  == 1..NumThreads(cfg)

\* The mean wait of the operations of thread t, 0 without any.
avgWait(infos, t) ==
    IF infos.opsCompleted[t] > 0
    THEN <<infos.totalWaitMs[t], infos.opsCompleted[t]>>
    ELSE RatZero

\* The mean over the threads of S among the n there are, 0 when there are none.
Mean(infos, S, n) ==
    IF S = {} THEN RatZero
    ELSE RatOver(RatSum([t \in 1..n |-> IF t \in S THEN avgWait(infos, t) ELSE RatZero], n),
                 Cardinality(S))

\* Mutant: n is left out of the denominator.
Jain_not_normed(x, n) ==
    LET sumX  == Sum(x, n)
        sumX2 == Sum([t \in 1..n |-> x[t] * x[t]], n)
    IN IF n = 0 THEN RatZero
       ELSE IF sumX2 > 0 THEN <<sumX * sumX, sumX2>>
       ELSE RatOne

\* Jain's index (sum x)^2 / (n * sum x^2) of the operations of each thread: 1
\* when nobody has done any, and the 0 of MetricsResult{} without threads.
Jain(x, n) ==
    LET sumX  == Sum(x, n)
        sumX2 == Sum([t \in 1..n |-> x[t] * x[t]], n)
    IN IF n = 0 THEN RatZero
       ELSE IF sumX2 > 0 THEN <<sumX * sumX, n * sumX2>>
       ELSE RatOne

\* MetricsResult{}: what a field holds that nothing is added to.
NoMetrics ==
    [avgReaderWaitMs |-> RatZero, avgWriterWaitMs |-> RatZero,
     throughputOpsPerSec |-> RatZero, jainsFairnessIndex |-> RatZero,
     starvationCount |-> 0, simulationDurationMs |-> RatZero]

compute(infos, cfg, wallMs) ==
    LET n   == NumThreads(cfg)
        ops == Sum(infos.opsCompleted, n)
    IN [avgReaderWaitMs      |-> Mean(infos, ReaderIds(cfg), n),
        avgWriterWaitMs      |-> Mean(infos, WriterIds(cfg), n),
        throughputOpsPerSec  |-> IF wallMs > 0 THEN <<ops * 1000, wallMs>> ELSE RatZero,
        jainsFairnessIndex   |-> Jain(infos.opsCompleted, n),
        starvationCount      |-> Sum(infos.starveCount, n),
        simulationDurationMs |-> <<wallMs, 1>>]
=============================================================================
