----------------------------- MODULE Benchmark ------------------------------
(***************************************************************************)
(* main and runBenchmark: one simulation with the configuration of the     *)
(* command line, or BENCHMARK_RUNS simulations for every load profile and  *)
(* every algorithm, averaged group by group; and the CSV file the results  *)
(* are appended to.                                                        *)
(*                                                                         *)
(* A simulation is one step that leaves any ThreadInfos it can leave (the  *)
(* module Workload is about what happens inside).  Of a line of the CSV    *)
(* file only the columns that say which group it belongs to are kept.      *)
(***************************************************************************)
EXTENDS Metrics, Sequences

CONSTANTS Profiles,          \* what applyLoadProfile sets, in the order of profiles[]
          Algorithms,        \* algorithms[]
          BENCHMARK_RUNS,
          CommandLines,      \* numReaders, numWriters and totalOps as parseCLI leaves them
          Waits, Starves,    \* values of totalWaitMs and starveCount of a thread
          Durations,         \* values of wallMs
          OldLines,          \* lines that earlier processes may have written
          Files              \* the CSV file as earlier processes may have left it

ASSUME BenchmarkAssumption ==
    /\ Profiles \in Seq(Config) /\ Profiles # <<>>
    /\ Algorithms \in Seq(STRING) /\ Algorithms # <<>>
    /\ BENCHMARK_RUNS \in Nat \ {0}
    /\ CommandLines \subseteq Config
    /\ Waits \subseteq Nat /\ Starves \subseteq Nat /\ Durations \subseteq Nat
    /\ \A f \in Files : f.exists \in BOOLEAN /\ f.lines \in Seq(OldLines)
    /\ \A f \in Files : ~f.exists => f.lines = <<>>

Header == <<"header">>

VARIABLES baseCfg,           \* the configuration of the command line
          main,              \* what the process does next
          group,             \* the (profile, algorithm) of the two outer loops, as a number
          avg, runsOk,       \* the locals of a group
          infos, results,    \* the last simulation's threads, and history: the group's results
          allResults,        \* the lines of the final table
          csv,               \* the file csvOutput: whether it exists, and its lines
          csv0, lost         \* history: the file at first, and the groups not exported

benchmark == <<group, avg, runsOk, infos, results, allResults>>
files     == <<csv, csv0, lost>>
vars      == <<baseCfg, main, benchmark, files>>

Groups  == Len(Profiles) * Len(Algorithms)
Algo(g) == Algorithms[((g - 1) % Len(Algorithms)) + 1]

\* The configuration of the runs of group g: every profile with every algorithm.
applyLoadProfile(g) == Profiles[((g - 1) \div Len(Algorithms)) + 1]

runCfg(g) == IF baseCfg.benchmarkMode THEN applyLoadProfile(g) ELSE baseCfg.sim

\* What the threads of a simulation may look like when it is over: together
\* they have done all operations but the one an abort may have cost, while a
\* writer that is alone and aborted leaves any number undone; the aborted
\* writer may have waited without completing an operation.
ThreadInfos(cfg) ==
    LET ids == ThreadIds(cfg)
    IN {i \in [opsCompleted : [ids -> 0..cfg.totalOps],
               totalWaitMs  : [ids -> Waits],
               starveCount  : [ids -> Starves]] :
          cfg.numReaders > 0 \/ cfg.numWriters > 1 =>
             Sum(i.opsCompleted, NumThreads(cfg)) \in {cfg.totalOps - 1, cfg.totalOps}}

NoThreads == [opsCompleted |-> <<>>, totalWaitMs |-> <<>>, starveCount |-> <<>>]

Init ==
    /\ baseCfg \in [benchmarkMode : BOOLEAN, csvOutput : BOOLEAN,
                    sim : CommandLines, algo : {Algo(g) : g \in 1..Groups}]
    /\ baseCfg.benchmarkMode =>      \* which overwrites the other two: one value stands for all
          baseCfg.sim = (CHOOSE c \in CommandLines : TRUE) /\ baseCfg.algo = Algorithms[1]
    /\ main = IF baseCfg.benchmarkMode THEN "group" ELSE "simulate"
    /\ group = 1
    /\ avg = NoMetrics /\ runsOk = 0
    /\ infos = NoThreads /\ results = <<>>
    /\ allResults = <<>>
    /\ csv0 \in Files /\ csv = csv0 /\ lost = {}
-----------------------------------------------------------------------------
(* runBenchmark *)

begin_group ==
    /\ main = "group" /\ group <= Groups
    /\ main' = "simulate"
    /\ avg' = NoMetrics
    /\ runsOk' = 0 /\ results' = <<>> /\ infos' = NoThreads
    /\ UNCHANGED <<baseCfg, group, allResults, files>>

\* One run of the inner loop: its result is added to avg.
simulate_run ==
    /\ baseCfg.benchmarkMode
    /\ main = "simulate" /\ runsOk < BENCHMARK_RUNS
    /\ \E i \in ThreadInfos(runCfg(group)), wallMs \in Durations :
          LET r == compute(i, runCfg(group), wallMs)
          IN /\ infos' = i
             /\ results' = Append(results, r)
             /\ avg' = [f \in DOMAIN avg |-> IF f = "starvationCount" THEN avg[f] + r[f]
                                             ELSE RatAdd(avg[f], r[f])]
    /\ runsOk' = runsOk + 1
    /\ UNCHANGED <<baseCfg, main, group, allResults, files>>

\* The columns that tell the results of one group from those of another.
Key(algo, cfg) == <<algo, cfg.numReaders, cfg.numWriters, cfg.totalOps>>

row(g) == Key(IF baseCfg.benchmarkMode THEN Algo(g) ELSE baseCfg.algo, runCfg(g))

\* Mutant: the fairness index is not among the fields that are divided.
average_jain_summed ==
    /\ baseCfg.benchmarkMode
    /\ main = "simulate" /\ runsOk = BENCHMARK_RUNS
    /\ avg' = [f \in DOMAIN avg |-> IF f = "starvationCount" THEN avg[f] \div runsOk
                                    ELSE IF f = "jainsFairnessIndex" THEN avg[f]
                                    ELSE RatOver(avg[f], runsOk)]
    /\ allResults' = Append(allResults, row(group))
    /\ main' = "export"
    /\ UNCHANGED <<baseCfg, group, runsOk, infos, results, files>>

\* avg is divided, the event count as an int, and the group goes into the table.
average ==
    /\ baseCfg.benchmarkMode
    /\ main = "simulate" /\ runsOk = BENCHMARK_RUNS
    /\ avg' = [f \in DOMAIN avg |-> IF f = "starvationCount" THEN avg[f] \div runsOk
                                    ELSE RatOver(avg[f], runsOk)]
    /\ allResults' = Append(allResults, row(group))
    /\ main' = "export"
    /\ UNCHANGED <<baseCfg, group, runsOk, infos, results, files>>

next_group ==
    /\ baseCfg.benchmarkMode /\ main = "exported"
    /\ group' = group + 1
    /\ main' = IF group = Groups THEN "printTable" ELSE "group"
    /\ UNCHANGED <<baseCfg, avg, runsOk, infos, results, allResults, files>>
-----------------------------------------------------------------------------
(* main without --benchmark *)

simulate_once ==
    /\ ~baseCfg.benchmarkMode
    /\ main = "simulate"
    /\ \E i \in ThreadInfos(runCfg(group)), wallMs \in Durations :
          /\ infos' = i
          /\ results' = <<compute(i, runCfg(group), wallMs)>>
          /\ avg' = compute(i, runCfg(group), wallMs)
    /\ main' = "export"
    /\ UNCHANGED <<baseCfg, group, runsOk, allResults, files>>

finish ==
    /\ \/ main = "printTable"
       \/ ~baseCfg.benchmarkMode /\ main = "exported"
    /\ main' = "finished"
    /\ UNCHANGED <<baseCfg, benchmark, files>>
-----------------------------------------------------------------------------
(* Metrics::exportCSV *)

export_nothing ==
    /\ main = "export" /\ ~baseCfg.csvOutput
    /\ main' = "exported"
    /\ UNCHANGED <<baseCfg, benchmark, files>>

\* Mutant: the header goes with the first group.
exportCSV_first ==
    /\ main = "export" /\ baseCfg.csvOutput
    /\ csv' = [exists |-> TRUE,
               lines  |-> csv.lines \o IF group = 1 THEN <<Header, row(group)>> ELSE <<row(group)>>]
    /\ main' = "exported"
    /\ UNCHANGED <<baseCfg, benchmark, csv0, lost>>

\* stat decides on the header, fopen creates the file or appends to it.
exportCSV ==
    /\ main = "export" /\ baseCfg.csvOutput
    /\ csv' = [exists |-> TRUE,
               lines  |-> csv.lines \o IF csv.exists THEN <<row(group)>> ELSE <<Header, row(group)>>]
    /\ main' = "exported"
    /\ UNCHANGED <<baseCfg, benchmark, csv0, lost>>

\* fopen fails: a warning, and the row is lost.
exportCSV_fails ==
    /\ main = "export" /\ baseCfg.csvOutput
    /\ lost' = lost \cup {group}
    /\ main' = "exported"
    /\ UNCHANGED <<baseCfg, benchmark, csv, csv0>>
-----------------------------------------------------------------------------
Next ==
    \/ begin_group \/ simulate_run \/ average \/ next_group
    \/ simulate_once \/ finish
    \/ export_nothing \/ exportCSV \/ exportCSV_fails

Spec == Init /\ [][Next]_vars
-----------------------------------------------------------------------------
(* Properties. *)

\* "[0,1]" (metrics.hpp): with threads the fairness index is between 1/n and
\* 1, and is 1 exactly when all threads did equally much; without threads it
\* is 0.  It never divides by zero, whatever the command line asked for.
JainInRange ==
    results # <<>> =>
        LET J   == results[Len(results)].jainsFairnessIndex
            ops == infos.opsCompleted
            S   == DOMAIN ops
        IN IF S = {} THEN J = RatZero
           ELSE /\ J[2] > 0
                /\ RatLeq(<<1, Cardinality(S)>>, J) /\ RatLeq(J, RatOne)
                /\ RatLeq(RatOne, J) <=> \A t, u \in S : ops[t] = ops[u]

\* An average that is exported or printed lies between the smallest and the
\* largest result of the runs of its own group, and of the starvation events
\* of these runs it hides less than one per run.
AverageBetweenRuns ==
    main = "export" =>
        /\ \A f \in DOMAIN avg \ {"starvationCount"} : \E i, j \in DOMAIN results :
              RatLeq(results[i][f], avg[f]) /\ RatLeq(avg[f], results[j][f])
        /\ LET n      == Len(results)
               events == Sum([i \in 1..n |-> results[i].starvationCount], n)
           IN events - avg.starvationCount * n \in 0..n - 1

\* When the process ends, the file is what it was, with one row for each
\* group whose export did not fail, in order, and with the header in front of
\* them if and only if there was no file: not in the middle, not twice, and
\* not missing because the first export failed.
OneHeaderFirst ==
    main = "finished" /\ baseCfg.csvOutput =>
        LET kept  == (IF baseCfg.benchmarkMode THEN 1..Groups ELSE {1}) \ lost
            front == csv0.lines \o IF csv0.exists \/ kept = {} THEN <<>> ELSE <<Header>>
        IN /\ csv.exists <=> csv0.exists \/ kept # {}
           /\ Len(csv.lines) = Len(front) + Cardinality(kept)
           /\ \A i \in 1..Len(front) : csv.lines[i] = front[i]
           /\ \A g \in kept : csv.lines[Len(front) + Cardinality({h \in kept : h <= g})] = row(g)
=============================================================================
