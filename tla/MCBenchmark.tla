---------------------------- MODULE MCBenchmark -----------------------------
(* Two load profiles, two algorithms, two runs of each; single simulations *)
(* with no thread, no operation and no reader among them.                  *)
EXTENDS Benchmark

Cfg(r, w, n) == [numReaders |-> r, numWriters |-> w, totalOps |-> n]

MCProfiles     == <<Cfg(1, 1, 2), Cfg(0, 1, 1)>>
MCAlgorithms   == <<"Reader-Priority", "Writer-Priority">>
MCCommandLines == {Cfg(0, 0, 2), Cfg(0, 1, 2), Cfg(1, 1, 0), Cfg(0, 2, 3), Cfg(2, 1, 3)}
MCOldLines     == {Header, <<"row of an earlier process">>}
MCFiles        == {[exists |-> FALSE, lines |-> <<>>], [exists |-> TRUE, lines |-> <<>>],
                   [exists |-> TRUE, lines |-> <<Header, <<"row of an earlier process">>>>]}
=============================================================================
