# Readers–Writers Toolkit: TLA+ models, checks and proofs

The toolkit runs reader and writer threads against one of three readers–writers
locks, watches them for starvation and reports metrics. This directory holds
models of the parts that can go wrong under concurrency, the TLC runs that
check them on small instances, and TLAPS proofs for any number of threads.

## 1. Inventory

| Component | Source | State | Operations | Interacts with |
|---|---|---|---|---|
| RWLockBase | `rw_lock_base.*`, `thread_state.hpp` | `ThreadInfo::state`, time stamps | `transitionWaiting/Active/Releasing` | called by every lock; read by the watchdog |
| Semaphore | `semaphore.*` | one `sem_t` | `wait`, `post`, `try_wait`, `timed_wait`, `value` | used by the two Courtois locks |
| ReaderPriorityLock | `reader_priority.*` | `mutex_`, `wrt_`, `readCount_`, `writerActive_` | `readLock/Unlock`, `writeLock/Unlock` | called by the threads |
| WriterPriorityLock | `writer_priority.*` | five semaphores, two counters, a flag | the same | the same |
| FairMorrisLock | `fair_morris.*` | a mutex, two condition variables, four counters | the same | the same |
| SharedResource | `shared_resource.hpp` | `data_`, `readCount_`, `writeCount_` | `read`, `recordRead`, `increment`, `recordWrite` | accessed by the threads under the lock |
| Threads, `runSimulation` | `main.cpp` | `opsRemaining`, `opsCompleted`, `g_abortSignalReceived` | thread loops, create, join, SIGUSR1 | drives everything |
| Watchdog | `watchdog.*` | `running_`, `totalEvents_` | `start`, `run`, `stop` | reads and writes every `ThreadInfo` |
| Metrics | `metrics.*` | the CSV file | `compute`, `exportCSV` | reads `ThreadInfo` after the join |
| Logger | `logger.*` | `level_`, `logFile_`, `writeMutex_` | `init`, `record`, `alert`, `summary`, `header`, `shutdown` | called by everybody |
| Benchmark, CLI, configuration | `main.cpp`, `config.hpp` | `SimConfig`, the averages of a group | `runBenchmark`, `applyLoadProfile`, `main` | calls `runSimulation` and `exportCSV` |

What is hard here:

* every lock is a protocol of several semaphore or condition-variable calls, and
  its correctness rests on who may be between which two calls;
* semaphores, mutexes and condition variables promise no order among waiters,
  signals sent while nobody sleeps are lost, and a condition wait may return
  without a signal;
* the watchdog tests and then overwrites a state its owner changes meanwhile;
* threads share `opsRemaining` through `fetch_sub`/`fetch_add` pairs that let it
  go below zero for a moment, and share `readCount_` without any protection;
* SIGUSR1 may come at any moment of a writer's operation, interrupts blocked
  semaphore calls, and leaves a flag that outlives the simulation it came in;
* `timed_wait` carries an absolute deadline across interruptions, computed with a
  carry from nanoseconds into seconds;
* results are averaged and exported group by group through calls that may fail
  one by one, from simulations that may have no thread or no operation;
* everybody logs at once, to two streams, while main opens and closes one of them.

What makes each part correct: a lock keeps writers alone, lets nobody wait
forever on a free lock, and follows the policy `config.hpp` promises for it;
the threads do `totalOps` operations, no more and no fewer, and all return; the
watchdog flags what waits too long, once per wait, and stops when told; a
semaphore loses no unit and a timed wait ends when it should; what is reported
is what happened. The
list of hazards, each at its line, is in `PROJECT.json`.

`watchdog.cpp:61` has a stray `.` after the opening brace, so the committed file
does not compile; the model takes the loop without it.

## 2. Modules

| Module | Models | State and actions |
|---|---|---|
| `RWLock` | the contract of `RWLockBase` | `mode` of each thread: out, waiting, in. Any number of readers, or one writer |
| `RWLockBase` | what all locks share | `pc`, the statement a thread executes next, and `state`, the published `ThreadInfo::state`; the transition helpers |
| `Semaphore` | `Semaphore::wait` and `post` | `sem`, the counts by name; no order among waiters |
| `ReaderPriorityLock` | `reader_priority.cpp` | one action per semaphore call, per counter update, per helper call. `readLock_wait_wrt(r)` is the `wrt_.wait()` of `readLock` run by `r` |
| `WriterPriorityLock` | `writer_priority.cpp` | the same, five semaphores |
| `FairMorrisLock` | `fair_morris.cpp` | one action per pthread call; code between `lock` and `unlock` is one step. `asleep` is inside `pthread_cond_wait`, `woken` is signalled but without the mutex; `spurious_wakeup` is the return POSIX allows, any number of times |
| `WriterPriorityArrivals` | the same lock | a history variable that remembers who came after whom |
| `SemaphoreCalls` | the whole of class `Semaphore` | one semaphore, its count in `sem`, each thread's call in `pc`, the clock `now`; `sem_timedwait_E...` are the error returns of one system call, and what `timed_wait` does with them |
| `Workload` | thread loops, `SharedResource`, `runSimulation` called `Sims` times, SIGUSR1 | written over the contract `RWLock`, which the three locks refine; `next_simulation` renews everything but the handler and its flag; a test of the flag and what the thread does next are separate steps; `signalSim` and `quota` are history: when the signal came, and how many operations it leaves to its target |
| `Watchdog` | `watchdog.cpp` with the threads' side of `ThreadInfo` | each atomic load and store is a step; `age` is the time since `waitStart`, up to the threshold; `log_summary` reads the count for the SUMMARY line; `understated` counts the ACTIVE records that show 0 ms for a longer wait |
| `Metrics` | `Metrics::compute` | operators only: doubles are exact rationals, kept as unreduced pairs and compared by cross multiplication; a loop that adds up is a recursive function of its index (`Sum`, `RatSum`) |
| `Benchmark` | `main`, `runBenchmark`, `exportCSV`, `applyLoadProfile` | one action per run, average and export; a simulation is one step that leaves any `ThreadInfo`s it can leave, also after an abort. `csv` is whether the file exists, and its lines; of a line the columns that tell groups apart are kept |
| `Logger` | `logger.cpp`, called by main, threads and watchdog | a log call is three steps: format, lock and `puts`, file and unlock. A line keeps its author, its kind and, as history, which of its author's calls wrote it |
| `ReaderPriorityLock_proofs`, `WriterPriorityLock_proofs`, `FairMorrisLock_proofs`, `SemaphoreCalls_proofs`, `Workload_proofs`, `Watchdog_proofs`, `Logger_proofs`, `Benchmark_proofs` | proofs | section 4 |
| `MCWatchdog`, `MCSemaphoreCalls`, `MCBenchmark`, `MCLogger` | the instances for TLC | registry, timeouts, profiles, command lines and files; the other modules are given their sets of threads by the configurations |

The refinement mapping of a lock is `Mode(t)`: a thread is *in* from the call
that gives it the lock (the successful wait, or the counter update under
`mtx_`) to the call that gives it up, *waiting* before and *out* otherwise.
`Workload` is checked against the contract alone, so what it shows holds with
each lock that refines it; its liveness also needs the lock to let somebody in,
which the runs show for the two Courtois locks, and for `FairMorrisLock` except
in the hang of `fa_deadlock`. `Benchmark` takes from `Workload` that a simulation
returns with all its operations done but the one an abort may cost, or fewer when
the aborted writer is the only thread (`AllOpsDone`).

Names of actions are the source's functions with the statement they stand for.
An operator whose comment begins with "Mutant" is a plausible mistake in the
definition after it; it is used to see that a property notices the mistake and
takes no part in any specification.

Left out of the models: message texts and time stamps other than `waitStart`; `usleep` of the simulated work (any step may take any time);
errors of POSIX calls that the code turns into an uncaught exception.

## 3. Runs

`tlc -config X.cfg M`, with the module and the configuration `PROJECT.json`
names. Passing:

| Run | Instance | Shows |
|---|---|---|
| `rp` | 3 readers, 2 writers, fair | mutual exclusion; the inductive invariant; a reader queues for `wrt_` only when no reader is inside; refinement of `RWLock`; when somebody asks, somebody gets in |
| `wp` | 3 + 2, fair | mutual exclusion; the inductive invariant; a reader that got through the gate always finds `wrt_` free, so it never sleeps while it keeps three semaphores; the gate stays shut to readers while writers hold it; refinement; somebody gets in |
| `fa` | 3 + 2, spurious wake-ups at any time, fair | mutual exclusion; counters exact at every step; refinement; whenever all sleep, readers and writers sleep together (no wake-up is lost within one kind); somebody gets in or all end up asleep, so `fa_deadlock` is the only hang there is |
| `wl` | 2 + 2, 2 operations, 2 simulations, SIGUSR1 at any moment or never, fair | the operation counter balances at every step; all operations are done, a signal costs one at most, and the flag it leaves costs none in the next simulation; readers see whole writes; the aborted writer completes at most the operation it was past its last test in; `readCount_` loses reads and invents none; every simulation ends |
| `wd` | 2 threads, 2 lock calls each, threshold 0 or 2, fair | no wait is counted twice; the totals agree after `stop`; a SUMMARY line misses one event at most; a wait logged as 0 ms is always one that was counted as starvation; an endless wait is marked; `stop` returns |
| `sem` | 2 threads, 1 unit, timeouts -1, 0, 2, 4 with a second of 3, clock up to 5, fair | units are conserved through interruptions, timeouts and exceptions; `timed_wait` gives up neither early nor with a wrong deadline and throws only for a negative timeout; it returns although signals never cease and nobody posts |
| `bm` | 2 profiles x 2 algorithms x 2 runs, profiles of 1 + 1 threads with 2 operations and 0 + 1 with one, or one simulation of 0 to 3 threads and operations; every distribution of operations, waits 0 or 3, events 0 or 1, duration 0 or 5 | Jain's index is between 1/n and 1, and 1 only for equal shares, without dividing by zero; averages lie between the runs of their own group and hide less than one event per run; header and rows of the CSV file, with exports that fail |
| `log` | 2 threads (one operation and none), 1 alert, all levels, with and without file, fair | file and stdout agree line by line; a finished run lies between its two headers; it has every record its level lets through, in order; the logger is shut down |

Violated, each showing a disagreement between the code and what the
repository says of it:

| Run | What happens |
|---|---|
| `fa_deadlock` | Writer 1 is inside, reader 1 and writer 2 sleep. Writer 1 leaves: `waitingReaders_ > 0`, so it broadcasts the readers only (`fair_morris.cpp:97`). The reader wakes, sees `waitingWriters_ > 0` (line 30) and sleeps again. Nobody signals writer 2. If no other thread comes, both sleep for good |
| `fa_starve` | Writer 1 and reader 1 sleep, writer 2 is inside. It leaves and wakes the reader, who sees that writer 1 waits and sleeps again; writer 2 calls, finds nobody inside and enters at once, since a writer does not look for waiting ones (`fair_morris.cpp:75`). This can go on for ever, with every thread that can run running again and again, against "FIFO ordering; no starvation of either side" (`config.hpp:38`), "No starvation" (`Readme.md:338`) and the "FA_Starve ... (expect 0)" of `test_cases.cpp:350` |
| `wp_queued_writer` | a reader that arrives after a writer was counted takes `rsem_` before it |
| `wd_done` | BLOCKED is stored over DONE |

Three more disagreements follow from steps these runs contain and have no run of
their own. Two readers that run `++readCount_` side by side lose an update
(`main.cpp:74`), against "Cumulative reads performed" of `shared_resource.hpp:39`;
nobody reads this counter in the program, and `ReadCountOnlyLoses` says how far it can
be off. `writeUnlock` of the reader-priority lock posts `wrt_` (`reader_priority.cpp:63`)
before it publishes RELEASING (line 65), so two writers can be ACTIVE at once, which
`thread_state.hpp:18` reserves for a thread that "holds the lock". A thread that the
watchdog has marked BLOCKED logs a wait of 0 ms
(`rw_lock_base.cpp:15`), against "Current or just-ended wait time" of
`logger.hpp:46`; `UnderstatedWaitsCounted` says how often. And three more
are seen in the code alone: `runBenchmark` sets `logLevel` in a copy nobody reads
(`main.cpp:297`), so a benchmark logs at the level of the command line; a time
stamp is taken before the mutex, so lines may stand in another order than their
stamps; and the runs of a group, "independent" in `config.hpp:17`, share the signal
flag, which stops the abort target of every later run (`AllOpsDone` shows that the
others make up for it).

**Bounds.** Thread counts are the smallest at which every case of the code
occurs: two readers make a first and a last one, a third one holds the lock while
one arrives and one leaves; two writers make one that waits behind
another. The lock modules need no other bound: threads call the
lock for ever, and `spurious_wakeup` comes any number of times.
`Workload` bounds the operations by `TotalOps` (a parameter of the program);
two operations among four threads give successful claims and claims that fail
together, and an abort after the last one has been claimed; two simulations let a
signal come before, in and after one of them. `Watchdog` bounds the lock calls of a thread by `MaxWaits`
(two: a stale load must be able to meet the next wait) and cuts time off at the
threshold, beyond which the code does not distinguish. The threshold is 0, the
boundary that `--starve 0` reaches, or 2, so that a wait can end just before,
at and after it. In `SemaphoreCalls` a second of three units and timeouts on both
sides of it make the sum fall short of a second, hit it and pass it; `MaxNow`
admits only calls whose deadline the clock still reaches. `Benchmark` takes the
load profiles as a parameter (3+1, 5+5 and 10+10 threads in the code), since the
loops treat them alike; two runs make an average with a remainder. `Logger` bounds
the alerts by `MaxAlerts`. No run uses symmetry, which liveness does not allow.

**Deadlock.** TLC's own check is on for the locks and the semaphore. It is off for
`Workload`, `Watchdog`, `Benchmark` and `Logger`, whose executions end; the
liveness properties of all but `Benchmark`, which is one sequential loop, say
that they end only when they should.

**Fairness.** Weak fairness of each thread's steps inside the lock: the
operating system runs every runnable thread. A semaphore or mutex with several
waiters may serve the same one for ever, so nothing says that a *particular*
thread gets in, and no passing run claims it. `fa_starve` asks for one of each side,
and there the fairness is as strong as any scheduler's (`StrongFairSpec`: whoever can
go on again and again does, and a woken thread gets `mtx_` also at a moment when its
condition holds, if there are such moments again and again): the starvation it finds
is the code's and not the scheduler's. Calling the lock is not fair:
threads may stay away. Spurious wake-ups are owed by nobody, so progress must not
depend on them; they may come at any time but stop at last
(`<>[][CodeNext]_vars`), for an endless storm of them is not a behaviour of an
implementation. In `SemaphoreCalls` only the clock and the threads inside
`timed_wait` are fair: posts may never come and signals never cease. In `Logger`
each author goes on; a fair mutex is not needed, because every author has finitely
many lines. In `Watchdog` time passes, the
watchdog and `runSimulation` are scheduled, and the threads owe nothing.

## 4. Proofs

`tlapm M.tla` checks the proofs of module `M`. Everything below holds for all
values of the constants that satisfy the module's assumption: any finite
disjoint sets of readers and writers, any `TotalOps`, any registry, and so on.
The bounds of the runs are not needed; where a bound is a parameter of the
module (`MaxWaits`, `MaxNow`, `MaxAlerts`), the theorem holds for every value of it.

| Module | Theorems (the property proved) |
|---|---|
| `ReaderPriorityLock_proofs` | `Invariance`, `TypeCorrect`, `ExclusiveAccess` (`MutualExclusion`), `ReadersNeverQueueBehindReaders` (`ReadersJoinReaders`), `Implementation` (`RefinesRWLock`) |
| `WriterPriorityLock_proofs` | `Invariance`, `ExclusiveAccess`, `GateProtectsReaders` (`FirstReaderNeverBlocks`), `GateStaysClosed` (`GateClosedToReaders`), `Implementation` |
| `FairMorrisLock_proofs` | `Invariance`, `ExclusiveAccess`, `HangsAreMixed` (`SleepersAreMixed`), `Implementation` |
| `SemaphoreCalls_proofs` | `UnitsAlwaysConserved`, `TimeoutsExact` (`GivesUpOnTime`) |
| `Workload_proofs` | `Invariance`, `TypeCorrect`, `OpsAlwaysBalance`, `AllOpsAlwaysDone`, `WritesSeenWhole` (`ReadersSeeWholeWrites`), `AbortedWriterAlwaysStops`, `ReadsOnlyLost` (`ReadCountOnlyLoses`) |
| `Watchdog_proofs` | `Invariance`, `TypeCorrect`, `NoWaitCountedTwice` (`OneAlarmPerWait`), `TotalsAlwaysAgree`, `SummaryNearlyRight` (`SummaryTrailsByOne`), `UnderstatedAlwaysCounted` |
| `Logger_proofs` | `Invariance`, `FileAlwaysMirrorsStdout`, `RunStaysBetweenHeaders` (`HeadersEncloseRun`), `EveryRecordInOrder` (`RecordsInOrder`) |
| `Benchmark_proofs` | `Invariance`, `FairnessIndexInRange` (`JainInRange`), `AveragesBetweenRuns` (`AverageBetweenRuns`), `HeaderOnceInFront` (`OneHeaderFirst`) |

**Positions.** The proofs about a lock begin with facts about positions: a thread
that moves into or out of a set of statements changes the cardinality of those there
by one, a move elsewhere does not change it, and what a cardinality of 0 or 1 says
of the set (`MoveCount`, `MoveOther` and `AtCount` of `WriterPriorityLock_proofs`,
`CountAfterMove` and `MovesCount` of the others).

**The locks.** Mutual exclusion is never inductive: it says nothing of why a
semaphore is taken. The invariants say what each semaphore and each counter means
in terms of where the threads are.

* `ReaderPriorityLock`: `mutex_` is 0 exactly when a reader is between its wait and
  its post (`MutexInv`); `wrt_` is 0 exactly when a writer owns it or the readers
  together do, never both (`WrtInv`); `readCount_` is the number of readers that
  have counted themselves (`CountInv`); a reader about to take or give up `wrt_` is
  the first or the last one (`EdgeInv`); threads stay in their own functions
  (`PlaceInv`).
* `WriterPriorityLock`: the same for three semaphores that are plain locks
  (`LockInv`), both counters (`CountInv`, `EdgeInv`), and two that belong to a group:
  `rsem_` to one passing reader or to the writers (`GateInv`), `wrt_` to one writer or
  to the readers (`WrtInv`). That the first reader never sleeps on `wrt_` follows: it
  holds `rsem_`, and a writer that holds `wrt_` would hold `rsem_` too.
* `FairMorrisLock`: `mtx_` is held by the thread whose code says so (`MtxInv`), the
  four counters are cardinalities (`CountInv`), and the active ones exclude each
  other (`ExclusionInv`). For the hang, `SleepInv` says whom a sleeper can hope for: a
  sleeping reader a writer that is inside or asking, a sleeping writer somebody
  inside, somebody that has been woken, or a reader that asks. A sleeper of the
  other kind counts, one of its own does not, so those who hang are of both kinds.

Each refinement (`Implementation`) has the same two lemmas: `ModeAfterMove` says
which `Mode` the thread that moved has afterwards, and that all other modes are
unchanged; `ContractStep` goes through the actions and finds in each a step of
`RWLock` or a stutter. The guard of `AcquireRead` and `AcquireWrite`, that the lock is
free for the caller, is what the invariant is needed for.

**`SemaphoreCalls`.** `DeadlineIsDue` says that what `timed_wait` computes is the
current time plus the timeout, whether or not the nanoseconds carry, and a valid
`timespec` unless the timeout is negative. The invariant then carries the deadline
through any number of interruptions, and the units through every call.

**`Workload`.** Operations are counted as sets of pairs (thread, number), so that a
sum over the threads is the cardinality of a union and one more operation is one
more element: no induction over sums. `Count(L, S)` is the number of operations of
the threads `S` that are completed or have come as far as the labels `L`; claims, begun
writes, made writes and made reads are such counts, and `CountMove` says how a
step changes them. The core is `ClaimInv`: the counter plus the failed claims that
will be put back is what is left to claim; it is never negative; it is 0 as soon as
one claim fails and stays so; and a thread that is back without a signal has seen
that. `SignalInv` says that the abort target goes on after a signal only when the
signal came in this simulation, after its last test, which is why a flag left
by an earlier simulation costs no operation. `QuotaInv` follows the target from the
moment of the signal: what it has completed, and the operation it is past its test in,
stay within the `quota` the signal left it. That lost updates of
`readCount_` leave something in it is a small invariant of its own (`ReadInv`). The proof of `AllOpsDone` does not go
through without threads: with `--readers 0 --writers 0`, which `parseCLI` accepts,
nothing is done and the simulation ends at once. The property says so.

**`Watchdog`.** The watchdog *suspects* a thread from the load that finds it WAITING
until it has counted it or let it go. The invariant `WaitInv` counts that
suspicion as an alarm: no thread ever has more alarms than waits, and one that shows
WAITING, or is about to, has one fewer unless it is the suspect. A late mark may fall
into the next wait of the thread, and still no wait has two. `UnderstatedInv` and
`SummaryInv` account for the ACTIVE records and the SUMMARY line, and `TotalInv` for the
total, again as the cardinality of the set of events.

**`Logger`.** Whoever holds `writeMutex_` is between its two writes (`MutexInv`), the
file lacks only that line (`FileInv`), an author is in a log call only while main allows
it (`CallInv`), and so main writes its headers alone (`HeaderInv`, `PlaceInv`). The order
of a thread's records is an invariant about every author at every moment
(`RecordInv`): the calls its lines on stdout come from are those it has got past
that its level lets through, and they increase along stdout. `init` changes the level while
nobody has made a call; a joined thread has made all of its calls (`DoneInv`), so at the
end the set is what the property asks for.

**`Benchmark`.** A loop that adds up is a function on its indices, so what it computes
needs an induction. `SetInduction` does it with a set in place of a predicate: a set
with 0 and with the successor of each of its naturals has them all, for otherwise there
is a least one that is missing (`LeastElement`, from the well-foundedness of `<`).
`LoopExists` and `LoopUnique` then show that the loop has one outcome and `SumStep` what an
iteration adds.

* The fairness index: `SquareSums` is Cauchy's inequality with its case of equality. It
  shows by induction that n times the sum of the squares, less the square of the sum,
  grows with each thread by the sum of the squares of its differences to the threads
  before it. `JainFacts` turns that into the range of the index, and `ComputeFacts`
  says that no field of a result has a denominator of 0.
* The averages: `SumInv` says of the sums of a group, after k runs, that they are at least
  k times the value of one of these runs and at most k times that of another
  (`BoundsAfterAdding`), so that dividing by k leads between two runs (`OverBound`); the
  number of events is their exact sum, and `Remainder` what its integer division loses.
* The CSV file: `FileInv` is `OneHeaderFirst` for the groups whose export is over. The
  place of a row is the number of kept groups up to its own, which a later group does
  not change (`OneMore`). The header is there exactly if some row is and the file was not,
  whichever export came first to succeed.

The theorems hold for configurations with natural numbers of threads and
operations, any sets of waits, events and durations, and any old file.

The inductive invariants of the locks are invariants of the runs as well; those of
the other modules were model-checked on the instances of the runs before the proof
(in `Benchmark` without the set `Result`, which TLC cannot enumerate).

**Only model-checked:** liveness (`SomeoneGetsIn`, `SomeoneGetsInOrAllSleep`,
`Termination`, `StarvedThreadIsMarked`, `StopReturns`, `ShutdownReached`,
`TimedWaitReturns`), because fairness and `ENABLED` are beyond this prover. Every
invariant and every action property of the passing runs has a theorem.

## 5. Not modelled

* Reading the option strings in `parseCLI`: the model begins with the configuration
  it leaves. A negative number of threads makes `std::vector` throw and is left out; so
  is a negative `--ops`, with which no thread does anything.
* The text of log lines and tables (`toString`, `printTable`, `formatTimestamp`,
  the names in `config.hpp` and `thread_state.hpp`), and the rounding of doubles.
* `captureContextSwitches`: two numbers from `getrusage` that are carried along; if
  one of the two calls failed, their difference would mean nothing.
* A `pthread_create` that fails and a SIGUSR1 before its handler is installed, both
  of which end the process; a process that is killed while it exports (the empty
  file it may leave is among the initial files of `bm`: later rows then go without
  a header).
* The records that the abort target of `--abort-test` logs in addition (a second INIT, a
  DONE for the signal): `Logger` has threads that are not aborted.
* `SharedResource::write` and `reset`, `ThreadInfo::lastWaitMs` and
  `abortRequested`, `readerPhaseActive_`: nothing calls or reads them.
* `Semaphore::value`, which only reads, and the exception of `post` at
  `SEM_VALUE_MAX`, which `UnitsConserved` and the invariants of the locks keep out
  of reach.
* The tests copy the thread functions of `main.cpp`; their assertions are used as
  properties.

## 6. Plan

Done, in this order: the contract, the three locks, their refinements, the
proofs about `ReaderPriorityLock`, `Workload`, `Watchdog`; then several
simulations in one process, `SemaphoreCalls`, `Metrics` and `Benchmark`, `Logger`,
and the exact extent of the hang of `FairMorrisLock`; then the proofs of section 4,
those about `Benchmark` and the order of records in `Logger` last; then the run
that holds `FairMorrisLock` to the words of the documentation (`fa_starve`). Left, for a prover
with fairness: the liveness properties. Left for the model: the records of the abort
target in `Logger`.
