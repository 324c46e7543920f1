------------------------------ MODULE Watchdog ------------------------------
(***************************************************************************)
(* class Watchdog: the thread that looks at every ThreadInfo of the        *)
(* registry once per poll and marks as BLOCKED, counts and reports those   *)
(* that have waited for starveThresholdMs, side by side with the threads   *)
(* that move through the same ThreadInfo::state, and with the runSimulation *)
(* that stops the watchdog when all of them have returned.                 *)
(*                                                                         *)
(* Each atomic load or store is a step of its own.  The lock the threads   *)
(* wait for decides when a wait ends, which may be never.  Only the time   *)
(* since a thread's waitStart matters, and only up to the threshold: it is *)
(* the counter age, which advances with every Tick of the clock.           *)
(***************************************************************************)
EXTENDS Integers, Sequences, FiniteSets

CONSTANTS registry,             \* the threads, in the order of the registry
          Thresholds,           \* values of SimConfig::starveThresholdMs, in units of Tick
          MaxWaits              \* bound on the lock calls of a thread

Threads == {registry[i] : i \in 1..Len(registry)}

ASSUME WatchdogAssumption ==
    /\ registry \in Seq(Threads)
    /\ \A i, j \in 1..Len(registry) : registry[i] = registry[j] => i = j
    /\ Thresholds \subseteq Nat
    /\ MaxWaits \in Nat

VARIABLES at,            \* what each thread executes next
          state,         \* ThreadInfo::state
          age,           \* now - ThreadInfo::waitStart, up to the threshold
          waits,         \* lock calls of each thread so far
          starveCount,   \* ThreadInfo::starveCount
          understated,   \* history: ACTIVE records of each thread that show 0 ms for a longer wait
          summary,       \* the STARVE_EVENTS of each thread's SUMMARY line
          starveThresholdMs,
          main,          \* where runSimulation is
          running_, totalEvents_,
          wd,            \* what the watchdog executes next
          cursor         \* the registry entry it looks at

thread   == <<at, age, waits, understated, summary, starveThresholdMs>>
watchdog == <<wd, cursor>>
vars     == <<thread, state, starveCount, main, running_, totalEvents_, watchdog>>

Init ==
    /\ at = [t \in Threads |-> "ready"]
    /\ state = [t \in Threads |-> "INIT"]
    /\ age = [t \in Threads |-> 0]
    /\ understated = [t \in Threads |-> 0]
    /\ summary = [t \in Threads |-> 0]
    /\ waits = [t \in Threads |-> 0]
    /\ starveCount = [t \in Threads |-> 0]
    /\ starveThresholdMs \in Thresholds
    /\ main = "join"
    /\ running_ = TRUE
    /\ totalEvents_ = 0
    /\ wd = "top"
    /\ cursor = 1

\* One unit of time passes.
Tick ==
    /\ \E t \in Threads : age[t] < starveThresholdMs
    /\ age' = [t \in Threads |-> IF age[t] < starveThresholdMs THEN age[t] + 1 ELSE age[t]]
    /\ UNCHANGED <<at, waits, understated, summary, starveThresholdMs, state, starveCount, main, running_, totalEvents_, watchdog>>
-----------------------------------------------------------------------------
(* A reader or writer thread, as its ThreadInfo shows it. *)

Step(t, from, to) ==
    /\ at[t] = from
    /\ at' = [at EXCEPT ![t] = to]
    /\ UNCHANGED <<starveThresholdMs, starveCount, main, running_, totalEvents_, watchdog>>

\* enterWaiting: waitStart = now, then the state.
enterWaiting_stamp(t) ==
    /\ waits[t] < MaxWaits
    /\ Step(t, "ready", "stamped")
    /\ age' = [age EXCEPT ![t] = 0]
    /\ waits' = [waits EXCEPT ![t] = @ + 1]
    /\ UNCHANGED <<state, understated, summary>>

enterWaiting_state(t) ==
    /\ Step(t, "stamped", "blocked")
    /\ state' = [state EXCEPT ![t] = "WAITING"]
    /\ UNCHANGED <<age, waits, understated, summary>>

\* waited = currentWaitMs(), as the thread itself calls it at the end of its
\* wait for the ACTIVE record: 0 unless the state is WAITING.
transitionActive_measure(t) ==
    /\ Step(t, "blocked", "acquired")
    /\ LET waited == IF state[t] = "WAITING" THEN age[t] ELSE 0
       IN understated' = [understated EXCEPT ![t] = IF waited < age[t] THEN @ + 1 ELSE @]
    /\ UNCHANGED <<state, age, waits, summary>>

enterActive(t) ==
    /\ Step(t, "acquired", "active")
    /\ state' = [state EXCEPT ![t] = "ACTIVE"]
    /\ UNCHANGED <<age, waits, understated, summary>>

transitionReleasing(t) ==
    /\ Step(t, "active", "ready")
    /\ state' = [state EXCEPT ![t] = "RELEASING"]
    /\ UNCHANGED <<age, waits, understated, summary>>

\* The end of readerThread and writerThread: the state ...
done(t) ==
    /\ Step(t, "ready", "done")
    /\ state' = [state EXCEPT ![t] = "DONE"]
    /\ UNCHANGED <<age, waits, understated, summary>>

\* ... and log.summary, which reads the counter the watchdog writes.
log_summary(t) ==
    /\ Step(t, "done", "exited")
    /\ summary' = [summary EXCEPT ![t] = starveCount[t]]
    /\ UNCHANGED <<state, age, waits, understated>>

threadStep(t) ==
    \/ enterWaiting_stamp(t) \/ enterWaiting_state(t) \/ transitionActive_measure(t)
    \/ enterActive(t) \/ transitionReleasing(t) \/ done(t) \/ log_summary(t)
-----------------------------------------------------------------------------
(* runSimulation, from pthread_join of the threads on. *)

\* stop(): running_.exchange(false) ...
stop ==
    /\ main = "join"
    /\ \A t \in Threads : at[t] = "exited"
    /\ running_' = FALSE
    /\ main' = "stopping"
    /\ UNCHANGED <<thread, state, starveCount, totalEvents_, watchdog>>

\* Mutant: stop() does not join.
stop_join_not ==
    /\ main = "stopping"
    /\ main' = "stopped"
    /\ UNCHANGED <<thread, state, starveCount, running_, totalEvents_, watchdog>>

\* ... and pthread_join of the watchdog.
stop_join ==
    /\ main = "stopping"
    /\ wd = "exited"
    /\ main' = "stopped"
    /\ UNCHANGED <<thread, state, starveCount, running_, totalEvents_, watchdog>>
-----------------------------------------------------------------------------
(* Watchdog::run *)

info == registry[cursor]

Watch(from, to) ==
    /\ wd = from
    /\ wd' = to
    /\ UNCHANGED <<thread, main, running_>>

\* On to the next entry of the registry.
Advance(from) ==
    /\ Watch(from, "scan")
    /\ cursor' = cursor + 1

\* Mutant: while (true).
run_top_forever ==
    /\ Watch("top", "asleep")
    /\ UNCHANGED <<state, starveCount, totalEvents_, cursor>>

run_top ==
    /\ Watch("top", IF running_ THEN "asleep" ELSE "exited")
    /\ UNCHANGED <<state, starveCount, totalEvents_, cursor>>

\* usleep returns and the scan begins.
run_poll ==
    /\ Watch("asleep", "scan")
    /\ cursor' = 1
    /\ UNCHANGED <<state, starveCount, totalEvents_>>

\* Mutant: the last entry of the registry is left out.
run_scanned_short ==
    /\ cursor >= Len(registry)
    /\ Watch("scan", "top")
    /\ UNCHANGED <<state, starveCount, totalEvents_, cursor>>

run_scanned ==
    /\ cursor > Len(registry)
    /\ Watch("scan", "top")
    /\ UNCHANGED <<state, starveCount, totalEvents_, cursor>>

\* Mutant: the state is not tested here, only by currentWaitMs.
run_load_any ==
    /\ cursor <= Len(registry)
    /\ Watch("scan", "reload")
    /\ UNCHANGED <<state, starveCount, totalEvents_, cursor>>

\* s = info->state.load()
run_load ==
    /\ cursor <= Len(registry)
    /\ \/ Watch("scan", "reload") /\ state[info] = "WAITING" /\ UNCHANGED cursor
       \/ Advance("scan") /\ state[info] # "WAITING"
    /\ UNCHANGED <<state, starveCount, totalEvents_>>

\* currentWaitMs loads the state again: a thread that waits no more has
\* waited 0 ms ...
run_reload ==
    /\ \/ Watch("reload", "measure") /\ state[info] = "WAITING" /\ UNCHANGED cursor
       \/ Watch("reload", "flag") /\ state[info] # "WAITING" /\ 0 >= starveThresholdMs /\ UNCHANGED cursor
       \/ Advance("reload") /\ state[info] # "WAITING" /\ 0 < starveThresholdMs
    /\ UNCHANGED <<state, starveCount, totalEvents_>>

\* ... and then reads the clock and waitStart.
run_measure ==
    /\ \/ Watch("measure", "flag") /\ age[info] >= starveThresholdMs /\ UNCHANGED cursor
       \/ Advance("measure") /\ age[info] < starveThresholdMs
    /\ UNCHANGED <<state, starveCount, totalEvents_>>

\* Mutant: the thread is reported but not marked.
run_flag_unmarked ==
    /\ Watch("flag", "count")
    /\ UNCHANGED <<state, starveCount, totalEvents_, cursor>>

run_flag ==
    /\ Watch("flag", "count")
    /\ state' = [state EXCEPT ![info] = "BLOCKED"]
    /\ UNCHANGED <<starveCount, totalEvents_, cursor>>

\* Mutant: a thread that has gone on in the meantime is not counted.
run_count_marked ==
    /\ Watch("count", "total")
    /\ starveCount' = [starveCount EXCEPT ![info] = IF state[info] = "BLOCKED" THEN @ + 1 ELSE @]
    /\ UNCHANGED <<state, totalEvents_, cursor>>

run_count ==
    /\ Watch("count", "total")
    /\ starveCount' = [starveCount EXCEPT ![info] = @ + 1]
    /\ UNCHANGED <<state, totalEvents_, cursor>>

run_total ==
    /\ Advance("total")
    /\ totalEvents_' = totalEvents_ + 1
    /\ UNCHANGED <<state, starveCount>>

run ==
    \/ run_top \/ run_poll \/ run_scanned \/ run_load \/ run_reload
    \/ run_measure \/ run_flag \/ run_count \/ run_total
-----------------------------------------------------------------------------
Next ==
    \/ Tick \/ stop \/ stop_join \/ run
    \/ \E t \in Threads : threadStep(t)

Spec == Init /\ [][Next]_vars

\* Time passes, the watchdog is scheduled and runSimulation goes on; the
\* threads owe nothing: a wait may last forever.
FairSpec == Spec /\ WF_vars(Tick) /\ WF_vars(run) /\ WF_vars(stop \/ stop_join)
-----------------------------------------------------------------------------
(* Properties. *)

\* Every variable stays in its range; the scan never leaves the registry.
TypeOK ==
    /\ at \in [Threads -> {"ready", "stamped", "blocked", "acquired", "active", "done", "exited"}]
    /\ state \in [Threads -> {"INIT", "WAITING", "ACTIVE", "BLOCKED", "RELEASING", "DONE"}]
    /\ age \in [Threads -> 0..starveThresholdMs]
    /\ waits \in [Threads -> 0..MaxWaits]
    /\ starveCount \in [Threads -> Nat]
    /\ understated \in [Threads -> 0..MaxWaits]
    /\ summary \in [Threads -> Nat]
    /\ starveThresholdMs \in Thresholds
    /\ main \in {"join", "stopping", "stopped"}
    /\ running_ \in BOOLEAN
    /\ totalEvents_ \in Nat
    /\ wd \in {"top", "asleep", "scan", "reload", "measure", "flag", "count", "total", "exited"}
    /\ cursor \in 1..Len(registry) + 1

\* However the watchdog's loads and stores fall between those of a thread, no
\* wait is counted as starvation twice: a thread has at most as many
\* starvation events as it has called the lock.
OneAlarmPerWait == \A t \in Threads : starveCount[t] <= waits[t]

\* The starvation events that the threads' counts add up to: <<t, i>> is the
\* i-th event of thread t.
Events == UNION {{t} \X (1..starveCount[t]) : t \in Threads}

\* When stop() has returned, the watchdog's total and the sum that
\* Metrics::compute makes of the threads' counts are the same number.
TotalsAgree == main = "stopped" => totalEvents_ = Cardinality(Events)

\* The STARVE_EVENTS of a SUMMARY line may be out of date, because the
\* watchdog can be about to count the thread when the thread reads its count,
\* but never by more than the one event that was under way.
SummaryTrailsByOne ==
    main = "stopped" => \A t \in Threads : starveCount[t] - summary[t] \in {0, 1}

\* An ACTIVE record shows 0 ms for a real wait only when the watchdog has
\* marked that wait, so each such record has its own starvation event,
\* already counted or about to be.
UnderstatedWaitsCounted ==
    \A t \in Threads :
        understated[t] <= starveCount[t] + (IF wd = "count" /\ info = t THEN 1 ELSE 0)

\* A thread that stays in its wait is marked BLOCKED by the watchdog.
StarvedThreadIsMarked ==
    \A t \in Threads : at[t] = "blocked" ~> (at[t] # "blocked" \/ state[t] = "BLOCKED")

\* stop() returns, whatever the watchdog was doing when it was called.
StopReturns == main = "stopping" ~> main = "stopped"

\* allThreadsDone (tests/test_cases.cpp): when all threads are joined and the
\* watchdog is stopped, every state is DONE.
AllThreadsDone == main = "stopped" => \A t \in Threads : state[t] = "DONE"
=============================================================================
