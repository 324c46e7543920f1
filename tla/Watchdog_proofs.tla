--------------------------- MODULE Watchdog_proofs ---------------------------
(***************************************************************************)
(* The accounts of the watchdog are right for any registry, any thresholds *)
(* and any number of lock calls, however its loads and stores fall between *)
(* those of the threads.                                                   *)
(***************************************************************************)
EXTENDS Watchdog, FiniteSetTheorems, TLAPS

\* The watchdog has found t waiting, and may go on to count it.
Suspected(t) == wd \in {"reload", "measure", "flag", "count"} /\ info = t

\* The events of t, the one that may be under way included ...
Alarms(t) == starveCount[t] + (IF Suspected(t) THEN 1 ELSE 0)

\* ... and the one that is certain to come.
Marked(t) == starveCount[t] + (IF wd = "count" /\ info = t THEN 1 ELSE 0)

\* A thread that shows WAITING is in a wait that has had no alarm yet, unless
\* the watchdog is at it; and so is one that is about to show WAITING.
WaitInv(t) ==
  /\ Alarms(t) <= waits[t]
  /\ at[t] = "stamped" => Alarms(t) <= waits[t] - 1
  /\ (state[t] = "WAITING" /\ ~(Suspected(t) /\ wd # "count")) => Alarms(t) <= waits[t] - 1
  /\ state[t] = "WAITING" => at[t] \in {"blocked", "acquired"}
  /\ at[t] = "blocked" => state[t] \in {"WAITING", "BLOCKED"}

\* A wait that shows BLOCKED has an event that no ACTIVE record has used yet.
UnderstatedInv(t) ==
  /\ understated[t] <= Marked(t)
  /\ (at[t] = "blocked" /\ state[t] = "BLOCKED") => understated[t] + 1 <= Marked(t)

\* A thread that has written its SUMMARY line is suspected of nothing new.
SummaryInv(t) ==
  at[t] = "exited" => summary[t] <= starveCount[t] /\ Alarms(t) <= summary[t] + 1

ScanInv ==
  wd \in {"reload", "measure", "flag", "count", "total"} => cursor <= Len(registry)

StopInv ==
  /\ main # "join" => \A t \in Threads : at[t] = "exited"
  /\ main = "stopped" => wd = "exited"

TotalInv ==
  /\ IsFiniteSet(Events)
  /\ totalEvents_ + (IF wd = "total" THEN 1 ELSE 0) = Cardinality(Events)

IndInv ==
  /\ TypeOK /\ ScanInv /\ StopInv /\ TotalInv
  /\ \A t \in Threads : WaitInv(t) /\ UnderstatedInv(t) /\ SummaryInv(t)
-----------------------------------------------------------------------------
\* The entry the watchdog looks at is a thread of the registry.
LEMMA InfoIsThread ==
  ASSUME TypeOK, cursor <= Len(registry)
  PROVE  info \in Threads
<1>1. cursor \in 1..Len(registry)
  BY WatchdogAssumption DEF TypeOK
<1> QED
  BY <1>1 DEF Threads, info

\* The counts of the events are numbers.
LEMMA AlarmTypes ==
  ASSUME TypeOK, NEW t \in Threads
  PROVE  /\ starveCount[t] \in Nat /\ waits[t] \in 0..MaxWaits /\ MaxWaits \in Nat
         /\ understated[t] \in 0..MaxWaits /\ summary[t] \in Nat
         /\ Alarms(t) \in Nat /\ Marked(t) \in Nat /\ Marked(t) <= Alarms(t)
         /\ starveCount[t] <= Marked(t) /\ Alarms(t) <= starveCount[t] + 1
BY WatchdogAssumption DEF TypeOK, Alarms, Marked, Suspected

\* Before the first poll nobody waits and there is no event.
LEMMA InitInv == Init => IndInv
<1> SUFFICES ASSUME Init PROVE IndInv
  OBVIOUS
<1>0. Len(registry) \in Nat
  BY WatchdogAssumption
<1>1. TypeOK
  <2>1. starveThresholdMs \in Nat /\ starveThresholdMs \in Thresholds /\ MaxWaits \in Nat
    BY WatchdogAssumption DEF Init
  <2> QED
    BY <1>0, <2>1 DEF Init, TypeOK
<1>2. ScanInv /\ StopInv
  BY DEF Init, ScanInv, StopInv
<1>3. TotalInv
  <2>1. Events = {}
    BY DEF Init, Events
  <2> QED
    BY <2>1, FS_EmptySet DEF Init, TotalInv
<1>4. \A t \in Threads : WaitInv(t) /\ UnderstatedInv(t) /\ SummaryInv(t)
  BY DEF Init, WaitInv, UnderstatedInv, SummaryInv, Alarms, Marked, Suspected
<1> QED
  BY <1>1, <1>2, <1>3, <1>4 DEF IndInv

\* A step that is not the watchdog's leaves its accounts as they are.
LEMMA AccountsKept ==
  ASSUME UNCHANGED <<starveCount, totalEvents_, watchdog>>
  PROVE  /\ \A t \in Threads : Alarms(t)' = Alarms(t) /\ Marked(t)' = Marked(t)
                               /\ Suspected(t)' = Suspected(t)
         /\ ScanInv' = ScanInv
         /\ TotalInv' = TotalInv
<1> USE DEF watchdog, info
<1>1. \A t \in Threads : Alarms(t)' = Alarms(t) /\ Marked(t)' = Marked(t)
                         /\ Suspected(t)' = Suspected(t)
  BY DEF Alarms, Marked, Suspected
<1>2. ScanInv' = ScanInv
  BY DEF ScanInv
<1>3. TotalInv' = TotalInv
  <2>1. Events' = Events
    BY DEF Events
  <2> QED
    BY <2>1 DEF TotalInv
<1> QED
  BY <1>1, <1>2, <1>3

\* A step of a thread keeps the invariant: a new wait has no alarm yet, an
\* ACTIVE record that shows 0 uses up the event of its own wait, and a thread
\* that ends has left WAITING behind.
LEMMA ThreadKeepsInv ==
  ASSUME IndInv, NEW t \in Threads, threadStep(t)
  PROVE  IndInv'
<1> USE DEF IndInv
<1>1. UNCHANGED <<starveThresholdMs, starveCount, main, running_, totalEvents_, watchdog>>
  BY DEF threadStep, Step, enterWaiting_stamp, enterWaiting_state, transitionActive_measure,
         enterActive, transitionReleasing, done, log_summary
<1>2. ScanInv' /\ TotalInv'
  BY <1>1, AccountsKept
<1>3. at[t] # "exited"
  BY DEF threadStep, Step, enterWaiting_stamp, enterWaiting_state, transitionActive_measure,
         enterActive, transitionReleasing, done, log_summary
<1>4. StopInv'
  BY <1>1, <1>3 DEF StopInv, watchdog
<1>5. \A u \in Threads : Alarms(u)' = Alarms(u) /\ Marked(u)' = Marked(u)
                         /\ Suspected(u)' = Suspected(u)
  BY <1>1, AccountsKept
<1>6. \A u \in Threads \ {t} :
        /\ at'[u] = at[u] /\ state'[u] = state[u] /\ waits'[u] = waits[u]
        /\ understated'[u] = understated[u] /\ summary'[u] = summary[u]
  BY DEF TypeOK, threadStep, Step, enterWaiting_stamp, enterWaiting_state, transitionActive_measure,
         enterActive, transitionReleasing, done, log_summary
<1>7. \A u \in Threads \ {t} : WaitInv(u)' /\ UnderstatedInv(u)' /\ SummaryInv(u)'
  BY <1>1, <1>5, <1>6 DEF WaitInv, UnderstatedInv, SummaryInv, watchdog
<1>8. /\ starveCount[t] \in Nat /\ waits[t] \in 0..MaxWaits /\ MaxWaits \in Nat
      /\ understated[t] \in 0..MaxWaits /\ summary[t] \in Nat
      /\ Alarms(t) \in Nat /\ Marked(t) \in Nat /\ Marked(t) <= Alarms(t)
      /\ starveCount[t] <= Marked(t) /\ Alarms(t) <= starveCount[t] + 1
  BY AlarmTypes
<1>9. /\ WaitInv(t) /\ UnderstatedInv(t) /\ SummaryInv(t)
      /\ wd' = wd /\ starveCount' = starveCount /\ Suspected(t)' = Suspected(t)
      /\ Alarms(t)' = Alarms(t) /\ Marked(t)' = Marked(t)
  BY <1>1, <1>5 DEF watchdog
<1>10. /\ starveThresholdMs \in Nat
       /\ age \in [Threads -> 0..starveThresholdMs]
       /\ waits \in [Threads -> 0..MaxWaits] /\ understated \in [Threads -> 0..MaxWaits]
       /\ summary \in [Threads -> Nat]
  BY WatchdogAssumption DEF TypeOK
<1>11. ASSUME TypeOK', WaitInv(t)', UnderstatedInv(t)', SummaryInv(t)' PROVE IndInv'
  BY <1>2, <1>4, <1>7, <1>11 DEF IndInv
<1>a. CASE enterWaiting_stamp(t)
  <2> USE <1>a DEF enterWaiting_stamp, Step
  <2>0. waits' \in [Threads -> 0..MaxWaits] /\ age' \in [Threads -> 0..starveThresholdMs]
    BY <1>8, <1>10
  <2>1. TypeOK'
    BY <1>1, <2>0 DEF TypeOK, watchdog
  <2>2. /\ at'[t] = "stamped" /\ waits'[t] = waits[t] + 1 /\ state'[t] = state[t]
        /\ understated'[t] = understated[t] /\ at[t] = "ready"
    BY <1>10 DEF TypeOK
  <2>3. WaitInv(t)' /\ UnderstatedInv(t)' /\ SummaryInv(t)'
    BY <1>8, <1>9, <2>2 DEF WaitInv, UnderstatedInv, SummaryInv
  <2> QED
    BY <1>11, <2>1, <2>3
<1>b. CASE enterWaiting_state(t)
  <2> USE <1>b DEF enterWaiting_state, Step
  <2>1. TypeOK'
    BY <1>1, <1>10 DEF TypeOK, watchdog
  <2>2. /\ at'[t] = "blocked" /\ waits'[t] = waits[t] /\ state'[t] = "WAITING"
        /\ understated'[t] = understated[t] /\ at[t] = "stamped"
    BY DEF TypeOK
  <2>3. WaitInv(t)' /\ UnderstatedInv(t)' /\ SummaryInv(t)'
    BY <1>8, <1>9, <2>2 DEF WaitInv, UnderstatedInv, SummaryInv
  <2> QED
    BY <1>11, <2>1, <2>3
<1>c. CASE transitionActive_measure(t)
  <2> USE <1>c DEF transitionActive_measure, Step
  <2>1. /\ at'[t] = "acquired" /\ waits'[t] = waits[t] /\ state'[t] = state[t]
        /\ at[t] = "blocked"
        /\ understated'[t] \in {understated[t], understated[t] + 1}
        /\ understated'[t] = understated[t] + 1 => state[t] # "WAITING"
    BY <1>8, <1>10 DEF TypeOK
  <2>2. WaitInv(t)' /\ UnderstatedInv(t)' /\ SummaryInv(t)'
    BY <1>8, <1>9, <2>1 DEF WaitInv, UnderstatedInv, SummaryInv
  <2>3. understated'[t] \in 0..MaxWaits
    BY <1>8, <1>9, <2>1, <2>2 DEF WaitInv, UnderstatedInv
  <2>4. understated' \in [Threads -> 0..MaxWaits]
    BY <1>6, <1>10, <2>3
  <2>5. TypeOK'
    BY <1>1, <1>10, <2>4 DEF TypeOK, watchdog
  <2> QED
    BY <1>11, <2>2, <2>5
<1>d. CASE enterActive(t) \/ transitionReleasing(t) \/ done(t)
  <2> USE <1>d DEF enterActive, transitionReleasing, done, Step
  <2>1. TypeOK'
    BY <1>1, <1>10 DEF TypeOK, watchdog
  <2>2. /\ at'[t] \in {"active", "ready", "done"} /\ waits'[t] = waits[t]
        /\ state'[t] # "WAITING" /\ understated'[t] = understated[t]
    BY DEF TypeOK
  <2>3. WaitInv(t)' /\ UnderstatedInv(t)' /\ SummaryInv(t)'
    BY <1>8, <1>9, <2>2 DEF WaitInv, UnderstatedInv, SummaryInv
  <2> QED
    BY <1>11, <2>1, <2>3
<1>e. CASE log_summary(t)
  <2> USE <1>e DEF log_summary, Step
  <2>1. TypeOK'
    BY <1>1, <1>8, <1>10 DEF TypeOK, watchdog
  <2>2. /\ at[t] = "done" /\ at'[t] = "exited" /\ waits'[t] = waits[t] /\ state'[t] = state[t]
        /\ understated'[t] = understated[t] /\ summary'[t] = starveCount[t]
    BY DEF TypeOK
  <2>3. WaitInv(t)' /\ UnderstatedInv(t)' /\ SummaryInv(t)'
    BY <1>8, <1>9, <2>2 DEF WaitInv, UnderstatedInv, SummaryInv
  <2> QED
    BY <1>11, <2>1, <2>3
<1> QED
  BY <1>a, <1>b, <1>c, <1>d, <1>e DEF threadStep

\* The clock and runSimulation keep the invariant.
LEMMA MainKeepsInv ==
  ASSUME IndInv, Tick \/ stop \/ stop_join
  PROVE  IndInv'
<1> USE DEF IndInv, Tick, stop, stop_join, thread
<1>1. UNCHANGED <<starveCount, totalEvents_, watchdog, state, at, waits, understated, summary>>
  OBVIOUS
<1>2. ScanInv' /\ TotalInv'
  BY <1>1, AccountsKept
<1>3. \A t \in Threads : WaitInv(t)' /\ UnderstatedInv(t)' /\ SummaryInv(t)'
  BY <1>1, AccountsKept DEF WaitInv, UnderstatedInv, SummaryInv, watchdog
<1>4. StopInv'
  BY <1>1 DEF StopInv, watchdog
<1>5. TypeOK'
  <2>1. starveThresholdMs \in Nat
    BY WatchdogAssumption DEF TypeOK
  <2>2. age' \in [Threads -> 0..starveThresholdMs]
    <3>1. age \in [Threads -> 0..starveThresholdMs]
      BY DEF TypeOK
    <3>2. CASE Tick
      <4>1. \A t \in Threads : (IF age[t] < starveThresholdMs THEN age[t] + 1 ELSE age[t])
                                \in 0..starveThresholdMs
        BY <2>1, <3>1
      <4> QED
        BY <3>2, <4>1
    <3> QED
      BY <3>1, <3>2
  <2>3. starveThresholdMs' = starveThresholdMs
    OBVIOUS
  <2> QED
    BY <1>1, <2>2, <2>3 DEF TypeOK, watchdog
<1> QED
  BY <1>2, <1>3, <1>4, <1>5

\* What every step of the watchdog leaves alone.
LEMMA WatchdogLeavesThreads ==
  ASSUME run
  PROVE  /\ UNCHANGED <<thread, main, running_>>
         /\ wd # "exited"
BY DEF run, run_top, run_poll, run_scanned, run_load, run_reload, run_measure, run_flag,
       run_count, run_total, Watch, Advance

\* A step that counts nothing keeps the total.
LEMMA TotalKept ==
  ASSUME TotalInv, UNCHANGED <<starveCount, totalEvents_>>, wd # "total", wd' # "total"
  PROVE  TotalInv'
<1>1. Events' = Events
  BY DEF Events
<1> QED
  BY <1>1 DEF TotalInv

\* A step of the watchdog keeps the invariant.  It suspects only a thread that
\* shows WAITING, whose wait has therefore had no alarm, and marks it before
\* it counts it.
LEMMA WatchdogKeepsInv ==
  ASSUME IndInv, run
  PROVE  IndInv'
<1> USE DEF IndInv, info
<1>1. /\ at' = at /\ age' = age /\ waits' = waits /\ understated' = understated
      /\ summary' = summary /\ starveThresholdMs' = starveThresholdMs
      /\ main' = main /\ running_' = running_ /\ wd # "exited"
  BY WatchdogLeavesThreads DEF thread
<1>2. StopInv'
  BY <1>1 DEF StopInv
<1>3. Len(registry) \in Nat /\ cursor \in 1..Len(registry) + 1
  BY WatchdogAssumption DEF TypeOK
<1>4. ASSUME NEW t \in Threads
      PROVE  /\ starveCount[t] \in Nat /\ waits[t] \in Nat
             /\ understated[t] \in Nat /\ summary[t] \in Nat
  BY WatchdogAssumption DEF TypeOK
<1>5. ASSUME TypeOK', ScanInv', TotalInv',
             \A t \in Threads : WaitInv(t)' /\ UnderstatedInv(t)' /\ SummaryInv(t)'
      PROVE  IndInv'
  BY <1>2, <1>5
\* The steps that suspect nobody, before or after.
<1>a. CASE \/ run_top \/ run_poll \/ run_scanned
           \/ run_load /\ wd' = "scan"
  <2> USE <1>a DEF run_top, run_poll, run_scanned, run_load, Watch, Advance
  <2>1. /\ state' = state /\ starveCount' = starveCount /\ totalEvents_' = totalEvents_
        /\ wd \in {"top", "asleep", "scan"} /\ wd' \in {"top", "asleep", "scan", "exited"}
        /\ cursor' \in 1..Len(registry) + 1
    BY <1>3
  <2>2. TypeOK' /\ ScanInv'
    BY <1>1, <2>1 DEF TypeOK, ScanInv
  <2>3. TotalInv'
    BY <2>1, TotalKept
  <2>4. \A t \in Threads : WaitInv(t)' /\ UnderstatedInv(t)' /\ SummaryInv(t)'
    BY <1>1, <2>1 DEF WaitInv, UnderstatedInv, SummaryInv, Alarms, Marked, Suspected
  <2> QED
    BY <1>5, <2>2, <2>3, <2>4
\* The thread shows WAITING: its wait has no alarm yet.
<1>b. CASE run_load /\ wd' # "scan"
  <2> USE <1>b DEF run_load, Watch, Advance
  <2>1. /\ state' = state /\ starveCount' = starveCount /\ totalEvents_' = totalEvents_
        /\ wd = "scan" /\ wd' = "reload" /\ cursor' = cursor
        /\ state[info] = "WAITING" /\ cursor <= Len(registry)
    OBVIOUS
  <2>2. TypeOK' /\ ScanInv'
    BY <1>1, <2>1 DEF TypeOK, ScanInv
  <2>3. TotalInv'
    BY <2>1, TotalKept
  <2>4. ASSUME NEW t \in Threads PROVE WaitInv(t)' /\ UnderstatedInv(t)' /\ SummaryInv(t)'
    BY <1>1, <1>4, <2>1 DEF WaitInv, UnderstatedInv, SummaryInv, Alarms, Marked, Suspected
  <2> QED
    BY <1>5, <2>2, <2>3, <2>4
\* It is still suspected, or no longer.
<1>c. CASE run_reload \/ run_measure
  <2> USE <1>c DEF run_reload, run_measure, Watch, Advance
  <2>1. /\ state' = state /\ starveCount' = starveCount /\ totalEvents_' = totalEvents_
        /\ wd \in {"reload", "measure"} /\ wd' \in {"measure", "flag", "scan"}
        /\ wd' # "scan" => cursor' = cursor
        /\ wd' = "scan" => cursor' = cursor + 1
        /\ cursor <= Len(registry)
    BY DEF ScanInv
  <2>2. TypeOK' /\ ScanInv'
    BY <1>1, <1>3, <2>1 DEF TypeOK, ScanInv
  <2>3. TotalInv'
    BY <2>1, TotalKept
  <2>4. ASSUME NEW t \in Threads PROVE WaitInv(t)' /\ UnderstatedInv(t)' /\ SummaryInv(t)'
    BY <1>1, <1>4, <2>1 DEF WaitInv, UnderstatedInv, SummaryInv, Alarms, Marked, Suspected
  <2> QED
    BY <1>5, <2>2, <2>3, <2>4
\* It is marked, so that it is no longer found waiting ...
<1>d. CASE run_flag
  <2> USE <1>d DEF run_flag, Watch
  <2>1. /\ starveCount' = starveCount /\ totalEvents_' = totalEvents_
        /\ wd = "flag" /\ wd' = "count" /\ cursor' = cursor /\ cursor <= Len(registry)
    BY DEF ScanInv
  <2>2. TypeOK' /\ ScanInv'
    BY <1>1, <2>1 DEF TypeOK, ScanInv
  <2>3. TotalInv'
    BY <2>1, TotalKept
  <2>4. ASSUME NEW t \in Threads PROVE WaitInv(t)' /\ UnderstatedInv(t)' /\ SummaryInv(t)'
    <3>1. /\ t = info => state'[t] = "BLOCKED"
          /\ t # info => state'[t] = state[t]
      BY DEF TypeOK
    <3> QED
      BY <1>1, <1>4, <2>1, <3>1 DEF WaitInv, UnderstatedInv, SummaryInv, Alarms, Marked, Suspected
  <2> QED
    BY <1>5, <2>2, <2>3, <2>4
\* ... and counted: the one event under way becomes an event of the thread ...
<1>e. CASE run_count
  <2> USE <1>e DEF run_count, Watch
  <2>1. /\ state' = state /\ totalEvents_' = totalEvents_
        /\ wd = "count" /\ wd' = "total" /\ cursor' = cursor /\ cursor <= Len(registry)
    BY DEF ScanInv
  <2>2. info \in Threads
    BY <2>1, InfoIsThread
  <2>3. starveCount' = [starveCount EXCEPT ![info] = starveCount[info] + 1]
    OBVIOUS
  <2>4. starveCount'[info] = starveCount[info] + 1
        /\ \A t \in Threads \ {info} : starveCount'[t] = starveCount[t]
    BY <2>2, <2>3 DEF TypeOK
  <2>5. TypeOK' /\ ScanInv'
    <3>1. starveCount \in [Threads -> Nat] /\ starveCount[info] + 1 \in Nat
      BY <1>4, <2>2 DEF TypeOK
    <3>2. starveCount' \in [Threads -> Nat]
      BY <2>3, <3>1
    <3> QED
      BY <1>1, <2>1, <3>2 DEF TypeOK, ScanInv
  <2>6. TotalInv'
    <3> DEFINE event == <<info, starveCount[info] + 1>>
    <3>1. Events' = Events \cup {event}
      <4>1. 1..starveCount'[info] = (1..starveCount[info]) \cup {starveCount[info] + 1}
        BY <1>4, <2>2, <2>4
      <4>2. \A t \in Threads, i \in Int : i \in 1..starveCount'[t]
              <=> i \in 1..starveCount[t] \/ (t = info /\ i = starveCount[info] + 1)
        BY <2>4, <4>1
      <4> QED
        BY <1>4, <2>2, <2>4, <4>2 DEF Events
    <3>2. event \notin Events
      BY <1>4, <2>2 DEF Events
    <3>3. Cardinality(Events') = Cardinality(Events) + 1 /\ IsFiniteSet(Events')
      BY <3>1, <3>2, FS_AddElement DEF TotalInv
    <3>4. totalEvents_ \in Nat /\ Cardinality(Events) = totalEvents_
      BY <2>1 DEF TypeOK, TotalInv
    <3> QED
      BY <2>1, <3>3, <3>4 DEF TotalInv
  <2>7. ASSUME NEW t \in Threads PROVE WaitInv(t)' /\ UnderstatedInv(t)' /\ SummaryInv(t)'
    BY <1>1, <1>4, <2>1, <2>4 DEF WaitInv, UnderstatedInv, SummaryInv, Alarms, Marked, Suspected
  <2> QED
    BY <1>5, <2>5, <2>6, <2>7
\* ... and then of the total.
<1>f. CASE run_total
  <2> USE <1>f DEF run_total, Watch, Advance
  <2>1. /\ state' = state /\ starveCount' = starveCount /\ totalEvents_' = totalEvents_ + 1
        /\ wd = "total" /\ wd' = "scan" /\ cursor' = cursor + 1 /\ cursor <= Len(registry)
    BY DEF ScanInv
  <2>2. TypeOK' /\ ScanInv'
    BY <1>1, <1>3, <2>1 DEF TypeOK, ScanInv
  <2>3. TotalInv'
    <3>1. Events' = Events
      BY <2>1 DEF Events
    <3> QED
      BY <2>1, <3>1 DEF TotalInv, TypeOK
  <2>4. ASSUME NEW t \in Threads PROVE WaitInv(t)' /\ UnderstatedInv(t)' /\ SummaryInv(t)'
    BY <1>1, <1>4, <2>1 DEF WaitInv, UnderstatedInv, SummaryInv, Alarms, Marked, Suspected
  <2> QED
    BY <1>5, <2>2, <2>3, <2>4
<1> QED
  BY <1>a, <1>b, <1>c, <1>d, <1>e, <1>f DEF run

\* Every step of threads, watchdog, main and clock keeps the invariant.
LEMMA NextInv == IndInv /\ [Next]_vars => IndInv'
<1> SUFFICES ASSUME IndInv, [Next]_vars PROVE IndInv'
  OBVIOUS
<1>1. CASE UNCHANGED vars
  <2>1. /\ TypeOK' /\ ScanInv' /\ StopInv' /\ TotalInv'
    BY <1>1, AccountsKept DEF IndInv, vars, thread, watchdog, TypeOK, StopInv
  <2>2. \A t \in Threads : WaitInv(t)' /\ UnderstatedInv(t)' /\ SummaryInv(t)'
    BY <1>1, AccountsKept DEF IndInv, vars, thread, watchdog, WaitInv, UnderstatedInv, SummaryInv
  <2> QED
    BY <2>1, <2>2 DEF IndInv
<1> QED
  BY <1>1, MainKeepsInv, WatchdogKeepsInv, ThreadKeepsInv DEF Next
-----------------------------------------------------------------------------
\* The inductive invariant holds throughout every execution.
THEOREM Invariance == Spec => []IndInv
  BY InitInv, NextInv, PTL DEF Spec

\* Every variable stays in its range, and the scan in the registry.
THEOREM TypeCorrect == Spec => []TypeOK
<1>1. IndInv => TypeOK
  BY DEF IndInv
<1> QED
  BY <1>1, Invariance, PTL

\* No wait is counted as starvation twice, although the watchdog's load of
\* the state, its measurement, its mark and its count are separate steps
\* between which the thread may go on, and even begin to wait again.
THEOREM NoWaitCountedTwice == Spec => []OneAlarmPerWait
<1>1. IndInv => OneAlarmPerWait
  <2> SUFFICES ASSUME IndInv, NEW t \in Threads PROVE starveCount[t] <= waits[t]
    BY DEF OneAlarmPerWait
  <2> QED
    BY AlarmTypes DEF IndInv, WaitInv
<1> QED
  BY <1>1, Invariance, PTL

\* When stop() has returned, totalEvents_ is the number of the events that
\* the threads' counts hold.
THEOREM TotalsAlwaysAgree == Spec => []TotalsAgree
<1>1. IndInv => TotalsAgree
  BY DEF IndInv, TypeOK, StopInv, TotalInv, TotalsAgree
<1> QED
  BY <1>1, Invariance, PTL

\* The STARVE_EVENTS of a SUMMARY line lack at most one event of the final
\* count.
THEOREM SummaryNearlyRight == Spec => []SummaryTrailsByOne
<1>1. IndInv => SummaryTrailsByOne
  <2> SUFFICES ASSUME IndInv, main = "stopped", NEW t \in Threads
               PROVE  starveCount[t] - summary[t] \in {0, 1}
    BY DEF SummaryTrailsByOne
  <2>1. at[t] = "exited" /\ Alarms(t) >= starveCount[t]
    BY AlarmTypes DEF IndInv, StopInv
  <2> QED
    BY <2>1, AlarmTypes DEF IndInv, SummaryInv
<1> QED
  BY <1>1, Invariance, PTL

\* Every ACTIVE record that shows 0 ms for a longer wait has a starvation
\* event of its own.
THEOREM UnderstatedAlwaysCounted == Spec => []UnderstatedWaitsCounted
<1>1. IndInv => UnderstatedWaitsCounted
  BY DEF IndInv, UnderstatedInv, Marked, UnderstatedWaitsCounted
<1> QED
  BY <1>1, Invariance, PTL
==============================================================================
