---------------------------- MODULE Logger_proofs ----------------------------
(***************************************************************************)
(* The log file is a copy of stdout, a run stays between its headers, and  *)
(* each thread is logged as a whole and in the order of its code, for any  *)
(* threads, any numbers of operations and alerts, and however the log      *)
(* calls of threads, watchdog and main interleave.                         *)
(***************************************************************************)
EXTENDS Logger, TLAPS

Kinds == {"header", "alert", "INIT", "WAITING", "ACTIVE", "RELEASING", "DONE", "summary"}
Line  == [author : Authors, kind : Kinds, call : Nat \ {0}]

\* The types of the variables.
TypeInv ==
  /\ level_ \in {"VERBOSE", "STANDARD", "SUMMARY"}
  /\ logFile_ \in BOOLEAN
  /\ writeMutex_ \in Authors \cup {NoOne}
  /\ stdout \in Seq(Line) /\ file \in Seq(Line)
  /\ main \in {"init", "first_header", "join", "stop", "last_header", "finished"}
  /\ pc \in [Authors -> {"ready", "lock", "write"}]
  /\ pos \in [Authors -> Nat \ {0}]

\* Whoever is in a log call is there at the time main allows it, and at a
\* call of its script.
CallInv ==
  \A a \in Authors : pc[a] # "ready" =>
    /\ pos[a] <= Len(Script(a))
    /\ IF a = Main THEN main \in {"first_header", "last_header"}
       ELSE IF a = Watchdog THEN main \in {"join", "stop"}
       ELSE main = "join"

\* Main is at the first or the second of its two headers.
HeaderInv ==
  /\ main = "init" => pos[Main] = 1 /\ pc[Main] = "ready"
  /\ main = "first_header" => pos[Main] = 1 \/ (pos[Main] = 2 /\ pc[Main] = "ready")
  /\ main \in {"join", "stop"} => pos[Main] = 2 /\ pc[Main] = "ready"
  /\ main = "last_header" => pos[Main] = 2 \/ (pos[Main] = 3 /\ pc[Main] = "ready")
  /\ main = "finished" => pos[Main] = 3 /\ pc[Main] = "ready"

\* writeMutex_ is held by the author that is between its two writes.
MutexInv == \A a \in Authors : pc[a] = "write" <=> writeMutex_ = a

\* The file lacks at most the line that is being written.
FileInv ==
  /\ main = "init" => stdout = <<>> /\ file = <<>>
  /\ logFile_ => /\ writeMutex_ = NoOne => file = stdout
                 /\ writeMutex_ # NoOne => stdout = Append(file, line(writeMutex_))
  /\ ~logFile_ /\ main # "finished" => file = <<>>
  /\ main = "finished" => writeMutex_ = NoOne /\ ~logFile_ /\ (file = stdout \/ file = <<>>)

\* The headers main has put on stdout, and where they are.
Headers == IF pc[Main] = "write" THEN pos[Main] ELSE pos[Main] - 1

\* stdout begins with the first header and, once it is written, ends with the
\* second.
IsHeader(i) == stdout[i].kind = "header"
PlaceInv ==
  /\ Headers = 0 => stdout = <<>>
  /\ Headers = 1 => Len(stdout) >= 1 /\ \A i \in 1..Len(stdout) : IsHeader(i) <=> i = 1
  /\ Headers = 2 => \A i \in 1..Len(stdout) : IsHeader(i) <=> i \in {1, Len(stdout)}

\* The calls of a whose line is on stdout by now, and where the lines of a are.
Said(a) == {n \in 1..Len(Script(a)) : /\ shouldLog(Script(a)[n])
                                      /\ n < pos[a] \/ (n = pos[a] /\ pc[a] = "write")}
Mine(a) == {i \in 1..Len(stdout) : stdout[i].author = a}

\* Those lines are on stdout, once each and in order, and no other line of a.
RecordsOf(a) ==
  /\ {stdout[i].call : i \in Mine(a)} = Said(a)
  /\ \A i \in Mine(a) : stdout[i].kind = Script(a)[stdout[i].call]
  /\ \A i, j \in Mine(a) : i < j => stdout[i].call < stdout[j].call

\* level_ is set before the first log call, so that it decides on all of them.
RecordInv ==
  \A a \in Authors : /\ RecordsOf(a)
                     /\ pc[a] # "ready" => shouldLog(Kind(a))
                     /\ main = "init" => pos[a] = 1

\* Joined threads have made all their log calls.
DoneInv == main \in {"stop", "last_header", "finished"} => \A t \in Threads : Finished(t)

\* The inductive invariant.
IndInv == /\ TypeInv /\ CallInv /\ HeaderInv /\ MutexInv /\ FileInv /\ PlaceInv
          /\ RecordInv /\ DoneInv
-----------------------------------------------------------------------------
\* Who is who: threads, watchdog and main are different authors.
LEMMA AuthorFacts ==
  /\ Main \in Authors /\ Watchdog \in Authors /\ NoOne \notin Authors /\ Main # Watchdog
  /\ \A t \in Threads : t \in Authors /\ t # Main /\ t # Watchdog
BY LoggerAssumption DEF Authors

\* Only main writes headers, and it writes two; threads write no alerts.
LEMMA ScriptKinds ==
  ASSUME NEW a \in Authors, NEW n \in Nat \ {0}
  PROVE  /\ Len(Script(a)) \in Nat
         /\ n <= Len(Script(a)) => Script(a)[n] \in Kinds
         /\ n <= Len(Script(a)) => (Script(a)[n] = "header" <=> a = Main)
         /\ n <= Len(Script(a)) /\ a \in Threads => Script(a)[n] # "alert"
         /\ a = Main => Len(Script(a)) = 2
         /\ DOMAIN Script(a) = 1..Len(Script(a))
<1>0. \A t \in Threads : t # Main /\ t # Watchdog
  BY AuthorFacts
<1>1. CASE a = Main
  <2>1. Script(a) = <<"header", "header">>
    BY <1>1 DEF Script
  <2>2. n <= 2 => n = 1 \/ n = 2
    OBVIOUS
  <2> QED
    BY <1>0, <1>1, <2>1, <2>2 DEF Kinds
<1>2. CASE a = Watchdog /\ a # Main
  <2>1. Script(a) = [i \in 1..MaxAlerts |-> "alert"] /\ MaxAlerts \in Nat
    BY <1>2, LoggerAssumption DEF Script
  <2> QED
    BY <1>0, <1>2, <2>1 DEF Kinds
<1>3. CASE a # Watchdog /\ a # Main
  <2> DEFINE ops == OpsOf[a]
  <2>1. ops \in Nat /\ Script(a) = ThreadScript(ops)
    BY <1>3, LoggerAssumption DEF Script, Authors
  <2> HIDE DEF ops
  <2>2. 3 * ops + 3 \in Nat
    BY <2>1
  <2>3. Len(Script(a)) = 3 * ops + 3
    BY <2>1, <2>2 DEF ThreadScript
  <2>4. ASSUME n <= 3 * ops + 3 PROVE Script(a)[n] \in Kinds \ {"header", "alert"}
    <3>1. n \in 1..3 * ops + 3
      BY <2>1, <2>4
    <3>2. CASE n = 1 \/ n = 3 * ops + 2 \/ n = 3 * ops + 3
      BY <2>1, <3>1, <3>2 DEF ThreadScript, Kinds
    <3>3. CASE ~(n = 1 \/ n = 3 * ops + 2 \/ n = 3 * ops + 3)
      <4>1. ((n - 2) % 3) + 1 \in 1..3
        BY <3>1, <3>3
      <4>2. ASSUME NEW k \in 1..3
            PROVE  <<"WAITING", "ACTIVE", "RELEASING">>[k] \in Kinds \ {"header", "alert"}
        <5>1. k = 1 \/ k = 2 \/ k = 3
          OBVIOUS
        <5> QED
          BY <5>1 DEF Kinds
      <4>3. Script(a)[n] = <<"WAITING", "ACTIVE", "RELEASING">>[((n - 2) % 3) + 1]
        BY <2>1, <3>1, <3>3 DEF ThreadScript
      <4> QED
        BY <4>1, <4>2, <4>3
    <3> QED
      BY <3>2, <3>3
  <2> QED
    BY <1>3, <2>2, <2>3, <2>4
<1> QED
  BY <1>1, <1>2, <1>3

\* A step after which stdout and the level are the same, and a has made no
\* call that logs, leaves the lines of a as they are.
LEMMA RecordsStay ==
  ASSUME NEW a, stdout' = stdout, Said(a)' = Said(a), RecordsOf(a)
  PROVE  RecordsOf(a)'
<1>1. Mine(a)' = Mine(a)
  BY DEF Mine
<1> QED
  BY <1>1 DEF RecordsOf

\* What a call of another author changes for a: nothing, if it writes no line.
LEMMA SaidStays ==
  ASSUME NEW a, level_' = level_, pc'[a] = pc[a], pos'[a] = pos[a]
  PROVE  Said(a)' = Said(a) /\ shouldLog(Kind(a))' = shouldLog(Kind(a))
BY DEF Said, shouldLog, Kind

\* Before init nobody has logged anything.
LEMMA InitInv == Init => IndInv
<1> SUFFICES ASSUME Init PROVE IndInv
  OBVIOUS
<1> USE AuthorFacts DEF Init
<1>1. TypeInv
  <2>1. <<>> \in Seq(Line)
    OBVIOUS
  <2>2. logFile_ \in BOOLEAN
    BY Zenon
  <2> QED
    BY <2>1, <2>2 DEF TypeInv
<1>2. CallInv /\ HeaderInv /\ MutexInv
  BY DEF CallInv, HeaderInv, MutexInv
<1>3. FileInv
  BY DEF FileInv
<1>4. PlaceInv
  BY DEF PlaceInv, Headers
<1>5. RecordInv
  <2> SUFFICES ASSUME NEW a \in Authors
               PROVE  RecordsOf(a) /\ pc[a] = "ready" /\ pos[a] = 1
    BY DEF RecordInv
  <2>1. pc[a] = "ready" /\ pos[a] = 1
    OBVIOUS
  <2>2. Mine(a) = {}
    BY DEF Mine
  <2>3. Said(a) = {}
    BY <2>1, ScriptKinds DEF Said
  <2> QED
    BY <2>1, <2>2, <2>3 DEF RecordsOf
<1>6. DoneInv
  BY DEF DoneInv
<1> QED
  BY <1>1, <1>2, <1>3, <1>4, <1>5, <1>6 DEF IndInv

\* main goes on only between its own log calls, and when those it waits for
\* have made theirs.
LEMMA MainKeepsInv ==
  ASSUME IndInv, mainStep
  PROVE  IndInv'
<1> USE AuthorFacts DEF IndInv, mainStep, init, start_threads, join, stopped, shutdown, MainGoes
<1>1. /\ writeMutex_' = writeMutex_ /\ stdout' = stdout /\ file' = file /\ pc' = pc /\ pos' = pos
      /\ pc[Main] = "ready"
  BY DEF lines
<1>2. TypeInv'
  <2>1. level_' \in {"VERBOSE", "STANDARD", "SUMMARY"} /\ logFile_' \in BOOLEAN
    BY LoggerAssumption DEF TypeInv
  <2>2. main' \in {"init", "first_header", "join", "stop", "last_header", "finished"}
    OBVIOUS
  <2> QED
    BY <1>1, <2>1, <2>2 DEF TypeInv
<1>3. CallInv'
  <2> SUFFICES ASSUME NEW a \in Authors, pc[a] # "ready"
               PROVE  /\ pos[a] <= Len(Script(a))
                      /\ IF a = Main THEN main' \in {"first_header", "last_header"}
                         ELSE IF a = Watchdog THEN main' \in {"join", "stop"}
                         ELSE main' = "join"
    BY <1>1 DEF CallInv
  <2>1. a # Main /\ pos[a] <= Len(Script(a)) /\ main \in {"join", "stop"}
        /\ (a # Watchdog => main = "join")
    BY <1>1 DEF CallInv
  <2>2. join \/ stopped
    BY <2>1
  <2>3. CASE join
    <3>1. a = Watchdog
      BY <2>1, <2>3 DEF Finished, Authors
    <3> QED
      BY <2>1, <2>3, <3>1
  <2>4. CASE stopped
    BY <2>1, <2>4
  <2> QED
    BY <2>2, <2>3, <2>4
<1>4. HeaderInv'
  <2>1. pos[Main] \in Nat \ {0}
    BY DEF TypeInv
  <2>2. CASE init \/ start_threads \/ join \/ stopped
    BY <1>1, <2>1, <2>2 DEF HeaderInv
  <2>3. CASE shutdown
    <3>1. pos[Main] > 2 /\ main = "last_header"
      BY <2>1, <2>3, ScriptKinds DEF Finished
    <3> QED
      BY <1>1, <2>1, <2>3, <3>1 DEF HeaderInv
  <2> QED
    BY <2>2, <2>3
<1>5. MutexInv'
  BY <1>1 DEF MutexInv
<1>6. FileInv'
  <2>1. line(writeMutex_)' = line(writeMutex_)
    BY <1>1 DEF line, Kind
  <2>2. CASE init
    <3>1. writeMutex_ = NoOne
      <4>1. \A a \in Authors : pc[a] # "write"
        BY <2>2 DEF CallInv, TypeInv
      <4> QED
        BY <4>1 DEF MutexInv, TypeInv
    <3> QED
      BY <1>1, <2>2, <3>1 DEF FileInv
  <2>3. CASE start_threads \/ join \/ stopped
    BY <1>1, <2>1, <2>3 DEF FileInv
  <2>4. CASE shutdown
    BY <1>1, <2>4 DEF FileInv, TypeInv
  <2> QED
    BY <2>2, <2>3, <2>4
<1>7. PlaceInv'
  BY <1>1 DEF PlaceInv, Headers, IsHeader
<1>8. RecordInv'
  <2>1. CASE init
    <3> SUFFICES ASSUME NEW a \in Authors
                 PROVE  RecordsOf(a)' /\ pc[a] = "ready" /\ main' # "init"
      BY <1>1 DEF RecordInv
    <3>1. pc[a] = "ready" /\ pos[a] = 1 /\ RecordsOf(a) /\ main' # "init"
      BY <2>1 DEF CallInv, RecordInv
    <3>2. Said(a) = {} /\ Said(a)' = {}
      <4>1. \A n \in 1..Len(Script(a)) : ~(n < 1)
        BY ScriptKinds
      <4> QED
        BY <1>1, <3>1, <4>1 DEF Said
    <3> QED
      BY <1>1, <3>1, <3>2, RecordsStay
  <2>2. CASE start_threads \/ join \/ stopped \/ shutdown
    <3>1. level_' = level_ /\ main' # "init"
      BY <2>2
    <3> SUFFICES ASSUME NEW a \in Authors
                 PROVE  RecordsOf(a)' /\ (pc'[a] # "ready" => shouldLog(Kind(a))')
      BY <3>1 DEF RecordInv
    <3>2. Said(a)' = Said(a) /\ shouldLog(Kind(a))' = shouldLog(Kind(a))
      BY <1>1, <3>1, SaidStays
    <3>3. RecordsOf(a) /\ (pc[a] # "ready" => shouldLog(Kind(a)))
      BY DEF RecordInv
    <3> QED
      BY <1>1, <3>2, <3>3, RecordsStay
  <2> QED
    BY <2>1, <2>2
<1>9. DoneInv'
  BY <1>1 DEF DoneInv, Finished
<1> QED
  BY <1>2, <1>3, <1>4, <1>5, <1>6, <1>7, <1>8, <1>9

\* A log call that begins, or that its level suppresses.
LEMMA CallBegins ==
  ASSUME IndInv, NEW a \in Authors, suppressed(a) \/ format(a)
  PROVE  IndInv'
<1> USE AuthorFacts DEF IndInv, suppressed, format, Author, Reached
<1>1. /\ level_' = level_ /\ logFile_' = logFile_ /\ writeMutex_' = writeMutex_
      /\ stdout' = stdout /\ file' = file /\ main' = main /\ pc[a] = "ready"
  BY DEF lines
<1>2. /\ pos[a] \in Nat \ {0} /\ pos[Main] \in Nat \ {0} /\ Len(Script(a)) \in Nat
      /\ pos[a] <= Len(Script(a))
      /\ Kind(a) = "header" <=> a = Main
  BY ScriptKinds DEF TypeInv, Kind
<1>3. /\ pc'[a] \in {"ready", "lock"}
      /\ \A b \in Authors \ {a} : pc'[b] = pc[b] /\ pos'[b] = pos[b]
      /\ pc'[a] = "lock" => pos'[a] = pos[a]
      /\ pos'[a] \in {pos[a], pos[a] + 1}
  BY DEF TypeInv
<1>4. a = Main => pos' = pos /\ pc'[Main] = "lock" /\ main = <<"first_header", "last_header">>[pos[Main]]
  BY <1>2 DEF shouldLog, TypeInv
<1>5. TypeInv'
  <2>1. pos' \in [Authors -> Nat \ {0}]
    <3>1. pos \in [Authors -> Nat \ {0}] /\ pos[a] + 1 \in Nat \ {0}
      BY <1>2 DEF TypeInv
    <3> QED
      BY <3>1
  <2>2. pc' \in [Authors -> {"ready", "lock", "write"}]
    BY DEF TypeInv
  <2> QED
    BY <1>1, <2>1, <2>2 DEF TypeInv
<1>6. a = Main => (pos[a] = 1 /\ main = "first_header") \/ (pos[a] = 2 /\ main = "last_header")
  <2>1. a = Main => pos[a] = 1 \/ pos[a] = 2
    BY <1>2, ScriptKinds
  <2> QED
    BY <1>4, <2>1
<1>7. CallInv'
  <2>1. \A b \in Authors \ {a} : pc'[b] # "ready" => pc[b] # "ready" /\ pos'[b] = pos[b]
    BY <1>3
  <2>2. pc'[a] # "ready" =>
          /\ pos'[a] <= Len(Script(a))
          /\ IF a = Main THEN main' \in {"first_header", "last_header"}
             ELSE IF a = Watchdog THEN main' \in {"join", "stop"}
             ELSE main' = "join"
    BY <1>1, <1>2, <1>3, <1>6
  <2> QED
    BY <1>1, <2>1, <2>2 DEF CallInv
<1>8. HeaderInv'
  <2>1. CASE a = Main
    BY <1>1, <1>4, <1>6, <2>1 DEF HeaderInv
  <2>2. CASE a # Main
    BY <1>1, <1>3, <2>2 DEF HeaderInv
  <2> QED
    BY <2>1, <2>2
<1>9. MutexInv'
  BY <1>1, <1>3 DEF MutexInv
<1>10. FileInv'
  <2>1. writeMutex_ # NoOne => line(writeMutex_)' = line(writeMutex_)
    <3>1. writeMutex_ # NoOne => writeMutex_ \in Authors \ {a}
      BY <1>1 DEF TypeInv, MutexInv
    <3> QED
      BY <1>1, <1>3, <3>1 DEF line, Kind
  <2> QED
    BY <1>1, <2>1 DEF FileInv
<1>11. PlaceInv'
  <2>1. Headers' = Headers
    BY <1>1, <1>3, <1>4 DEF Headers
  <2> QED
    BY <1>1, <2>1 DEF PlaceInv, IsHeader
<1>12. main \notin {"init", "stop", "last_header", "finished"} \/ a \notin Threads
  OBVIOUS
<1>13. DoneInv'
  <2> SUFFICES ASSUME main \in {"stop", "last_header", "finished"}, NEW t \in Threads
               PROVE  Finished(t)'
    BY <1>1 DEF DoneInv
  <2>1. Finished(t) /\ t # a /\ t \in Authors
    BY <1>12 DEF DoneInv
  <2> QED
    BY <1>3, <2>1 DEF Finished
<1>14. RecordInv'
  <2>1. main' # "init"
    BY <1>1, <1>6
  <2> SUFFICES ASSUME NEW b \in Authors
               PROVE  RecordsOf(b)' /\ (pc'[b] # "ready" => shouldLog(Kind(b))')
    BY <2>1 DEF RecordInv
  <2>2. RecordsOf(b) /\ (pc[b] # "ready" => shouldLog(Kind(b)))
    BY DEF RecordInv
  <2>3. CASE b # a
    BY <1>1, <1>3, <2>2, <2>3, SaidStays, RecordsStay
  <2>4. CASE b = a /\ format(a)
    <3>1. pos'[a] = pos[a] /\ pc'[a] = "lock" /\ shouldLog(Kind(a))
      BY <2>4 DEF TypeInv
    <3>2. Said(a)' = Said(a) /\ shouldLog(Kind(a))'
      BY <1>1, <3>1 DEF Said, shouldLog, Kind
    <3> QED
      BY <1>1, <2>2, <2>4, <3>2, RecordsStay
  <2>5. CASE b = a /\ suppressed(a)
    <3>1. pos'[a] = pos[a] + 1 /\ pc'[a] = "ready" /\ ~shouldLog(Script(a)[pos[a]])
      BY <2>5 DEF TypeInv, Kind
    <3>2. \A n \in 1..Len(Script(a)) : shouldLog(Script(a)[n])' = shouldLog(Script(a)[n])
      BY <1>1 DEF shouldLog
    <3>3. \A n \in Nat : n < pos[a] + 1 <=> n < pos[a] \/ n = pos[a]
      BY <1>2
    <3>4. Said(a)' = Said(a)
      BY <1>1, <1>2, <3>1, <3>2, <3>3 DEF Said
    <3> QED
      BY <1>1, <2>2, <2>5, <3>1, <3>4, RecordsStay
  <2> QED
    BY <2>3, <2>4, <2>5
<1> QED
  BY <1>5, <1>7, <1>8, <1>9, <1>10, <1>11, <1>13, <1>14

\* The mutex is taken and the line put on stdout: a header of main when
\* nobody else logs, or a line between the two headers.
LEMMA LineToStdout ==
  ASSUME IndInv, NEW a \in Authors, writeLine_stdout(a)
  PROVE  IndInv'
<1> USE AuthorFacts DEF IndInv, writeLine_stdout, Author
<1>1. /\ level_' = level_ /\ logFile_' = logFile_ /\ writeMutex_ = NoOne /\ writeMutex_' = a
      /\ file' = file /\ main' = main /\ pos' = pos /\ pc[a] = "lock"
      /\ stdout' = Append(stdout, line(a))
  OBVIOUS
<1>2. /\ pos[a] \in Nat \ {0} /\ pos[a] <= Len(Script(a))
      /\ Kind(a) \in Kinds /\ (Kind(a) = "header" <=> a = Main)
  BY ScriptKinds DEF TypeInv, CallInv, Kind
<1>3. pc'[a] = "write" /\ \A b \in Authors \ {a} : pc'[b] = pc[b]
  BY DEF TypeInv
<1>4. line(a) \in Line /\ (line(a).kind = "header" <=> a = Main)
  BY <1>2 DEF Line, line
<1>5. TypeInv'
  <2>1. stdout' \in Seq(Line)
    BY <1>1, <1>4 DEF TypeInv
  <2> QED
    BY <1>1, <2>1 DEF TypeInv
<1>6. CallInv'
  BY <1>1, <1>3 DEF CallInv
<1>7. HeaderInv'
  BY <1>1, <1>3 DEF HeaderInv
<1>8. MutexInv'
  BY <1>1, <1>3 DEF MutexInv
<1>9. main \notin {"init", "finished"}
  BY <1>1 DEF CallInv
<1>10. FileInv'
  <2>1. line(a)' = line(a)
    BY <1>1 DEF line, Kind
  <2> QED
    BY <1>1, <1>9, <2>1 DEF FileInv
<1>11. PlaceInv'
  <2>1. /\ Len(stdout) \in Nat /\ Len(stdout') = Len(stdout) + 1
        /\ \A i \in 1..Len(stdout) : stdout'[i] = stdout[i]
        /\ stdout'[Len(stdout) + 1] = line(a)
    BY <1>1, <1>4 DEF TypeInv
  <2>2. pos[Main] \in Nat
    BY DEF TypeInv
  <2>3. CASE a = Main
    <3>1. \/ pos[Main] = 1 /\ Headers = 0 /\ Headers' = 1
          \/ pos[Main] = 2 /\ Headers = 1 /\ Headers' = 2
      BY <1>1, <1>3, <2>3 DEF HeaderInv, CallInv, Headers
    <3>2. CASE Headers = 0
      <4>1. Len(stdout) = 0
        BY <3>2 DEF PlaceInv
      <4>2. Headers' = 1
        BY <3>1, <3>2
      <4> QED
        BY <1>4, <2>1, <2>3, <4>1, <4>2 DEF PlaceInv, IsHeader
    <3>3. CASE Headers = 1
      <4>1. Len(stdout) >= 1 /\ \A i \in 1..Len(stdout) : IsHeader(i) <=> i = 1
        BY <3>3 DEF PlaceInv
      <4>2. Headers' = 2
        BY <3>1, <3>3
      <4>3. \A i \in 1..Len(stdout') : stdout'[i].kind = "header" <=> i \in {1, Len(stdout')}
        <5> SUFFICES ASSUME NEW i \in 1..Len(stdout')
                     PROVE  stdout'[i].kind = "header" <=> i \in {1, Len(stdout')}
          OBVIOUS
        <5>1. i \in 1..Len(stdout) \/ i = Len(stdout) + 1
          BY <2>1
        <5> QED
          BY <1>4, <2>1, <2>3, <4>1, <5>1 DEF IsHeader
      <4> QED
        BY <4>2, <4>3 DEF PlaceInv, IsHeader
    <3> QED
      BY <3>1, <3>2, <3>3
  <2>4. CASE a # Main
    <3>1. Headers = 1 /\ Headers' = 1
      BY <1>1, <1>3, <2>4 DEF HeaderInv, CallInv, Headers
    <3>2. Len(stdout) >= 1 /\ \A i \in 1..Len(stdout) : IsHeader(i) <=> i = 1
      BY <3>1 DEF PlaceInv
    <3>3. \A i \in 1..Len(stdout') : stdout'[i].kind = "header" <=> i = 1
      <4> SUFFICES ASSUME NEW i \in 1..Len(stdout') PROVE stdout'[i].kind = "header" <=> i = 1
        OBVIOUS
      <4>1. i \in 1..Len(stdout) \/ i = Len(stdout) + 1
        BY <2>1
      <4> QED
        BY <1>4, <2>1, <2>4, <3>2, <4>1 DEF IsHeader
    <3> QED
      BY <2>1, <3>1, <3>2, <3>3 DEF PlaceInv, IsHeader
  <2> QED
    BY <2>3, <2>4
<1>12. DoneInv'
  <2> SUFFICES ASSUME main \in {"stop", "last_header", "finished"}, NEW t \in Threads
               PROVE  Finished(t)'
    BY <1>1 DEF DoneInv
  <2>1. Finished(t) /\ t # a /\ t \in Authors
    BY <1>1 DEF DoneInv, Finished
  <2> QED
    BY <1>1, <1>3, <2>1 DEF Finished
<1>13. RecordInv'
  <2>1. /\ Len(stdout) \in Nat /\ Len(stdout') = Len(stdout) + 1
        /\ \A i \in 1..Len(stdout) : stdout'[i] = stdout[i]
        /\ stdout'[Len(stdout) + 1] = line(a)
    BY <1>1, <1>4 DEF TypeInv
  <2>2. /\ line(a).author = a /\ line(a).call = pos[a] /\ line(a).kind = Script(a)[pos[a]]
    BY DEF line, Kind
  <2>3. shouldLog(Script(a)[pos[a]])
    BY <1>1 DEF RecordInv, Kind
  <2> SUFFICES ASSUME NEW b \in Authors
               PROVE  RecordsOf(b)' /\ (pc'[b] # "ready" => shouldLog(Kind(b))')
    BY <1>1, <1>9 DEF RecordInv
  <2>4. RecordsOf(b) /\ (pc[b] # "ready" => shouldLog(Kind(b)))
    BY DEF RecordInv
  <2>5. pc'[b] # "ready" => shouldLog(Kind(b))'
    BY <1>1, <1>3, <2>4 DEF RecordInv, shouldLog, Kind
  <2>6. \A i : i \in 1..Len(stdout') <=> i \in 1..Len(stdout) \/ i = Len(stdout) + 1
    BY <2>1
  <2>7. CASE b # a
    <3>1. Said(b)' = Said(b)
      BY <1>1, <1>3, <2>7, SaidStays
    <3>2. Mine(b)' = Mine(b) /\ \A i \in Mine(b) : stdout'[i] = stdout[i]
      BY <2>1, <2>2, <2>6, <2>7 DEF Mine
    <3>3. {stdout'[i].call : i \in Mine(b)'} = {stdout[i].call : i \in Mine(b)}
      BY <3>2
    <3>4. /\ \A i \in Mine(b)' : stdout'[i].kind = Script(b)[stdout'[i].call]
          /\ \A i, j \in Mine(b)' : i < j => stdout'[i].call < stdout'[j].call
      BY <2>4, <3>2 DEF RecordsOf
    <3> QED
      BY <2>4, <2>5, <3>1, <3>3, <3>4 DEF RecordsOf
  <2>8. CASE b = a
    <3> DEFINE last == Len(stdout) + 1
    <3>1. /\ Mine(a)' = Mine(a) \cup {last} /\ stdout'[last] = line(a)
          /\ \A i \in Mine(a) : stdout'[i] = stdout[i] /\ i \in Nat /\ i < last
      BY <2>1, <2>2, <2>6 DEF Mine
    <3>2. /\ Said(a)' = Said(a) \cup {pos[a]}
          /\ \A n \in Said(a) : n < pos[a]
      <4>1. \A n \in 1..Len(Script(a)) : shouldLog(Script(a)[n])' = shouldLog(Script(a)[n])
        BY <1>1 DEF shouldLog
      <4>2. pos[a] \in 1..Len(Script(a))
        BY <1>2, ScriptKinds
      <4> QED
        BY <1>1, <1>3, <2>3, <4>1, <4>2 DEF Said
    <3> HIDE DEF last
    <3>3. {stdout'[i].call : i \in Mine(a)'} = Said(a)'
      <4>1. {stdout'[i].call : i \in Mine(a) \cup {last}} = {stdout[i].call : i \in Mine(a)} \cup {pos[a]}
        <5>1. stdout'[last].call = pos[a] /\ \A i \in Mine(a) : stdout'[i].call = stdout[i].call
          BY <2>2, <3>1
        <5> QED
          BY <5>1, Zenon
      <4> QED
        BY <2>4, <2>8, <3>1, <3>2, <4>1 DEF RecordsOf
    <3>4. \A i \in Mine(a)' : stdout'[i].kind = Script(a)[stdout'[i].call]
      BY <2>2, <2>4, <2>8, <3>1 DEF RecordsOf
    <3>5. ASSUME NEW i \in Mine(a)', NEW j \in Mine(a)', i < j
          PROVE  stdout'[i].call < stdout'[j].call
      <4>1. i \in Mine(a)
        BY <2>1, <3>1, <3>5 DEF last
      <4>2. CASE j \in Mine(a)
        BY <2>4, <2>8, <3>1, <3>5, <4>1, <4>2 DEF RecordsOf
      <4>3. CASE j = last
        <5>1. stdout[i].call \in Said(a)
          BY <2>4, <2>8, <4>1 DEF RecordsOf
        <5> QED
          BY <2>2, <3>1, <3>2, <4>1, <4>3, <5>1
      <4> QED
        BY <3>1, <4>2, <4>3
    <3> QED
      BY <2>5, <2>8, <3>3, <3>4, <3>5 DEF RecordsOf
  <2> QED
    BY <2>7, <2>8
<1> QED
  BY <1>5, <1>6, <1>7, <1>8, <1>10, <1>11, <1>12, <1>13

\* The same line goes to the file, and the mutex is given back.
LEMMA LineToFile ==
  ASSUME IndInv, NEW a \in Authors, writeLine_file(a)
  PROVE  IndInv'
<1> USE AuthorFacts DEF IndInv, writeLine_file, Author
<1>1. /\ level_' = level_ /\ logFile_' = logFile_ /\ writeMutex_ = a /\ writeMutex_' = NoOne
      /\ stdout' = stdout /\ main' = main /\ pc[a] = "write"
      /\ file' = IF logFile_ THEN Append(file, line(a)) ELSE file
  BY DEF MutexInv
<1>2. /\ pos[a] \in Nat \ {0} /\ pos[a] <= Len(Script(a)) /\ Kind(a) \in Kinds
      /\ (a = Main => pos[a] <= 2)
  BY <1>1, ScriptKinds DEF TypeInv, CallInv, Kind
<1>3. /\ pc'[a] = "ready" /\ pos'[a] = pos[a] + 1
      /\ \A b \in Authors \ {a} : pc'[b] = pc[b] /\ pos'[b] = pos[b]
  BY DEF TypeInv
<1>4. TypeInv'
  <2>1. line(a) \in Line
    BY <1>2 DEF Line, line
  <2>2. file' \in Seq(Line)
    BY <1>1, <2>1 DEF TypeInv
  <2>3. pos' \in [Authors -> Nat \ {0}] /\ pc' \in [Authors -> {"ready", "lock", "write"}]
    BY <1>2 DEF TypeInv
  <2> QED
    BY <1>1, <2>2, <2>3 DEF TypeInv
<1>5. CallInv'
  BY <1>1, <1>3 DEF CallInv
<1>6. HeaderInv'
  BY <1>1, <1>2, <1>3 DEF HeaderInv, CallInv
<1>7. MutexInv'
  BY <1>1, <1>3 DEF MutexInv, TypeInv
<1>8. main \notin {"init", "finished"}
  BY <1>1 DEF CallInv
<1>9. FileInv'
  BY <1>1, <1>8 DEF FileInv
<1>10. PlaceInv'
  <2>1. Headers' = Headers
    BY <1>1, <1>2, <1>3 DEF Headers
  <2> QED
    BY <1>1, <2>1 DEF PlaceInv, IsHeader
<1>11. DoneInv'
  <2> SUFFICES ASSUME main \in {"stop", "last_header", "finished"}, NEW t \in Threads
               PROVE  Finished(t)'
    BY <1>1 DEF DoneInv
  <2>1. Finished(t) /\ t # a /\ t \in Authors
    BY <1>1 DEF DoneInv, Finished
  <2> QED
    BY <1>3, <2>1 DEF Finished
<1>12. RecordInv'
  <2> SUFFICES ASSUME NEW b \in Authors
               PROVE  RecordsOf(b)' /\ (pc'[b] # "ready" => shouldLog(Kind(b))')
    BY <1>1, <1>8 DEF RecordInv
  <2>1. RecordsOf(b) /\ (pc[b] # "ready" => shouldLog(Kind(b)))
    BY DEF RecordInv
  <2>2. CASE b # a
    BY <1>1, <1>3, <2>1, <2>2, SaidStays, RecordsStay
  <2>3. CASE b = a
    <3>1. \A n \in 1..Len(Script(a)) : shouldLog(Script(a)[n])' = shouldLog(Script(a)[n])
      BY <1>1 DEF shouldLog
    <3>2. \A n \in Nat : n < pos[a] + 1 <=> n < pos[a] \/ n = pos[a]
      BY <1>2
    <3>3. Said(a)' = Said(a)
      BY <1>1, <1>3, <3>1, <3>2, ScriptKinds DEF Said
    <3> QED
      BY <1>1, <1>3, <2>1, <2>3, <3>3, RecordsStay
  <2> QED
    BY <2>2, <2>3
<1> QED
  BY <1>4, <1>5, <1>6, <1>7, <1>9, <1>10, <1>11, <1>12

\* Every step of main and of a log call keeps the invariant.
LEMMA NextInv == IndInv /\ [Next]_vars => IndInv'
<1> SUFFICES ASSUME IndInv, [Next]_vars PROVE IndInv'
  OBVIOUS
<1>1. CASE UNCHANGED vars
  <2>1. /\ level_' = level_ /\ logFile_' = logFile_ /\ writeMutex_' = writeMutex_
        /\ stdout' = stdout /\ file' = file /\ main' = main /\ pc' = pc /\ pos' = pos
    BY <1>1 DEF vars, lines
  <2>2. TypeInv' /\ CallInv' /\ HeaderInv' /\ MutexInv' /\ FileInv' /\ PlaceInv' /\ DoneInv'
    BY <2>1 DEF IndInv, TypeInv, CallInv, HeaderInv, MutexInv, FileInv, PlaceInv, DoneInv,
                Headers, IsHeader, line, Kind, Finished
  <2>3. RecordInv'
    BY <2>1, SaidStays, RecordsStay DEF IndInv, RecordInv
  <2> QED
    BY <2>2, <2>3 DEF IndInv
<1> QED
  BY <1>1, MainKeepsInv, CallBegins, LineToStdout, LineToFile DEF Next, logCall
-----------------------------------------------------------------------------
\* The inductive invariant holds throughout every execution.
THEOREM Invariance == Spec => []IndInv
  BY InitInv, NextInv, PTL DEF Spec

\* Whenever nobody is inside writeLine, the log file has the lines of stdout
\* in the same order, from the first header to the time after shutdown.
THEOREM FileAlwaysMirrorsStdout == Spec => []FileMirrorsStdout
<1>1. IndInv => FileMirrorsStdout
  BY DEF IndInv, FileInv, FileMirrorsStdout
<1> QED
  BY <1>1, Invariance, PTL

\* The joins of the threads and of the watchdog keep every line of a run
\* between its two headers.
THEOREM RunStaysBetweenHeaders == Spec => []HeadersEncloseRun
<1>1. IndInv => HeadersEncloseRun
  <2> SUFFICES ASSUME IndInv, main = "finished"
               PROVE  \A i \in DOMAIN stdout : stdout[i].kind = "header" <=> i \in {1, Len(stdout)}
    BY DEF HeadersEncloseRun
  <2>1. Headers = 2
    BY DEF IndInv, HeaderInv, Headers
  <2>2. DOMAIN stdout = 1..Len(stdout)
    BY DEF IndInv, TypeInv
  <2> QED
    BY <2>1, <2>2 DEF IndInv, PlaceInv, IsHeader
<1> QED
  BY <1>1, Invariance, PTL

\* For any numbers of operations, at every level: a finished run has, of each
\* thread, exactly the records its level lets through shouldLog, once and in
\* the order of the thread's code.
THEOREM EveryRecordInOrder == Spec => []RecordsInOrder
<1>1. IndInv => RecordsInOrder
  <2> SUFFICES ASSUME IndInv, main = "finished", NEW t \in Threads
               PROVE  LET mine == {i \in DOMAIN stdout : stdout[i].author = t}
                          due  == {n \in DOMAIN Script(t) :
                                      \/ level_ = "VERBOSE" \/ Script(t)[n] = "summary"
                                      \/ level_ = "STANDARD" /\ Script(t)[n] \notin {"INIT", "RELEASING"}}
                      IN /\ {stdout[i].call : i \in mine} = due
                         /\ \A i \in mine : stdout[i].kind = Script(t)[stdout[i].call]
                         /\ \A i, j \in mine : i < j => stdout[i].call < stdout[j].call
    BY DEF RecordsInOrder
  <2> DEFINE mine == {i \in DOMAIN stdout : stdout[i].author = t}
             due  == {n \in DOMAIN Script(t) :
                         \/ level_ = "VERBOSE" \/ Script(t)[n] = "summary"
                         \/ level_ = "STANDARD" /\ Script(t)[n] \notin {"INIT", "RELEASING"}}
  <2>1. t \in Authors /\ RecordsOf(t) /\ pos[t] \in Nat /\ pc[t] = "ready" /\ pos[t] > Len(Script(t))
    BY AuthorFacts DEF IndInv, RecordInv, DoneInv, Finished, TypeInv
  <2>2. mine = Mine(t)
    <3>1. DOMAIN stdout = 1..Len(stdout)
      BY DEF IndInv, TypeInv
    <3> QED
      BY <3>1 DEF Mine
  <2>3. due = Said(t)
    <3>1. DOMAIN Script(t) = 1..Len(Script(t)) /\ Len(Script(t)) \in Nat
      BY <2>1, ScriptKinds
    <3>2. ASSUME NEW n \in 1..Len(Script(t))
          PROVE  /\ n < pos[t]
                 /\ Script(t)[n] \in Kinds \ {"header", "alert"}
      <4>1. n \in Nat \ {0} /\ n <= Len(Script(t)) /\ t # Main
        BY <3>1, AuthorFacts
      <4> QED
        BY <2>1, <3>1, <4>1, ScriptKinds
    <3>3. ASSUME NEW k \in Kinds \ {"header", "alert"}
          PROVE  shouldLog(k) <=> \/ level_ = "VERBOSE" \/ k = "summary"
                                  \/ level_ = "STANDARD" /\ k \notin {"INIT", "RELEASING"}
      BY DEF shouldLog, Kinds
    <3> QED
      BY <3>1, <3>2, <3>3 DEF Said
  <2> HIDE DEF mine, due
  <2>4. /\ {stdout[i].call : i \in mine} = due
        /\ \A i \in mine : stdout[i].kind = Script(t)[stdout[i].call]
        /\ \A i, j \in mine : i < j => stdout[i].call < stdout[j].call
    BY <2>1, <2>2, <2>3 DEF RecordsOf
  <2> QED
    BY <2>4 DEF mine, due
<1> QED
  BY <1>1, Invariance, PTL
==============================================================================
