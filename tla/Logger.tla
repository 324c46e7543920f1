------------------------------- MODULE Logger -------------------------------
(***************************************************************************)
(* class Logger, as one run of the program uses it: main initialises it,   *)
(* writes a header, starts the threads and the watchdog, waits for both,   *)
(* writes a second header and shuts the logger down.  All of them log at   *)
(* the same time.                                                          *)
(*                                                                         *)
(* A log call formats its line, takes writeMutex_ and puts the line on     *)
(* stdout, then writes it to the log file, if there is one, and gives      *)
(* writeMutex_ back: three steps.  Of a line its author and its kind are   *)
(* kept, and as history which of its author's calls wrote it.              *)
(***************************************************************************)
EXTENDS Integers, Sequences

CONSTANTS Threads,
          OpsOf,            \* the operations each thread performs
          Levels,           \* values of --log
          MaxAlerts,        \* bound on the watchdog's alerts
          Main, Watchdog, NoOne

ASSUME LoggerAssumption ==
    /\ OpsOf \in [Threads -> Nat]
    /\ Levels \subseteq {"VERBOSE", "STANDARD", "SUMMARY"}
    /\ MaxAlerts \in Nat
    /\ Main # Watchdog /\ NoOne \notin {Main, Watchdog}
    /\ Threads \cap {Main, Watchdog, NoOne} = {}

Authors == Threads \cup {Main, Watchdog}

VARIABLES level_, logFile_, writeMutex_,
          stdout, file,     \* the lines on stdout and in the log file
          main,             \* where main is
          pc, pos           \* where each author is in its log call, and which call it is

lines == <<stdout, file>>
vars  == <<level_, logFile_, writeMutex_, lines, main, pc, pos>>

\* The log calls of each author, in the order of its code: those of an
\* operation come from transitionWaiting, transitionActive and
\* transitionReleasing.
ThreadScript(n) ==
    [i \in 1..3 * n + 3 |->
        IF i = 1 THEN "INIT"
        ELSE IF i = 3 * n + 2 THEN "DONE"
        ELSE IF i = 3 * n + 3 THEN "summary"
        ELSE <<"WAITING", "ACTIVE", "RELEASING">>[((i - 2) % 3) + 1]]

Script(a) ==
    IF a = Main THEN <<"header", "header">>
    ELSE IF a = Watchdog THEN [i \in 1..MaxAlerts |-> "alert"]
    ELSE ThreadScript(OpsOf[a])

Kind(a) == Script(a)[pos[a]]

\* Mutant: DONE is not among the STANDARD records.
shouldLog_not_done(kind) ==
    \/ level_ = "VERBOSE"
    \/ level_ = "STANDARD" /\ kind \in {"WAITING", "ACTIVE", "BLOCKED"}
    \/ kind \in {"header", "alert", "summary"}

\* record filters by level_; header, alert and summary do not.
shouldLog(kind) ==
    \/ level_ = "VERBOSE"
    \/ level_ = "STANDARD" /\ kind \in {"WAITING", "ACTIVE", "BLOCKED", "DONE"}
    \/ kind \in {"header", "alert", "summary"}

Init ==
    /\ level_ = "VERBOSE" /\ logFile_ = FALSE /\ writeMutex_ = NoOne
    /\ stdout = <<>> /\ file = <<>>
    /\ main = "init"
    /\ pc = [a \in Authors |-> "ready"] /\ pos = [a \in Authors |-> 1]
-----------------------------------------------------------------------------
(* main *)

Finished(a) == pc[a] = "ready" /\ pos[a] > Len(Script(a))

MainGoes(from, to) ==
    /\ main = from /\ pc[Main] = "ready"
    /\ main' = to
    /\ UNCHANGED <<writeMutex_, lines, pc, pos>>

\* init: a log file is opened if one is asked for; that may fail.
init ==
    /\ MainGoes("init", "first_header")
    /\ level_' \in Levels
    /\ logFile_' \in BOOLEAN

start_threads ==
    /\ pos[Main] = 2
    /\ MainGoes("first_header", "join")
    /\ UNCHANGED <<level_, logFile_>>

\* pthread_join of all threads, and watchdog.stop() up to its join.
join ==
    /\ \A t \in Threads : Finished(t)
    /\ MainGoes("join", "stop")
    /\ UNCHANGED <<level_, logFile_>>

\* Mutant: stop() does not wait for the watchdog.
stopped_early ==
    /\ MainGoes("stop", "last_header")
    /\ UNCHANGED <<level_, logFile_>>

\* The watchdog sees running_ = false between two log calls, and is joined.
stopped ==
    /\ pc[Watchdog] = "ready"
    /\ MainGoes("stop", "last_header")
    /\ UNCHANGED <<level_, logFile_>>

shutdown ==
    /\ Finished(Main)
    /\ writeMutex_ = NoOne
    /\ MainGoes("last_header", "finished")
    /\ logFile_' = FALSE
    /\ UNCHANGED level_
-----------------------------------------------------------------------------
(* One log call. *)

Author(a, from, to) ==
    /\ pc[a] = from
    /\ pc' = [pc EXCEPT ![a] = to]
    /\ UNCHANGED <<level_, logFile_, main>>

\* When the code of a reaches its next log call.  The watchdog alerts when it
\* finds a reason to, which this module does not decide.
Reached(a) ==
    /\ pos[a] <= Len(Script(a))
    /\ IF a = Main THEN main = <<"first_header", "last_header">>[pos[a]]
       ELSE IF a = Watchdog THEN main \in {"join", "stop"}
       ELSE main = "join"

suppressed(a) ==
    /\ Reached(a) /\ ~shouldLog(Kind(a))
    /\ Author(a, "ready", "ready")
    /\ pos' = [pos EXCEPT ![a] = @ + 1]
    /\ UNCHANGED <<writeMutex_, lines>>

\* The line is formatted, with its time stamp, before the mutex is taken.
format(a) ==
    /\ Reached(a) /\ shouldLog(Kind(a))
    /\ Author(a, "ready", "lock")
    /\ UNCHANGED <<writeMutex_, lines, pos>>

line(a) == [author |-> a, kind |-> Kind(a), call |-> pos[a]]

\* Mutant: writeLine without the mutex.
writeLine_stdout_unlocked(a) ==
    /\ Author(a, "lock", "write")
    /\ stdout' = Append(stdout, line(a))
    /\ UNCHANGED <<writeMutex_, file, pos>>

\* pthread_mutex_lock and puts.
writeLine_stdout(a) ==
    /\ Author(a, "lock", "write")
    /\ writeMutex_ = NoOne /\ writeMutex_' = a
    /\ stdout' = Append(stdout, line(a))
    /\ UNCHANGED <<file, pos>>

\* Mutant: without a log file the call returns early, with the mutex.
writeLine_file_returns(a) ==
    /\ Author(a, "write", "ready")
    /\ file' = IF logFile_ THEN Append(file, line(a)) ELSE file
    /\ writeMutex_' = IF logFile_ THEN NoOne ELSE a
    /\ pos' = [pos EXCEPT ![a] = @ + 1]
    /\ UNCHANGED <<stdout>>

\* fputs and fputc, and pthread_mutex_unlock.
writeLine_file(a) ==
    /\ Author(a, "write", "ready")
    /\ file' = IF logFile_ THEN Append(file, line(a)) ELSE file
    /\ writeMutex_' = NoOne
    /\ pos' = [pos EXCEPT ![a] = @ + 1]
    /\ UNCHANGED <<stdout>>

logCall(a) == suppressed(a) \/ format(a) \/ writeLine_stdout(a) \/ writeLine_file(a)
-----------------------------------------------------------------------------
mainStep == init \/ start_threads \/ join \/ stopped \/ shutdown

Next == mainStep \/ \E a \in Authors : logCall(a)

Spec == Init /\ [][Next]_vars

\* Every author that can go on does; the watchdog stops alerting when it is
\* stopped.
FairSpec == Spec /\ WF_vars(mainStep) /\ \A a \in Authors : WF_vars(logCall(a))
-----------------------------------------------------------------------------
(* Properties. *)

\* "write log to this file in addition to stdout" (config.hpp): whoever holds
\* writeMutex_ aside, the log file has the lines of stdout in the same order,
\* so the two never disagree about who was first.
FileMirrorsStdout ==
    \/ writeMutex_ # NoOne
    \/ file = stdout
    \/ ~logFile_ /\ file = <<>>

\* A finished run is logged between its two headers, and between them only:
\* no record of a thread and no alert of the watchdog comes after the last
\* header, and no header comes in between.
HeadersEncloseRun ==
    main = "finished" =>
        \A i \in DOMAIN stdout : stdout[i].kind = "header" <=> i \in {1, Len(stdout)}

\* A finished run is logged as a whole: each thread with the records its level
\* lets through (logger.hpp), once and in the order of its code.
RecordsInOrder ==
    main = "finished" =>
        \A t \in Threads :
            LET mine == {i \in DOMAIN stdout : stdout[i].author = t}
                due  == {n \in DOMAIN Script(t) :
                            \/ level_ = "VERBOSE" \/ Script(t)[n] = "summary"
                            \/ level_ = "STANDARD" /\ Script(t)[n] \notin {"INIT", "RELEASING"}}
            IN /\ {stdout[i].call : i \in mine} = due
               /\ \A i \in mine : stdout[i].kind = Script(t)[stdout[i].call]
               /\ \A i, j \in mine : i < j => stdout[i].call < stdout[j].call

\* Nobody waits forever for writeMutex_: the run ends with the logger shut down.
ShutdownReached == <>(main = "finished")
=============================================================================
