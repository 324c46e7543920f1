------------------------------ MODULE Workload ------------------------------
(***************************************************************************)
(* The simulations of one process: runSimulation, called Sims times in a   *)
(* row as runBenchmark does (once from main).  main creates the reader and *)
(* writer threads, each of which claims operations from the shared counter *)
(* opsRemaining and performs them on the SharedResource under the lock,    *)
(* and joins them.                                                         *)
(*                                                                         *)
(* The lock is the contract RWLock, which the modules of the three locks   *)
(* refine; the watchdog is the module Watchdog.  The writer AbortTarget is *)
(* the one that SIGUSR1 stops (NoThread when enableAbortTest is off).      *)
(***************************************************************************)
EXTENDS Integers, FiniteSets

CONSTANTS Readers, Writers, TotalOps, AbortTarget, NoThread,
          Sims             \* the number of simulations the process runs

Threads == Readers \cup Writers

ASSUME WorkloadAssumption ==
    /\ Readers \cap Writers = {}
    /\ IsFiniteSet(Threads)
    /\ TotalOps \in Nat
    /\ NoThread \notin Threads
    /\ AbortTarget \in Writers \cup {NoThread}
    /\ Sims \in Nat \ {0}

VARIABLES sim,             \* the simulation that is running, 1..Sims
          main,            \* what main is doing in runSimulation
          pc,              \* the statement a thread executes next
          mode,            \* where each thread stands with the lock
          opsRemaining,
          opsCompleted,    \* ThreadInfo::opsCompleted
          data_, readCount_, writeCount_,    \* the SharedResource
          seen,            \* the readCount_ a thread has loaded to increment it
          handler,         \* the SIGUSR1 handler is installed
          g_abortSignalReceived,
          signalSim,       \* history: the simulation the signal came in, 0 for none
          quota            \* history: the operations of this simulation that the
                           \* signal leaves to the abort target, done ones included

resource == <<data_, readCount_, writeCount_, seen>>
process  == <<sim, handler, g_abortSignalReceived, signalSim, quota>>
vars     == <<main, pc, mode, opsRemaining, opsCompleted, resource, process>>

Lock == INSTANCE RWLock

Goto(t, from, to) ==
    /\ pc[t] = from
    /\ pc' = [pc EXCEPT ![t] = to]

At(labels) == {t \in Threads : pc[t] \in labels}

\* Where a writer has tested the signal for the last time in its operation.
PastTest == {"increment", "recordWrite", "unlock"}

Init ==
    /\ main = "create"
    /\ pc = [t \in Threads |-> "unborn"]
    /\ Lock!Init
    /\ opsRemaining = TotalOps
    /\ opsCompleted = [t \in Threads |-> 0]
    /\ data_ = 0 /\ readCount_ = 0 /\ writeCount_ = 0
    /\ seen = [t \in Threads |-> 0]
    /\ sim = 1
    /\ handler = FALSE /\ g_abortSignalReceived = FALSE
    /\ signalSim = 0 /\ quota = 0
-----------------------------------------------------------------------------
(* main *)

\* The readers are created first, then the writers, the abort target before
\* the other writers.
create(t) ==
    /\ main = "create"
    /\ t \in Writers => At({"unborn"}) \subseteq Writers
    /\ (t \in Writers \ {AbortTarget}) => AbortTarget \notin At({"unborn"})
    /\ Goto(t, "unborn", "start")
    /\ UNCHANGED <<main, mode, opsRemaining, opsCompleted, resource, process>>

all_created ==
    /\ main = "create"
    /\ At({"unborn"}) = {}
    /\ main' = "join"
    /\ UNCHANGED <<pc, mode, opsRemaining, opsCompleted, resource, process>>

\* The pthread_join loop ends when every thread has returned.
join ==
    /\ main = "join"
    /\ At({"exited", "aborted"}) = Threads
    /\ main' = "finished"
    /\ UNCHANGED <<pc, mode, opsRemaining, opsCompleted, resource, process>>

\* Mutant: the counter of reads is carried over to the next simulation.
next_simulation_counting_on ==
    /\ main = "finished" /\ sim < Sims
    /\ sim' = sim + 1
    /\ main' = "create"
    /\ pc' = [t \in Threads |-> "unborn"]
    /\ mode' = [t \in Threads |-> "out"]
    /\ opsRemaining' = TotalOps
    /\ opsCompleted' = [t \in Threads |-> 0]
    /\ data_' = 0 /\ writeCount_' = 0
    /\ seen' = [t \in Threads |-> 0]
    /\ quota' = 0
    /\ UNCHANGED <<readCount_, handler, g_abortSignalReceived, signalSim>>

\* The next call of runSimulation, on a lock, a resource, a counter and
\* ThreadInfos of its own; the handler and g_abortSignalReceived are not reset.
next_simulation ==
    /\ main = "finished" /\ sim < Sims
    /\ sim' = sim + 1
    /\ main' = "create"
    /\ pc' = [t \in Threads |-> "unborn"]
    /\ mode' = [t \in Threads |-> "out"]
    /\ opsRemaining' = TotalOps
    /\ opsCompleted' = [t \in Threads |-> 0]
    /\ data_' = 0 /\ readCount_' = 0 /\ writeCount_' = 0
    /\ seen' = [t \in Threads |-> 0]
    /\ quota' = 0
    /\ UNCHANGED <<handler, g_abortSignalReceived, signalSim>>

\* SIGUSR1 arrives and sigusr1Handler runs on some thread.  A signal sent
\* before the handler is installed ends the process and is left out.
sigusr1 ==
    /\ handler
    /\ main = "finished" => sim < Sims
    /\ ~g_abortSignalReceived
    /\ g_abortSignalReceived' = TRUE
    /\ signalSim' = sim
    /\ quota' = opsCompleted[AbortTarget] + (IF pc[AbortTarget] \in PastTest THEN 1 ELSE 0)
    /\ UNCHANGED <<main, pc, mode, opsRemaining, opsCompleted, resource, sim, handler>>
-----------------------------------------------------------------------------
(* The loop of readerThread and writerThread. *)

start(t) ==
    /\ Goto(t, "start", "loop")
    /\ handler' = (handler \/ t = AbortTarget)
    /\ UNCHANGED <<main, mode, opsRemaining, opsCompleted, resource,
                   sim, g_abortSignalReceived, signalSim, quota>>

\* The abort target looks for the signal at the head of every iteration.
loop_abort(t) ==
    /\ t = AbortTarget /\ g_abortSignalReceived
    /\ Goto(t, "loop", "exited")
    /\ UNCHANGED <<main, mode, opsRemaining, opsCompleted, resource, process>>

\* Mutant: the signal is only looked for once the lock is held.
loop_continue_always(t) ==
    /\ Goto(t, "loop", "claim")
    /\ UNCHANGED <<main, mode, opsRemaining, opsCompleted, resource, process>>

loop_continue(t) ==
    /\ ~(t = AbortTarget /\ g_abortSignalReceived)
    /\ Goto(t, "loop", "claim")
    /\ UNCHANGED <<main, mode, opsRemaining, opsCompleted, resource, process>>

\* Mutant: the value after the subtraction is tested, not the one before.
claim_after(t) ==
    /\ \/ opsRemaining >= 0 /\ Goto(t, "claim", "call")
       \/ opsRemaining < 0 /\ Goto(t, "claim", "unclaim")
    /\ opsRemaining' = opsRemaining - 1
    /\ UNCHANGED <<main, mode, opsCompleted, resource, process>>

\* opsRemaining->fetch_sub(1): the thread has an operation to do when the
\* counter was positive.
claim(t) ==
    /\ \/ opsRemaining > 0 /\ Goto(t, "claim", "call")
       \/ opsRemaining <= 0 /\ Goto(t, "claim", "unclaim")
    /\ opsRemaining' = opsRemaining - 1
    /\ UNCHANGED <<main, mode, opsCompleted, resource, process>>

\* Mutant: a failed claim is not put back.
unclaim_forgotten(t) ==
    /\ Goto(t, "unclaim", "exited")
    /\ UNCHANGED <<main, mode, opsRemaining, opsCompleted, resource, process>>

\* opsRemaining->fetch_add(1) after a claim that failed, and the end of the
\* thread.
unclaim(t) ==
    /\ Goto(t, "unclaim", "exited")
    /\ opsRemaining' = opsRemaining + 1
    /\ UNCHANGED <<main, mode, opsCompleted, resource, process>>

\* The call of readLock or writeLock.
lock_call(t) ==
    /\ Goto(t, "call", "blocked")
    /\ Lock!Request(t)
    /\ UNCHANGED <<main, opsRemaining, opsCompleted, resource, process>>
-----------------------------------------------------------------------------
(* readerThread: the operation. *)

readLock(r) ==
    /\ Goto(r, "blocked", "record_load")
    /\ Lock!AcquireRead(r)
    /\ UNCHANGED <<main, opsRemaining, opsCompleted, resource, process>>

\* ++readCount_ is a plain increment that readers run side by side: each
\* loads the counter and stores its successor.
recordRead_load(r) ==
    /\ Goto(r, "record_load", "record_store")
    /\ seen' = [seen EXCEPT ![r] = readCount_]
    /\ UNCHANGED <<main, mode, opsRemaining, opsCompleted,
                   data_, readCount_, writeCount_, process>>

recordRead_store(r) ==
    /\ Goto(r, "record_store", "unlock")
    /\ readCount_' = seen[r] + 1
    /\ UNCHANGED <<main, mode, opsRemaining, opsCompleted,
                   data_, writeCount_, seen, process>>

\* Mutant: the reader goes on without unlocking.
readUnlock_forgotten(r) ==
    /\ Goto(r, "unlock", "loop")
    /\ opsCompleted' = [opsCompleted EXCEPT ![r] = @ + 1]
    /\ UNCHANGED <<main, mode, opsRemaining, resource, process>>

readUnlock(r) ==
    /\ Goto(r, "unlock", "loop")
    /\ opsCompleted' = [opsCompleted EXCEPT ![r] = @ + 1]
    /\ Lock!Release(r)
    /\ UNCHANGED <<main, opsRemaining, resource, process>>
-----------------------------------------------------------------------------
(* writerThread: the operation. *)

\* Mutant: the writer calls readLock.
writeLock_shared(w) ==
    /\ Goto(w, "blocked", "locked")
    /\ Lock!AcquireRead(w)
    /\ UNCHANGED <<main, opsRemaining, opsCompleted, resource, process>>

writeLock(w) ==
    /\ Goto(w, "blocked", "locked")
    /\ Lock!AcquireWrite(w)
    /\ UNCHANGED <<main, opsRemaining, opsCompleted, resource, process>>

\* The abort target looks for the signal again once it has the lock; it then
\* unlocks and returns, and the operation it has claimed is never done.
locked_abort(w) ==
    /\ w = AbortTarget /\ g_abortSignalReceived
    /\ Goto(w, "locked", "aborted")
    /\ Lock!Release(w)
    /\ UNCHANGED <<main, opsRemaining, opsCompleted, resource, process>>

\* Mutant: the signal is not looked for once the lock is held.
locked_continue_always(w) ==
    /\ Goto(w, "locked", "increment")
    /\ UNCHANGED <<main, mode, opsRemaining, opsCompleted, resource, process>>

locked_continue(w) ==
    /\ ~(w = AbortTarget /\ g_abortSignalReceived)
    /\ Goto(w, "locked", "increment")
    /\ UNCHANGED <<main, mode, opsRemaining, opsCompleted, resource, process>>

\* A signal that comes between the test and this write does not stop it.
increment(w) ==
    /\ Goto(w, "increment", "recordWrite")
    /\ data_' = data_ + 1
    /\ UNCHANGED <<main, mode, opsRemaining, opsCompleted,
                   readCount_, writeCount_, seen, process>>

recordWrite(w) ==
    /\ Goto(w, "recordWrite", "unlock")
    /\ writeCount_' = writeCount_ + 1
    /\ UNCHANGED <<main, mode, opsRemaining, opsCompleted,
                   data_, readCount_, seen, process>>

writeUnlock(w) ==
    /\ Goto(w, "unlock", "loop")
    /\ opsCompleted' = [opsCompleted EXCEPT ![w] = @ + 1]
    /\ Lock!Release(w)
    /\ UNCHANGED <<main, opsRemaining, resource, process>>
-----------------------------------------------------------------------------
threadStep(t) ==
    \/ start(t) \/ loop_abort(t) \/ loop_continue(t)
    \/ claim(t) \/ unclaim(t) \/ lock_call(t)

readerThread(r) ==
    \/ threadStep(r)
    \/ readLock(r) \/ recordRead_load(r) \/ recordRead_store(r) \/ readUnlock(r)

writerThread(w) ==
    \/ threadStep(w)
    \/ writeLock(w) \/ locked_abort(w) \/ locked_continue(w)
    \/ increment(w) \/ recordWrite(w) \/ writeUnlock(w)

mainStep == (\E t \in Threads : create(t)) \/ all_created \/ join \/ next_simulation

Next ==
    \/ mainStep \/ sigusr1
    \/ \E r \in Readers : readerThread(r)
    \/ \E w \in Writers : writerThread(w)

Spec == Init /\ [][Next]_vars

\* Every thread that can run is run; the lock lets a thread in that can go in.
\* Nobody has to send the signal.
FairSpec ==
    /\ Spec
    /\ WF_vars(mainStep)
    /\ \A r \in Readers : WF_vars(readerThread(r))
    /\ \A w \in Writers : WF_vars(writerThread(w))
-----------------------------------------------------------------------------
(* Properties. *)

\* The operations that the threads of S have completed, and their number:
\* <<t, i>> is the i-th operation of thread t.
Done(S)  == UNION {{t} \X (1..opsCompleted[t]) : t \in S}
Ops(S)   == Cardinality(Done(S))

Claimed  == {"call", "blocked", "record_load", "record_store", "locked", "increment",
             "recordWrite", "unlock"}
Writing  == {"recordWrite", "unlock"}

\* Every variable stays in its range; in particular opsRemaining is never
\* lower than the claims that can fail at once make it, and no counter of the
\* resource exceeds totalOps.
TypeOK ==
    /\ main \in {"create", "join", "finished"}
    /\ pc \in [Threads -> Claimed \cup {"unborn", "start", "loop", "claim", "unclaim", "exited", "aborted"}]
    /\ mode \in [Threads -> Lock!Modes]
    /\ opsRemaining \in -Cardinality(Threads)..TotalOps
    /\ opsCompleted \in [Threads -> 0..TotalOps]
    /\ seen \in [Threads -> 0..TotalOps]
    /\ {data_, readCount_, writeCount_} \subseteq 0..TotalOps
    /\ sim \in 1..Sims
    /\ {handler, g_abortSignalReceived} \subseteq BOOLEAN
    /\ signalSim \in 0..Sims
    /\ quota \in Nat

\* The counter that claims hand out balances: what has been taken from it is
\* what was done, what is under way, what is about to be put back, and the
\* operation that a writer aborted after claiming it has given up.
OpsBalance ==
    TotalOps - opsRemaining =
        Ops(Threads) + Cardinality(At(Claimed \cup {"unclaim", "aborted"}))

\* "Total read+write operations to perform before the simulation ends"
\* (config.hpp): when runSimulation returns, all of them have been done, none
\* twice.  Only a SIGUSR1 of this very simulation, which catches the abort
\* target after its claim, costs one; the flag that an earlier simulation
\* leaves set stops the target before it claims anything.  With nobody but
\* the target there is nobody to do what it leaves, and with no threads at
\* all (--readers 0 --writers 0 is accepted) nobody does anything.
AllOpsDone ==
    main = "finished" =>
        \/ Ops(Threads) = TotalOps
        \/ signalSim = sim /\ Ops(Threads) = TotalOps - 1
        \/ signalSim # 0 /\ Threads = {AbortTarget}
        \/ Threads = {}

\* Whoever is reading sees the resource between two whole writes, and it
\* holds exactly the writes that were done.
ReadersSeeWholeWrites ==
    /\ At({"record_load", "record_store"}) # {} => data_ = writeCount_
    /\ main = "finished" => data_ = Ops(Writers) /\ writeCount_ = Ops(Writers)

\* After SIGUSR1 the abort target completes no operation but the one, if any,
\* in which it had already tested for the signal under the lock, however
\* long it waited for that lock and whatever it had claimed; and none at all
\* in the simulations that follow.
AbortedWriterStops ==
    g_abortSignalReceived => opsCompleted[AbortTarget] <= quota

\* Every runSimulation returns, provided the lock keeps letting threads in,
\* also when the abort target is stopped while it holds the lock.
Termination == <>(main = "finished" /\ sim = Sims)

\* The reads of this simulation that readers have recorded, as in Done.
ReadsMade ==
    UNION {{r} \X (1..(opsCompleted[r] + (IF pc[r] = "unlock" THEN 1 ELSE 0))) : r \in Readers}

\* Readers that run ++readCount_ side by side lose reads, but that is all:
\* the counter never shows more reads than were made on this resource, by
\* however many readers whose loads are old, and it shows none only if there
\* were none.
ReadCountOnlyLoses ==
    /\ readCount_ <= Cardinality(ReadsMade)
    /\ readCount_ = 0 => ReadsMade = {}
=============================================================================
