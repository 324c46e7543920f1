--------------------------- MODULE SemaphoreCalls ---------------------------
(***************************************************************************)
(* The whole interface of class Semaphore on one semaphore: threads take a *)
(* unit with wait (or a SemaphoreGuard), try_wait or timed_wait, and the   *)
(* one that has got it gives it back with post.                            *)
(*                                                                         *)
(* CLOCK_REALTIME is the counter now, in units of a millisecond; Second of *)
(* them make a second, so a timespec is now \div Second and now % Second.  *)
(* A signal may interrupt a blocked sem_timedwait as often as it likes.    *)
(***************************************************************************)
EXTENDS Semaphore, FiniteSets

CONSTANTS Threads,
          InitialValue,    \* the argument of the constructor
          Timeouts,        \* values of timeoutMs
          Second,          \* units of time in a second (1000 in the code)
          MaxNow           \* bound on the clock

ASSUME SemaphoreCallsAssumption ==
    /\ IsFiniteSet(Threads)
    /\ InitialValue \in Nat
    /\ Timeouts \subseteq Int
    /\ Second \in Nat \ {0}
    /\ MaxNow \in Nat

VARIABLES pc,           \* where a thread is in its call, or what came of it
          now,
          timeoutMs,    \* the argument of the last timed_wait of each thread
          abstime,      \* its local
          due           \* history: when the timeout of that call is over

timed == <<timeoutMs, abstime, due>>
vars  == <<sem, pc, now, timed>>

Goto(t, from, to) ==
    /\ pc[t] = from
    /\ pc' = [pc EXCEPT ![t] = to]

count == sem["sem_"]

Init ==
    /\ sem = [s \in {"sem_"} |-> InitialValue]
    /\ pc = [t \in Threads |-> "out"]
    /\ now = 0
    /\ timeoutMs = [t \in Threads |-> 0]
    /\ abstime = [t \in Threads |-> [tv_sec |-> 0, tv_nsec |-> 0]]
    /\ due = [t \in Threads |-> 0]

Tick ==
    /\ now < MaxNow
    /\ now' = now + 1
    /\ UNCHANGED <<sem, pc, timed>>
-----------------------------------------------------------------------------
(* wait, try_wait, post.  An interrupted sem_wait or sem_trywait is called *)
(* again, which changes nothing.                                           *)

wait_call(t) ==
    /\ Goto(t, "out", "wait")
    /\ UNCHANGED <<sem, now, timed>>

sem_wait(t) ==
    /\ Goto(t, "wait", "in")
    /\ wait("sem_")
    /\ UNCHANGED <<now, timed>>

\* With a count of zero it returns false and nothing has changed.
try_wait(t) ==
    /\ Goto(t, "out", "in")
    /\ wait("sem_")
    /\ UNCHANGED <<now, timed>>

sem_post(t) ==
    /\ Goto(t, "in", "out")
    /\ post("sem_")
    /\ UNCHANGED <<now, timed>>
-----------------------------------------------------------------------------
(* timed_wait *)

\* Mutant: the carry is missed when the sum is a whole second.
Deadline_no_carry(clock, ms) ==
    LET nsec == (clock % Second) + ms
    IN IF nsec > Second
       THEN [tv_sec |-> (clock \div Second) + (nsec \div Second), tv_nsec |-> nsec % Second]
       ELSE [tv_sec |-> clock \div Second, tv_nsec |-> nsec]

\* The clock plus the timeout, whose nanoseconds are carried into seconds.
Deadline(clock, ms) ==
    LET nsec == (clock % Second) + ms
    IN IF nsec >= Second
       THEN [tv_sec |-> (clock \div Second) + (nsec \div Second), tv_nsec |-> nsec % Second]
       ELSE [tv_sec |-> clock \div Second, tv_nsec |-> nsec]

\* MaxNow bounds the calls: those whose deadline the clock can still reach.
timed_wait_call(t, ms) ==
    /\ now + ms <= MaxNow
    /\ Goto(t, "out", "timed")
    /\ timeoutMs' = [timeoutMs EXCEPT ![t] = ms]
    /\ abstime' = [abstime EXCEPT ![t] = Deadline(now, ms)]
    /\ due' = [due EXCEPT ![t] = now + ms]
    /\ UNCHANGED <<sem, now>>

Valid(ts) == ts.tv_nsec \in 0..Second - 1

Passed(ts) == now >= ts.tv_sec * Second + ts.tv_nsec

\* sem_timedwait returns 0 as soon as it finds a unit.  Whether it looks at
\* abstime first is left open by POSIX.
sem_timedwait_ok(t) ==
    /\ Goto(t, "timed", "in") \/ Goto(t, "asleep", "in")
    /\ wait("sem_")
    /\ UNCHANGED <<now, timed>>

\* EINVAL, on which timed_wait throws.
sem_timedwait_EINVAL(t) ==
    /\ Goto(t, "timed", "threw")
    /\ ~Valid(abstime[t])
    /\ UNCHANGED <<sem, now, timed>>

\* ETIMEDOUT, on which timed_wait returns false.  A sleeper may be told so
\* although a unit has been posted in the meantime; a call that finds a unit
\* at once is not.
sem_timedwait_ETIMEDOUT(t) ==
    /\ \/ Goto(t, "timed", "gave_up") /\ count = 0
       \/ Goto(t, "asleep", "gave_up")
    /\ Valid(abstime[t]) /\ Passed(abstime[t])
    /\ UNCHANGED <<sem, now, timed>>

sem_timedwait_sleep(t) ==
    /\ Goto(t, "timed", "asleep")
    /\ count = 0
    /\ Valid(abstime[t]) /\ ~Passed(abstime[t])
    /\ UNCHANGED <<sem, now, timed>>

\* Mutant: whatever ends the sleep is taken for success.
sem_timedwait_EINTR_ok(t) ==
    /\ Goto(t, "asleep", "in")
    /\ UNCHANGED <<sem, now, timed>>

\* Mutant: the interrupted call starts over, deadline included.
sem_timedwait_EINTR_restart(t) ==
    /\ Goto(t, "asleep", "timed")
    /\ abstime' = [abstime EXCEPT ![t] = Deadline(now, timeoutMs[t])]
    /\ UNCHANGED <<sem, now, timeoutMs, due>>

\* EINTR, on which sem_timedwait is called again with the same deadline.
sem_timedwait_EINTR(t) ==
    /\ Goto(t, "asleep", "timed")
    /\ UNCHANGED <<sem, now, timed>>

\* The caller goes on without the unit.
resume(t) ==
    /\ Goto(t, "gave_up", "out") \/ Goto(t, "threw", "out")
    /\ UNCHANGED <<sem, now, timed>>
-----------------------------------------------------------------------------
\* What a thread does in timed_wait once it has called it.
timedStep(t) ==
    \/ sem_timedwait_ok(t) \/ sem_timedwait_EINVAL(t)
    \/ sem_timedwait_ETIMEDOUT(t) \/ sem_timedwait_sleep(t)

Next ==
    \/ Tick
    \/ \E t \in Threads :
        \/ wait_call(t) \/ sem_wait(t) \/ try_wait(t) \/ sem_post(t)
        \/ \E ms \in Timeouts : timed_wait_call(t, ms)
        \/ timedStep(t) \/ sem_timedwait_EINTR(t) \/ resume(t)

Spec == Init /\ [][Next]_vars

\* Time passes and a thread in timed_wait is scheduled.  Nothing else is
\* assumed: units may never be posted, and signals may come without end.
FairSpec == Spec /\ WF_vars(Tick) /\ \A t \in Threads : WF_vars(timedStep(t))
-----------------------------------------------------------------------------
(* Properties. *)

\* A unit is either in the semaphore or with the one thread that got it: a
\* call that was interrupted, timed out or threw has taken none, so a post
\* never takes the count beyond its initial value.
UnitsConserved ==
    count + Cardinality({t \in Threads : pc[t] = "in"}) = InitialValue

\* timed_wait gives up when all of its timeout has passed and not before,
\* wherever in a second the call falls, and throws only for a negative
\* timeout.
GivesUpOnTime ==
    \A t \in Threads :
        /\ pc[t] = "gave_up" => now >= due[t]
        /\ pc[t] = "asleep"  => due[t] = abstime[t].tv_sec * Second + abstime[t].tv_nsec
        /\ pc[t] = "threw"   => timeoutMs[t] < 0

\* "we retry with the ORIGINAL deadline ... so we don't drift on repeated
\* signals" (semaphore.cpp): timed_wait returns even if nobody ever posts and
\* it is interrupted again and again.
TimedWaitReturns ==
    \A t \in Threads : pc[t] \in {"timed", "asleep"} ~> pc[t] \notin {"timed", "asleep"}
=============================================================================
