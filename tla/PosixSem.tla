------------------------------ MODULE PosixSem -----------------------------
(***************************************************************************)
(* The POSIX semaphore of library/pthread/semaphore.c on the mutex and the *)
(* condition of CondVar: sem->lock and sem->count_nonzero.                 *)
(***************************************************************************)
EXTENDS CondVar, Integers, FiniteSetsExt

CONSTANTS
    InitValue,      \* the value given to sem_init
    SEM_VALUE_MAX,
    Credit          \* how many more tokens than it took a thread may post;
                    \* 0 is the use as a lock: sem_wait before sem_post

ASSUME SemValueAssumption ==
    /\ SEM_VALUE_MAX \in Nat
    /\ InitValue \in 0 .. SEM_VALUE_MAX
    /\ Credit \in Nat

ASSUME SemDeadlinesAssumption == Deadlines \subseteq {"none", "future", "past"}

VARIABLES
    value,          \* sem->value
    waiters_count,  \* sem->waiters_count
    spc,            \* where each thread is in the operation it called
    abstime,        \* the deadline each thread passed to sem_timedwait
    held            \* tokens each thread took minus tokens it posted

semVars == <<condVars, value, waiters_count, spc, abstime, held>>

SemTypeOK ==
    /\ CondTypeOK
    /\ value \in 0 .. SEM_VALUE_MAX
    /\ waiters_count \in Nat
    /\ spc \in [Threads -> {"out", "loop", "failed", "try", "post", "posted"}]
    /\ abstime \in [Threads -> {"none", "future", "past"}]
    /\ held \in [Threads -> Int]

\* sem_init
SemInit ==
    /\ CondInit
    /\ value = InitValue
    /\ waiters_count = 0
    /\ spc = [t \in Threads |-> "out"]
    /\ abstime = [t \in Threads |-> "none"]
    /\ held = [t \in Threads |-> 0]

\* A thread runs an operation's code while it owns sem->lock and is not inside
\* the condition wait.
In(t, pc) == spc[t] = pc /\ cpc[t] = "run" /\ owner = t

Goto(t, pc) == spc' = [spc EXCEPT ![t] = pc]

-----------------------------------------------------------------------------
(* sem_timedwait; sem_wait is sem_timedwait without a deadline *)

SemWaitLock(t, deadline) ==
    /\ spc[t] = "out"
    /\ pthread_mutex_lock(t)
    /\ waiters_count' = waiters_count + 1
    /\ abstime' = [abstime EXCEPT ![t] = deadline]
    /\ Goto(t, "loop")
    /\ UNCHANGED <<value, held>>

\* The loop waits again with the deadline it was given, passed or not.
SemWaitSleep(t) ==
    /\ In(t, "loop")
    /\ value = 0
    /\ CondEnqueue(t, abstime[t])
    /\ UNCHANGED <<value, waiters_count, spc, abstime, held>>

SemWaitTake(t) ==
    /\ In(t, "loop")
    /\ value > 0
    /\ pthread_mutex_unlock(t)
    /\ waiters_count' = waiters_count - 1
    /\ value' = value - 1
    /\ held' = [held EXCEPT ![t] = @ + 1]
    /\ Goto(t, "out")
    /\ abstime' = [abstime EXCEPT ![t] = "none"]

\* The wait timed out: the loop ends even if a token is there by now.
SemWaitTimedOut(t) ==
    /\ spc[t] = "loop"
    /\ CondReturnTimedOut(t)
    /\ Goto(t, "failed")
    /\ UNCHANGED <<value, waiters_count, abstime, held>>

\* Mutant: the error path falls through to sem->value--.
SemWaitFail_through(t) ==
    /\ In(t, "failed")
    /\ pthread_mutex_unlock(t)
    /\ waiters_count' = waiters_count - 1
    /\ value' = value - 1
    /\ abstime' = [abstime EXCEPT ![t] = "none"]
    /\ Goto(t, "out")
    /\ UNCHANGED held

SemWaitFail(t) ==
    /\ In(t, "failed")
    /\ pthread_mutex_unlock(t)
    /\ waiters_count' = waiters_count - 1
    /\ Goto(t, "out")
    /\ UNCHANGED <<value, held>>
    /\ abstime' = [abstime EXCEPT ![t] = "none"]

-----------------------------------------------------------------------------
(* sem_trywait *)

SemTryLock(t) ==
    /\ spc[t] = "out"
    /\ pthread_mutex_lock(t)
    /\ Goto(t, "try")
    /\ UNCHANGED <<value, waiters_count, abstime, held>>

SemTry(t) ==
    /\ In(t, "try")
    /\ pthread_mutex_unlock(t)
    /\ LET n == IF value > 0 THEN 1 ELSE 0
       IN  value' = value - n /\ held' = [held EXCEPT ![t] = @ + n]
    /\ Goto(t, "out")
    /\ UNCHANGED <<waiters_count, abstime>>

-----------------------------------------------------------------------------
(* sem_post *)

SemPostLock(t) ==
    /\ spc[t] = "out"
    /\ held[t] > -Credit
    /\ pthread_mutex_lock(t)
    /\ Goto(t, "post")
    /\ UNCHANGED <<value, waiters_count, abstime, held>>

\* Mutant: the waiters are not woken.
SemPost_quiet(t) ==
    /\ In(t, "post")
    /\ value < SEM_VALUE_MAX
    /\ value' = value + 1
    /\ held' = [held EXCEPT ![t] = @ - 1]
    /\ Goto(t, "posted")
    /\ UNCHANGED <<condVars, waiters_count, abstime>>

SemPost(t) ==
    /\ In(t, "post")
    /\ value < SEM_VALUE_MAX
    /\ value' = value + 1
    /\ held' = [held EXCEPT ![t] = @ - 1]
    /\ IF waiters_count > 0 THEN pthread_cond_signal(t) ELSE UNCHANGED condVars
    /\ Goto(t, "posted")
    /\ UNCHANGED <<waiters_count, abstime>>

\* EOVERFLOW
SemPostOverflow(t) ==
    /\ In(t, "post")
    /\ value >= SEM_VALUE_MAX
    /\ pthread_mutex_unlock(t)
    /\ Goto(t, "out")
    /\ UNCHANGED <<value, waiters_count, abstime, held>>

SemPostUnlock(t) ==
    /\ In(t, "posted")
    /\ pthread_mutex_unlock(t)
    /\ Goto(t, "out")
    /\ UNCHANGED <<value, waiters_count, abstime, held>>

-----------------------------------------------------------------------------

\* A deadline passes.  The timer of a wait for it, if one is armed, fires.
DeadlinePasses(t) ==
    /\ abstime[t] = "future"
    /\ abstime' = [abstime EXCEPT ![t] = "past"]
    /\ IF timer[t] = "armed" THEN TimerFires(t) ELSE UNCHANGED condVars
    /\ UNCHANGED <<value, waiters_count, spc, held>>

\* The steps of an operation once it has the lock.
SemStep(t) ==
    \/ SemWaitSleep(t)
    \/ SemWaitTake(t)
    \/ SemWaitTimedOut(t)
    \/ SemWaitFail(t)
    \/ SemTry(t)
    \/ SemPost(t)
    \/ SemPostOverflow(t)
    \/ SemPostUnlock(t)

SemCall(t) ==
    \/ \E d \in Deadlines : SemWaitLock(t, d)
    \/ SemTryLock(t)
    \/ SemPostLock(t)

SemRest == UNCHANGED <<value, waiters_count, spc, abstime, held>>

SemCondStep(t) ==
    /\ CondRelease(t) \/ CondWake(t) \/ CondRelock(t) \/ CondReturnOk(t) \/ ConsoleBreak(t)
    /\ SemRest

SemNext ==
    \E t \in Threads : SemCall(t) \/ SemStep(t) \/ SemCondStep(t) \/ DeadlinePasses(t)

SemSafety == SemInit /\ [][SemNext]_semVars

\* An operation that has been called keeps running, the lock is granted to every
\* thread that queues for it, and time passes.  No thread has to call anything.
SemFairness ==
    \A t \in Threads :
        /\ WF_semVars(SemStep(t))
        /\ WF_semVars(CondRelease(t) /\ SemRest)
        /\ WF_semVars(CondWake(t) /\ SemRest)
        /\ SF_semVars(CondRelock(t) /\ SemRest)
        /\ WF_semVars(CondReturnOk(t) /\ SemRest)
        /\ WF_semVars(DeadlinePasses(t))

SemSpec == SemSafety /\ SemFairness

-----------------------------------------------------------------------------
(* Properties *)

\* Tokens are neither made nor lost: the value and the tokens the threads hold
\* add up to the initial value, whichever way sem_wait and sem_timedwait end.
TokensConserved ==
    value + MapThenSumSet(LAMBDA t : held[t], Threads) = InitValue

\* The threads inside sem_timedwait.
SemWaiters == {t \in Threads : spc[t] \in {"loop", "failed"}}

\* waiters_count, on which sem_post decides whether to signal, counts exactly
\* these threads.
WaitersCounted == waiters_count = Cardinality(SemWaiters)

Sleeping(t) == spc[t] = "loop" /\ cpc[t] = "wait"

\* A token is there and a thread sleeps in sem_wait only while some other
\* thread is on its way to take it: sem_post's signal is not lost.
NoStrandedWaiter ==
    (value > 0 /\ \E t \in Threads : Sleeping(t) /\ sigs[t] \cap WaitMask(t) = {})
        => \E u \in Threads : /\ spc[u] = "loop"
                              /\ cpc[u] # "wait" \/ sigs[u] \cap WaitMask(u) # {}

\* A thread does not sleep in sem_wait for ever while a token is there.
PositiveValueWakes == \A t \in Threads : []<>(value = 0 \/ ~Sleeping(t))

\* value, waiters_count and the sleepers of a semaphore agree with what sem_wait
\* and sem_post have done, in every state and on every way out.
SemSound == SemTypeOK /\ TokensConserved /\ WaitersCounted /\ NoStrandedWaiter
=============================================================================
