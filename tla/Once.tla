-------------------------------- MODULE Once -------------------------------
(***************************************************************************)
(* pthread_once (library/pthread/pthread_once.c) on its spin lock, with an *)
(* init routine that may be cancelled.                                     *)
(***************************************************************************)
EXTENDS Integers, FiniteSets

CONSTANTS OnceThreads

ASSUME OnceAssumption == IsFiniteSet(OnceThreads)

VARIABLES
    started, onceDone, onceLock,   \* the fields of pthread_once_t
    oncePc,
    onceRuns                       \* init routines that ran to their end

onceVars == <<started, onceDone, onceLock, oncePc, onceRuns>>

\* Mutant: {0, 0, 0}, which the test of started takes for a first call.
PTHREAD_ONCE_INIT_zero == 0

\* {0, -1, 0}
PTHREAD_ONCE_INIT == -1

OnceInit ==
    /\ started = PTHREAD_ONCE_INIT /\ onceDone = FALSE /\ onceLock = 0
    /\ oncePc = [t \in OnceThreads |-> "out"]
    /\ onceRuns = 0

OnceGoto(t, pc) == oncePc' = [oncePc EXCEPT ![t] = pc]

\* __sync_val_compare_and_swap(&started, FALSE, TRUE) answers the old value.
OnceCall(t) ==
    /\ oncePc[t] = "out"
    /\ started' = IF started = 0 THEN 1 ELSE started
    /\ OnceGoto(t, IF started # 0 THEN "spin" ELSE "returned")
    /\ UNCHANGED <<onceDone, onceLock, onceRuns>>

\* pthread_spin_lock: __sync_lock_test_and_set until the lock was 0
OnceSpin(t) ==
    /\ oncePc[t] = "spin" /\ onceLock = 0
    /\ onceLock' = 1
    /\ OnceGoto(t, "locked")
    /\ UNCHANGED <<started, onceDone, onceRuns>>

OnceSkips == onceDone

OnceTest(t) ==
    /\ oncePc[t] = "locked"
    /\ OnceGoto(t, IF OnceSkips THEN "unlock" ELSE "routine")
    /\ UNCHANGED <<started, onceDone, onceLock, onceRuns>>

OnceRoutine(t) ==
    /\ oncePc[t] = "routine"
    /\ onceRuns' = onceRuns + 1
    /\ OnceGoto(t, "done")
    /\ UNCHANGED <<started, onceDone, onceLock>>

\* The handler pushed around the routine.
OnceCleanup == onceLock' = 0

\* The thread is cancelled in the routine, and ends.
OnceCancel(t) ==
    /\ oncePc[t] = "routine"
    /\ OnceCleanup
    /\ OnceGoto(t, "dead")
    /\ UNCHANGED <<started, onceDone, onceRuns>>

OnceDone(t) ==
    /\ oncePc[t] = "done"
    /\ onceDone' = TRUE
    /\ OnceGoto(t, "unlock")
    /\ UNCHANGED <<started, onceLock, onceRuns>>

OnceUnlock(t) ==
    /\ oncePc[t] = "unlock"
    /\ onceLock' = 0
    /\ OnceGoto(t, "returned")
    /\ UNCHANGED <<started, onceDone, onceRuns>>

OnceStep(t) ==
    OnceSpin(t) \/ OnceTest(t) \/ OnceRoutine(t) \/ OnceDone(t) \/ OnceUnlock(t)

OnceNext == \E t \in OnceThreads : OnceCall(t) \/ OnceStep(t) \/ OnceCancel(t)

\* Threads inside pthread_once run on; the spin lock is not fair.
OnceFairness == \A t \in OnceThreads : WF_onceVars(OnceStep(t))

OnceSpec == OnceInit /\ [][OnceNext]_onceVars /\ OnceFairness

-----------------------------------------------------------------------------
(* Properties *)

Inside(t) == oncePc[t] \in {"locked", "routine", "done", "unlock"}

\* The init routine runs to its end at most once, and never twice at a time
\* ("init_function will execute only once", test_programs/threads/once.c).
OnceOnly ==
    /\ onceRuns <= 1
    /\ \A t, u \in OnceThreads : Inside(t) /\ Inside(u) => t = u

\* A caller that returns finds the initialisation done.
OnceReady == \A t \in OnceThreads : oncePc[t] = "returned" => onceRuns = 1

\* Every call returns or ends with its thread, although a thread was cancelled
\* in the routine while others spin.
OnceReturns ==
    \A t \in OnceThreads : oncePc[t] = "spin" ~> oncePc[t] \in {"returned", "dead"}

\* One thread runs the init routine to its end, and the other callers of
\* pthread_once return after that.
OnceSafe == OnceOnly /\ OnceReady
=============================================================================
