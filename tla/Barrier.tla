------------------------------ MODULE Barrier ------------------------------
(***************************************************************************)
(* pthread_barrier_wait and pthread_barrier_destroy of library/pthread,    *)
(* running on the mutex and the condition of CondVar: barrier->lock and    *)
(* barrier->breeched.                                                      *)
(*                                                                         *)
(* One counter, total_height, serves both phases of the barrier.  Below    *)
(* PTHREAD_BARRIER_FLAG it counts the threads that have entered; from the  *)
(* flag upwards it counts, on top of the flag, the threads that still have *)
(* to leave.                                                               *)
(***************************************************************************)
EXTENDS CondVar

CONSTANTS
    Count,  \* the count given to pthread_barrier_init
    Flag    \* PTHREAD_BARRIER_FLAG

ASSUME CountAssumption == Count \in Nat \ {0}
\* 2^31 is larger than PTHREAD_THREADS_MAX, the most threads that can enter.
ASSUME FlagAssumption ==
    Flag \in Nat /\ Flag > Count /\ IsFiniteSet(Threads) /\ Flag > Cardinality(Threads)

VARIABLES
    total,   \* barrier->total_height
    bpc,     \* where each thread is in pthread_barrier_wait
    bstate   \* "live", "checked" by a pthread_barrier_destroy, or "freed"

barrierVars == <<condVars, total, bpc, bstate>>

BarrierTypeOK ==
    /\ CondTypeOK
    /\ total \in Nat
    /\ bpc \in [Threads -> {"out", "enter", "fill", "leave"}]
    /\ bstate \in {"live", "checked", "freed"}

\* pthread_barrier_init
BarrierInit ==
    /\ CondInit
    /\ total = Flag
    /\ bpc = [t \in Threads |-> "out"]
    /\ bstate = "live"

BarrierGoto(t, pc) == bpc' = [bpc EXCEPT ![t] = pc]

\* A thread executes the body of the barrier while it owns barrier->lock and
\* is not inside pthread_cond_wait.
InBody(t, pc) == bpc[t] = pc /\ cpc[t] = "run" /\ owner = t

-----------------------------------------------------------------------------
(* pthread_barrier_wait *)

\* A thread calls the barrier and gets its lock.  Clients do not call it
\* once they have decided to destroy it.
BarrierLock(t) ==
    /\ bpc[t] = "out"
    /\ bstate = "live"
    /\ pthread_mutex_lock(t)
    /\ BarrierGoto(t, "enter")
    /\ UNCHANGED <<total, bstate>>

\* Wait until everyone exits the barrier.
BarrierAwaitExit(t) ==
    /\ InBody(t, "enter")
    /\ total > Flag
    /\ CondEnqueue(t, "none")
    /\ UNCHANGED <<total, bpc, bstate>>

\* total_height once the caller is counted; the first one to enter resets it.
Entered == IF total = Flag THEN 1 ELSE total + 1

\* The last thread to enter turns the counter over and wakes the others.
BarrierBreech(t) ==
    /\ InBody(t, "enter")
    /\ total <= Flag
    /\ Entered = Count
    /\ total' = Entered + Flag - 1
    /\ pthread_cond_broadcast(t)
    /\ BarrierGoto(t, "leave")
    /\ UNCHANGED bstate

BarrierEnter(t) ==
    /\ InBody(t, "enter")
    /\ total <= Flag
    /\ Entered # Count
    /\ total' = Entered
    /\ BarrierGoto(t, "fill")
    /\ UNCHANGED <<condVars, bstate>>

\* Wait until enough threads enter the barrier.
BarrierAwaitFill(t) ==
    /\ InBody(t, "fill")
    /\ total < Flag
    /\ CondEnqueue(t, "none")
    /\ UNCHANGED <<total, bpc, bstate>>

\* Mutant: one wait is taken for the breech, whatever ended it.
BarrierExit_once(t) ==
    /\ InBody(t, "fill")
    /\ total' = total - 1
    /\ IF total' = Flag THEN pthread_cond_broadcast(t) ELSE UNCHANGED condVars
    /\ BarrierGoto(t, "leave")
    /\ UNCHANGED bstate

\* Mutant: the last thread to leave does not wake the ones waiting to enter.
BarrierExit_quiet(t) ==
    /\ InBody(t, "fill")
    /\ total >= Flag
    /\ total' = total - 1
    /\ BarrierGoto(t, "leave")
    /\ UNCHANGED <<condVars, bstate>>

\* Leave; the last thread to do so wakes the ones waiting to enter.
BarrierExit(t) ==
    /\ InBody(t, "fill")
    /\ total >= Flag
    /\ total' = total - 1
    /\ IF total' = Flag THEN pthread_cond_broadcast(t) ELSE UNCHANGED condVars
    /\ BarrierGoto(t, "leave")
    /\ UNCHANGED bstate

BarrierReturn(t) ==
    /\ bpc[t] = "leave"
    /\ pthread_mutex_unlock(t)
    /\ BarrierGoto(t, "out")
    /\ UNCHANGED <<total, bstate>>

-----------------------------------------------------------------------------
(* pthread_barrier_destroy, called by a thread outside the barrier.  Each of *)
(* its tests may fail with EBUSY and leave the barrier as it was.            *)

\* POSIX lets a client destroy a barrier that no thread is blocked on.  The
\* threads of a round that is complete may still be on their way out.
RoundComplete ==
    \A u \in Threads :
        bpc[u] = "out" \/ bpc[u] = "leave" \/ (bpc[u] = "fill" /\ total > Flag)

\* Mutant: total_height is not looked at.
BarrierDestroyCheck_blind(t) ==
    /\ bpc[t] = "out"
    /\ bstate = "live"
    /\ RoundComplete
    /\ owner = NoThread
    /\ bstate' = "checked"
    /\ UNCHANGED <<condVars, total, bpc>>

\* trylock, the test of total_height, unlock
BarrierDestroyCheck(t) ==
    /\ bpc[t] = "out"
    /\ bstate = "live"
    /\ RoundComplete
    /\ owner = NoThread
    /\ total <= Flag
    /\ bstate' = "checked"
    /\ UNCHANGED <<condVars, total, bpc>>

\* pthread_cond_destroy, then, whatever pthread_mutex_destroy answers, the
\* heights are cleared
BarrierDestroyFree(t) ==
    /\ bpc[t] = "out"
    /\ bstate = "checked"
    /\ bstate' = IF CondDestroyable THEN "freed" ELSE "live"
    /\ total' = IF CondDestroyable THEN 0 ELSE total
    /\ UNCHANGED <<condVars, bpc>>

-----------------------------------------------------------------------------

\* The steps pthread_barrier_wait takes once it has been called.
BarrierStep(t) ==
    \/ BarrierAwaitExit(t)
    \/ BarrierBreech(t)
    \/ BarrierEnter(t)
    \/ BarrierAwaitFill(t)
    \/ BarrierExit(t)
    \/ BarrierReturn(t)

BarrierDestroy(t) ==
    \/ BarrierDestroyCheck(t)
    \/ BarrierDestroyFree(t)

\* The steps of pthread_cond_wait, which leave the barrier's own state alone.
BarrierWaitStep(t) ==
    /\ \/ CondRelease(t)
       \/ CondWake(t)
       \/ CondRelock(t)
       \/ CondReturnOk(t)
       \/ ConsoleBreak(t)
    /\ UNCHANGED <<total, bpc, bstate>>

BarrierNext ==
    \E t \in Threads :
        BarrierLock(t) \/ BarrierStep(t) \/ BarrierWaitStep(t) \/ BarrierDestroy(t)

BarrierSafety == BarrierInit /\ [][BarrierNext]_barrierVars

\* A thread inside the library keeps running, and the mutex is granted to every
\* thread that queues for it; whether threads call the barrier is theirs.
BarrierFairness ==
    \A t \in Threads :
        /\ WF_barrierVars(BarrierStep(t))
        /\ WF_barrierVars(CondRelease(t) /\ UNCHANGED <<total, bpc, bstate>>)
        /\ WF_barrierVars(CondWake(t) /\ UNCHANGED <<total, bpc, bstate>>)
        /\ SF_barrierVars(CondRelock(t) /\ UNCHANGED <<total, bpc, bstate>>)
        /\ WF_barrierVars(CondReturnOk(t) /\ UNCHANGED <<total, bpc, bstate>>)

BarrierSpec == BarrierSafety /\ BarrierFairness

-----------------------------------------------------------------------------
(* Properties *)

\* The threads that have been counted in and have not been counted out.
Filling == {t \in Threads : bpc[t] = "fill"}

\* total_height tells the two phases apart and, in both, how many threads are
\* between the two: no wake-up, lost, spurious or late, makes a thread count
\* twice or leave in the wrong phase.
HeightExact ==
    bstate # "freed" =>
        /\ Cardinality(Filling) = IF total < Flag THEN total ELSE total - Flag
        /\ Cardinality(Filling) < Count

\* Once pthread_barrier_destroy has freed the condition and the mutex of a
\* barrier whose round is complete, every thread has left pthread_barrier_wait:
\* EBUSY is answered as long as one of them still has to.
FreedIsQuiet == bstate = "freed" => \A t \in Threads : bpc[t] = "out" /\ cpc[t] = "run"

\* What the barrier promises its callers.
Abstract == INSTANCE AbstractBarrier WITH
    waiting <- Filling,
    open <- total > Flag

\* The code implements the abstract barrier.
ImplementsBarrier == Abstract!Spec

\* Once the barrier is breeched every thread that was waiting gets out: the
\* broadcast reaches also those that have not slept yet.
BreechReleases == \A t \in Threads : (bpc[t] = "fill" /\ total > Flag) ~> bpc[t] = "out"

\* A thread that came early for the next round gets counted in, however the
\* threads of the current round leave.  (Count = the number of threads.)
EntrantsAdmitted == \A t \in Threads : bpc[t] = "enter" ~> bpc[t] # "enter"

\* The counter of pthread_barrier_wait is exact in both phases, and a barrier
\* that pthread_barrier_destroy has freed is quiet.
BarrierSound == BarrierTypeOK /\ HeightExact /\ FreedIsQuiet

\* Every call of pthread_barrier_wait makes progress: into the round, and out
\* of it once the round is complete.
BarrierProgress == BreechReleases /\ EntrantsAdmitted
=============================================================================
