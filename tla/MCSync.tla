------------------------------ MODULE MCSync -------------------------------
(***************************************************************************)
(* Barrier and PosixSem, the two clients of CondVar, for TLC; a behaviour  *)
(* is about one of them.  The barrier has as many threads as it counts, so *)
(* that a thread early for the next round meets threads still leaving the  *)
(* current one.  The semaphore is used by three threads as a lock, or by   *)
(* two, one of them with deadlines, posting what they never took.          *)
(* Liveness is checked, so no symmetry.                                    *)
(***************************************************************************)
EXTENDS Barrier, PosixSem

CONSTANTS t1, t2, t3

VARIABLE use

syncVars == <<use, barrierVars, semVars>>
ownBarrier == <<total, bpc, bstate>>

SyncInit == use \in {"barrier", "lock", "tokens"} /\ BarrierInit /\ SemInit

AsLock == \A t \in Threads : abstime'[t] = "none" /\ held'[t] >= 0
ByTwo == spc'[t3] = "out" /\ sigs'[t3] = {} /\ abstime'[t2] = "none"

SyncNext ==
    /\ UNCHANGED use
    /\ \/ use = "barrier" /\ BarrierNext /\ SemRest
       \/ use = "lock" /\ SemNext /\ AsLock /\ UNCHANGED ownBarrier
       \/ use = "tokens" /\ SemNext /\ ByTwo /\ UNCHANGED ownBarrier

\* The fairness of both specifications: they share the steps of CondVar.
SyncFairness ==
    \A t \in Threads :
        /\ WF_syncVars(\/ BarrierStep(t) /\ SemRest /\ UNCHANGED use
                       \/ SemStep(t) /\ UNCHANGED <<use, ownBarrier>>)
        /\ WF_syncVars(CondRelease(t) /\ SemRest /\ UNCHANGED <<use, ownBarrier>>)
        /\ WF_syncVars(CondWake(t) /\ SemRest /\ UNCHANGED <<use, ownBarrier>>)
        /\ SF_syncVars(CondRelock(t) /\ SemRest /\ UNCHANGED <<use, ownBarrier>>)
        /\ WF_syncVars(CondReturnOk(t) /\ SemRest /\ UNCHANGED <<use, ownBarrier>>)
        /\ WF_syncVars(DeadlinePasses(t) /\ UNCHANGED <<use, ownBarrier>>)

SyncSpec == SyncInit /\ [][SyncNext]_syncVars /\ SyncFairness
=============================================================================
