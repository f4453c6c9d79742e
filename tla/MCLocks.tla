------------------------------ MODULE MCLocks ------------------------------
(***************************************************************************)
(* Mutex, RWLock, Once, TlsKeys and Signals for TLC, one of them per       *)
(* behaviour.  Liveness is checked, so no symmetry.                        *)
(***************************************************************************)
EXTENDS Mutex, RWLock, Once, TlsKeys, Signals

CONSTANTS Threads, Objects    \* which of them to check

VARIABLE object     \* the one this behaviour is about

lockVars == <<object, mxVars, rwVars, onceVars, tkVars, sgVars>>

MCSgOrder == <<"INT", "ALRM">>

Idle(o) ==
    /\ UNCHANGED object
    /\ o # "mutex" => UNCHANGED mxVars
    /\ o # "rwlock" => UNCHANGED rwVars
    /\ o # "once" => UNCHANGED onceVars
    /\ o # "keys" => UNCHANGED tkVars
    /\ o # "signals" => UNCHANGED sgVars

LocksInit ==
    /\ object \in Objects
    /\ RwInit /\ OnceInit /\ TkInit
    /\ SgInit /\ (object # "signals" => sgTable = [s \in SgSignals |-> "DFL"])
    /\ MxInit /\ (object # "mutex" => mxKind = "NORMAL")

LocksNext ==
    \/ object = "mutex" /\ MxNext /\ Idle("mutex")
    \/ object = "rwlock" /\ RwNext /\ Idle("rwlock")
    \/ object = "once" /\ OnceNext /\ Idle("once")
    \/ object = "keys" /\ TkNext /\ Idle("keys")
    \/ object = "signals" /\ SgNext /\ Idle("signals")

\* The fairness of the first four specifications.  Only the actions of one object are
\* ever enabled, so one condition serves an action of each.
LocksFairness ==
    \A t \in Threads :
      /\ WF_lockVars(\/ MxStep(t) /\ Idle("mutex")
                     \/ RwStep(t) /\ Idle("rwlock")
                     \/ RwGoesOn(t) /\ Idle("rwlock")
                     \/ OnceStep(t) /\ Idle("once")
                     \/ t \in TkThreads /\ TkExit(t) /\ Idle("keys"))
      /\ WF_lockVars(\/ RwTimerFires(t) /\ Idle("rwlock")
                     \/ MxTimerFires /\ Idle("mutex"))

LocksSpec == LocksInit /\ [][LocksNext]_lockVars /\ LocksFairness

(* Nobody stays in a call that has a way out: timed locks return although no  *)
(* holder unlocks (pthread_mutex_timedlock, the timed calls of read-write     *)
(* locks), pthread_once returns although a thread was cancelled in the        *)
(* routine, and an ending thread gives tls_sem back although its destructors  *)
(* keep setting values.                                                       *)
LocksReturn == MxTimedReturns /\ RwTimedReturns /\ OnceReturns /\ KeyExitEnds
=============================================================================
