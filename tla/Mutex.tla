------------------------------- MODULE Mutex -------------------------------
(***************************************************************************)
(* One pthread_mutex_t of any kind (library/pthread/pthread_mutex_*.c):    *)
(* lazy creation of a statically initialised mutex, lock, trylock,         *)
(* timedlock, unlock, destroy.  Every exec call of the code is a step; the *)
(* exec mutexes themselves are external.  CondVar has the same mutex, of   *)
(* the default kind and created, under a condition.                        *)
(***************************************************************************)
EXTENDS Naturals, FiniteSets

CONSTANTS
    MxThreads,
    MxMain,        \* the thread that opened the timer of timedlock
    MxNone,
    MxKinds,       \* the kinds the mutex may be initialised with
    MxDeadlines,   \* "amiga": seconds of the system clock, "unix": since 1970
    MxTimed,       \* the threads that call pthread_mutex_timedlock
    MxTimedUses,   \* they do so "static", first of all calls, or "resend": while
                   \* the request of an earlier call is out
    MxRaces,       \* clients reach a new static mutex, or destroy one, together
    MxDepth,       \* bound: how often a holder locks again
    MxObjects      \* bound: exec mutexes created

ASSUME MxAssumption ==
    /\ MxNone \notin MxThreads /\ MxMain \in MxThreads /\ MxTimed \subseteq MxThreads
    /\ MxKinds \subseteq {"NORMAL", "RECURSIVE", "ERRORCHECK"}
    /\ MxDeadlines \subseteq {"amiga", "unix"} /\ MxTimedUses \subseteq {"static", "resend"}
    /\ MxRaces \in BOOLEAN /\ MxDepth \in Nat /\ MxObjects \in Nat

VARIABLES
    mxPtr,         \* mutex->mutex; 0 is NULL
    mxKind,        \* mutex->kind
    mxMade,        \* exec mutexes created so far, numbered from 1
    mxLive,        \* those not freed
    mxRecursive,   \* those created with ASOMUTEX_Recursive
    mxOwner, mxNest,
    mxPc,
    mxArg,         \* the exec mutex a blocked thread was given
    mxHeld,        \* successful locks of each thread less its unlocks
    mxTimer,       \* timedTimerIO: "idle", "armed", "late", "fired"
    mxSignal       \* timedTimerPort's bit is set for its task, MxMain

mxVars == <<mxPtr, mxKind, mxMade, mxLive, mxRecursive, mxOwner, mxNest, mxPc,
            mxArg, mxHeld, mxTimer, mxSignal>>
mxClock == <<mxTimer, mxSignal>>
mxObject == <<mxPtr, mxKind, mxMade, mxLive, mxRecursive>>

MxIds == 1 .. MxObjects

\* PTHREAD_MUTEX_INITIALIZER and its two variants
MxInit ==
    /\ mxKind \in MxKinds
    /\ mxPtr = 0 /\ mxMade = 0 /\ mxLive = {} /\ mxRecursive = {}
    /\ mxOwner = [i \in MxIds |-> MxNone]
    /\ mxNest = [i \in MxIds |-> 0]
    /\ mxPc = [t \in MxThreads |-> "out"]
    /\ mxArg = [t \in MxThreads |-> 0]
    /\ mxHeld = [t \in MxThreads |-> 0]
    /\ mxTimer = "idle" /\ mxSignal = FALSE

MxGoto(t, pc) == mxPc' = [mxPc EXCEPT ![t] = pc]

-----------------------------------------------------------------------------
(* exec mutexes (external) *)

\* MutexObtain would return, and MutexAttempt succeed, at once.
Obtainable(t, i) ==
    mxOwner[i] = MxNone \/ (mxOwner[i] = t /\ i \in mxRecursive)

Obtained(t, i) ==
    /\ mxOwner' = [mxOwner EXCEPT ![i] = t]
    /\ mxNest' = [mxNest EXCEPT ![i] = @ + 1]

\* MutexRelease by a task that is not the owner is ignored.
MutexRelease(t, i) ==
    LET mine == mxOwner[i] = t
    IN  /\ mxOwner' = [mxOwner EXCEPT ![i] =
                         IF mine /\ mxNest[i] = 1 THEN MxNone ELSE @]
        /\ mxNest' = [mxNest EXCEPT ![i] = IF mine THEN @ - 1 ELSE @]

Locked(t) == mxHeld' = [mxHeld EXCEPT ![t] = @ + 1]

-----------------------------------------------------------------------------
(* Creation *)

Recursive(kind) == kind = "RECURSIVE"

\* _pthread_mutex_init: the object replaces whatever mutex->mutex was.
NewMutex(kind) ==
    /\ mxMade < MxObjects
    /\ mxMade' = mxMade + 1
    /\ mxPtr' = mxMade + 1
    /\ mxKind' = kind
    /\ mxLive' = mxLive \cup {mxMade + 1}
    /\ mxRecursive' = IF Recursive(kind) THEN mxRecursive \cup {mxMade + 1} ELSE mxRecursive

\* pthread_mutex_init, again after pthread_mutex_destroy; nobody uses it yet.
MutexInit(t, kind) ==
    /\ mxPtr = 0 /\ mxMade > 0 /\ \A u \in MxThreads : mxPc[u] = "out"
    /\ NewMutex(kind)
    /\ UNCHANGED <<mxOwner, mxNest, mxPc, mxArg, mxHeld, mxClock>>

\* A client waits for the first use of a static mutex, and for a destruction,
\* to end before another thread calls; with MxRaces it does not.
Quiet == MxRaces \/ \A u \in MxThreads :
             mxPc[u] \notin {"lockinit", "tryinit", "incond", "free"}

FirstUse == mxPtr = 0

\* mutex->mutex == NULL: the first use, or the use of a destroyed mutex, which
\* a client does not make.
MxCall(t, init, next) ==
    /\ mxPc[t] = "out" /\ Quiet
    /\ mxPtr # 0 \/ mxMade = 0 \/ MxRaces
    /\ MxGoto(t, IF FirstUse THEN init ELSE next)
    /\ UNCHANGED <<mxObject, mxOwner, mxNest, mxArg, mxHeld, mxClock>>

LazyInit(t) ==
    /\ mxPc[t] \in {"lockinit", "tryinit"}
    /\ NewMutex(mxKind)
    /\ MxGoto(t, IF mxPc[t] = "lockinit" THEN "lock" ELSE "try")
    /\ UNCHANGED <<mxOwner, mxNest, mxArg, mxHeld, mxClock>>

-----------------------------------------------------------------------------
(* pthread_mutex_lock, pthread_mutex_trylock, pthread_mutex_unlock *)

\* A holder locks again only if that can return: not a normal mutex.
MutexLock(t) ==
    /\ mxHeld[t] = 0 \/ (mxKind # "NORMAL" /\ mxHeld[t] <= MxDepth)
    /\ MxCall(t, "lockinit", "lock")

ErrorChecked(kind) == kind = "ERRORCHECK"

\* MutexAttempt of the error-checking kind: EDEADLK whenever it fails.
LockAttempt(t) ==
    /\ mxPc[t] = "lock" /\ ErrorChecked(mxKind) /\ mxPtr # 0
    /\ IF Obtainable(t, mxPtr)
       THEN Obtained(t, mxPtr) /\ MxGoto(t, "attempted")
       ELSE MxGoto(t, "out") /\ UNCHANGED <<mxOwner, mxNest>>
    /\ UNCHANGED <<mxObject, mxArg, mxHeld, mxClock>>

\* Mutant: the attempt is not taken back.
LockUnattempt_keeps(t) ==
    /\ mxPc[t] = "attempted"
    /\ MxGoto(t, "obtain")
    /\ UNCHANGED <<mxObject, mxOwner, mxNest, mxArg, mxHeld, mxClock>>

LockUnattempt(t) ==
    /\ mxPc[t] = "attempted"
    /\ MutexRelease(t, mxPtr)
    /\ MxGoto(t, "obtain")
    /\ UNCHANGED <<mxObject, mxArg, mxHeld, mxClock>>

\* The call of MutexObtain reads mutex->mutex.
LockObtain(t) ==
    /\ mxPc[t] = "obtain" \/ (mxPc[t] = "lock" /\ ~ErrorChecked(mxKind))
    /\ mxPtr # 0
    /\ MxGoto(t, "blocked")
    /\ mxArg' = [mxArg EXCEPT ![t] = mxPtr]
    /\ UNCHANGED <<mxObject, mxOwner, mxNest, mxHeld, mxClock>>

\* MutexObtain returns, with pthread_mutex_lock.
LockReturn(t) ==
    /\ mxPc[t] = "blocked" /\ Obtainable(t, mxArg[t])
    /\ Obtained(t, mxArg[t]) /\ Locked(t)
    /\ mxArg' = [mxArg EXCEPT ![t] = 0]
    /\ MxGoto(t, "out")
    /\ UNCHANGED <<mxObject, mxClock>>

MutexTrylock(t) == mxHeld[t] <= MxDepth /\ MxCall(t, "tryinit", "try")

TryReturn(t) ==
    /\ mxPc[t] = "try" /\ mxPtr # 0
    /\ IF Obtainable(t, mxPtr)
       THEN Obtained(t, mxPtr) /\ Locked(t)
       ELSE UNCHANGED <<mxOwner, mxNest, mxHeld>>
    /\ MxGoto(t, "out")
    /\ UNCHANGED <<mxObject, mxArg, mxClock>>

\* A client unlocks what it locked, so mutex->mutex is not NULL here.
MutexUnlock(t) ==
    /\ mxPc[t] = "out" /\ mxHeld[t] > 0 /\ mxPtr # 0
    /\ MutexRelease(t, mxPtr)
    /\ mxHeld' = [mxHeld EXCEPT ![t] = @ - 1]
    /\ UNCHANGED <<mxObject, mxPc, mxArg, mxClock>>

-----------------------------------------------------------------------------
(* pthread_mutex_timedlock: no lazy creation, and one TimeRequest for the  *)
(* whole process, whose replies signal MxMain.  Nothing aborts it.         *)

\* UNIT_WAITUNTIL counts from 1978, a CLOCK_REALTIME deadline from 1970: that
\* timer fires eight years late.
TimerFor(deadline) == IF deadline = "unix" THEN "late" ELSE "armed"

\* SendIO of a request that timer.device has may leave either time, or a
\* request that no longer comes back.
Sent(deadline) ==
    IF mxTimer \in {"idle", "fired"} THEN {TimerFor(deadline)}
    ELSE {TimerFor(deadline), mxTimer, "late"}

\* MutexAttemptWithSignal(NULL) stops the task.
MutexTimedlock(t, deadline) ==
    /\ t \in MxTimed /\ mxPc[t] = "out" /\ Quiet
    /\ mxPtr # 0 \/ "static" \in MxTimedUses
    /\ mxHeld[t] = 0 \/ (mxKind = "RECURSIVE" /\ mxHeld[t] <= MxDepth)
    /\ mxTimer \in {"idle", "fired"} \/ "resend" \in MxTimedUses
    /\ mxTimer' \in Sent(deadline)
    /\ mxSignal' = (mxSignal /\ t # MxMain)   \* SetSignal(0, sigMask)
    /\ mxArg' = [mxArg EXCEPT ![t] = mxPtr]
    /\ MxGoto(t, IF mxPtr = 0 THEN "crashed" ELSE "timed")
    /\ UNCHANGED <<mxObject, mxOwner, mxNest, mxHeld>>

MxTimerFires ==
    /\ mxTimer = "armed"
    /\ mxTimer' = "fired" /\ mxSignal' = TRUE
    /\ UNCHANGED <<mxObject, mxOwner, mxNest, mxPc, mxArg, mxHeld>>

\* MutexAttemptWithSignal returns with the mutex ...
TimedReturn(t) ==
    /\ mxPc[t] = "timed" /\ Obtainable(t, mxArg[t])
    /\ Obtained(t, mxArg[t]) /\ Locked(t)
    /\ mxArg' = [mxArg EXCEPT ![t] = 0]
    /\ MxGoto(t, "out")
    /\ UNCHANGED <<mxObject, mxClock>>

\* ... or, without it, with the bits of sigMask that were set.
MxTimedOut(t) ==
    /\ mxPc[t] = "timed" /\ t = MxMain /\ mxSignal
    /\ mxSignal' = FALSE
    /\ mxArg' = [mxArg EXCEPT ![t] = 0]
    /\ MxGoto(t, "out")
    /\ UNCHANGED <<mxObject, mxOwner, mxNest, mxHeld, mxTimer>>

-----------------------------------------------------------------------------
(* pthread_mutex_destroy *)

DestroyBusy(t) == ~Obtainable(t, mxPtr)

\* No condition uses the mutex here, so mutex->incond is 0; see CondVar for
\* the test of it.  Other threads may hold the mutex (EBUSY) but are in no call on it.
MutexDestroy(t) ==
    /\ mxPc[t] = "out" /\ mxHeld[t] = 0 /\ mxPtr # 0
    /\ MxRaces \/ \A u \in MxThreads : mxPc[u] = "out"
    /\ IF DestroyBusy(t)
       THEN UNCHANGED <<mxOwner, mxNest, mxPc>>
       ELSE Obtained(t, mxPtr) /\ MxGoto(t, "incond")
    /\ UNCHANGED <<mxObject, mxArg, mxHeld, mxClock>>

DestroyRelease(t) ==
    /\ mxPc[t] = "incond"
    /\ MutexRelease(t, mxPtr)
    /\ MxGoto(t, "free")
    /\ UNCHANGED <<mxObject, mxArg, mxHeld, mxClock>>

\* FreeSysObject and memset
DestroyFree(t) ==
    /\ mxPc[t] = "free"
    /\ mxLive' = mxLive \ {mxPtr}
    /\ mxPtr' = 0 /\ mxKind' = "NORMAL"
    /\ MxGoto(t, "out")
    /\ UNCHANGED <<mxMade, mxRecursive, mxOwner, mxNest, mxArg, mxHeld, mxClock>>

-----------------------------------------------------------------------------
MxStep(t) ==
    \/ LazyInit(t) \/ LockAttempt(t) \/ LockUnattempt(t) \/ LockObtain(t)
    \/ LockReturn(t) \/ TryReturn(t) \/ TimedReturn(t) \/ MxTimedOut(t)
    \/ DestroyRelease(t) \/ DestroyFree(t)

MxNext ==
    \/ MxTimerFires
    \/ \E t \in MxThreads :
         \/ MxStep(t) \/ MutexLock(t) \/ MutexTrylock(t) \/ MutexUnlock(t)
         \/ MutexDestroy(t)
         \/ \E d \in MxDeadlines : MutexTimedlock(t, d)
         \/ \E k \in MxKinds : MutexInit(t, k)

\* Calls that can go on do; the holder need not unlock.
MxFairness ==
    /\ WF_mxVars(MxTimerFires)
    /\ \A t \in MxThreads : WF_mxVars(MxStep(t))

MxSpec == MxInit /\ [][MxNext]_mxVars /\ MxFairness

-----------------------------------------------------------------------------
(* Properties *)

\* Two threads never hold the mutex together, whatever its kind and however
\* they got it (pthread_mutex_lock, trylock and timedlock).
MxExclusive ==
    \A t, u \in MxThreads : mxHeld[t] > 0 /\ mxHeld[u] > 0 => t = u

\* The thread that locked n times owns the exec mutex of the pthread_mutex_t n
\* deep, apart from the attempts of lock and destroy: n unlocks free it.
MxBalanced ==
    mxPtr # 0 =>
      \A t \in MxThreads :
        (IF mxOwner[mxPtr] = t THEN mxNest[mxPtr] ELSE 0) =
          mxHeld[t] + (IF mxPc[t] \in {"attempted", "incond"} THEN 1 ELSE 0)

\* With a recursive or error-checking mutex no thread waits for itself
\* (pthread_mutex_lock.c: "normal mutexes would simply deadlock here").
MxNoSelfWait ==
    \A t \in MxThreads : mxPc[t] = "blocked" => mxHeld[t] = 0 \/ mxArg[t] \in mxRecursive

\* pthread_mutex_destroy frees nothing that a thread holds or waits for, or that
\* mutex->mutex still names; and exec is not asked for a mutex that is NULL.
MxNoFreedInUse ==
    /\ mxPtr # 0 => mxPtr \in mxLive
    /\ \A t \in MxThreads : /\ mxHeld[t] > 0 => mxPtr # 0
                            /\ mxArg[t] # 0 => mxArg[t] \in mxLive
                            /\ mxPc[t] # "crashed"

\* pthread_mutex_timedlock returns, with or without the mutex, although the
\* holder never unlocks: for the callers in MxTimed and the uses in MxTimedUses.
MxTimedReturns ==
    \A t \in MxThreads : mxPc[t] = "timed" ~> mxPc[t] # "timed"

\* A mutex of any kind is held by one thread at a time, as deep as that thread
\* locked it; no thread waits for itself where the kind rules it out, and none
\* is left with a freed mutex.
MxSound == MxExclusive /\ MxBalanced /\ MxNoSelfWait /\ MxNoFreedInUse
=============================================================================
