------------------------------ MODULE CondVar ------------------------------
(***************************************************************************)
(* One pthread_mutex_t of the default kind and one pthread_cond_t of       *)
(* library/pthread, with the task signals the two are built from.          *)
(*                                                                         *)
(* pthread_cond_wait and pthread_cond_timedwait are one routine of the     *)
(* code, _pthread_cond_timedwait, modelled as five steps: the caller's     *)
(* waiter node enters cond->waiters, the mutex is given up, Wait() returns *)
(* with the signal bits it consumed, the mutex is taken again, the node    *)
(* leaves the list.  A node is a local variable of the waiting thread, so  *)
(* a list of nodes is a sequence of threads.                               *)
(*                                                                         *)
(* Threads call the operations in any order a correct client could.        *)
(* Modules that build on a mutex and a condition (Barrier, PosixSem)       *)
(* extend this one and drive the same actions from their own code.         *)
(***************************************************************************)
EXTENDS Naturals, Sequences, FiniteSets, Functions

CONSTANTS
    Threads,      \* the threads sharing the mutex and the condition
    NoThread,     \* the mutex has no owner
    SigBits,      \* what AllocSignal(-1) may yield: "COND", or the fallback
    Deadlines,    \* the kinds of abstime the clients pass, see TimerOf
    MayCancel     \* whether clients call pthread_cancel

ASSUME ThreadsAssumption == IsFiniteSet(Threads)
ASSUME NoThreadAssumption == NoThread \notin Threads
ASSUME SigBitsAssumption == SigBits # {} /\ SigBits \subseteq {"COND", "FALLBACK"}
ASSUME DeadlinesAssumption ==
    Deadlines \subseteq {"none", "zero", "future", "past", "realtime", "relative"}
ASSUME MayCancelAssumption == MayCancel \in BOOLEAN

VARIABLES
    owner,        \* owner of mutex->mutex
    incond,       \* mutex->incond
    waiters,      \* cond->waiters
    cpc,          \* where each thread is in _pthread_cond_timedwait
    sigs,         \* tc_SigRecvd: the signal bits pending for each thread
    got,          \* what Wait() returned to each thread
    sigbit,       \* waiter.sigbit
    timer,        \* state of the TimeRequest of each thread
    canceled,     \* inf->canceled
    cancelEnabled \* inf->cancelstate = PTHREAD_CANCEL_ENABLE

condVars == <<owner, incond, waiters, cpc, sigs, got, sigbit, timer,
              canceled, cancelEnabled>>

Bits == {"COND", "FALLBACK", "CTRL_C", "TIMER"}

\* A thread outside the routine "run"s; "cleanup" is pthread_exit running the
\* clean-up handlers of a cancelled thread, "dead" the end of that thread.
InWait == {"enqueued", "wait", "relock", "dequeue"}
CondPC == InWait \cup {"run", "cleanup", "dead"}

CondTypeOK ==
    /\ owner \in Threads \cup {NoThread}
    /\ incond \in Nat
    /\ waiters \in Seq(Threads)
    /\ cpc \in [Threads -> CondPC]
    /\ sigs \in [Threads -> SUBSET Bits]
    /\ got \in [Threads -> SUBSET Bits]
    /\ sigbit \in [Threads -> {"COND", "FALLBACK"}]
    /\ timer \in [Threads -> {"idle", "armed", "never", "fired"}]
    /\ canceled \in [Threads -> BOOLEAN]
    /\ cancelEnabled \in [Threads -> BOOLEAN]

CondInit ==
    /\ owner = NoThread
    /\ incond = 0
    /\ waiters = <<>>
    /\ cpc = [t \in Threads |-> "run"]
    /\ sigs = [t \in Threads |-> {}]
    /\ got = [t \in Threads |-> {}]
    /\ sigbit = [t \in Threads |-> "COND"]
    /\ timer = [t \in Threads |-> "idle"]
    /\ canceled = [t \in Threads |-> FALSE]
    /\ cancelEnabled = [t \in Threads |-> TRUE]

-----------------------------------------------------------------------------
(* The mutex.  MutexObtain blocks, so the action waits for the mutex to be  *)
(* free; a thread that locks a mutex it owns would wait for itself.         *)

pthread_mutex_lock(t) ==
    /\ cpc[t] = "run"
    /\ owner = NoThread
    /\ owner' = t
    /\ UNCHANGED <<incond, waiters, cpc, sigs, got, sigbit, timer, canceled,
                   cancelEnabled>>

pthread_mutex_unlock(t) ==
    /\ cpc[t] = "run"
    /\ owner = t
    /\ owner' = NoThread
    /\ UNCHANGED <<incond, waiters, cpc, sigs, got, sigbit, timer, canceled,
                   cancelEnabled>>

\* The answer of pthread_mutex_destroy is 0 exactly when this holds.
MutexDestroyable == owner = NoThread /\ incond = 0

\* The answer of pthread_cond_destroy is 0 exactly when this holds.
CondDestroyable == waiters = <<>>

-----------------------------------------------------------------------------
(* _pthread_cond_timedwait *)

\* What SendIO makes of the deadline: "none" is pthread_cond_wait, "future"
\* and "past" are read on CLOCK_MONOTONIC, the clock of a condition without
\* attributes, "realtime" on CLOCK_REALTIME.  A past deadline leaves a
\* negative difference that becomes a huge unsigned number of seconds, and
\* CLOCK_REALTIME minus the uptime is decades: these timers never fire.  The
\* relative wait sends a TimeRequest whose time was never written, which may
\* be anything.  "zero", a deadline of this very instant, returns ETIMEDOUT
\* before it touches anything.
TimerOf(deadline) ==
    CASE deadline = "none"               -> {"idle"}
      [] deadline = "future"             -> {"armed"}
      [] deadline \in {"past", "realtime"} -> {"never"}
      [] deadline = "relative"           -> {"armed", "never"}
      [] OTHER                           -> {}

\* SetSignal(0, sigs) forgets the bits a timed wait is about to wait for; a
\* bit that AllocSignal hands out is clear, the fallback bit is used as it is.
SignalsOnEntry(t, timed, bit) ==
    sigs[t] \ ((IF timed THEN {"CTRL_C", "TIMER"} ELSE {}) \cup
               (IF bit = "COND" THEN {"COND"} ELSE {}))

\* Up to the end of the first critical section of cond->semaphore.
CondEnqueue(t, deadline) ==
    /\ cpc[t] = "run"
    /\ owner = t
    /\ \E bit \in SigBits, tm \in TimerOf(deadline) :
         /\ sigbit' = [sigbit EXCEPT ![t] = bit]
         /\ timer' = [timer EXCEPT ![t] = tm]
         /\ sigs' = [sigs EXCEPT ![t] =
                       SignalsOnEntry(t, deadline # "none", bit)]
    /\ waiters' = Append(waiters, t)
    /\ cpc' = [cpc EXCEPT ![t] = "enqueued"]
    /\ UNCHANGED <<owner, incond, got, canceled, cancelEnabled>>

\* Mutant: the signal bits are cleared after the mutex is given up.
CondRelease_clears(t) ==
    /\ cpc[t] = "enqueued"
    /\ incond' = incond + 1
    /\ owner' = NoThread
    /\ sigs' = [sigs EXCEPT ![t] = {}]
    /\ cpc' = [cpc EXCEPT ![t] = "wait"]
    /\ UNCHANGED <<waiters, got, sigbit, timer, canceled, cancelEnabled>>

\* mutex->incond++; pthread_mutex_unlock(mutex)
CondRelease(t) ==
    /\ cpc[t] = "enqueued"
    /\ incond' = incond + 1
    /\ owner' = NoThread
    /\ cpc' = [cpc EXCEPT ![t] = "wait"]
    /\ UNCHANGED <<waiters, sigs, got, sigbit, timer, canceled, cancelEnabled>>

WaitMask(t) ==
    {"CTRL_C", sigbit[t]} \cup (IF timer[t] = "idle" THEN {} ELSE {"TIMER"})

\* sigs = Wait(sigs): returns, and clears, the bits of the mask that are set.
CondWake(t) ==
    /\ cpc[t] = "wait"
    /\ sigs[t] \cap WaitMask(t) # {}
    /\ got' = [got EXCEPT ![t] = sigs[t] \cap WaitMask(t)]
    /\ sigs' = [sigs EXCEPT ![t] = @ \ WaitMask(t)]
    /\ cpc' = [cpc EXCEPT ![t] = "relock"]
    /\ UNCHANGED <<owner, incond, waiters, sigbit, timer, canceled, cancelEnabled>>

\* Mutant: mutex->incond is not decremented.
CondRelock_uncounted(t) ==
    /\ cpc[t] = "relock"
    /\ owner = NoThread
    /\ owner' = t
    /\ cpc' = [cpc EXCEPT ![t] = "dequeue"]
    /\ UNCHANGED <<incond, waiters, sigs, got, sigbit, timer, canceled, cancelEnabled>>

\* pthread_mutex_lock(mutex); mutex->incond--
CondRelock(t) ==
    /\ cpc[t] = "relock"
    /\ owner = NoThread
    /\ owner' = t
    /\ incond' = incond - 1
    /\ cpc' = [cpc EXCEPT ![t] = "dequeue"]
    /\ UNCHANGED <<waiters, sigs, got, sigbit, timer, canceled, cancelEnabled>>

TimedOut(t) == timer[t] # "idle" /\ "TIMER" \in got[t]

\* pthread_testcancel leaves the routine through pthread_exit.
Canceling(t) == ~TimedOut(t) /\ "CTRL_C" \in got[t] /\ canceled[t] /\ cancelEnabled[t]

\* Remove of the operating system, on the i-th node of a list.
RemoveNode(list, i) == SubSeq(list, 1, i - 1) \o SubSeq(list, i + 1, Len(list))

\* Mutant: the node is left in the list.
CondDequeue_leaves(t, pc) ==
    /\ cpc[t] = "dequeue"
    /\ timer' = [timer EXCEPT ![t] = "idle"]
    /\ got' = [got EXCEPT ![t] = {}]
    /\ cpc' = [cpc EXCEPT ![t] = pc]
    /\ UNCHANGED <<owner, incond, waiters, sigbit, canceled, cancelEnabled>>

\* The second critical section and CloseTimerDevice, on every way out.
CondDequeue(t, pc) ==
    /\ cpc[t] = "dequeue"
    /\ \E i \in DOMAIN waiters : waiters[i] = t /\ waiters' = RemoveNode(waiters, i)
    /\ timer' = [timer EXCEPT ![t] = "idle"]
    /\ got' = [got EXCEPT ![t] = {}]
    /\ cpc' = [cpc EXCEPT ![t] = pc]
    /\ UNCHANGED <<owner, incond, sigbit, canceled, cancelEnabled>>

\* return ETIMEDOUT
CondReturnTimedOut(t) ==
    /\ TimedOut(t)
    /\ CondDequeue(t, "run")
    /\ UNCHANGED sigs

\* Mutant: the CTRL_C that Wait() consumed is not sent again.
CondReturnOk_swallows(t) ==
    /\ ~TimedOut(t)
    /\ ~Canceling(t)
    /\ CondDequeue(t, "run")
    /\ UNCHANGED sigs

\* return 0; a CTRL_C that cancelled nothing is sent again to the thread itself.
CondReturnOk(t) ==
    /\ ~TimedOut(t)
    /\ ~Canceling(t)
    /\ CondDequeue(t, "run")
    /\ sigs' = [sigs EXCEPT ![t] = @ \cup (got[t] \cap {"CTRL_C"})]

\* pthread_exit(PTHREAD_CANCELED) starts with the mutex held.
CondReturnCanceled(t) ==
    /\ Canceling(t)
    /\ CondDequeue(t, "cleanup")
    /\ UNCHANGED sigs

-----------------------------------------------------------------------------
(* Signalling.  The node of a woken thread stays in the list until that     *)
(* thread removes it, and Signal() sets a bit that may already be set.      *)

SignalWaiters(woken) ==
    sigs' = [t \in Threads |->
               sigs[t] \cup (IF t \in woken THEN {sigbit[t]} ELSE {})]

pthread_cond_signal(t) ==
    /\ cpc[t] = "run"
    /\ SignalWaiters(IF waiters = <<>> THEN {} ELSE {Head(waiters)})
    /\ UNCHANGED <<owner, incond, waiters, cpc, got, sigbit, timer, canceled,
                   cancelEnabled>>

pthread_cond_broadcast(t) ==
    /\ cpc[t] = "run"
    /\ SignalWaiters(Range(waiters))
    /\ UNCHANGED <<owner, incond, waiters, cpc, got, sigbit, timer, canceled,
                   cancelEnabled>>

\* pthread_cancel of a thread of deferred cancel type.
pthread_cancel(t, victim) ==
    /\ cpc[t] = "run"
    /\ ~canceled[victim]
    /\ cpc[victim] # "dead"
    /\ canceled' = [canceled EXCEPT ![victim] = TRUE]
    /\ sigs' = [sigs EXCEPT ![victim] = @ \cup {"CTRL_C"}]
    /\ UNCHANGED <<owner, incond, waiters, cpc, got, sigbit, timer, cancelEnabled>>

pthread_setcancelstate(t, enable) ==
    /\ cpc[t] = "run"
    /\ cancelEnabled' = [cancelEnabled EXCEPT ![t] = enable]
    /\ UNCHANGED <<owner, incond, waiters, cpc, sigs, got, sigbit, timer, canceled>>

\* Ctrl-C typed at the console reaches a thread as the same signal bit.
ConsoleBreak(t) ==
    /\ cpc[t] # "dead"
    /\ sigs' = [sigs EXCEPT ![t] = @ \cup {"CTRL_C"}]
    /\ UNCHANGED <<owner, incond, waiters, cpc, got, sigbit, timer, canceled,
                   cancelEnabled>>

\* timer.device replies to the TimeRequest.
TimerFires(t) ==
    /\ timer[t] = "armed"
    /\ timer' = [timer EXCEPT ![t] = "fired"]
    /\ sigs' = [sigs EXCEPT ![t] = @ \cup {"TIMER"}]
    /\ UNCHANGED <<owner, incond, waiters, cpc, got, sigbit, canceled, cancelEnabled>>

\* The client's clean-up handler releases the mutex and the thread ends.
CleanupHandlers(t) ==
    /\ cpc[t] = "cleanup"
    /\ owner' = NoThread
    /\ cpc' = [cpc EXCEPT ![t] = "dead"]
    /\ UNCHANGED <<incond, waiters, sigs, got, sigbit, timer, canceled, cancelEnabled>>

-----------------------------------------------------------------------------

\* The steps the library takes by itself once a thread has entered a wait.
WaitStep(t) ==
    \/ CondRelease(t)
    \/ CondWake(t)
    \/ CondRelock(t)
    \/ CondReturnTimedOut(t)
    \/ CondReturnOk(t)
    \/ CondReturnCanceled(t)
    \/ CleanupHandlers(t)

ClientStep(t) ==
    \/ pthread_mutex_lock(t)
    \/ pthread_mutex_unlock(t)
    \/ \E d \in Deadlines : CondEnqueue(t, d)
    \/ pthread_cond_signal(t)
    \/ pthread_cond_broadcast(t)

CancelStep(t) ==
    /\ MayCancel
    /\ \/ \E victim \in Threads : pthread_cancel(t, victim)
       \/ \E enable \in BOOLEAN : pthread_setcancelstate(t, enable)

CondNext ==
    \E t \in Threads :
        WaitStep(t) \/ ClientStep(t) \/ CancelStep(t) \/ TimerFires(t) \/ ConsoleBreak(t)

\* A thread inside the library keeps running, a mutex goes to every task that
\* queues for it (exec serves the queue in order), and a timer expires.  A
\* client unlocks what it locked; nothing else is asked of clients.
CondFairness ==
    \A t \in Threads :
        /\ WF_condVars(CondRelease(t))
        /\ WF_condVars(CondWake(t))
        /\ SF_condVars(CondRelock(t))
        /\ WF_condVars(CondReturnTimedOut(t) \/ CondReturnOk(t) \/ CondReturnCanceled(t))
        /\ WF_condVars(CleanupHandlers(t))
        /\ WF_condVars(TimerFires(t))
        /\ WF_condVars(pthread_mutex_unlock(t))

CondSafety == CondInit /\ [][CondNext]_condVars
CondSpec == CondSafety /\ CondFairness

-----------------------------------------------------------------------------
(* Properties *)

\* Every node of cond->waiters is the local variable of a thread that is still
\* inside _pthread_cond_timedwait, once, and every such thread has its node
\* there: on no way out (signal, timeout, cancellation) does the list keep a
\* node of a frame that is gone.
NodesAreLive ==
    /\ IsInjective(waiters)
    /\ Range(waiters) = {t \in Threads : cpc[t] \in InWait}

\* The threads that have given up the mutex inside a wait and will lock it again.
Released == {t \in Threads : cpc[t] \in {"wait", "relock"}}

\* mutex->incond, a plain int, counts exactly these threads.
IncondExact == incond = Cardinality(Released)

\* A thread that manipulates the waiter list around a wait, and one whose
\* cancellation is running the clean-up handlers, own the mutex: the wait
\* gives it up only between the two, and returns with it.
MutexHeld ==
    \A t \in Threads : cpc[t] \in {"enqueued", "dequeue", "cleanup"} => owner = t

\* When pthread_mutex_destroy or pthread_cond_destroy would answer 0, no thread
\* is inside a wait that would come back to the object they free.
DestroyIsSafe ==
    (MutexDestroyable \/ CondDestroyable) =>
        \A t \in Threads : cpc[t] \notin InWait

\* A cancellation request stays pending, as the CTRL_C bit pthread_cancel
\* sends "for the timed waits", until the thread acts on it.
CancelNotLost ==
    \A t \in Threads :
        canceled[t] /\ cpc[t] \notin {"cleanup", "dead"} =>
            "CTRL_C" \in sigs[t] \cup got[t]

\* A waiter that pthread_cond_signal or pthread_cond_broadcast found in the
\* list comes out of the wait, also when the bit was set before it slept.
SignalledWaiterReturns ==
    \A t \in Threads :
        (cpc[t] \in {"enqueued", "wait"} /\ sigbit[t] \in sigs[t])
            ~> cpc[t] \notin InWait

\* A wait with a deadline comes to an end.
TimedWaitReturns ==
    \A t \in Threads :
        (cpc[t] = "wait" /\ timer[t] # "idle") ~> cpc[t] # "wait"

\* Waits that were signalled, and waits with a deadline, return
\* (_pthread_cond_timedwait).
CondWaitsReturn == SignalledWaiterReturns /\ TimedWaitReturns

\* The state that a wait shares with destroy and with the other waits stays
\* consistent: types, mutex->incond, the ownership of the mutex and what the
\* destroy calls answer, on every way out of _pthread_cond_timedwait.
CondSound == CondTypeOK /\ IncondExact /\ MutexHeld /\ DestroyIsSafe
=============================================================================
