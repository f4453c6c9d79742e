------------------------------- MODULE RWLock ------------------------------
(***************************************************************************)
(* The read-write lock of library/pthread/pthread_rwlock_*.c on one exec   *)
(* SignalSemaphore (external), with _pthread_obtain_sema_timed: a bid for  *)
(* the semaphore, made with Procure, races the reply of a timer.           *)
(***************************************************************************)
EXTENDS Naturals, FiniteSets

CONSTANTS
    RwThreads,
    RwNone,
    RwDeadlines,   \* "now", "future", "past"
    RwNests,       \* bound: read locks one thread holds
    RwRaces        \* may two threads find a static lock without semaphore

ASSUME RwAssumption ==
    /\ IsFiniteSet(RwThreads) /\ RwNone \notin RwThreads
    /\ RwDeadlines \subseteq {"now", "future", "past"}
    /\ RwNests \in Nat \ {0} /\ RwRaces \in BOOLEAN

VARIABLES
    rwSema,     \* lock->semaphore: made, ss_Owner, ss_NestCount, the threads with
                \* a bid in its queue, those whose bid was answered
    rwPc,
    rwMode,     \* "rd" or "wr": what a thread in a call asks for
    rwTimer,    \* timerio: "idle", "armed", "never", "fired"
    rwSaw,      \* the timer's message was taken from the port
    rwRead, rwWrite  \* the locks a thread was told it has

rwVars == <<rwSema, rwPc, rwMode, rwTimer, rwSaw, rwRead, rwWrite>>
rwHeld == <<rwRead, rwWrite>>

NewSema == [made |-> FALSE, owner |-> RwNone, nest |-> 0, queue |-> {}, granted |-> {}]

RwInit ==
    /\ rwSema = NewSema
    /\ rwPc = [t \in RwThreads |-> "out"]
    /\ rwMode = [t \in RwThreads |-> "rd"]
    /\ rwTimer = [t \in RwThreads |-> "idle"]
    /\ rwSaw = [t \in RwThreads |-> FALSE]
    /\ rwRead = [t \in RwThreads |-> 0]
    /\ rwWrite = [t \in RwThreads |-> FALSE]

-----------------------------------------------------------------------------
(* The semaphore (external) *)

\* It can be given to t now: free, t's own, or shared and asked for to read.
Grants(t, mode) ==
    \/ rwSema.nest = 0
    \/ rwSema.owner = t
    \/ mode = "rd" /\ rwSema.owner = RwNone

\* A reader that comes while writers wait may have to wait too.
Queues(t, mode) ==
    ~Grants(t, mode) \/ (rwSema.nest > 0 /\ rwSema.owner = RwNone /\ rwSema.queue # {})

Given(t, mode) ==
    [rwSema EXCEPT !.nest = @ + 1,
                   !.owner = IF rwSema.nest = 0 /\ mode = "wr" THEN t ELSE @]

Queued(t) == [rwSema EXCEPT !.queue = @ \cup {t}]

\* A semaphore left free serves a bid to write, or all those to read, whichever
\* came first: the locks do not depend on it.
Served(queue) ==
    LET readers == {t \in queue : rwMode[t] = "rd"}
    IN  {{t} : t \in queue \ readers} \cup
        (IF readers = {} /\ queue # {} THEN {} ELSE {readers})

SemaReleased(s, served) ==
    IF s.nest > 1 THEN [s EXCEPT !.nest = @ - 1]
    ELSE LET writers == {t \in served : rwMode[t] = "wr"}
         IN  [s EXCEPT !.nest = Cardinality(served),
                       !.owner = IF writers = {} THEN RwNone ELSE CHOOSE t \in writers : TRUE,
                       !.queue = @ \ served,
                       !.granted = @ \cup served]

\* Mutant: a bid in the queue stays there.
Vacated_granted(t, served) ==
    IF t \in rwSema.granted
    THEN SemaReleased([rwSema EXCEPT !.granted = @ \ {t}], served)
    ELSE rwSema

\* Vacate gives a granted semaphore back, or takes the bid out of the queue.
Vacated(t, served) ==
    IF t \in rwSema.granted
    THEN SemaReleased([rwSema EXCEPT !.granted = @ \ {t}], served)
    ELSE [rwSema EXCEPT !.queue = @ \ {t}]

-----------------------------------------------------------------------------
(* The locks *)

RwGoto(t, pc, mode) ==
    rwPc' = [rwPc EXCEPT ![t] = pc] /\ rwMode' = [rwMode EXCEPT ![t] = mode]

\* The call answers 0.
Took(t, mode) ==
    IF mode = "wr"
    THEN rwWrite' = [rwWrite EXCEPT ![t] = TRUE] /\ UNCHANGED rwRead
    ELSE rwRead' = [rwRead EXCEPT ![t] = @ + 1] /\ UNCHANGED rwWrite

\* A reader may read again; a holder asks for no other lock, apart from the
\* writer of RwRelock.
MayAsk(t, mode) ==
    /\ rwPc[t] = "out" /\ ~rwWrite[t]
    /\ IF mode = "wr" THEN rwRead[t] = 0 ELSE rwRead[t] < RwNests

\* SemaphoreIsInvalid in the first call on a static lock, and then
\* pthread_rwlock_init; nothing is locked in between.
Firsts == {"initlock", "inittry"}
RwFirst(t, first, mode) ==
    /\ MayAsk(t, mode) /\ ~rwSema.made
    /\ RwRaces \/ \A u \in RwThreads : rwPc[u] \notin Firsts
    /\ RwGoto(t, first, mode)
    /\ UNCHANGED <<rwSema, rwTimer, rwSaw, rwHeld>>

\* A semaphore that another thread has made is replaced; whoever waits for that
\* one is not followed.
RwCreate(t) ==
    /\ rwPc[t] \in Firsts
    /\ rwSema.queue = {} /\ rwSema.granted = {}
    /\ rwSema' = [NewSema EXCEPT !.made = TRUE]
    /\ RwGoto(t, IF rwPc[t] = "initlock" THEN "lock" ELSE "try", rwMode[t])
    /\ UNCHANGED <<rwTimer, rwSaw, rwHeld>>

\* The call has a semaphore, found or made.
Asks(t, call, mode) ==
    \/ MayAsk(t, mode) /\ rwSema.made
    \/ rwPc[t] = call /\ rwMode[t] = mode

\* pthread_rwlock_rdlock and pthread_rwlock_wrlock
RwLock(t, mode) ==
    /\ Asks(t, "lock", mode)
    /\ \/ /\ Grants(t, mode)
          /\ rwSema' = Given(t, mode) /\ Took(t, mode) /\ RwGoto(t, "out", "rd")
       \/ /\ Queues(t, mode)
          /\ rwSema' = Queued(t) /\ RwGoto(t, "sleep", mode)
          /\ UNCHANGED rwHeld
    /\ UNCHANGED <<rwTimer, rwSaw>>

RwWake(t) ==
    /\ rwPc[t] = "sleep" /\ t \in rwSema.granted
    /\ rwSema' = [rwSema EXCEPT !.granted = @ \ {t}]
    /\ Took(t, rwMode[t]) /\ RwGoto(t, "out", "rd")
    /\ UNCHANGED <<rwTimer, rwSaw>>

\* pthread_rwlock_wrlock by the writer: EDEADLK if SemaphoreIsMine.
RwRelock(t) ==
    /\ rwPc[t] = "out" /\ rwWrite[t]
    /\ IF rwSema.owner = t THEN UNCHANGED <<rwSema, rwPc, rwMode>>
       ELSE rwSema' = Queued(t) /\ RwGoto(t, "sleep", "wr")
    /\ UNCHANGED <<rwTimer, rwSaw, rwHeld>>

\* pthread_rwlock_tryrdlock and pthread_rwlock_trywrlock: 0 or EBUSY
RwTry(t, mode) ==
    /\ Asks(t, "try", mode)
    /\ IF Grants(t, mode)
       THEN rwSema' = Given(t, mode) /\ Took(t, mode)
       ELSE UNCHANGED <<rwSema, rwHeld>>
    /\ RwGoto(t, "out", "rd")
    /\ UNCHANGED <<rwTimer, rwSaw>>

\* pthread_rwlock_unlock by a holder; a semaphore that nobody has: EPERM.
RwUnlock(t) ==
    /\ rwPc[t] = "out" /\ (rwWrite[t] \/ rwRead[t] > 0)
    /\ rwSema.nest > 0
    /\ \E served \in Served(rwSema.queue) : rwSema' = SemaReleased(rwSema, served)
    /\ rwWrite' = [rwWrite EXCEPT ![t] = FALSE]
    /\ rwRead' = [rwRead EXCEPT ![t] = IF rwWrite[t] THEN @ ELSE @ - 1]
    /\ UNCHANGED <<rwPc, rwMode, rwTimer, rwSaw>>

\* AttemptSemaphore fails: EBUSY
RwBusy(t) == ~Grants(t, "wr")

\* pthread_rwlock_destroy by a thread that does not hold the lock, while no
\* other is in a call on it.
RwDestroy(t) ==
    /\ rwSema.made
    /\ \A u \in RwThreads : rwPc[u] = "out"
    /\ ~rwWrite[t] /\ rwRead[t] = 0
    /\ rwSema' = IF RwBusy(t) THEN rwSema ELSE NewSema
    /\ UNCHANGED <<rwPc, rwMode, rwTimer, rwSaw, rwHeld>>

-----------------------------------------------------------------------------
(* pthread_rwlock_timedrdlock and pthread_rwlock_timedwrlock: the try, and *)
(* _pthread_obtain_sema_timed if it answered EBUSY                         *)

\* timersub: a past deadline leaves a negative difference, which is a huge
\* unsigned time; the present instant answers ETIMEDOUT.
RwTimerOf(deadline) ==
    CASE deadline = "future" -> "armed"
      [] deadline = "past"   -> "never"
      [] OTHER               -> "idle"

RwTimedLock(t, mode, deadline) ==
    /\ Asks(t, "try", mode) /\ ~Grants(t, mode)
    /\ RwTimerOf(deadline) # "idle"
    /\ rwTimer' = [rwTimer EXCEPT ![t] = RwTimerOf(deadline)]
    /\ RwGoto(t, "bid", mode)
    /\ UNCHANGED <<rwSema, rwSaw, rwHeld>>

RwTimerFires(t) ==
    /\ rwTimer[t] = "armed"
    /\ rwTimer' = [rwTimer EXCEPT ![t] = "fired"]
    /\ UNCHANGED <<rwSema, rwPc, rwMode, rwSaw, rwHeld>>

\* Procure: answered at once if the semaphore has become free meanwhile.
RwProcure(t) ==
    /\ rwPc[t] = "bid"
    /\ \/ /\ Grants(t, rwMode[t])
          /\ rwSema' = [Given(t, rwMode[t]) EXCEPT !.granted = @ \cup {t}]
       \/ /\ Queues(t, rwMode[t])
          /\ rwSema' = Queued(t)
    /\ RwGoto(t, "port", rwMode[t])
    /\ UNCHANGED <<rwTimer, rwSaw, rwHeld>>

\* Mutant: the timer replies to another port.
PortReady_grant(t) == t \in rwSema.granted

PortReady(t) == t \in rwSema.granted \/ rwTimer[t] = "fired"

\* WaitPort, and the two GetMsg that take what has come by then.
RwPort(t) ==
    /\ rwPc[t] = "port" /\ PortReady(t)
    /\ rwSaw' = [rwSaw EXCEPT ![t] = rwTimer[t] = "fired"]
    /\ RwGoto(t, "decide", rwMode[t])
    /\ UNCHANGED <<rwSema, rwTimer, rwHeld>>

\* msg.ssm_Semaphore # NULL: Vacate clears it.
AnswersOk(t) == ~rwSaw[t]

\* Vacate if the timer's message is m1 or m2; CloseTimerDevice.
RwDecide(t) ==
    /\ rwPc[t] = "decide"
    /\ \E served \in Served(rwSema.queue) :
         rwSema' = IF rwSaw[t] THEN Vacated(t, served) ELSE [rwSema EXCEPT !.granted = @ \ {t}]
    /\ IF AnswersOk(t) THEN Took(t, rwMode[t]) ELSE UNCHANGED rwHeld
    /\ rwTimer' = [rwTimer EXCEPT ![t] = "idle"]
    /\ rwSaw' = [rwSaw EXCEPT ![t] = FALSE]
    /\ RwGoto(t, "out", "rd")

-----------------------------------------------------------------------------
RwStep(t) == RwCreate(t) \/ RwWake(t) \/ RwProcure(t) \/ RwPort(t) \/ RwDecide(t)

\* The rest of a call that has made the semaphore.
RwGoesOn(t) ==
    rwPc[t] \in {"lock", "try"} /\ (RwLock(t, rwMode[t]) \/ RwTry(t, rwMode[t]))

RwNext ==
    \E t \in RwThreads :
      \/ RwStep(t) \/ RwTimerFires(t) \/ RwRelock(t) \/ RwUnlock(t) \/ RwDestroy(t)
      \/ \E mode \in {"rd", "wr"} :
           \/ \E first \in Firsts : RwFirst(t, first, mode)
           \/ RwLock(t, mode) \/ RwTry(t, mode)
           \/ \E d \in RwDeadlines : RwTimedLock(t, mode, d)

\* Calls that can go on do, and timers fire; holders need not unlock.
RwFairness ==
    \A t \in RwThreads :
      /\ WF_rwVars(RwStep(t)) /\ WF_rwVars(RwTimerFires(t))
      /\ WF_rwVars(RwGoesOn(t))

RwSpec == RwInit /\ [][RwNext]_rwVars /\ RwFairness

-----------------------------------------------------------------------------
(* Properties *)

RwPlaces == {"out", "initlock", "inittry", "lock", "try", "sleep", "bid", "port", "decide"}

\* Every variable has its type.
RwTypeOK ==
    /\ rwSema.made \in BOOLEAN
    /\ rwSema.owner \in RwThreads \cup {RwNone}
    /\ rwSema.nest \in Nat
    /\ rwSema.queue \subseteq RwThreads
    /\ rwSema.granted \subseteq RwThreads
    /\ rwPc \in [RwThreads -> RwPlaces]
    /\ rwMode \in [RwThreads -> {"rd", "wr"}]
    /\ rwTimer \in [RwThreads -> {"idle", "armed", "never", "fired"}]
    /\ rwSaw \in [RwThreads -> BOOLEAN]
    /\ rwRead \in [RwThreads -> 0 .. RwNests]
    /\ rwWrite \in [RwThreads -> BOOLEAN]

\* A writer has the lock alone, however the locks were obtained and whatever
\* timed locks gave up meanwhile.
RwExclusive ==
    \A t, u \in RwThreads : rwWrite[t] /\ t # u => ~rwWrite[u] /\ rwRead[u] = 0

\* The locks threads were told they have, numbered; 0 is a lock to write.
LocksHeld ==
    {h \in RwThreads \X (0 .. RwNests) :
       IF h[2] = 0 THEN rwWrite[h[1]] ELSE h[2] <= rwRead[h[1]]}

\* The semaphore is held exactly as often as threads hold the lock or are about
\* to be told so: no lock is leaked by a timeout that comes with the grant, and
\* a destroyed lock had no holder.
RwAccounted ==
    /\ rwSema.nest = Cardinality(rwSema.granted) + Cardinality(LocksHeld)
    /\ rwSema.nest > 0 => rwSema.made

\* Every bid in the queue is of a thread that waits for it and has no lock: one
\* that gave up leaves no bid behind that would lock the semaphore for ever, and
\* none waits for itself.
RwBidsLive ==
    \A t \in rwSema.queue :
      rwPc[t] \in {"sleep", "port", "decide"} /\ ~rwWrite[t] /\ t \notin rwSema.granted

\* A timed lock with a deadline to come returns even if no holder unlocks.
RwTimedReturns ==
    \A t \in RwThreads : rwTimer[t] = "armed" ~> rwPc[t] = "out"

\* A read-write lock excludes as it should, its semaphore is held exactly by its
\* holders, and timed locks that gave up leave nothing behind in the queue.
RwSound == RwTypeOK /\ RwExclusive /\ RwAccounted /\ RwBidsLive
=============================================================================
