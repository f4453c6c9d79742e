----------------------------- MODULE ThreadLife ----------------------------
(***************************************************************************)
(* The table of threads of library/pthread: pthread_create, StarterFunc,   *)
(* pthread_exit, pthread_join, pthread_detach and __pthread_exit_func,     *)
(* which runs in the main task when the program ends.                      *)
(*                                                                         *)
(* A task is a process of the operating system; a slot is an entry of      *)
(* threads[].  A thread's pthread_t is the index of its slot.  Slot 0 is   *)
(* the main task's.  All slots whose task is NULL are free.                *)
(***************************************************************************)
EXTENDS Naturals, FiniteSets, FiniteSetsExt

CONSTANTS
    Tasks,          \* the main task and the processes that may be started
    Main,
    NoTask,         \* a NULL task pointer
    MaxThreads,     \* PTHREAD_THREADS_MAX - 1
    Creators,       \* the tasks that call pthread_create
    Joiners,        \* the tasks that call pthread_join
    DetachStates,   \* the values of attr.detachstate = PTHREAD_CREATE_DETACHED
    CallsDetach,    \* whether clients call pthread_detach
    CallsExit,      \* whether threads call pthread_exit
    ExitsEarly      \* whether main may end before its threads have started

ASSUME TasksAssumption == Main \in Tasks /\ NoTask \notin Tasks
ASSUME MaxThreadsAssumption == MaxThreads \in Nat \ {0}
ASSUME ClientAssumption ==
    /\ Creators \subseteq Tasks /\ Joiners \subseteq Tasks
    /\ DetachStates \subseteq BOOLEAN
    /\ {CallsDetach, CallsExit, ExitsEarly} \subseteq BOOLEAN

VARIABLES
    threads,   \* the ThreadInfo of each slot
    pc,        \* where each task is
    inf,       \* the slot each task was started with (tc_UserData)
    ref,       \* the slot a call in progress works on
    child,     \* what CreateNewProc returned to the creator
    sigParent, \* SIGF_PARENT is pending
    exiting,   \* main runs __pthread_exit_func; thread_sem and tls_sem are NULL
    ids,       \* the pthread_t values clients may still join or detach
    owesTls    \* the thread stored a TLS value no destructor has seen

vars == <<threads, pc, inf, ref, child, sigParent, exiting, ids, owesTls>>

Slots == 0 .. MaxThreads
ThreadSlots == Slots \ {0}
Task == Tasks \cup {NoTask}

ThreadInfo ==
    [task : Task, parent : Task, status : {"IDLE", "RUNNING", "DESTRUCT"},
     detached : BOOLEAN, tls : BOOLEAN]

\* _pthread_clear_threadinfo
Cleared == [task |-> NoTask, parent |-> NoTask, status |-> "IDLE",
            detached |-> FALSE, tls |-> FALSE]

\* "none" is a process not started yet, "gone" one that has ended, "lost" a
\* thread that jumped through another thread's jmp_buf, "leave" a detached one
\* that has given up its slot and not returned yet, "crashed" one that used a
\* semaphore that was gone.
Alive == {"start", "run", "create", "filled", "spawned", "join", "joinwait",
          "tls", "end", "notify", "clear"}
PC == Alive \cup {"none", "gone", "lost", "leave", "crashed", "exit", "unloaded"}

TypeOK ==
    /\ threads \in [Slots -> ThreadInfo]
    /\ pc \in [Tasks -> PC]
    /\ inf \in [Tasks -> Slots]
    /\ ref \in [Tasks -> 0 .. MaxThreads + 1]
    /\ child \in [Tasks -> Task]
    /\ sigParent \in [Tasks -> BOOLEAN]
    /\ exiting \in BOOLEAN
    /\ ids \subseteq ThreadSlots
    /\ owesTls \in [Tasks -> BOOLEAN]

\* __pthread_init_func
Init ==
    /\ threads = [s \in Slots |->
                    IF s = 0 THEN [Cleared EXCEPT !.task = Main, !.status = "RUNNING"]
                             ELSE Cleared]
    /\ pc = [t \in Tasks |-> IF t = Main THEN "run" ELSE "none"]
    /\ inf = [t \in Tasks |-> 0]
    /\ ref = [t \in Tasks |-> 0]
    /\ child = [t \in Tasks |-> NoTask]
    /\ sigParent = [t \in Tasks |-> FALSE]
    /\ exiting = FALSE
    /\ ids = {}
    /\ owesTls = [t \in Tasks |-> FALSE]

\* The slot whose task is the given one, the first free one for NULL.
SlotsOf(task) == {s \in ThreadSlots : threads[s].task = task}
GetThreadId(task) == IF SlotsOf(task) = {} THEN MaxThreads + 1 ELSE Min(SlotsOf(task))
pthread_self(t) == IF SlotsOf(t) = {} THEN 0 ELSE GetThreadId(t)

Goto(t, label) == pc' = [pc EXCEPT ![t] = label]

-----------------------------------------------------------------------------
(* pthread_create.  Only the search for a slot runs under thread_sem.       *)

\* With a full table the call returns EAGAIN; thread_sem is then released a
\* second time, by a task that does not hold it, which exec is taken to ignore.
CreatePick(t) ==
    /\ pc[t] = "run"
    /\ t \in Creators
    /\ IF GetThreadId(NoTask) <= MaxThreads
       THEN ref' = [ref EXCEPT ![t] = GetThreadId(NoTask)] /\ Goto(t, "create")
       ELSE UNCHANGED <<ref, pc>>
    /\ UNCHANGED <<threads, inf, child, sigParent, exiting, ids, owesTls>>

CreateFill(t, detached) ==
    /\ pc[t] = "create"
    /\ threads' = [threads EXCEPT ![ref[t]] =
                     [Cleared EXCEPT !.parent = t, !.detached = detached]]
    /\ Goto(t, "filled")
    /\ UNCHANGED <<inf, ref, child, sigParent, exiting, ids, owesTls>>

\* CreateNewProcTags has started u, which may run before the creator goes on.
CreateProc(t, u) ==
    /\ pc[t] = "filled"
    /\ pc[u] = "none"
    /\ pc' = [pc EXCEPT ![t] = "spawned", ![u] = "start"]
    /\ inf' = [inf EXCEPT ![u] = ref[t]]
    /\ child' = [child EXCEPT ![t] = u]
    /\ UNCHANGED <<threads, ref, sigParent, exiting, ids, owesTls>>

CreateStore(t) ==
    /\ pc[t] = "spawned"
    /\ threads' = [threads EXCEPT ![ref[t]].task = child[t]]
    /\ ids' = IF threads[ref[t]].parent = t /\ ~threads[ref[t]].detached
              THEN ids \cup {ref[t]}
              ELSE ids
    /\ Goto(t, "run")
    /\ UNCHANGED <<inf, ref, child, sigParent, exiting, owesTls>>

\* CreateNewProcTags failed: EAGAIN.
CreateFail(t) ==
    /\ pc[t] = "filled"
    /\ threads' = [threads EXCEPT ![ref[t]].task = NoTask, ![ref[t]].parent = NoTask]
    /\ Goto(t, "run")
    /\ UNCHANGED <<inf, ref, child, sigParent, exiting, ids, owesTls>>

-----------------------------------------------------------------------------
(* StarterFunc *)

Start(t) ==
    /\ pc[t] = "start"
    /\ threads' = [threads EXCEPT ![inf[t]].status = "RUNNING"]
    /\ Goto(t, "run")
    /\ UNCHANGED <<inf, ref, child, sigParent, exiting, ids, owesTls>>

\* pthread_setspecific, on a key that has a destructor.
SetSpecific(t) ==
    /\ pc[t] = "run"
    /\ t # Main
    /\ threads' = [threads EXCEPT ![inf[t]].tls = TRUE]
    /\ owesTls' = [owesTls EXCEPT ![t] = TRUE]
    /\ UNCHANGED <<pc, inf, ref, child, sigParent, exiting, ids>>

Return(t) ==
    /\ pc[t] = "run"
    /\ t # Main
    /\ Goto(t, "tls")
    /\ UNCHANGED <<threads, inf, ref, child, sigParent, exiting, ids, owesTls>>

\* pthread_exit looks itself up in the table.  A thread whose creator has not
\* stored the task yet takes itself for thread 0.
pthread_exit(t) ==
    /\ CallsExit
    /\ pc[t] = "run"
    /\ t # Main
    /\ threads' = [threads EXCEPT ![pthread_self(t)].status = "DESTRUCT"]
    /\ Goto(t, IF pthread_self(t) = inf[t] THEN "tls" ELSE "lost")
    /\ UNCHANGED <<inf, ref, child, sigParent, exiting, ids, owesTls>>

Destructors(t) ==
    /\ pc[t] = "tls"
    /\ threads' = [threads EXCEPT ![inf[t]].tls = FALSE]
    /\ owesTls' = [owesTls EXCEPT ![t] = @ /\ ~threads[inf[t]].tls]
    /\ Goto(t, "end")
    /\ UNCHANGED <<inf, ref, child, sigParent, exiting, ids>>

EndCheck(t) ==
    /\ pc[t] = "end"
    /\ Goto(t, IF threads[inf[t]].detached THEN "clear" ELSE "notify")
    /\ UNCHANGED <<threads, inf, ref, child, sigParent, exiting, ids, owesTls>>

\* Mutant: the parent is not signalled.
EndNotify_silent(t) ==
    /\ pc[t] = "notify"
    /\ threads' = [threads EXCEPT ![inf[t]].status = "DESTRUCT"]
    /\ Goto(t, "gone")
    /\ UNCHANGED <<inf, ref, child, sigParent, exiting, ids, owesTls>>

\* Forbid() lasts until the process has ended, so nothing runs in between.
EndNotify(t) ==
    /\ pc[t] = "notify"
    /\ threads' = [threads EXCEPT ![inf[t]].status = "DESTRUCT"]
    /\ sigParent' = [u \in Tasks |-> sigParent[u] \/ u = threads[inf[t]].parent]
    /\ Goto(t, "gone")
    /\ UNCHANGED <<inf, ref, child, exiting, ids, owesTls>>

\* A detached thread cleans up itself, without Forbid().
EndClear(t) ==
    /\ pc[t] = "clear"
    /\ threads' = [threads EXCEPT ![inf[t]] = Cleared]
    /\ Goto(t, "leave")
    /\ UNCHANGED <<inf, ref, child, sigParent, exiting, ids, owesTls>>

\* MutexRelease, the TLS register and the return from StarterFunc.
Leave(t) ==
    /\ pc[t] = "leave"
    /\ Goto(t, "gone")
    /\ UNCHANGED <<threads, inf, ref, child, sigParent, exiting, ids, owesTls>>

-----------------------------------------------------------------------------
(* pthread_join and pthread_detach *)

\* The early returns of pthread_join.
Joinable(t, s) ==
    /\ threads[s].parent # NoTask
    /\ ~threads[s].detached
    /\ threads[s].task # t

\* A client joins a thread once, by an identifier pthread_create returned.
JoinCall(t, s) ==
    /\ pc[t] = "run"
    /\ t \in Joiners
    /\ s \in ids
    /\ Joinable(t, s)
    /\ ids' = ids \ {s}
    /\ ref' = [ref EXCEPT ![t] = s]
    /\ Goto(t, "join")
    /\ UNCHANGED <<threads, inf, child, sigParent, exiting, owesTls>>

JoinSleep(t) ==
    /\ pc[t] = "join"
    /\ threads[ref[t]].status # "DESTRUCT"
    /\ Goto(t, "joinwait")
    /\ UNCHANGED <<threads, inf, ref, child, sigParent, exiting, ids, owesTls>>

\* Mutant: the status is not looked at again after the signal.
JoinWake_trusting(t) ==
    /\ pc[t] = "joinwait"
    /\ sigParent[t]
    /\ sigParent' = [sigParent EXCEPT ![t] = FALSE]
    /\ threads' = [threads EXCEPT ![ref[t]] = Cleared]
    /\ Goto(t, IF exiting /\ t = Main THEN "exit" ELSE "run")
    /\ UNCHANGED <<inf, ref, child, exiting, ids, owesTls>>

\* Wait(SIGF_PARENT); the signal may come from another child.
JoinWake(t) ==
    /\ pc[t] = "joinwait"
    /\ sigParent[t]
    /\ sigParent' = [sigParent EXCEPT ![t] = FALSE]
    /\ Goto(t, "join")
    /\ UNCHANGED <<threads, inf, ref, child, exiting, ids, owesTls>>

\* __pthread_exit_func joins too.
JoinDone(t) ==
    /\ pc[t] = "join"
    /\ threads[ref[t]].status = "DESTRUCT"
    /\ threads' = [threads EXCEPT ![ref[t]] = Cleared]
    /\ Goto(t, IF exiting /\ t = Main THEN "exit" ELSE "run")
    /\ UNCHANGED <<inf, ref, child, sigParent, exiting, ids, owesTls>>

pthread_detach(t, s) ==
    /\ CallsDetach
    /\ pc[t] = "run"
    /\ s \in ids
    /\ threads[s].task # NoTask
    /\ ~threads[s].detached
    /\ threads' = [threads EXCEPT ![s].detached = TRUE]
    /\ ids' = ids \ {s}
    /\ UNCHANGED <<pc, inf, ref, child, sigParent, exiting, owesTls>>

-----------------------------------------------------------------------------
(* __pthread_exit_func: ref[Main] is its loop counter.                      *)

\* It begins with freeing thread_sem, tls_sem and timerMutex.
ExitCall ==
    /\ pc[Main] = "run"
    /\ ExitsEarly \/ \A t \in Tasks \ {Main} :
                        pc[t] \notin {"start", "create", "filled", "spawned"}
    /\ ref' = [ref EXCEPT ![Main] = 1]
    /\ exiting' = TRUE
    /\ Goto(Main, "exit")
    /\ UNCHANGED <<threads, inf, child, sigParent, ids, owesTls>>

\* A slot with nothing to wait for; a detached thread is polled until its
\* task pointer is NULL.
ExitSkip ==
    /\ pc[Main] = "exit"
    /\ ref[Main] <= MaxThreads
    /\ LET info == threads[ref[Main]]
       IN  IF info.detached THEN info.task = NoTask
           ELSE info.status # "RUNNING" \/ ~Joinable(Main, ref[Main])
    /\ ref' = [ref EXCEPT ![Main] = @ + 1]
    /\ UNCHANGED <<threads, pc, inf, child, sigParent, exiting, ids, owesTls>>

\* Mutant: only detached threads are waited for.
ExitJoin_none ==
    /\ pc[Main] = "exit"
    /\ ref[Main] <= MaxThreads
    /\ ~threads[ref[Main]].detached
    /\ ref' = [ref EXCEPT ![Main] = @ + 1]
    /\ UNCHANGED <<threads, pc, inf, child, sigParent, exiting, ids, owesTls>>

ExitJoin ==
    /\ pc[Main] = "exit"
    /\ ref[Main] <= MaxThreads
    /\ threads[ref[Main]].status = "RUNNING"
    /\ Joinable(Main, ref[Main])
    /\ Goto(Main, "join")
    /\ UNCHANGED <<threads, inf, ref, child, sigParent, exiting, ids, owesTls>>

ExitDone ==
    /\ pc[Main] = "exit"
    /\ ref[Main] > MaxThreads
    /\ Goto(Main, "unloaded")
    /\ UNCHANGED <<threads, inf, ref, child, sigParent, exiting, ids, owesTls>>

\* MutexObtain and MutexRelease of a semaphore that is NULL by then may stop the
\* task that calls them; or they return, which is the step itself.
UsesSemaphore(t) ==
    \/ pc[t] \in {"tls", "clear", "leave"}
    \/ pc[t] = "run" /\ t \in Creators
    \/ pc[t] = "join" /\ threads[ref[t]].status = "DESTRUCT"
Crash(t) ==
    /\ exiting
    /\ UsesSemaphore(t)
    /\ Goto(t, "crashed")
    /\ UNCHANGED <<threads, inf, ref, child, sigParent, exiting, ids, owesTls>>

-----------------------------------------------------------------------------

CreateStep(t) ==
    \/ CreatePick(t)
    \/ \E detached \in DetachStates : CreateFill(t, detached)
    \/ \E u \in Tasks : CreateProc(t, u)
    \/ CreateStore(t)
    \/ CreateFail(t)

ClientStep(t) ==
    \/ SetSpecific(t)
    \/ pthread_exit(t)
    \/ \E s \in ThreadSlots : JoinCall(t, s) \/ pthread_detach(t, s)

\* The way from the end of the thread's function to the end of its process.
EndStep(t) ==
    \/ Return(t) \/ Destructors(t) \/ EndCheck(t)
    \/ EndNotify(t) \/ EndClear(t) \/ Leave(t)

JoinStep(t) == JoinSleep(t) \/ JoinWake(t) \/ JoinDone(t)

ExitStep == ExitSkip \/ ExitJoin \/ ExitDone

Next ==
    \/ \E t \in Tasks :
          \/ CreateStep(t) \/ Start(t) \/ ClientStep(t) \/ EndStep(t) \/ JoinStep(t)
          \/ Crash(t)
    \/ ExitCall
    \/ ExitStep

Safety == Init /\ [][Next]_vars

\* Every task runs, and every thread's function returns some day.
Fairness ==
    /\ \A t \in Tasks :
          /\ WF_vars(CreateStore(t) \/ CreateFail(t))
          /\ WF_vars(Start(t))
          /\ WF_vars(EndStep(t))
          /\ WF_vars(JoinStep(t))
    /\ WF_vars(ExitStep)

Spec == Safety /\ Fairness

-----------------------------------------------------------------------------
(* Properties *)

\* Two processes never work on the same ThreadInfo: "grab an empty thread slot"
\* in pthread_create yields a slot no living thread uses.
SlotExclusive ==
    \A t, u \in Tasks \ {Main} :
        t # u /\ pc[t] \in Alive /\ pc[u] \in Alive => inf[t] # inf[u]

\* StarterFunc's loop to "destroy all non-NULL TLS key values": a thread that
\* has ended left no value of a key with a destructor behind.
TlsDestroyed == \A t \in Tasks : pc[t] = "gone" => ~owesTls[t]

\* When __pthread_exit_func returns and the program's code is unloaded, no
\* thread is inside a function of the program or a destructor, or has a slot:
\* each has ended, or was detached and has its last instructions to go.
ExitWaits ==
    pc[Main] = "unloaded" =>
        \A t \in Tasks \ {Main} : pc[t] \in {"none", "gone", "leave", "crashed"}

\* The same without those last instructions, which "unloaded code being
\* executed" (__pthread_exit_func) would be: it does not hold.
ExitWaitsForAll ==
    pc[Main] = "unloaded" =>
        \A t \in Tasks \ {Main} : pc[t] \in {"none", "gone", "crashed"}

SomeCrash == \E t \in Tasks : pc[t] = "crashed"

\* What the end of a thread signals to its parent is not lost: pthread_join
\* returns, unless a task stops at a semaphore that was freed too early.
JoinReturns ==
    \A t \in Joiners \cup {Main} :
        pc[t] \in {"join", "joinwait"} ~> (pc[t] \in {"run", "exit"} \/ SomeCrash)

\* __pthread_exit_func comes to its end: it does not wait for a thread that has
\* ended already, joined, detached or on its way.
ExitReturns == pc[Main] = "exit" ~> (pc[Main] = "unloaded" \/ SomeCrash)

\* Joins and the exit of the library come to an end.
ThreadsEnd == JoinReturns /\ ExitReturns

\* The thread table keeps its shape, and __pthread_exit_func does not let the
\* code go under a thread that works.
ThreadSound == TypeOK /\ ExitWaits
=============================================================================
