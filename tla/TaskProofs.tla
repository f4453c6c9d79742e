----------------------------- MODULE TaskProofs -----------------------------
EXTENDS ThreadLife, ChildProcs, ITimer, Signals, SequenceTheorems,
        WellFoundedInduction, TLAPS

(***************************************************************************)
(* Proofs about module ThreadLife, for any number of tasks and slots.      *)
(*                                                                         *)
(* With several creators two of them may pick the same slot (run           *)
(* thread_create_race), and a thread that calls pthread_exit may be joined *)
(* before its destructors have run (run thread_tls_exit).  The theorems    *)
(* say that these are the only ways: with one creator, and without         *)
(* pthread_exit where threads are joined, the table is sound.              *)
(***************************************************************************)

\* Only the main task creates threads.
OneCreator == Creators \subseteq {Main}

\* No pthread_join meets a thread that is inside pthread_exit.
JoinsAfterEnd == ~CallsExit \/ Joiners = {}

Threads == Tasks \ {Main}
Live(t) == t \in Threads /\ pc[t] \in Alive

\* Where a task can be, and what the calls it is in work on.
Places ==
    /\ pc[Main] \in {"run", "create", "filled", "spawned", "join", "joinwait",
                     "exit", "unloaded", "crashed"}
    /\ pc[Main] \in {"exit", "unloaded"} => exiting
    /\ exiting => pc[Main] \in {"exit", "join", "joinwait", "unloaded", "crashed"}
    /\ pc[Main] \in {"create", "filled", "spawned"} => ref[Main] \in ThreadSlots
    /\ \A t \in Threads :
          /\ pc[t] \notin {"create", "filled", "spawned", "exit", "unloaded"}
          /\ pc[t] # "none" => inf[t] \in ThreadSlots
          /\ ~CallsExit => pc[t] # "lost"
    /\ \A t \in Tasks : pc[t] \in {"join", "joinwait"} =>
          t \in Joiners \/ (t = Main /\ exiting)

\* The slot pthread_create works on is used by no thread but the one it has
\* started.
NewSlot ==
    pc[Main] \in {"create", "filled", "spawned"} =>
        \A u \in Threads : Live(u) /\ inf[u] = ref[Main] =>
            pc[Main] = "spawned" /\ u = child[Main]

\* The table shows the slot of a living thread as taken, but for the moment
\* before its creator stores the task.
Owned(t) ==
    \/ threads[inf[t]].task = t
    \/ pc[Main] = "spawned" /\ child[Main] = t /\ ref[Main] = inf[t]
SlotsOwned == ~CallsExit \/ ~exiting => \A t \in Threads : Live(t) => Owned(t)

Joins(s) == threads[s].status # "DESTRUCT" /\ threads[s].parent # NoTask

\* Only a thread that has ended can be joined.
NotEnded ==
    ~CallsExit =>
        /\ pc[Main] = "filled" => Joins(ref[Main])
        /\ \A t \in Threads : Live(t) =>
              /\ Joins(inf[t])
              /\ pc[t] # "start" => threads[inf[t]].status = "RUNNING"

\* __pthread_exit_func has passed no slot of a living thread.
ExitBehind ==
    ~CallsExit /\ ~ExitsEarly /\ exiting =>
        /\ pc[Main] = "unloaded" => ref[Main] > MaxThreads
        /\ \A t \in Threads : Live(t) =>
              pc[t] # "start" /\ threads[inf[t]].status = "RUNNING" /\ inf[t] >= ref[Main]

\* A value that awaits its destructor is in the slot of a thread that has not
\* run its destructors yet.
TlsInSlot ==
    ~CallsExit \/ ~exiting => \A t \in Tasks : owesTls[t] =>
        /\ t \in Threads
        /\ pc[t] \in {"run", "join", "joinwait", "tls", "lost", "crashed"}
        /\ pc[t] \notin {"lost", "crashed"} => threads[inf[t]].tls

TlInv ==
    /\ TypeOK /\ Places /\ SlotExclusive /\ NewSlot /\ SlotsOwned
    /\ NotEnded /\ ExitBehind /\ TlsInSlot

-----------------------------------------------------------------------------
(* The induction principle of the natural numbers, for sets.                *)

\* A set of slots has a least one, the one pthread_create finds.
LEMMA LeastSlot ==
    ASSUME NEW T, T \subseteq Nat, T # {}
    PROVE  Min(T) \in T
<1> DEFINE R == OpToRel(<, Nat)
<1>1. IsWellFoundedOn(R, Nat)
  BY NatLessThanWellFounded, Zenon
<1>2. \A m, n \in Nat : m < n => <<m, n>> \in R
  BY Zenon DEF OpToRel
<1> HIDE DEF R
<1>3. PICK x \in T : \A y \in T : ~(<<y, x>> \in R)
  BY <1>1, WFMin, Zenon
<1>4. ASSUME NEW y \in T PROVE x <= y
  <2>1. x \in Nat /\ y \in Nat
    BY Zenon
  <2>2. ~(y < x)
    BY <2>1, <1>2, <1>3, Zenon
  <2> QED
    BY <2>1, <2>2
<1> QED
  BY <1>4, Zenon DEF Min

\* The slot pthread_create takes is a free one.
LEMMA FreeSlot ==
    ASSUME TypeOK, GetThreadId(NoTask) <= MaxThreads
    PROVE  GetThreadId(NoTask) \in ThreadSlots /\ threads[GetThreadId(NoTask)].task = NoTask
<1>1. MaxThreads \in Nat
  BY MaxThreadsAssumption, Zenon
<1>2. SlotsOf(NoTask) # {}
  BY <1>1 DEF GetThreadId
<1>3. SlotsOf(NoTask) \subseteq Nat
  BY <1>1 DEF SlotsOf, ThreadSlots, Slots
<1>4. Min(SlotsOf(NoTask)) \in SlotsOf(NoTask)
  BY <1>2, <1>3, LeastSlot, Zenon
<1> QED
  BY <1>2, <1>4, Zenon DEF GetThreadId, SlotsOf


-----------------------------------------------------------------------------
(* Every action keeps the invariant.                                        *)

\* A step that changes nothing.
LEMMA SameKeeps == ASSUME TlInv, UNCHANGED vars PROVE TlInv'
  BY ZenonT(30) DEF vars, TlInv, TypeOK, Places, SlotExclusive, NewSlot, SlotsOwned, Owned,
     NotEnded, Joins, ExitBehind, TlsInSlot, Live

\* The slot found is free, so no living thread owns it; or there is none.
LEMMA CreatePickKeeps ==
    ASSUME TlInv, OneCreator, JoinsAfterEnd, NEW t \in Tasks, CreatePick(t)
    PROVE  TlInv'
<1>0. /\ TypeOK /\ Places /\ SlotExclusive /\ NewSlot /\ SlotsOwned
      /\ NotEnded /\ ExitBehind /\ TlsInSlot
  BY Zenon DEF TlInv
<1> USE TasksAssumption, MaxThreadsAssumption, ClientAssumption
<1>e. CASE ~(GetThreadId(NoTask) <= MaxThreads)
  BY <1>e, SameKeeps, Zenon DEF CreatePick, vars
<1> SUFFICES ASSUME GetThreadId(NoTask) <= MaxThreads PROVE TlInv'
  BY <1>e, Zenon
<1>d. /\ pc[t] = "run" /\ t \in Creators
      /\ ref' = [ref EXCEPT ![t] = GetThreadId(NoTask)] /\ Goto(t, "create")
      /\ UNCHANGED <<threads, inf, child, sigParent, exiting, ids, owesTls>>
  BY Zenon DEF CreatePick
<1>f. GetThreadId(NoTask) \in ThreadSlots /\ threads[GetThreadId(NoTask)].task = NoTask
  BY <1>0, FreeSlot, Zenon
<1>1. TypeOK'
  BY <1>0, <1>d, <1>f DEF Goto, TypeOK, PC, Alive, ThreadSlots,
     Slots
<1>2. Places'
  BY <1>0, <1>d, <1>f, Zenon DEF Goto, TypeOK, Places, Threads, OneCreator
<1>3. SlotExclusive'
  BY <1>0, <1>d, <1>f DEF Goto, TypeOK, SlotExclusive, Alive,
     Threads
<1>4. NewSlot'
  BY <1>0, <1>d, <1>f DEF Goto, TypeOK, NewSlot, Live, Alive,
     Threads, Places, SlotsOwned, Owned
<1>5. SlotsOwned'
  BY <1>0, <1>d, <1>f DEF Goto, TypeOK, SlotsOwned, Owned, Live,
     Alive, Threads
<1>6. NotEnded'
  BY <1>0, <1>d, <1>f, Zenon DEF Goto, TypeOK, NotEnded, Joins, Live,
     Alive, Threads
<1>7. ExitBehind'
  BY <1>0, <1>d, <1>f, Zenon DEF Goto, TypeOK, ExitBehind, Live, Alive,
     Threads, Places
<1>8. TlsInSlot'
  BY <1>0, <1>d, <1>f, Zenon DEF Goto, TypeOK, TlsInSlot, Threads, Places,
     OneCreator
<1> QED
  BY <1>1, <1>2, <1>3, <1>4, <1>5, <1>6, <1>7, <1>8, Zenon DEF TlInv

\* Nobody lives in the slot that is filled.
LEMMA CreateFillKeeps ==
    ASSUME TlInv, OneCreator, JoinsAfterEnd,
           NEW t \in Tasks, NEW detached \in DetachStates, CreateFill(t, detached)
    PROVE  TlInv'
<1>0. /\ TypeOK /\ Places /\ SlotExclusive /\ NewSlot /\ SlotsOwned
      /\ NotEnded /\ ExitBehind /\ TlsInSlot
  BY Zenon DEF TlInv
<1> USE TasksAssumption, MaxThreadsAssumption, ClientAssumption
<1>1. TypeOK'
  BY <1>0, Zenon DEF CreateFill, Goto, TypeOK, Cleared, ThreadInfo, Task, PC,
     Alive
<1>2. Places'
  BY <1>0, Zenon DEF CreateFill, Goto, TypeOK, Places, Threads
<1>3. SlotExclusive'
  BY <1>0 DEF CreateFill, Goto, TypeOK, SlotExclusive, Alive, Threads
<1>4. NewSlot'
  BY <1>0, Zenon DEF CreateFill, Goto, TypeOK, NewSlot, Live, Alive, Threads
<1>5. SlotsOwned'
  BY <1>0, Zenon DEF CreateFill, Goto, TypeOK, SlotsOwned, Owned, Live, Alive,
     Threads, Places, NewSlot
<1>6. NotEnded'
  BY <1>0 DEF CreateFill, Goto, TypeOK, NotEnded, Joins, Live, Alive,
     Threads, Places, SlotExclusive, NewSlot, SlotsOwned, Owned,
     JoinsAfterEnd, OneCreator, Joinable, Cleared, ThreadSlots, Slots
<1>7. ExitBehind'
  BY <1>0, Zenon DEF CreateFill, Goto, TypeOK, ExitBehind, Live, Alive, Threads,
     Places
<1>8. TlsInSlot'
  BY <1>0, Zenon DEF CreateFill, Goto, TypeOK, TlsInSlot, Threads, Places,
     NewSlot, Live, Alive
<1> QED
  BY <1>1, <1>2, <1>3, <1>4, <1>5, <1>6, <1>7, <1>8, Zenon DEF TlInv

\* The new thread is the only one in the slot.
LEMMA CreateProcKeeps ==
    ASSUME TlInv, OneCreator, JoinsAfterEnd,
           NEW t \in Tasks, NEW u \in Tasks, CreateProc(t, u)
    PROVE  TlInv'
<1>0. /\ TypeOK /\ Places /\ SlotExclusive /\ NewSlot /\ SlotsOwned
      /\ NotEnded /\ ExitBehind /\ TlsInSlot
  BY Zenon DEF TlInv
<1> USE TasksAssumption, MaxThreadsAssumption, ClientAssumption
<1>1. TypeOK'
  BY <1>0, Zenon DEF CreateProc, TypeOK, Places, Threads, ThreadSlots, Slots,
     Task, PC, Alive, Cleared, ThreadInfo
<1>2. Places'
  BY <1>0, Zenon DEF CreateProc, TypeOK, Places, Threads
<1>3. SlotExclusive'
  BY <1>0 DEF CreateProc, TypeOK, SlotExclusive, Alive, Threads, Places,
     NewSlot, Live
<1>4. NewSlot'
  BY <1>0, ZenonT(30) DEF CreateProc, TypeOK, NewSlot, Live, Alive, Threads, Places
<1>5. SlotsOwned'
  BY <1>0, ZenonT(30) DEF CreateProc, TypeOK, SlotsOwned, Owned, Live, Alive, Threads,
     Places
<1>6. NotEnded'
  BY <1>0 DEF CreateProc, TypeOK, NotEnded, Joins, Live, Alive, Threads,
     Places
<1>7. ExitBehind'
  BY <1>0, Zenon DEF CreateProc, TypeOK, ExitBehind, Live, Alive, Threads, Places
<1>8. TlsInSlot'
  BY <1>0, Zenon DEF CreateProc, TypeOK, TlsInSlot, Threads
<1> QED
  BY <1>1, <1>2, <1>3, <1>4, <1>5, <1>6, <1>7, <1>8, Zenon DEF TlInv

\* From here on the table itself shows the slot as taken.
LEMMA CreateStoreKeeps ==
    ASSUME TlInv, OneCreator, JoinsAfterEnd, NEW t \in Tasks, CreateStore(t)
    PROVE  TlInv'
<1>0. /\ TypeOK /\ Places /\ SlotExclusive /\ NewSlot /\ SlotsOwned
      /\ NotEnded /\ ExitBehind /\ TlsInSlot
  BY Zenon DEF TlInv
<1> USE TasksAssumption, MaxThreadsAssumption, ClientAssumption
<1>1. TypeOK'
  <2>1. threads' = [threads EXCEPT ![ref[t]] = [threads[ref[t]] EXCEPT !.task = child[t]]]
    BY <1>0, Zenon DEF CreateStore, TypeOK
  <2>2. \A r \in ThreadInfo : [r EXCEPT !.task = child[t]] \in ThreadInfo
    BY <1>0, Zenon DEF TypeOK, ThreadInfo, Task
  <2>3. threads' \in [Slots -> ThreadInfo]
    BY <1>0, <2>1, <2>2, Zenon DEF TypeOK
  <2> QED
    BY <1>0, <2>3 DEF CreateStore, Goto, TypeOK, PC, Alive, Places, Threads
<1>2. Places'
  BY <1>0, Zenon DEF CreateStore, Goto, TypeOK, Places, Threads
<1>3. SlotExclusive'
  BY <1>0 DEF CreateStore, Goto, TypeOK, SlotExclusive, Alive, Threads
<1>4. NewSlot'
  BY <1>0, Zenon DEF CreateStore, Goto, TypeOK, NewSlot, Live, Alive, Threads
<1>5. SlotsOwned'
  BY <1>0 DEF CreateStore, Goto, TypeOK, SlotsOwned, Owned, Live, Alive,
     Threads, Places, NewSlot
<1>6. NotEnded'
  BY <1>0 DEF CreateStore, Goto, TypeOK, NotEnded, Joins, Live, Alive,
     Threads
<1>7. ExitBehind'
  BY <1>0 DEF CreateStore, Goto, TypeOK, ExitBehind, Live, Alive, Threads
<1>8. TlsInSlot'
  BY <1>0 DEF CreateStore, Goto, TypeOK, TlsInSlot, Threads
<1> QED
  BY <1>1, <1>2, <1>3, <1>4, <1>5, <1>6, <1>7, <1>8, Zenon DEF TlInv

\* The slot is given back before any thread was in it.
LEMMA CreateFailKeeps ==
    ASSUME TlInv, OneCreator, JoinsAfterEnd, NEW t \in Tasks, CreateFail(t)
    PROVE  TlInv'
<1>0. /\ TypeOK /\ Places /\ SlotExclusive /\ NewSlot /\ SlotsOwned
      /\ NotEnded /\ ExitBehind /\ TlsInSlot
  BY Zenon DEF TlInv
<1> USE TasksAssumption, MaxThreadsAssumption, ClientAssumption
<1>1. TypeOK'
  <2>1. threads' = [threads EXCEPT ![ref[t]] = [threads[ref[t]] EXCEPT !.task = NoTask, !.parent = NoTask]]
    BY <1>0, Zenon DEF CreateFail, TypeOK
  <2>2. \A r \in ThreadInfo : [r EXCEPT !.task = NoTask, !.parent = NoTask] \in ThreadInfo
    BY Zenon DEF ThreadInfo, Task
  <2>3. threads' \in [Slots -> ThreadInfo]
    BY <1>0, <2>1, <2>2, Zenon DEF TypeOK
  <2> QED
    BY <1>0, <2>3, Zenon DEF CreateFail, Goto, TypeOK, PC, Alive
<1>2. Places'
  BY <1>0, Zenon DEF CreateFail, Goto, TypeOK, Places, Threads
<1>3. SlotExclusive'
  BY <1>0 DEF CreateFail, Goto, TypeOK, SlotExclusive, Alive, Threads
<1>4. NewSlot'
  BY <1>0, Zenon DEF CreateFail, Goto, TypeOK, NewSlot, Live, Alive, Threads
<1>5. SlotsOwned'
  BY <1>0, Zenon DEF CreateFail, Goto, TypeOK, SlotsOwned, Owned, Live, Alive,
     Threads, Places, NewSlot
<1>6. NotEnded'
  BY <1>0, ZenonT(30) DEF CreateFail, Goto, TypeOK, NotEnded, Joins, Live, Alive,
     Threads, Places, NewSlot
<1>7. ExitBehind'
  BY <1>0 DEF CreateFail, Goto, TypeOK, ExitBehind, Live, Alive, Threads
<1>8. TlsInSlot'
  BY <1>0 DEF CreateFail, Goto, TypeOK, TlsInSlot, Threads
<1> QED
  BY <1>1, <1>2, <1>3, <1>4, <1>5, <1>6, <1>7, <1>8, Zenon DEF TlInv

\* The thread starts: RUNNING.
LEMMA StartKeeps ==
    ASSUME TlInv, OneCreator, JoinsAfterEnd, NEW t \in Tasks, Start(t)
    PROVE  TlInv'
<1>0. /\ TypeOK /\ Places /\ SlotExclusive /\ NewSlot /\ SlotsOwned
      /\ NotEnded /\ ExitBehind /\ TlsInSlot
  BY Zenon DEF TlInv
<1> USE TasksAssumption, MaxThreadsAssumption, ClientAssumption
<1>1. TypeOK'
  <2>1. threads' = [threads EXCEPT ![inf[t]] = [threads[inf[t]] EXCEPT !.status = "RUNNING"]]
    BY <1>0, Zenon DEF Start, TypeOK
  <2>2. \A r \in ThreadInfo : [r EXCEPT !.status = "RUNNING"] \in ThreadInfo
    BY Zenon DEF ThreadInfo
  <2>3. threads' \in [Slots -> ThreadInfo]
    BY <1>0, <2>1, <2>2, Zenon DEF TypeOK
  <2> QED
    BY <1>0, <2>3, Zenon DEF Start, Goto, TypeOK, PC, Alive
<1>2. Places'
  BY <1>0, Zenon DEF Start, Goto, TypeOK, Places, Threads
<1>3. SlotExclusive'
  BY <1>0 DEF Start, Goto, TypeOK, SlotExclusive, Alive, Threads
<1>4. NewSlot'
  BY <1>0, Zenon DEF Start, Goto, TypeOK, NewSlot, Live, Alive, Threads
<1>5. SlotsOwned'
  BY <1>0 DEF Start, Goto, TypeOK, SlotsOwned, Owned, Live, Alive, Threads
<1>6. NotEnded'
  BY <1>0 DEF Start, Goto, TypeOK, NotEnded, Joins, Live, Alive, Threads
<1>7. ExitBehind'
  BY <1>0 DEF Start, Goto, TypeOK, ExitBehind, Live, Alive, Threads
<1>8. TlsInSlot'
  BY <1>0 DEF Start, Goto, TypeOK, TlsInSlot, Threads
<1> QED
  BY <1>1, <1>2, <1>3, <1>4, <1>5, <1>6, <1>7, <1>8, Zenon DEF TlInv

\* pthread_setspecific in the thread's own slot.
LEMMA SetSpecificKeeps ==
    ASSUME TlInv, OneCreator, JoinsAfterEnd, NEW t \in Tasks, SetSpecific(t)
    PROVE  TlInv'
<1>0. /\ TypeOK /\ Places /\ SlotExclusive /\ NewSlot /\ SlotsOwned
      /\ NotEnded /\ ExitBehind /\ TlsInSlot
  BY Zenon DEF TlInv
<1> USE TasksAssumption, MaxThreadsAssumption, ClientAssumption
<1>1. TypeOK'
  <2>1. threads' = [threads EXCEPT ![inf[t]] = [threads[inf[t]] EXCEPT !.tls = TRUE]]
    BY <1>0, Zenon DEF SetSpecific, TypeOK
  <2>2. \A r \in ThreadInfo : [r EXCEPT !.tls = TRUE] \in ThreadInfo
    BY Zenon DEF ThreadInfo
  <2>3. threads' \in [Slots -> ThreadInfo]
    BY <1>0, <2>1, <2>2, Zenon DEF TypeOK
  <2> QED
    BY <1>0, <2>3, Zenon DEF SetSpecific, TypeOK
<1>2. Places'
  BY <1>0, Zenon DEF SetSpecific, TypeOK, Places, Threads
<1>3. SlotExclusive'
  BY <1>0, Zenon DEF SetSpecific, TypeOK, SlotExclusive, Alive, Threads
<1>4. NewSlot'
  BY <1>0, Zenon DEF SetSpecific, TypeOK, NewSlot, Live, Alive, Threads
<1>5. SlotsOwned'
  BY <1>0 DEF SetSpecific, TypeOK, SlotsOwned, Owned, Live, Alive, Threads
<1>6. NotEnded'
  BY <1>0 DEF SetSpecific, TypeOK, NotEnded, Joins, Live, Alive, Threads
<1>7. ExitBehind'
  BY <1>0 DEF SetSpecific, TypeOK, ExitBehind, Live, Alive, Threads
<1>8. TlsInSlot'
  BY <1>0 DEF SetSpecific, TypeOK, TlsInSlot, Threads
<1> QED
  BY <1>1, <1>2, <1>3, <1>4, <1>5, <1>6, <1>7, <1>8, Zenon DEF TlInv

\* The thread's function returns.
LEMMA ReturnKeeps ==
    ASSUME TlInv, OneCreator, JoinsAfterEnd, NEW t \in Tasks, Return(t)
    PROVE  TlInv'
<1>0. /\ TypeOK /\ Places /\ SlotExclusive /\ NewSlot /\ SlotsOwned
      /\ NotEnded /\ ExitBehind /\ TlsInSlot
  BY Zenon DEF TlInv
<1> USE TasksAssumption, MaxThreadsAssumption, ClientAssumption
<1>1. TypeOK'
  BY <1>0, Zenon DEF Return, Goto, TypeOK, PC, Alive
<1>2. Places'
  BY <1>0, Zenon DEF Return, Goto, TypeOK, Places, Threads
<1>3. SlotExclusive'
  BY <1>0 DEF Return, Goto, TypeOK, SlotExclusive, Alive, Threads
<1>4. NewSlot'
  BY <1>0, Zenon DEF Return, Goto, TypeOK, NewSlot, Live, Alive, Threads
<1>5. SlotsOwned'
  BY <1>0 DEF Return, Goto, TypeOK, SlotsOwned, Owned, Live, Alive,
     Threads
<1>6. NotEnded'
  BY <1>0, Zenon DEF Return, Goto, TypeOK, NotEnded, Joins, Live, Alive, Threads
<1>7. ExitBehind'
  BY <1>0, Zenon DEF Return, Goto, TypeOK, ExitBehind, Live, Alive, Threads
<1>8. TlsInSlot'
  BY <1>0, Zenon DEF Return, Goto, TypeOK, TlsInSlot, Threads
<1> QED
  BY <1>1, <1>2, <1>3, <1>4, <1>5, <1>6, <1>7, <1>8, Zenon DEF TlInv

\* Only the status changes: the slot stays taken.
LEMMA pthread_exitKeeps ==
    ASSUME TlInv, OneCreator, JoinsAfterEnd, NEW t \in Tasks, pthread_exit(t)
    PROVE  TlInv'
<1>0. /\ TypeOK /\ Places /\ SlotExclusive /\ NewSlot /\ SlotsOwned
      /\ NotEnded /\ ExitBehind /\ TlsInSlot
  BY Zenon DEF TlInv
<1> USE TasksAssumption, MaxThreadsAssumption, ClientAssumption
<1>1. TypeOK'
  <2>1. threads' = [threads EXCEPT ![pthread_self(t)] = [threads[pthread_self(t)] EXCEPT !.status = "DESTRUCT"]]
    BY <1>0, Zenon DEF pthread_exit, TypeOK
  <2>2. \A r \in ThreadInfo : [r EXCEPT !.status = "DESTRUCT"] \in ThreadInfo
    BY Zenon DEF ThreadInfo
  <2>3. threads' \in [Slots -> ThreadInfo]
    BY <1>0, <2>1, <2>2, Zenon DEF TypeOK
  <2> QED
    BY <1>0, <2>3, Zenon DEF pthread_exit, Goto, TypeOK, PC, Alive
<1>2. Places'
  BY <1>0, Zenon DEF pthread_exit, Goto, TypeOK, Places, Threads
<1>3. SlotExclusive'
  BY <1>0 DEF pthread_exit, Goto, TypeOK, SlotExclusive, Alive, Threads
<1>4. NewSlot'
  BY <1>0, Zenon DEF pthread_exit, Goto, TypeOK, NewSlot, Live, Alive, Threads
<1>5. SlotsOwned'
  BY <1>0 DEF pthread_exit, Goto, TypeOK, SlotsOwned, Owned, Live, Alive,
     Threads
<1>6. NotEnded'
  BY <1>0, Zenon DEF pthread_exit, Goto, TypeOK, NotEnded, Joins, Live, Alive,
     Threads
<1>7. ExitBehind'
  BY <1>0, Zenon DEF pthread_exit, Goto, TypeOK, ExitBehind, Live, Alive, Threads
<1>8. TlsInSlot'
  BY <1>0 DEF pthread_exit, Goto, TypeOK, TlsInSlot, Threads
<1> QED
  BY <1>1, <1>2, <1>3, <1>4, <1>5, <1>6, <1>7, <1>8, Zenon DEF TlInv

\* The destructors run: nothing is owed any more.
LEMMA DestructorsKeeps ==
    ASSUME TlInv, OneCreator, JoinsAfterEnd, NEW t \in Tasks, Destructors(t)
    PROVE  TlInv'
<1>0. /\ TypeOK /\ Places /\ SlotExclusive /\ NewSlot /\ SlotsOwned
      /\ NotEnded /\ ExitBehind /\ TlsInSlot
  BY Zenon DEF TlInv
<1> USE TasksAssumption, MaxThreadsAssumption, ClientAssumption
<1>1. TypeOK'
  <2>1. threads' = [threads EXCEPT ![inf[t]] = [threads[inf[t]] EXCEPT !.tls = FALSE]]
    BY <1>0, Zenon DEF Destructors, TypeOK
  <2>2. \A r \in ThreadInfo : [r EXCEPT !.tls = FALSE] \in ThreadInfo
    BY Zenon DEF ThreadInfo
  <2>3. threads' \in [Slots -> ThreadInfo]
    BY <1>0, <2>1, <2>2, Zenon DEF TypeOK
  <2> QED
    BY <1>0, <2>3, Zenon DEF Destructors, Goto, TypeOK, PC, Alive
<1>2. Places'
  BY <1>0, Zenon DEF Destructors, Goto, TypeOK, Places, Threads
<1>3. SlotExclusive'
  BY <1>0 DEF Destructors, Goto, TypeOK, SlotExclusive, Alive, Threads
<1>4. NewSlot'
  BY <1>0, Zenon DEF Destructors, Goto, TypeOK, NewSlot, Live, Alive, Threads
<1>5. SlotsOwned'
  BY <1>0 DEF Destructors, Goto, TypeOK, SlotsOwned, Owned, Live, Alive,
     Threads
<1>6. NotEnded'
  BY <1>0 DEF Destructors, Goto, TypeOK, NotEnded, Joins, Live, Alive,
     Threads
<1>7. ExitBehind'
  BY <1>0 DEF Destructors, Goto, TypeOK, ExitBehind, Live, Alive, Threads
<1>8. TlsInSlot'
  BY <1>0 DEF Destructors, Goto, TypeOK, TlsInSlot, Threads, Live, Alive,
     SlotExclusive, Places
<1> QED
  BY <1>1, <1>2, <1>3, <1>4, <1>5, <1>6, <1>7, <1>8, Zenon DEF TlInv

\* The end of a thread looks whether it is detached.
LEMMA EndCheckKeeps ==
    ASSUME TlInv, OneCreator, JoinsAfterEnd, NEW t \in Tasks, EndCheck(t)
    PROVE  TlInv'
<1>0. /\ TypeOK /\ Places /\ SlotExclusive /\ NewSlot /\ SlotsOwned
      /\ NotEnded /\ ExitBehind /\ TlsInSlot
  BY Zenon DEF TlInv
<1> USE TasksAssumption, MaxThreadsAssumption, ClientAssumption
<1>1. TypeOK'
  BY <1>0, Zenon DEF EndCheck, Goto, TypeOK, PC, Alive
<1>2. Places'
  BY <1>0, Zenon DEF EndCheck, Goto, TypeOK, Places, Threads
<1>3. SlotExclusive'
  BY <1>0, Zenon DEF EndCheck, Goto, TypeOK, SlotExclusive, Alive, Threads
<1>4. NewSlot'
  BY <1>0, ZenonT(30) DEF EndCheck, Goto, TypeOK, NewSlot, Live, Alive, Threads
<1>5. SlotsOwned'
  BY <1>0 DEF EndCheck, Goto, TypeOK, SlotsOwned, Owned, Live, Alive,
     Threads
<1>6. NotEnded'
  BY <1>0, Zenon DEF EndCheck, Goto, TypeOK, NotEnded, Joins, Live, Alive,
     Threads
<1>7. ExitBehind'
  BY <1>0, Zenon DEF EndCheck, Goto, TypeOK, ExitBehind, Live, Alive, Threads
<1>8. TlsInSlot'
  BY <1>0, Zenon DEF EndCheck, Goto, TypeOK, TlsInSlot, Threads
<1> QED
  BY <1>1, <1>2, <1>3, <1>4, <1>5, <1>6, <1>7, <1>8, Zenon DEF TlInv

\* The thread is over when the slot may be cleared by another.
LEMMA EndNotifyKeeps ==
    ASSUME TlInv, OneCreator, JoinsAfterEnd, NEW t \in Tasks, EndNotify(t)
    PROVE  TlInv'
<1>0. /\ TypeOK /\ Places /\ SlotExclusive /\ NewSlot /\ SlotsOwned
      /\ NotEnded /\ ExitBehind /\ TlsInSlot
  BY Zenon DEF TlInv
<1> USE TasksAssumption, MaxThreadsAssumption, ClientAssumption
<1>1. TypeOK'
  <2>1. threads' = [threads EXCEPT ![inf[t]] = [threads[inf[t]] EXCEPT !.status = "DESTRUCT"]]
    BY <1>0, Zenon DEF EndNotify, TypeOK
  <2>2. \A r \in ThreadInfo : [r EXCEPT !.status = "DESTRUCT"] \in ThreadInfo
    BY Zenon DEF ThreadInfo
  <2>3. threads' \in [Slots -> ThreadInfo]
    BY <1>0, <2>1, <2>2, Zenon DEF TypeOK
  <2> QED
    BY <1>0, <2>3, Zenon DEF EndNotify, Goto, TypeOK, PC, Alive
<1>2. Places'
  BY <1>0, Zenon DEF EndNotify, Goto, TypeOK, Places, Threads
<1>3. SlotExclusive'
  BY <1>0, Zenon DEF EndNotify, Goto, TypeOK, SlotExclusive, Alive, Threads
<1>4. NewSlot'
  BY <1>0, Zenon DEF EndNotify, Goto, TypeOK, NewSlot, Live, Alive, Threads
<1>5. SlotsOwned'
  BY <1>0 DEF EndNotify, Goto, TypeOK, SlotsOwned, Owned, Live, Alive,
     Threads
<1>6. NotEnded'
  BY <1>0 DEF EndNotify, Goto, TypeOK, NotEnded, Joins, Live, Alive,
     Threads, Places, NewSlot, SlotExclusive, Cleared, OneCreator
<1>7. ExitBehind'
  BY <1>0, Zenon DEF EndNotify, Goto, TypeOK, ExitBehind, Live, Alive, Threads,
     SlotExclusive, Places
<1>8. TlsInSlot'
  BY <1>0 DEF EndNotify, Goto, TypeOK, TlsInSlot, Threads
<1> QED
  BY <1>1, <1>2, <1>3, <1>4, <1>5, <1>6, <1>7, <1>8, Zenon DEF TlInv

\* A thread clears its own slot.
LEMMA EndClearKeeps ==
    ASSUME TlInv, OneCreator, JoinsAfterEnd, NEW t \in Tasks, EndClear(t)
    PROVE  TlInv'
<1>0. /\ TypeOK /\ Places /\ SlotExclusive /\ NewSlot /\ SlotsOwned
      /\ NotEnded /\ ExitBehind /\ TlsInSlot
  BY Zenon DEF TlInv
<1> USE TasksAssumption, MaxThreadsAssumption, ClientAssumption
<1>1. TypeOK'
  BY <1>0, Zenon DEF EndClear, Goto, TypeOK, Cleared, ThreadInfo, Task, PC, Alive
<1>2. Places'
  BY <1>0, Zenon DEF EndClear, Goto, TypeOK, Places, Threads
<1>3. SlotExclusive'
  BY <1>0, Zenon DEF EndClear, Goto, TypeOK, SlotExclusive, Alive, Threads
<1>4. NewSlot'
  BY <1>0, Zenon DEF EndClear, Goto, TypeOK, NewSlot, Live, Alive, Threads
<1>5. SlotsOwned'
  BY <1>0 DEF EndClear, Goto, TypeOK, SlotsOwned, Owned, Live, Alive,
     Threads, SlotExclusive, Places
<1>6. NotEnded'
  BY <1>0, SMTT(30) DEF EndClear, Goto, TypeOK, NotEnded, Joins, Live, Alive,
     Threads, Places, NewSlot, SlotExclusive, Cleared, OneCreator
<1>7. ExitBehind'
  BY <1>0, Zenon DEF EndClear, Goto, TypeOK, ExitBehind, Live, Alive, Threads,
     SlotExclusive, Places
<1>8. TlsInSlot'
  BY <1>0, ZenonT(30) DEF EndClear, Goto, TypeOK, TlsInSlot, Threads, Live, Alive,
     SlotExclusive, Places
<1> QED
  BY <1>1, <1>2, <1>3, <1>4, <1>5, <1>6, <1>7, <1>8, Zenon DEF TlInv

\* A detached thread returns from StarterFunc.
LEMMA LeaveKeeps ==
    ASSUME TlInv, OneCreator, JoinsAfterEnd, NEW t \in Tasks, Leave(t)
    PROVE  TlInv'
<1>0. /\ TypeOK /\ Places /\ SlotExclusive /\ NewSlot /\ SlotsOwned
      /\ NotEnded /\ ExitBehind /\ TlsInSlot
  BY Zenon DEF TlInv
<1> USE TasksAssumption, MaxThreadsAssumption, ClientAssumption
<1>1. TypeOK'
  BY <1>0, Zenon DEF Leave, Goto, TypeOK, PC, Alive
<1>2. Places'
  BY <1>0, Zenon DEF Leave, Goto, TypeOK, Places, Threads
<1>3. SlotExclusive'
  BY <1>0, Zenon DEF Leave, Goto, TypeOK, SlotExclusive, Alive, Threads
<1>4. NewSlot'
  BY <1>0, ZenonT(30) DEF Leave, Goto, TypeOK, NewSlot, Live, Alive, Threads, Places
<1>5. SlotsOwned'
  BY <1>0 DEF Leave, Goto, TypeOK, SlotsOwned, Owned, Live, Alive,
     Threads, Places
<1>6. NotEnded'
  BY <1>0, Zenon DEF Leave, Goto, TypeOK, NotEnded, Joins, Live, Alive,
     Threads, Places
<1>7. ExitBehind'
  BY <1>0, Zenon DEF Leave, Goto, TypeOK, ExitBehind, Live, Alive, Threads, Places
<1>8. TlsInSlot'
  BY <1>0, Zenon DEF Leave, Goto, TypeOK, TlsInSlot, Threads, Places
<1> QED
  BY <1>1, <1>2, <1>3, <1>4, <1>5, <1>6, <1>7, <1>8, Zenon DEF TlInv

\* pthread_join is called.
LEMMA JoinCallKeeps ==
    ASSUME TlInv, OneCreator, JoinsAfterEnd,
           NEW t \in Tasks, NEW s \in ThreadSlots, JoinCall(t, s)
    PROVE  TlInv'
<1>0. /\ TypeOK /\ Places /\ SlotExclusive /\ NewSlot /\ SlotsOwned
      /\ NotEnded /\ ExitBehind /\ TlsInSlot
  BY Zenon DEF TlInv
<1> USE TasksAssumption, MaxThreadsAssumption, ClientAssumption
<1>1. TypeOK'
  BY <1>0, SMTT(30) DEF JoinCall, Goto, TypeOK, PC, Alive, ThreadSlots, Slots
<1>2. Places'
  BY <1>0, Zenon DEF JoinCall, Goto, TypeOK, Places, Threads
<1>3. SlotExclusive'
  BY <1>0 DEF JoinCall, Goto, TypeOK, SlotExclusive, Alive, Threads
<1>4. NewSlot'
  BY <1>0, Zenon DEF JoinCall, Goto, TypeOK, NewSlot, Live, Alive, Threads
<1>5. SlotsOwned'
  BY <1>0 DEF JoinCall, Goto, TypeOK, SlotsOwned, Owned, Live, Alive,
     Threads
<1>6. NotEnded'
  BY <1>0, Zenon DEF JoinCall, Goto, TypeOK, NotEnded, Joins, Live, Alive,
     Threads
<1>7. ExitBehind'
  BY <1>0, Zenon DEF JoinCall, Goto, TypeOK, ExitBehind, Live, Alive, Threads,
     Places
<1>8. TlsInSlot'
  BY <1>0, Zenon DEF JoinCall, Goto, TypeOK, TlsInSlot, Threads
<1> QED
  BY <1>1, <1>2, <1>3, <1>4, <1>5, <1>6, <1>7, <1>8, Zenon DEF TlInv

\* pthread_join goes to sleep.
LEMMA JoinSleepKeeps ==
    ASSUME TlInv, OneCreator, JoinsAfterEnd, NEW t \in Tasks, JoinSleep(t)
    PROVE  TlInv'
<1>0. /\ TypeOK /\ Places /\ SlotExclusive /\ NewSlot /\ SlotsOwned
      /\ NotEnded /\ ExitBehind /\ TlsInSlot
  BY Zenon DEF TlInv
<1> USE TasksAssumption, MaxThreadsAssumption, ClientAssumption
<1>1. TypeOK'
  BY <1>0, Zenon DEF JoinSleep, Goto, TypeOK, PC, Alive
<1>2. Places'
  BY <1>0, Zenon DEF JoinSleep, Goto, TypeOK, Places, Threads
<1>3. SlotExclusive'
  BY <1>0 DEF JoinSleep, Goto, TypeOK, SlotExclusive, Alive, Threads
<1>4. NewSlot'
  BY <1>0, Zenon DEF JoinSleep, Goto, TypeOK, NewSlot, Live, Alive, Threads
<1>5. SlotsOwned'
  BY <1>0, SMTT(30) DEF JoinSleep, Goto, TypeOK, SlotsOwned, Owned, Live, Alive,
     Threads
<1>6. NotEnded'
  BY <1>0, Zenon DEF JoinSleep, Goto, TypeOK, NotEnded, Joins, Live, Alive,
     Threads
<1>7. ExitBehind'
  BY <1>0, Zenon DEF JoinSleep, Goto, TypeOK, ExitBehind, Live, Alive, Threads
<1>8. TlsInSlot'
  BY <1>0, Zenon DEF JoinSleep, Goto, TypeOK, TlsInSlot, Threads
<1> QED
  BY <1>1, <1>2, <1>3, <1>4, <1>5, <1>6, <1>7, <1>8, Zenon DEF TlInv

\* pthread_join wakes and clears the slot of a thread that has ended.
LEMMA JoinWakeKeeps ==
    ASSUME TlInv, OneCreator, JoinsAfterEnd, NEW t \in Tasks, JoinWake(t)
    PROVE  TlInv'
<1>0. /\ TypeOK /\ Places /\ SlotExclusive /\ NewSlot /\ SlotsOwned
      /\ NotEnded /\ ExitBehind /\ TlsInSlot
  BY Zenon DEF TlInv
<1> USE TasksAssumption, MaxThreadsAssumption, ClientAssumption
<1>1. TypeOK'
  BY <1>0, Zenon DEF JoinWake, Goto, TypeOK, PC, Alive
<1>2. Places'
  BY <1>0, Zenon DEF JoinWake, Goto, TypeOK, Places, Threads
<1>3. SlotExclusive'
  BY <1>0, ZenonT(30) DEF JoinWake, Goto, TypeOK, SlotExclusive, Alive, Threads
<1>4. NewSlot'
  BY <1>0, Zenon DEF JoinWake, Goto, TypeOK, NewSlot, Live, Alive, Threads
<1>5. SlotsOwned'
  BY <1>0, ZenonT(30) DEF JoinWake, Goto, TypeOK, SlotsOwned, Owned, Live, Alive,
     Threads
<1>6. NotEnded'
  BY <1>0, Zenon DEF JoinWake, Goto, TypeOK, NotEnded, Joins, Live, Alive,
     Threads
<1>7. ExitBehind'
  BY <1>0, Zenon DEF JoinWake, Goto, TypeOK, ExitBehind, Live, Alive, Threads
<1>8. TlsInSlot'
  BY <1>0, Zenon DEF JoinWake, Goto, TypeOK, TlsInSlot, Threads
<1> QED
  BY <1>1, <1>2, <1>3, <1>4, <1>5, <1>6, <1>7, <1>8, Zenon DEF TlInv

\* No living thread is in a slot that is cleared.
LEMMA JoinDoneKeeps ==
    ASSUME TlInv, OneCreator, JoinsAfterEnd, NEW t \in Tasks, JoinDone(t)
    PROVE  TlInv'
<1>0. /\ TypeOK /\ Places /\ SlotExclusive /\ NewSlot /\ SlotsOwned
      /\ NotEnded /\ ExitBehind /\ TlsInSlot
  BY Zenon DEF TlInv
<1> USE TasksAssumption, MaxThreadsAssumption, ClientAssumption
<1>1. TypeOK'
  BY <1>0, Zenon DEF JoinDone, Goto, TypeOK, Cleared, ThreadInfo, Task, PC, Alive
<1>2. Places'
  BY <1>0, Zenon DEF JoinDone, Goto, TypeOK, Places, Threads
<1>3. SlotExclusive'
  BY <1>0 DEF JoinDone, Goto, TypeOK, SlotExclusive, Alive, Threads
<1>4. NewSlot'
  BY <1>0, ZenonT(30) DEF JoinDone, Goto, TypeOK, NewSlot, Live, Alive, Threads
<1>5. SlotsOwned'
  BY <1>0, SMTT(30) DEF JoinDone, Goto, TypeOK, SlotsOwned, Owned, Live, Alive,
     Threads, Places, NotEnded, Joins, JoinsAfterEnd
<1>6. NotEnded'
  BY <1>0 DEF JoinDone, Goto, TypeOK, NotEnded, Joins, Live, Alive,
     Threads
<1>7. ExitBehind'
  BY <1>0, Zenon DEF JoinDone, Goto, TypeOK, ExitBehind, Live, Alive, Threads
<1>8. TlsInSlot'
  BY <1>0, ZenonT(30) DEF JoinDone, Goto, TypeOK, TlsInSlot, Threads, Places,
     NotEnded, Joins, Live, Alive, JoinsAfterEnd
<1> QED
  BY <1>1, <1>2, <1>3, <1>4, <1>5, <1>6, <1>7, <1>8, Zenon DEF TlInv

\* pthread_detach: a living thread keeps its slot.
LEMMA pthread_detachKeeps ==
    ASSUME TlInv, OneCreator, JoinsAfterEnd,
           NEW t \in Tasks, NEW s \in ThreadSlots, pthread_detach(t, s)
    PROVE  TlInv'
<1>0. /\ TypeOK /\ Places /\ SlotExclusive /\ NewSlot /\ SlotsOwned
      /\ NotEnded /\ ExitBehind /\ TlsInSlot
  BY Zenon DEF TlInv
<1> USE TasksAssumption, MaxThreadsAssumption, ClientAssumption
<1>1. TypeOK'
  <2>1. threads' = [threads EXCEPT ![s] = [threads[s] EXCEPT !.detached = TRUE]]
    BY <1>0, Zenon DEF pthread_detach, TypeOK
  <2>2. \A r \in ThreadInfo : [r EXCEPT !.detached = TRUE] \in ThreadInfo
    BY Zenon DEF ThreadInfo
  <2>3. threads' \in [Slots -> ThreadInfo]
    BY <1>0, <2>1, <2>2, Zenon DEF TypeOK
  <2> QED
    BY <1>0, <2>3, Zenon DEF pthread_detach, TypeOK
<1>2. Places'
  BY <1>0, Zenon DEF pthread_detach, TypeOK, Places, Threads
<1>3. SlotExclusive'
  BY <1>0, Zenon DEF pthread_detach, TypeOK, SlotExclusive, Alive, Threads
<1>4. NewSlot'
  BY <1>0, Zenon DEF pthread_detach, TypeOK, NewSlot, Live, Alive, Threads
<1>5. SlotsOwned'
  BY <1>0 DEF pthread_detach, TypeOK, SlotsOwned, Owned, Live, Alive,
     Threads
<1>6. NotEnded'
  BY <1>0 DEF pthread_detach, TypeOK, NotEnded, Joins, Live, Alive,
     Threads
<1>7. ExitBehind'
  BY <1>0 DEF pthread_detach, TypeOK, ExitBehind, Live, Alive, Threads
<1>8. TlsInSlot'
  BY <1>0 DEF pthread_detach, TypeOK, TlsInSlot, Threads
<1> QED
  BY <1>1, <1>2, <1>3, <1>4, <1>5, <1>6, <1>7, <1>8, Zenon DEF TlInv

\* main ends and __pthread_exit_func begins.
LEMMA ExitCallKeeps ==
    ASSUME TlInv, OneCreator, JoinsAfterEnd, ExitCall
    PROVE  TlInv'
<1>0. /\ TypeOK /\ Places /\ SlotExclusive /\ NewSlot /\ SlotsOwned
      /\ NotEnded /\ ExitBehind /\ TlsInSlot
  BY Zenon DEF TlInv
<1> USE TasksAssumption, MaxThreadsAssumption, ClientAssumption
<1>1. TypeOK'
  BY <1>0 DEF ExitCall, Goto, TypeOK, PC, Alive
<1>2. Places'
  BY <1>0, Zenon DEF ExitCall, Goto, TypeOK, Places, Threads
<1>3. SlotExclusive'
  BY <1>0, Zenon DEF ExitCall, Goto, TypeOK, SlotExclusive, Alive, Threads
<1>4. NewSlot'
  BY <1>0, Zenon DEF ExitCall, Goto, TypeOK, NewSlot, Live, Alive, Threads
<1>5. SlotsOwned'
  BY <1>0, Zenon DEF ExitCall, Goto, TypeOK, SlotsOwned, Owned, Live, Alive,
     Threads
<1>6. NotEnded'
  BY <1>0, Zenon DEF ExitCall, Goto, TypeOK, NotEnded, Joins, Live, Alive,
     Threads
<1>7. ExitBehind'
  BY <1>0, SMTT(30) DEF ExitCall, Goto, TypeOK, ExitBehind, Live, Alive, Threads,
     Places, NotEnded, Joins, Joinable, Slots, ThreadSlots
<1>8. TlsInSlot'
  BY <1>0, Zenon DEF ExitCall, Goto, TypeOK, TlsInSlot, Threads
<1> QED
  BY <1>1, <1>2, <1>3, <1>4, <1>5, <1>6, <1>7, <1>8, Zenon DEF TlInv

\* A slot that is passed has no living thread.
LEMMA ExitSkipKeeps ==
    ASSUME TlInv, OneCreator, JoinsAfterEnd, ExitSkip
    PROVE  TlInv'
<1>0. /\ TypeOK /\ Places /\ SlotExclusive /\ NewSlot /\ SlotsOwned
      /\ NotEnded /\ ExitBehind /\ TlsInSlot
  BY Zenon DEF TlInv
<1> USE TasksAssumption, MaxThreadsAssumption, ClientAssumption
<1>1. TypeOK'
  BY <1>0 DEF ExitSkip, TypeOK
<1>2. Places'
  BY <1>0, Zenon DEF ExitSkip, TypeOK, Places, Threads
<1>3. SlotExclusive'
  BY <1>0, Zenon DEF ExitSkip, TypeOK, SlotExclusive, Alive, Threads
<1>4. NewSlot'
  BY <1>0, Zenon DEF ExitSkip, TypeOK, NewSlot, Live, Alive, Threads
<1>5. SlotsOwned'
  BY <1>0, Zenon DEF ExitSkip, TypeOK, SlotsOwned, Owned, Live, Alive, Threads
<1>6. NotEnded'
  BY <1>0, Zenon DEF ExitSkip, TypeOK, NotEnded, Joins, Live, Alive, Threads
<1>7. ExitBehind'
  BY <1>0, SMTT(30) DEF ExitSkip, TypeOK, ExitBehind, Live, Alive, Threads, Places,
     SlotExclusive, NewSlot, SlotsOwned, Owned, NotEnded, Joins,
     JoinsAfterEnd, OneCreator, Joinable, Cleared, ThreadSlots, Slots
<1>8. TlsInSlot'
  BY <1>0, Zenon DEF ExitSkip, TypeOK, TlsInSlot, Threads
<1> QED
  BY <1>1, <1>2, <1>3, <1>4, <1>5, <1>6, <1>7, <1>8, Zenon DEF TlInv

\* __pthread_exit_func passes a slot, or joins the thread in it.
LEMMA ExitJoinKeeps ==
    ASSUME TlInv, OneCreator, JoinsAfterEnd, ExitJoin
    PROVE  TlInv'
<1>0. /\ TypeOK /\ Places /\ SlotExclusive /\ NewSlot /\ SlotsOwned
      /\ NotEnded /\ ExitBehind /\ TlsInSlot
  BY Zenon DEF TlInv
<1> USE TasksAssumption, MaxThreadsAssumption, ClientAssumption
<1>1. TypeOK'
  BY <1>0, Zenon DEF ExitJoin, Goto, TypeOK, PC, Alive
<1>2. Places'
  BY <1>0, Zenon DEF ExitJoin, Goto, TypeOK, Places, Threads
<1>3. SlotExclusive'
  BY <1>0, Zenon DEF ExitJoin, Goto, TypeOK, SlotExclusive, Alive, Threads
<1>4. NewSlot'
  BY <1>0, Zenon DEF ExitJoin, Goto, TypeOK, NewSlot, Live, Alive, Threads
<1>5. SlotsOwned'
  BY <1>0, Zenon DEF ExitJoin, Goto, TypeOK, SlotsOwned, Owned, Live, Alive,
     Threads
<1>6. NotEnded'
  BY <1>0, Zenon DEF ExitJoin, Goto, TypeOK, NotEnded, Joins, Live, Alive,
     Threads
<1>7. ExitBehind'
  BY <1>0, Zenon DEF ExitJoin, Goto, TypeOK, ExitBehind, Live, Alive, Threads
<1>8. TlsInSlot'
  BY <1>0, Zenon DEF ExitJoin, Goto, TypeOK, TlsInSlot, Threads
<1> QED
  BY <1>1, <1>2, <1>3, <1>4, <1>5, <1>6, <1>7, <1>8, Zenon DEF TlInv

\* __pthread_exit_func has passed all slots.
LEMMA ExitDoneKeeps ==
    ASSUME TlInv, OneCreator, JoinsAfterEnd, ExitDone
    PROVE  TlInv'
<1>0. /\ TypeOK /\ Places /\ SlotExclusive /\ NewSlot /\ SlotsOwned
      /\ NotEnded /\ ExitBehind /\ TlsInSlot
  BY Zenon DEF TlInv
<1> USE TasksAssumption, MaxThreadsAssumption, ClientAssumption
<1>1. TypeOK'
  BY <1>0, Zenon DEF ExitDone, Goto, TypeOK, PC, Alive
<1>2. Places'
  BY <1>0, Zenon DEF ExitDone, Goto, TypeOK, Places, Threads
<1>3. SlotExclusive'
  BY <1>0, Zenon DEF ExitDone, Goto, TypeOK, SlotExclusive, Alive, Threads
<1>4. NewSlot'
  BY <1>0, Zenon DEF ExitDone, Goto, TypeOK, NewSlot, Live, Alive, Threads
<1>5. SlotsOwned'
  BY <1>0, Zenon DEF ExitDone, Goto, TypeOK, SlotsOwned, Owned, Live, Alive,
     Threads
<1>6. NotEnded'
  BY <1>0, Zenon DEF ExitDone, Goto, TypeOK, NotEnded, Joins, Live, Alive,
     Threads
<1>7. ExitBehind'
  BY <1>0, Zenon DEF ExitDone, Goto, TypeOK, ExitBehind, Live, Alive, Threads
<1>8. TlsInSlot'
  BY <1>0, Zenon DEF ExitDone, Goto, TypeOK, TlsInSlot, Threads
<1> QED
  BY <1>1, <1>2, <1>3, <1>4, <1>5, <1>6, <1>7, <1>8, Zenon DEF TlInv

\* A task stops at a semaphore that is gone.
LEMMA CrashKeeps ==
    ASSUME TlInv, OneCreator, JoinsAfterEnd, NEW t \in Tasks, Crash(t)
    PROVE  TlInv'
<1>0. /\ TypeOK /\ Places /\ SlotExclusive /\ NewSlot /\ SlotsOwned
      /\ NotEnded /\ ExitBehind /\ TlsInSlot
  BY Zenon DEF TlInv
<1> USE TasksAssumption, MaxThreadsAssumption, ClientAssumption
<1>1. TypeOK'
  BY <1>0, Zenon DEF Crash, UsesSemaphore, Goto, TypeOK, PC, Alive
<1>2. Places'
  BY <1>0, Zenon DEF Crash, UsesSemaphore, Goto, TypeOK, Places, Threads
<1>3. SlotExclusive'
  BY <1>0, Zenon DEF Crash, UsesSemaphore, Goto, TypeOK, SlotExclusive, Alive, Threads
<1>4. NewSlot'
  BY <1>0, ZenonT(30) DEF Crash, UsesSemaphore, Goto, TypeOK, NewSlot, Live, Alive, Threads, Places
<1>5. SlotsOwned'
  BY <1>0 DEF Crash, UsesSemaphore, Goto, TypeOK, SlotsOwned, Owned, Live, Alive,
     Threads, Places
<1>6. NotEnded'
  BY <1>0, Zenon DEF Crash, UsesSemaphore, Goto, TypeOK, NotEnded, Joins, Live, Alive,
     Threads, Places
<1>7. ExitBehind'
  BY <1>0, Zenon DEF Crash, UsesSemaphore, Goto, TypeOK, ExitBehind, Live, Alive, Threads, Places
<1>8. TlsInSlot'
  BY <1>0, Zenon DEF Crash, UsesSemaphore, Goto, TypeOK, TlsInSlot, Threads, Places
<1> QED
  BY <1>1, <1>2, <1>3, <1>4, <1>5, <1>6, <1>7, <1>8, Zenon DEF TlInv

-----------------------------------------------------------------------------

\* No thread but main, and no slot taken.
LEMMA TlInit == Init => TlInv
<1> SUFFICES ASSUME Init PROVE TlInv
  BY Zenon
<1> USE TasksAssumption, MaxThreadsAssumption
<1>1. TypeOK
  <2>1. Cleared \in ThreadInfo /\ [Cleared EXCEPT !.task = Main, !.status = "RUNNING"] \in ThreadInfo
    BY Zenon DEF Cleared, ThreadInfo, Task
  <2>2. threads \in [Slots -> ThreadInfo]
    BY <2>1, Zenon DEF Init
  <2>3. pc \in [Tasks -> PC] /\ child \in [Tasks -> Task]
    BY Zenon DEF Init, PC, Alive, Task
  <2>4. inf \in [Tasks -> Slots] /\ ref \in [Tasks -> 0 .. MaxThreads + 1]
    BY DEF Init, Slots
  <2>5. sigParent \in [Tasks -> BOOLEAN] /\ owesTls \in [Tasks -> BOOLEAN]
    BY Zenon DEF Init
  <2> QED
    BY <2>2, <2>3, <2>4, <2>5, Zenon DEF Init, TypeOK
<1>2. Places
  BY Zenon DEF Init, Places, Threads
<1>3. \A t \in Threads : ~Live(t) /\ ~owesTls[t]
  BY Zenon DEF Init, Threads, Live, Alive
<1>4. pc[Main] = "run" /\ ~exiting /\ ~owesTls[Main]
  BY Zenon DEF Init
<1>5. SlotExclusive
  BY <1>3, Zenon DEF SlotExclusive, Live, Threads
<1> QED
  BY <1>1, <1>2, <1>3, <1>4, <1>5, Zenon
     DEF TlInv, NewSlot, SlotsOwned, NotEnded, ExitBehind, TlsInSlot, Threads

\* Every step of the threads of a program.
LEMMA TlNext ==
    ASSUME TlInv, OneCreator, JoinsAfterEnd, [Next]_vars
    PROVE  TlInv'
<1>1. ASSUME NEW t \in Tasks, CreateStep(t) PROVE TlInv'
  BY <1>1, CreatePickKeeps, CreateFillKeeps, CreateProcKeeps, CreateStoreKeeps,
     CreateFailKeeps, Zenon DEF CreateStep
<1>2. ASSUME NEW t \in Tasks, ClientStep(t) PROVE TlInv'
  BY <1>2, SetSpecificKeeps, pthread_exitKeeps, JoinCallKeeps, pthread_detachKeeps, Zenon
     DEF ClientStep
<1>3. ASSUME NEW t \in Tasks, EndStep(t) PROVE TlInv'
  BY <1>3, ReturnKeeps, DestructorsKeeps, EndCheckKeeps, EndNotifyKeeps, EndClearKeeps,
     LeaveKeeps, Zenon DEF EndStep
<1>4. ASSUME NEW t \in Tasks, JoinStep(t) PROVE TlInv'
  BY <1>4, JoinSleepKeeps, JoinWakeKeeps, JoinDoneKeeps, Zenon DEF JoinStep
<1>5. CASE ExitStep
  BY <1>5, ExitSkipKeeps, ExitJoinKeeps, ExitDoneKeeps, Zenon DEF ExitStep
<1>6. CASE UNCHANGED vars
  BY <1>6, SameKeeps, Zenon
<1> QED
  BY <1>1, <1>2, <1>3, <1>4, <1>5, <1>6, StartKeeps, ExitCallKeeps, CrashKeeps, Zenon
     DEF Next

\* The invariant holds throughout.
LEMMA TlInvariant ==
    ASSUME OneCreator, JoinsAfterEnd
    PROVE  Safety => []TlInv
<1>1. TlInv /\ [Next]_vars => TlInv'
  BY TlNext, Zenon
<1> QED
  BY <1>1, TlInit, PTL DEF Safety

\* No two living threads have the same ThreadInfo, although pthread_create
\* leaves thread_sem before it marks the slot it has found as taken.
THEOREM SlotsAreExclusive ==
    ASSUME OneCreator, JoinsAfterEnd
    PROVE  Safety => []SlotExclusive
<1>1. TlInv => SlotExclusive
  BY Zenon DEF TlInv
<1> QED
  BY <1>1, TlInvariant, PTL

\* StarterFunc destroys the TLS values of every thread that ends, for threads
\* that return from their functions, joined or detached.
THEOREM ValuesAreDestroyed ==
    ASSUME OneCreator, ~CallsExit
    PROVE  Safety => []TlsDestroyed
<1>1. JoinsAfterEnd
  BY Zenon DEF JoinsAfterEnd
<1>2. TlInv => TlsDestroyed
  BY Zenon DEF TlInv, TlsInSlot, TlsDestroyed
<1> QED
  BY <1>1, <1>2, TlInvariant, PTL

\* The same with pthread_exit, for threads nobody joins, until the program
\* ends: __pthread_exit_func joins every thread that is left.
THEOREM ExitedValuesAreDestroyed ==
    ASSUME OneCreator, Joiners = {}
    PROVE  Safety => [](~exiting => TlsDestroyed)
<1>1. JoinsAfterEnd
  BY Zenon DEF JoinsAfterEnd
<1>2. TlInv => (~exiting => TlsDestroyed)
  BY Zenon DEF TlInv, TlsInSlot, TlsDestroyed
<1> QED
  BY <1>1, <1>2, TlInvariant, PTL

\* __pthread_exit_func returns only when every thread has ended, or has given up
\* its slot as a detached thread does before its last instructions, if the
\* threads have started by the time main ends and none calls pthread_exit; and
\* the table keeps its shape.
THEOREM ThreadsAreWaitedFor ==
    ASSUME OneCreator, ~CallsExit, ~ExitsEarly
    PROVE  Safety => []ThreadSound
<1>1. JoinsAfterEnd
  BY Zenon DEF JoinsAfterEnd
<1>2. ASSUME TlInv, pc[Main] = "unloaded", NEW t \in Tasks \ {Main}
      PROVE  pc[t] \in {"none", "gone", "leave", "crashed"}
  <2>1. TypeOK /\ Places /\ ExitBehind
    BY <1>2, Zenon DEF TlInv
  <2>2. ~(inf[t] >= ref[Main])
    BY <1>2, <2>1, TasksAssumption, MaxThreadsAssumption, SMTT(30)
       DEF TypeOK, Places, ExitBehind, Slots
  <2>3. ~Live(t)
    BY <1>2, <2>1, <2>2, Zenon DEF ExitBehind, Places, Threads
  <2> QED
    BY <1>2, <2>1, <2>3, Zenon DEF Live, Threads, TypeOK, PC, Places
<1>3. TlInv => ThreadSound
  BY <1>2, Zenon DEF TlInv, ThreadSound, ExitWaits
<1> QED
  BY <1>1, <1>3, TlInvariant, PTL

-----------------------------------------------------------------------------
(* ChSound for any number of children, groups and return codes, if the table  *)
(* is not changed inside another's call on it or under a pointer into it      *)
(* (ChOverlaps = FALSE; nothing in the code excludes it).                     *)
(* The strengthening says what the flag in an entry means at every moment,    *)
(* and that the pointers which waitpid and the exit hooks hold are the ones   *)
(* they have asked for.                                                       *)

ChTypes ==
  /\ chState \in [ChProcs -> {"none", "spawned", "entering", "running", "storing", "exiting", "gone"}]
  /\ chTable \in [ChProcs -> Int] /\ chCode \in [ChProcs -> Int] /\ chGot \in [ChProcs -> Int]

(* The life of an entry: made by the enter hook with the flag, given the      *)
(* return code by the exit hook, removed by waitpid when the child has gone.  *)
ChEntries ==
  \A c \in ChProcs :
    /\ chState[c] \in {"none", "spawned", "entering"} => chTable[c] = ChNone /\ chGot[c] = ChNone
    /\ chState[c] \in {"running", "storing"} => chTable[c] = ChRunning /\ chGot[c] = ChNone
    /\ chState[c] = "exiting" => chTable[c] = Finished(chCode[c]) /\ chGot[c] = ChNone
    /\ chState[c] = "gone" =>
         \/ chTable[c] = Finished(chCode[c]) /\ chGot[c] = ChNone
         \/ chTable[c] = ChNone /\ chGot[c] = Finished(chCode[c])
    /\ chState[c] \in {"storing", "exiting", "gone"} => chCode[c] \in ChCodes

(* waitpid of one child: item is its entry, still there, and what the check   *)
(* found before is true of a child that has gone.                             *)
ChWaits ==
  chWait.at \in {"child", "checked"} =>
    /\ chWait.pid \in ChProcs /\ chWait.item = chWait.pid
    /\ chTable[chWait.pid] # ChNone
    /\ chWait.at = "checked" /\ ~chWait.found => chState[chWait.pid] = "gone"

(* A scan looks at entries that are there.                                    *)
ChScans ==
  chWait.at \in {"scan", "signal"} =>
    /\ {"at", "left"} \subseteq DOMAIN chWait
    /\ chWait.at = "scan" => chWait.left \subseteq InTable

(* A status told under WNOHANG is that of a child whose exit hook has run.    *)
ChTells ==
  chTold.status # 0 =>
    /\ chTold.pid \in ChProcs /\ chState[chTold.pid] \in {"exiting", "gone"}
    /\ chTold.status = Finished(chCode[chTold.pid])

(* While a child is inside its insertion nobody else looks at the table, and  *)
(* an exit hook holds its own child's entry.                                  *)
ChQuiet ==
  /\ chHook = [c \in ChProcs |-> c]
  /\ \A c \in Entering : Entering = {c} /\ Storing = {} /\ ~HoldsItem

ChInv == ChTypes /\ ChEntries /\ ChWaits /\ ChScans /\ ChTells /\ ChQuiet

------------------------------------------------------------------------------
(* What the exit hook stores has no flag and is not taken for "no entry".     *)
LEMMA FinishedCode ==
  ASSUME NEW rc \in Int
  PROVE  Finished(rc) \in Int /\ ~Flagged(Finished(rc)) /\ Finished(rc) # ChNone
  BY SMTT(30) DEF Finished, Flagged, ChRunning, ChNone

(* The enter hook stores the flag.                                            *)
LEMMA RunningCode == Flagged(ChRunning) /\ ChRunning # ChNone /\ ChRunning \in Int
  BY SMTT(30) DEF Flagged, ChRunning, ChNone

(* Without children the table is empty.                                       *)
LEMMA ChInvInit == ChInit => ChInv
  BY SMTT(30) DEF ChInit, ChInv, ChTypes, ChEntries, ChWaits, ChScans, ChTells, ChQuiet, Entering,
     ChOut, ChNone

(* An entry that is there and has no flag holds the answer of an exit hook.   *)
LEMMA EntryCode ==
  ASSUME ChInv, NEW c \in ChProcs, chTable[c] # ChNone
  PROVE  /\ chState[c] \in {"running", "storing", "exiting", "gone"} /\ chGot[c] = ChNone
         /\ ~Flagged(chTable[c]) =>
              chState[c] \in {"exiting", "gone"} /\ chTable[c] = Finished(chCode[c])
         /\ chState[c] = "gone" => chTable[c] = Finished(chCode[c])
  BY RunningCode, Zenon DEF ChInv, ChTypes, ChEntries

(* No exit hook holds a pointer, and none is moved.                           *)
LEMMA HooksStay ==
  ASSUME ChQuiet, Storing = {}, NEW E, HooksMove(E) PROVE UNCHANGED chHook
<1>1. /\ chHook' \in [ChProcs -> ChProcs] /\ chHook \in [ChProcs -> ChProcs]
      /\ \A c \in ChProcs : chHook'[c] = chHook[c]
  BY Zenon DEF HooksMove, ChQuiet
<1>. QED BY <1>1

(* The child is put in the table, or its code stored there.                   *)
LEMMA HookSteps ==
  ASSUME ChInv, NEW c \in ChProcs, spawnedProcessEnter(c) \/ StoreCode(c)
  PROVE  ChInv'
<1>1. CASE spawnedProcessEnter(c)
  <2>1. Entering = {c} /\ Storing = {} /\ ~HoldsItem /\ ChQuiet
    BY <1>1, Zenon DEF ChInv, ChQuiet, Entering, spawnedProcessEnter
  <2>2. UNCHANGED chHook BY <1>1, <2>1, HooksStay, Zenon DEF spawnedProcessEnter
  <2>3. UNCHANGED chWait BY <1>1, <2>1, Zenon DEF spawnedProcessEnter, MovedWait, HoldsItem
  <2>4. /\ chState[c] = "entering" /\ chState' = [chState EXCEPT ![c] = "running"]
        /\ chTable' = [chTable EXCEPT ![c] = ChRunning]
        /\ UNCHANGED <<chCode, chGot, chTold>>
    BY <1>1, <2>1, Zenon DEF spawnedProcessEnter
  <2>5. ChTypes' /\ ChEntries'
    BY <2>4, RunningCode, Zenon DEF ChInv, ChTypes, ChEntries
  <2>6. ChWaits' /\ ChScans'
    BY <2>1, <2>3, Zenon DEF ChInv, ChWaits, ChScans, HoldsItem
  <2>7. ChTells' BY <2>4, Zenon DEF ChInv, ChTypes, ChTells
  <2>8. ChQuiet'
    <3>1. Entering' = {} BY <2>1, <2>4, Zenon DEF Entering, ChInv, ChTypes
    <3>. QED BY <2>1, <2>2, <3>1, Zenon DEF ChQuiet
  <2>. QED BY <2>5, <2>6, <2>7, <2>8, Zenon DEF ChInv
<1>2. CASE StoreCode(c)
  <2> DEFINE code == Finished(chCode[c])
  <2>1. /\ chState[c] = "storing" /\ chState' = [chState EXCEPT ![c] = "exiting"]
        /\ UNCHANGED <<chWait, chHook, chCode, chGot, chTold>>
    BY <1>2, Zenon DEF StoreCode
  <2>2. chHook[c] = c /\ chTable[c] # ChNone /\ chCode[c] \in ChCodes
    BY <2>1, RunningCode, Zenon DEF ChInv, ChQuiet, ChEntries
  <2>3. chTable' = [chTable EXCEPT ![c] = code]
    <3>1. \A e \in ChProcs : e = chHook[c] /\ e \in InTable <=> e = c
      BY <2>2, Zenon DEF InTable
    <3>2. chTable' = [e \in ChProcs |-> IF e = c THEN code ELSE chTable[e]]
      BY <1>2, <3>1, Zenon DEF StoreCode
    <3>. QED BY <3>2, Zenon DEF ChInv, ChTypes
  <2>4. chCode[c] \in Int /\ code \in Int /\ code # ChNone
    BY <2>2, FinishedCode, ChAssumption, Zenon
  <2>. HIDE DEF code
  <2>5. ChTypes' BY <2>1, <2>3, <2>4, Zenon DEF ChInv, ChTypes
  <2>6. ChEntries' BY <2>1, <2>2, <2>3, <2>4, Zenon DEF ChInv, ChTypes, ChEntries, code
  <2>7. ChWaits' /\ ChScans'
    BY <2>1, <2>2, <2>3, <2>4, Zenon DEF ChInv, ChTypes, ChWaits, ChScans, InTable
  <2>8. ChTells' BY <2>1, Zenon DEF ChInv, ChTypes, ChTells
  <2>9. Entering' = Entering /\ Storing' \subseteq Storing
    BY <2>1, Zenon DEF Entering, Storing, ChInv, ChTypes
  <2>10. ChQuiet' BY <2>1, <2>9, Zenon DEF ChInv, ChQuiet, HoldsItem
  <2>. QED BY <2>5, <2>6, <2>7, <2>8, <2>10, Zenon DEF ChInv
<1>. QED BY <1>1, <1>2, Zenon

(* The steps of a child that leave the table alone.                           *)
LEMMA ChildSteps ==
  ASSUME ChInv, ~ChOverlaps, NEW c \in ChProcs,
         \/ spawnvpe(c) \/ insertSpawnedChildren(c) \/ ChildGone(c)
         \/ \E rc \in ChCodes : spawnedProcessExit(c, rc)
  PROVE  ChInv'
<1> USE DEF ChInv, ChTypes, ChEntries, ChWaits, ChScans, ChTells, InTable
<1>1. CASE spawnvpe(c)
  <2>1. Entering' = Entering /\ Storing' = Storing
    BY <1>1, Zenon DEF spawnvpe, Entering, Storing
  <2>2. ChQuiet' BY <1>1, <2>1, Zenon DEF spawnvpe, ChQuiet, HoldsItem
  <2>. QED BY <1>1, <2>2, ZenonT(30) DEF spawnvpe
<1>2. CASE insertSpawnedChildren(c)
  <2>1. Entering' = {c} /\ Storing' = {} /\ ~HoldsItem'
    BY <1>2, Zenon DEF insertSpawnedChildren, Entering, Storing, HoldsItem
  <2>2. ChQuiet' BY <1>2, <2>1, Zenon DEF insertSpawnedChildren, ChQuiet
  <2>. QED BY <1>2, <2>2, ZenonT(30) DEF insertSpawnedChildren
<1>3. CASE ChildGone(c)
  <2>1. Entering' = Entering /\ Storing' = Storing
    BY <1>3, Zenon DEF ChildGone, Entering, Storing
  <2>2. ChQuiet' BY <1>3, <2>1, Zenon DEF ChildGone, ChQuiet, HoldsItem
  <2>. QED BY <1>3, <2>2, ZenonT(30) DEF ChildGone
<1>4. ASSUME NEW rc \in ChCodes, spawnedProcessExit(c, rc) PROVE ChInv'
  <2>1. /\ chState[c] = "running" /\ chState' = [chState EXCEPT ![c] = "storing"]
        /\ chHook' = [chHook EXCEPT ![c] = c] /\ chCode' = [chCode EXCEPT ![c] = rc]
        /\ UNCHANGED <<chTable, chSig, chWait, chGot, chTold>> /\ Entering = {} /\ rc \in Int
    BY <1>4, RunningCode, ChAssumption, Zenon DEF spawnedProcessExit, MayLook
  <2>2. Entering' = {} BY <2>1, Zenon DEF Entering
  <2>3. chHook' = chHook BY <2>1, Zenon DEF ChQuiet
  <2>4. ChQuiet' BY <2>2, <2>3, Zenon DEF ChQuiet
  <2>. QED BY <2>1, <2>4, ZenonT(30)
<1>. QED BY <1>1, <1>2, <1>3, <1>4, Zenon

(* waitpid removes an entry of a child that has gone.                         *)
LEMMA RemovedEntry ==
  ASSUME ChInv, ~ChOverlaps, NEW c \in ChProcs, chTable[c] # ChNone, chState[c] = "gone",
         Removed(c), UNCHANGED <<chState, chCode>>, chWait' = ChOut
  PROVE  (ChTypes /\ ChEntries /\ ChQuiet)'
<1>1. chTable[c] = Finished(chCode[c]) BY EntryCode, Zenon
<1>2. chTable' = [chTable EXCEPT ![c] = ChNone] /\ chGot' = [chGot EXCEPT ![c] = chTable[c]]
  BY Zenon DEF Removed
<1>3. UNCHANGED chHook BY HooksStay, Zenon DEF Removed, ChInv
<1>4. ChQuiet' BY <1>3, Zenon DEF ChInv, ChQuiet, Entering, Storing, HoldsItem, ChOut
<1>. QED BY <1>1, <1>2, <1>4, Zenon DEF ChInv, ChTypes, ChEntries, ChNone

(* A step of waitpid that only changes where it is.                           *)
LEMMA TableKept ==
  ASSUME ChInv, UNCHANGED <<chState, chTable, chHook, chCode, chGot, chTold>>, ChWaits', ChScans',
         Entering = {} \/ ~HoldsItem'
  PROVE  ChInv'
  BY Zenon DEF ChInv, ChTypes, ChEntries, ChTells, ChQuiet, Entering, Storing

(* Every step of waitpid preserves the invariant.                             *)
LEMMA WaitSteps ==
  ASSUME ChInv, ~ChOverlaps,
         \/ \E c \in ChProcs : WaitPidBlocking(c) \/ WaitPidNoHang(c) \/ ScanEntry(c)
         \/ WaitedForChild \/ NoHangAnswer \/ WaitedForSignal \/ ScanEnd
         \/ \E group, nohang \in BOOLEAN : WaitAny(group, nohang)
  PROVE  ChInv'
<1> USE DEF HoldsItem, InTable, ChOut
<1>1. ASSUME NEW c \in ChProcs, WaitPidBlocking(c) \/ WaitPidNoHang(c) PROVE ChInv'
  <2>1. /\ UNCHANGED <<chState, chTable, chHook, chCode, chGot, chTold>> /\ chTable[c] # ChNone
        /\ Entering = {}
    BY <1>1, Zenon DEF WaitPidBlocking, WaitPidNoHang, MayLook
  <2>2. /\ chWait'.at \in {"child", "checked"} /\ chWait'.pid = c /\ chWait'.item = c
        /\ chWait'.at = "checked" => chWait'.found = CheckForChildExit(c)
    BY <1>1, SMTT(30) DEF WaitPidBlocking, WaitPidNoHang
  <2>3. ChWaits' BY <2>1, <2>2, Zenon DEF ChWaits, CheckForChildExit
  <2>4. ChScans' BY <2>2, Zenon DEF ChScans
  <2>. QED BY <2>1, <2>3, <2>4, TableKept, Zenon
<1>2. ASSUME NEW c \in ChProcs, ScanEntry(c) PROVE ChInv'
  <2>1. chTable[c] # ChNone BY <1>2, Zenon DEF ScanEntry, ChInv, ChScans
  <2>2. CASE CheckForChildExit(c)
    <3>1. /\ UNCHANGED <<chState, chTable, chHook, chCode, chGot, chTold>>
          /\ chWait.at = "scan" /\ c \in chWait.left
          /\ chWait' = IF chWait.nohang THEN ChOut ELSE [chWait EXCEPT !.left = @ \ {c}]
      BY <1>2, <2>2, Zenon DEF ScanEntry
    <3>2. ChWaits' /\ ChScans' BY <3>1 DEF ChInv, ChWaits, ChScans
    <3>3. Entering = {} BY <3>1, Zenon DEF ChInv, ChQuiet
    <3>. QED BY <3>1, <3>2, <3>3, TableKept, Zenon
  <2>3. CASE ~CheckForChildExit(c)
    <3>1. /\ Removed(c) /\ chWait' = ChOut /\ chState[c] = "gone"
          /\ UNCHANGED <<chState, chSig, chCode, chTold>>
      BY <1>2, <2>3, Zenon DEF ScanEntry, CheckForChildExit
    <3>. QED BY <2>1, <3>1, RemovedEntry, Zenon DEF ChInv, ChWaits, ChScans, ChTells
  <2>. QED BY <2>2, <2>3, Zenon
<1>3. CASE WaitedForChild
  <2>1. /\ chWait.pid \in ChProcs /\ chWait.item = chWait.pid /\ chTable[chWait.pid] # ChNone
        /\ chState[chWait.pid] = "gone"
    BY <1>3, Zenon DEF WaitedForChild, CheckForChildExit, ChInv, ChWaits
  <2>. QED BY <1>3, <2>1, RemovedEntry, Zenon DEF WaitedForChild, ChInv, ChWaits, ChScans, ChTells
<1>4. CASE NoHangAnswer
  <2> DEFINE c == chWait.pid
             code == chTable[c]
  <2>1. /\ c \in ChProcs /\ chWait.item = c /\ code # ChNone
        /\ chTold' = [pid |-> c, status |-> NoHangStatus(code)]
        /\ chWait' = ChOut /\ UNCHANGED <<chState, chSig, chCode>>
    BY <1>4, Zenon DEF NoHangAnswer, ChInv, ChWaits
  <2>2. ChTells'
    BY <2>1, EntryCode, Zenon DEF NoHangStatus, ChTells
  <2>3. CASE chWait.found \/ Flagged(code)
    <3>1. UNCHANGED <<chTable, chHook, chGot>>
      BY <1>4, <2>1, <2>3, Zenon DEF NoHangAnswer
    <3>2. ChTypes' /\ ChEntries' /\ ChQuiet'
      BY <2>1, <3>1, Zenon DEF ChInv, ChTypes, ChEntries, ChQuiet, Entering, Storing
    <3>3. ChWaits' /\ ChScans'
      BY <2>1, Zenon DEF ChWaits, ChScans
    <3>. QED BY <2>2, <3>2, <3>3, Zenon DEF ChInv
  <2>4. CASE ~(chWait.found \/ Flagged(code))
    <3>1. Removed(c) /\ chState[c] = "gone"
      BY <1>4, <2>1, <2>4, Zenon DEF NoHangAnswer, ChInv, ChWaits
    <3>. QED BY <2>1, <2>2, <3>1, RemovedEntry, Zenon DEF ChInv, ChWaits, ChScans
  <2>. QED BY <2>3, <2>4, Zenon
<1>5. CASE WaitedForSignal
  <2>1. UNCHANGED <<chState, chTable, chHook, chCode, chGot, chTold>> /\ Entering = {}
    BY <1>5, Zenon DEF WaitedForSignal, MayLook
  <2>2. ChScans /\ chWait.at = "signal" BY <1>5, Zenon DEF WaitedForSignal, ChInv
  <2>3. chWait' = [chWait EXCEPT !.at = "scan",
                     !.left = IF chWait.spent THEN {} ELSE Scanned(chWait.group)]
    BY <1>5, Zenon DEF WaitedForSignal
  <2>4. Scanned(chWait.group) \subseteq InTable BY Zenon DEF Scanned
  <2>5. chWait'.at = "scan" /\ chWait'.left \subseteq InTable
    BY <2>2, <2>3, <2>4, Zenon DEF ChScans
  <2>6. {"at", "left"} \subseteq DOMAIN chWait'
    BY <2>2, <2>3, Zenon DEF ChScans
  <2>7. ChWaits' /\ ChScans' BY <2>1, <2>5, <2>6, Zenon DEF ChWaits, ChScans
  <2>. QED BY <2>1, <2>7, TableKept, Zenon
<1>6. CASE ScanEnd
  <2>1. UNCHANGED <<chState, chTable, chHook, chCode, chGot, chTold>> /\ Entering = {}
    BY <1>6, Zenon DEF ScanEnd, ChInv, ChQuiet
  <2>2. ChScans /\ chWait.at = "scan" BY <1>6, Zenon DEF ScanEnd, ChInv
  <2>3. CASE chWait' = ChOut BY <2>1, <2>3, TableKept, Zenon DEF ChWaits, ChScans
  <2>4. CASE chWait' = [chWait EXCEPT !.at = "signal", !.spent = TRUE]
    <3>1. chWait'.at = "signal" BY <2>2, <2>4, Zenon DEF ChScans
    <3>2. {"at", "left"} \subseteq DOMAIN chWait'
      BY <2>2, <2>4, Zenon DEF ChScans
    <3>3. ChWaits' /\ ChScans' BY <3>1, <3>2, Zenon DEF ChWaits, ChScans
    <3>. QED BY <2>1, <3>3, TableKept, Zenon
  <2>. QED BY <1>6, <2>3, <2>4, Zenon DEF ScanEnd
<1>7. ASSUME NEW group \in BOOLEAN, NEW nohang \in BOOLEAN, WaitAny(group, nohang) PROVE ChInv'
  <2>1. UNCHANGED <<chState, chTable, chHook, chCode, chGot, chTold>> /\ Entering = {}
    BY <1>7, Zenon DEF WaitAny, MayLook
  <2>2. Scanned(group) \subseteq InTable BY Zenon DEF Scanned
  <2>3. /\ {"at", "left"} \subseteq DOMAIN chWait'
        /\ chWait'.at \in {"scan", "signal"} /\ chWait'.left = Scanned(group)
    BY <1>7, <2>2, Zenon DEF WaitAny
  <2>4. ChWaits' /\ ChScans' BY <2>1, <2>2, <2>3, Zenon DEF ChWaits, ChScans
  <2>. QED BY <2>1, <2>4, TableKept, Zenon
<1>. QED BY <1>1, <1>2, <1>3, <1>4, <1>5, <1>6, <1>7, Zenon

(* The table is right at every moment (children.c, waitpid.c).                *)
THEOREM ChInvariant == ASSUME ~ChOverlaps PROVE ChSpec => []ChInv
<1>1. ChInv /\ [ChNext]_chVars => ChInv'
  <2> SUFFICES ASSUME ChInv, [ChNext]_chVars PROVE ChInv' BY Zenon
  <2>1. CASE UNCHANGED chVars
    BY <2>1, Zenon DEF chVars, ChInv, ChTypes, ChEntries, ChWaits, ChScans, ChTells, ChQuiet,
       HoldsItem, InTable, Entering, Storing
  <2>2. CASE ChNext BY <2>2, ChildSteps, HookSteps, WaitSteps, Zenon DEF ChNext
  <2>. QED BY <2>1, <2>2, Zenon
<1>. QED BY <1>1, ChInvInit, PTL DEF ChSpec

(* waitpid collects a child once, after its end and with what it returned,    *)
(* and tells no status of a child that runs (waitpid, spawnedProcessExit).    *)
THEOREM ChSoundHolds == ASSUME ~ChOverlaps PROVE ChSpec => []ChSound
<1>1. ChInv => ChSound
  <2> SUFFICES ASSUME ChInv PROVE ChSound BY Zenon
  <2>1. \A c \in ChProcs : chState[c] \in {"exiting", "gone"} => Finished(chCode[c]) # ChNone
    BY FinishedCode, ChAssumption, Zenon DEF ChInv, ChTypes, ChEntries
  <2>. QED BY <2>1, RunningCode, Zenon DEF ChInv, ChTypes, ChEntries, ChTells, ChSound
<1>. QED BY <1>1, ChInvariant, PTL

-----------------------------------------------------------------------------
(* ItSound for any number of threads, tasks and calls, if a TimerNode can     *)
(* always be allocated (ItNoMemory = FALSE).  A task belongs to its owner     *)
(* through the owner's TimerNode or, between the creation of the task and of  *)
(* the node, by being the last task its owner has created.                    *)

ItRecords == [pc : {"unused", "send", "wait", "leave", "reset", "expired", "raised", "gone"},
              owner : ItThreads \cup {0}, alarm : BOOLEAN,
              sigs : SUBSET {"CTRL_F", "CTRL_D", "timer"}, req : {"idle", "out", "done"}]

ItTypes ==
  /\ itPc \in [ItThreads -> {"out", "created", "kill", "killend", "ended"}]
  /\ itNode \in [ItThreads -> ItIds \cup {0}]
  /\ itTask \in [ItIds -> ItRecords]
  /\ itArmed \in [ItThreads -> BOOLEAN]

IsLast(t, i) == i \in ItIds /\ itTask[i].owner = t /\ \A j \in ItIds : itTask[j].owner = t => j <= i

(* Tasks are created in order, each for a thread.                             *)
ItOrder ==
  \A i \in ItIds :
    /\ itTask[i].pc = "unused" <=> itTask[i].owner = 0
    /\ ~ItLive(i) => itTask[i].req = "idle"
    /\ itTask[i].pc = "unused" => \A j \in ItIds : i < j => itTask[j].pc = "unused"

ItBelongs ==
  \A i \in ItIds, t \in ItThreads : ItLive(i) /\ itTask[i].owner = t =>
    itArmed[t] /\ (itNode[t] = i \/ (itPc[t] = "created" /\ IsLast(t, i)))

(* A thread that has created a task has no node yet, and keeps having it.     *)
ItCreating ==
  \A t \in ItThreads : itPc[t] = "created" =>
    itArmed[t] /\ itNode[t] = 0 /\ \E i \in ItIds : IsLast(t, i)

ItInv == ItTypes /\ ItOrder /\ ItBelongs /\ ItCreating

------------------------------------------------------------------------------
(* Tasks are numbered from 1; 0 stands for no task.                           *)
LEMMA ItIdsNat == ItIds \subseteq Nat /\ 0 \notin ItIds
  BY ItAssumption DEF ItIds

(* Created chooses the last task of a thread: there is one such.              *)
LEMMA CreatedIsLast ==
  ASSUME NEW t \in ItThreads, NEW i \in ItIds, IsLast(t, i)
  PROVE  Created(t) = i
<1>1. \A k \in ItIds : itTask[k].owner = t /\ (\A j \in ItIds : itTask[j].owner = t => j <= k)
                         => k = i
  BY ItIdsNat DEF IsLast
<1>2. itTask[i].owner = t /\ \A j \in ItIds : itTask[j].owner = t => j <= i
  BY Zenon DEF IsLast
<1>. QED BY <1>1, <1>2, Zenon DEF Created

(* No thread has a timer at first.                                            *)
LEMMA ItInvInit == ItInit => ItInv
<1> SUFFICES ASSUME ItInit PROVE ItInv BY Zenon
<1>1. ItUnused \in ItRecords /\ ItUnused.pc = "unused" /\ ItUnused.owner = 0 /\ ItUnused.req = "idle"
  <2>1. {} \in SUBSET {"CTRL_F", "CTRL_D", "timer"} /\ 0 \in ItThreads \cup {0} /\ FALSE \in BOOLEAN
    BY Zenon
  <2>2. ItUnused \in ItRecords
    BY <2>1, Zenon DEF ItUnused, ItRecords
  <2>3. ItUnused.pc = "unused" /\ ItUnused.owner = 0 /\ ItUnused.req = "idle"
    BY Zenon DEF ItUnused
  <2>. QED BY <2>2, <2>3, Zenon
<1> HIDE DEF ItUnused
<1>2. \A i \in ItIds : itTask[i] = ItUnused /\ ~ItLive(i)
  BY <1>1, Zenon DEF ItInit, ItLive
<1>3. itTask \in [ItIds -> ItRecords]
  BY <1>1, Zenon DEF ItInit
<1>4. ItTypes
  BY <1>3, Zenon DEF ItInit, ItTypes
<1>5. ItOrder
  BY <1>1, <1>2, Zenon DEF ItOrder
<1>6. ItBelongs
  BY <1>2, Zenon DEF ItBelongs
<1>7. ItCreating
  BY Zenon DEF ItInit, ItCreating
<1>. QED BY <1>4, <1>5, <1>6, <1>7, Zenon DEF ItInv

(* What a step of the tasks may do to the invariant's view of them: they      *)
(* keep their owners, none is created and none comes back.                    *)
TasksKept ==
  \A j \in ItIds :
    /\ itTask'[j].owner = itTask[j].owner
    /\ itTask'[j].pc = "unused" <=> itTask[j].pc = "unused"
    /\ ~ItLive(j)' => itTask'[j].req = "idle"
    /\ ItLive(j)' => ItLive(j)

\* A step of a timer task by itself.
LEMMA KeptTasks ==
  ASSUME ItInv, ItTypes', TasksKept, UNCHANGED <<itPc, itNode, itArmed>>
  PROVE  ItInv'
<1>1. ItOrder' BY Zenon DEF ItInv, ItOrder, TasksKept
<1>2. \A t, i : IsLast(t, i) <=> IsLast(t, i)' BY Zenon DEF TasksKept, IsLast
<1>3. ItBelongs'
  <2> SUFFICES ASSUME NEW i \in ItIds, NEW t \in ItThreads, ItLive(i)', itTask'[i].owner = t
               PROVE  itArmed'[t] /\ (itNode'[t] = i \/ (itPc'[t] = "created" /\ IsLast(t, i)'))
    BY Zenon DEF ItBelongs
  <2>1. ItLive(i) /\ itTask[i].owner = t BY Zenon DEF TasksKept
  <2>. QED BY <1>2, <2>1, Zenon DEF ItInv, ItBelongs
<1>4. ItCreating' BY <1>2, Zenon DEF ItInv, ItCreating
<1>. QED BY <1>1, <1>3, <1>4, Zenon DEF ItInv

(* The same for a step that replaces one task.                                *)
LEMMA KeptTask ==
  ASSUME ItInv, UNCHANGED <<itPc, itNode, itArmed>>, NEW i \in ItIds, ItLive(i),
         NEW r \in ItRecords, r.owner = itTask[i].owner, r.pc # "unused",
         r.pc = "gone" => r.req = "idle",
         itTask' = [itTask EXCEPT ![i] = r]
  PROVE  ItInv'
<1>1. ItTypes' BY Zenon DEF ItInv, ItTypes
<1>2. \A j \in ItIds : itTask'[j] = IF j = i THEN r ELSE itTask[j] BY Zenon DEF ItInv, ItTypes
<1>3. TasksKept BY <1>2, ItIdsNat, ZenonT(30) DEF TasksKept, ItLive, ItInv, ItOrder
<1>. QED BY <1>1, <1>3, KeptTasks, Zenon

(* A signal to a task changes nothing else of it.                             *)
LEMMA SignalKeeps ==
  ASSUME ItInv, NEW i \in ItIds, NEW s \in {"CTRL_F", "CTRL_D"}, itTask' = ItSignal(i, s),
         UNCHANGED <<itPc, itNode, itArmed>>
  PROVE  ItInv'
<1>1. CASE ItLive(i)
  <2> DEFINE r == [itTask[i] EXCEPT !.sigs = @ \cup {s}]
  <2>1. itTask' = [itTask EXCEPT ![i] = r] BY <1>1, Zenon DEF ItSignal
  <2>2. r \in ItRecords /\ r.owner = itTask[i].owner /\ r.pc # "unused" /\ (r.pc = "gone" => r.req = "idle")
    BY <1>1 DEF ItInv, ItTypes, ItRecords, ItLive
  <2>. HIDE DEF r
  <2>. QED BY <1>1, <2>1, <2>2, KeptTask, Zenon
<1>2. CASE ~ItLive(i)
  <2>1. itTask' = itTask BY <1>2, Zenon DEF ItSignal
  <2>. QED BY <2>1, KeptTasks, Zenon DEF ItInv, ItTypes, ItOrder, TasksKept, ItLive
<1>. QED BY <1>1, <1>2, Zenon

(* Every step of a timer task preserves the invariant.                        *)
LEMMA TaskSteps ==
  ASSUME ItInv, NEW i \in ItIds, ItTaskStep(i)
  PROVE  ItInv'
<1>1. UNCHANGED <<itPc, itNode, itArmed>>
  BY Zenon DEF ItTaskStep, TaskSend, TimerFires, TaskWake, TaskLeave, TaskReset, TaskExpired,
         TaskAgain, ItQuiet
<1>2. ItLive(i)
  BY ItIdsNat, Zenon DEF ItTaskStep, TaskSend, TimerFires, TaskWake, TaskLeave, TaskReset, TaskExpired,
         TaskAgain, ItInv, ItOrder, ItLive
<1>3. itTask[i] \in ItRecords BY Zenon DEF ItInv, ItTypes
<1>4. CASE ItGone(i)
  <2> DEFINE r == [ItUnused EXCEPT !.pc = "gone", !.owner = itTask[i].owner]
  <2>1. itTask' = [itTask EXCEPT ![i] = r] BY <1>4, Zenon DEF ItGone
  <2>2. r \in ItRecords /\ r.owner = itTask[i].owner /\ r.pc # "unused" /\ (r.pc = "gone" => r.req = "idle")
    BY <1>3, Zenon DEF ItRecords, ItUnused
  <2>. HIDE DEF r
  <2>. QED BY <1>1, <1>2, <2>1, <2>2, KeptTask, Zenon
<1>5. ASSUME NEW at \in {"send", "raised"}, ItGoto(i, at) PROVE ItInv'
  <2> DEFINE r == [itTask[i] EXCEPT !.pc = at]
  <2>1. itTask' = [itTask EXCEPT ![i] = r] BY <1>5, Zenon DEF ItGoto
  <2>2. r \in ItRecords /\ r.owner = itTask[i].owner /\ r.pc # "unused" /\ (r.pc = "gone" => r.req = "idle")
    BY <1>3, Zenon DEF ItRecords
  <2>. HIDE DEF r
  <2>. QED BY <1>1, <1>2, <2>1, <2>2, KeptTask, Zenon
<1>6. CASE TaskSend(i)
  <2> DEFINE r == [itTask[i] EXCEPT !.pc = "wait", !.sigs = {}, !.req = "out"]
  <2>1. itTask' = [itTask EXCEPT ![i] = r] BY <1>6, Zenon DEF TaskSend, ItInv, ItTypes
  <2>2. r \in ItRecords /\ r.owner = itTask[i].owner /\ r.pc # "unused" /\ (r.pc = "gone" => r.req = "idle")
    BY <1>3, Zenon DEF ItRecords
  <2>. HIDE DEF r
  <2>. QED BY <1>1, <1>2, <2>1, <2>2, KeptTask, Zenon
<1>7. CASE TimerFires(i)
  <2> DEFINE r == [itTask[i] EXCEPT !.req = "done", !.sigs = @ \cup {"timer"}]
  <2>1. itTask' = [itTask EXCEPT ![i] = r] BY <1>7, Zenon DEF TimerFires, ItInv, ItTypes
  <2>2. r \in ItRecords /\ r.owner = itTask[i].owner /\ r.pc # "unused" /\ (r.pc = "gone" => r.req = "idle")
    BY <1>2, <1>3, Zenon DEF ItRecords, ItLive
  <2>. HIDE DEF r
  <2>. QED BY <1>1, <1>2, <2>1, <2>2, KeptTask, Zenon
<1>8. CASE TaskWake(i)
  <2>1. PICK at \in {"leave", "reset", "expired"} :
          itTask' = [itTask EXCEPT ![i].sigs = {}, ![i].pc = at]
    BY <1>8, Zenon DEF TaskWake
  <2> DEFINE r == [itTask[i] EXCEPT !.sigs = {}, !.pc = at]
  <2>2. itTask' = [itTask EXCEPT ![i] = r] BY <2>1, Zenon DEF ItInv, ItTypes
  <2>3. r \in ItRecords /\ r.owner = itTask[i].owner /\ r.pc # "unused" /\ (r.pc = "gone" => r.req = "idle")
    BY <1>3, Zenon DEF ItRecords
  <2>. HIDE DEF r
  <2>. QED BY <1>1, <1>2, <2>2, <2>3, KeptTask, Zenon
<1>9. CASE TaskLeave(i) \/ TaskReset(i) \/ TaskExpired(i) \/ TaskAgain(i)
  BY <1>4, <1>5, <1>9, Zenon DEF TaskLeave, TaskReset, TaskExpired, TaskAgain
<1>. QED BY <1>6, <1>7, <1>8, <1>9, Zenon DEF ItTaskStep

(* A thread with a node that stops its timer, or that has none, has no task   *)
(* alive that is not the node's.                                              *)
LEMMA OnlyNode ==
  ASSUME ItInv, NEW t \in ItThreads, itPc[t] # "created", NEW i \in ItIds, ItLive(i),
         itTask[i].owner = t
  PROVE  itNode[t] = i
  BY Zenon DEF ItInv, ItBelongs

(* setitimer for a thread that has a node: its task is signalled.             *)
LEMMA ArmStep ==
  ASSUME ItInv, NEW t \in ItThreads, NEW i \in ItIds, itTask' = ItSignal(i, "CTRL_D"),
         itArmed' = [itArmed EXCEPT ![t] = TRUE], UNCHANGED <<itPc, itNode>>
  PROVE  ItInv'
<1> DEFINE r == [itTask[i] EXCEPT !.sigs = @ \cup {"CTRL_D"}]
<1>1. itTask[i] \in ItRecords BY Zenon DEF ItInv, ItTypes
<1>2. r \in ItRecords /\ r.owner = itTask[i].owner /\ r.pc = itTask[i].pc /\ r.req = itTask[i].req
  BY <1>1, Zenon DEF ItRecords
<1>3. itTask' = itTask \/ itTask' = [itTask EXCEPT ![i] = r] BY Zenon DEF ItSignal
<1>. HIDE DEF r
<1>4. \A j \in ItIds : /\ itTask'[j].owner = itTask[j].owner /\ itTask'[j].pc = itTask[j].pc
                       /\ itTask'[j].req = itTask[j].req
  BY <1>2, <1>3, Zenon DEF ItInv, ItTypes
<1>5. ItTypes' BY <1>2, <1>3, Zenon DEF ItInv, ItTypes
<1>6. \A j \in ItIds : ItLive(j)' <=> ItLive(j) BY <1>4, Zenon DEF ItLive
<1>7. \A u, k : IsLast(u, k)' <=> IsLast(u, k) BY <1>4, Zenon DEF IsLast
<1>8. \A u \in ItThreads : itArmed[u] => itArmed'[u] BY Zenon DEF ItInv, ItTypes
<1>9. ItOrder' BY <1>4, <1>6, ZenonT(30) DEF ItInv, ItOrder
<1>10. ItBelongs' BY <1>4, <1>6, <1>7, <1>8, Zenon DEF ItInv, ItBelongs
<1>11. ItCreating' BY <1>7, <1>8, Zenon DEF ItInv, ItCreating
<1>. QED BY <1>5, <1>9, <1>10, <1>11, Zenon DEF ItInv

(* The new task is the last one, and its thread has no other alive.           *)
LEMMA SetFirstStep ==
  ASSUME ItInv, NEW t \in ItThreads, NEW alarm \in BOOLEAN, NEW i \in ItIds, SetFirst(t, alarm, i)
  PROVE  ItInv'
<1> DEFINE r == [ItUnused EXCEPT !.pc = "send", !.owner = t, !.alarm = alarm]
<1>1. /\ itPc[t] = "out" /\ itNode[t] = 0 /\ itTask[i].pc = "unused"
      /\ \A j \in ItIds : j < i => itTask[j].pc # "unused"
      /\ itTask' = [itTask EXCEPT ![i] = r]
      /\ itPc' = [itPc EXCEPT ![t] = "created"]
      /\ itArmed' = [itArmed EXCEPT ![t] = TRUE] /\ UNCHANGED itNode
  BY Zenon DEF SetFirst, ItCall
<1>2. r \in ItRecords /\ r.owner = t /\ r.pc = "send"
  BY Zenon DEF ItRecords, ItUnused
<1>. HIDE DEF r
<1>3. ItTypes' BY <1>1, <1>2, Zenon DEF ItInv, ItTypes
<1>4. /\ \A j \in ItIds : itTask'[j] = IF j = i THEN r ELSE itTask[j]
      /\ \A u \in ItThreads : /\ itPc'[u] = IF u = t THEN "created" ELSE itPc[u]
                              /\ itArmed'[u] = IF u = t THEN TRUE ELSE itArmed[u]
  BY <1>1, Zenon DEF ItInv, ItTypes
<1>5. ItOrder' BY <1>1, <1>2, <1>4, ItIdsNat, ItAssumption DEF ItInv, ItOrder, ItLive
<1>6. IsLast(t, i)'
  <2>1. ASSUME NEW j \in ItIds, itTask'[j].owner = t PROVE j <= i
    <3>1. CASE j = i BY <3>1, ItIdsNat
    <3>2. CASE j # i
      <4>1. itTask[j].owner # 0 BY <2>1, <3>2, <1>4, ItAssumption, ZenonT(30)
      <4>2. ~(i < j) BY <1>1, <4>1, Zenon DEF ItInv, ItOrder
      <4>. QED BY <4>2, ItIdsNat
    <3>. QED BY <3>1, <3>2, Zenon
  <2>. QED BY <2>1, <1>2, <1>4, Zenon DEF IsLast
<1>7. \A u \in ItThreads, k \in ItIds : u # t /\ IsLast(u, k) => IsLast(u, k)'
  BY <1>1, <1>2, <1>4, ItAssumption, SMTT(30) DEF IsLast, ItInv, ItOrder
<1>8. ItBelongs'
  <2> SUFFICES ASSUME NEW j \in ItIds, NEW u \in ItThreads, ItLive(j)', itTask'[j].owner = u
               PROVE  itArmed'[u] /\ (itNode'[u] = j \/ (itPc'[u] = "created" /\ IsLast(u, j)'))
    BY Zenon DEF ItBelongs
  <2>1. CASE j = i BY <1>2, <1>4, <1>6, <2>1, Zenon
  <2>2. CASE j # i
    <3>1. ItLive(j) /\ itTask[j].owner = u BY <1>4, <2>2, Zenon DEF ItLive
    <3>2. u # t
      <4> SUFFICES ASSUME u = t PROVE FALSE BY Zenon
      <4>1. itNode[t] = j BY <1>1, <3>1, OnlyNode, Zenon
      <4>. QED BY <1>1, <4>1, ItIdsNat, Zenon
    <3>. QED BY <1>1, <1>4, <1>7, <3>1, <3>2, SMTT(30) DEF ItInv, ItBelongs
  <2>. QED BY <2>1, <2>2, Zenon
<1>9. ItCreating'
  BY <1>1, <1>4, <1>6, <1>7, ZenonT(30) DEF ItInv, ItCreating
<1>. QED BY <1>3, <1>5, <1>8, <1>9, Zenon DEF ItInv

(* The node is made for the last task, which is the one that may be alive.    *)
LEMMA AddNodeStep ==
  ASSUME ItInv, NEW t \in ItThreads, AddNode(t, TRUE)
  PROVE  ItInv'
<1>1. /\ itPc[t] = "created" /\ itPc' = [itPc EXCEPT ![t] = "out"]
      /\ itNode' = [itNode EXCEPT ![t] = Created(t)] /\ UNCHANGED <<itTask, itArmed>>
  BY Zenon DEF AddNode
<1>2. PICK i \in ItIds : IsLast(t, i) BY <1>1, Zenon DEF ItInv, ItCreating
<1>3. Created(t) = i BY <1>2, CreatedIsLast, Zenon
<1>4. ItTypes' BY <1>1, <1>3, Zenon DEF ItInv, ItTypes
<1>5. ItOrder' BY <1>1, Zenon DEF ItInv, ItOrder, ItLive
<1>6. \A u, k : IsLast(u, k)' <=> IsLast(u, k) BY <1>1, Zenon DEF IsLast
<1>7. \A k \in ItIds : IsLast(t, k) => k = i BY <1>2, ItIdsNat DEF IsLast
<1>8. \A k \in ItIds : ItLive(k)' <=> ItLive(k) BY <1>1, Zenon DEF ItLive
<1>9. itNode[t] = 0 BY <1>1, Zenon DEF ItInv, ItCreating
<1>10. /\ \A u \in ItThreads : /\ itPc'[u] = IF u = t THEN "out" ELSE itPc[u]
                               /\ itNode'[u] = IF u = t THEN i ELSE itNode[u]
  BY <1>1, <1>3, Zenon DEF ItInv, ItTypes
<1>11. ItBelongs'
  BY <1>1, <1>6, <1>7, <1>8, <1>9, <1>10, ItIdsNat, SMTT(30) DEF ItInv, ItBelongs
<1>12. ItCreating' BY <1>1, <1>6, <1>10, SMTT(30) DEF ItInv, ItCreating
<1>. QED BY <1>4, <1>5, <1>11, <1>12, Zenon DEF ItInv

(* A thread without a task alive gives up its node and is no longer armed.    *)
LEMMA ForgetStep ==
  ASSUME ItInv, NEW t \in ItThreads, itPc[t] # "created", ~ItLive(itNode[t]),
         NEW at \in {"out", "ended"}, itPc' = [itPc EXCEPT ![t] = at],
         itArmed' = [itArmed EXCEPT ![t] = FALSE], itNode' = [itNode EXCEPT ![t] = 0],
         UNCHANGED itTask
  PROVE  ItInv'
<1>1. ItTypes' BY Zenon DEF ItInv, ItTypes
<1>2. ItOrder' BY Zenon DEF ItInv, ItOrder, ItLive
<1>3. \A u, k : IsLast(u, k)' <=> IsLast(u, k) BY Zenon DEF IsLast
<1>4. \A k \in ItIds : ItLive(k)' <=> ItLive(k) BY Zenon DEF ItLive
<1>5. \A u \in ItThreads : /\ itPc'[u] = IF u = t THEN at ELSE itPc[u]
                           /\ itNode'[u] = IF u = t THEN 0 ELSE itNode[u]
                           /\ itArmed'[u] = IF u = t THEN FALSE ELSE itArmed[u]
  BY Zenon DEF ItInv, ItTypes
<1>6. \A k \in ItIds : ItLive(k) => itTask[k].owner # t BY OnlyNode, Zenon
<1>7. ItBelongs' BY <1>3, <1>4, <1>5, <1>6, SMTT(30) DEF ItInv, ItBelongs
<1>8. ItCreating' BY <1>3, <1>5, ZenonT(30) DEF ItInv, ItCreating
<1>. QED BY <1>1, <1>2, <1>7, <1>8, Zenon DEF ItInv

(* The call of killitimer_by_thread begins.                                   *)
LEMMA KillStep ==
  ASSUME ItInv, NEW t \in ItThreads, itPc[t] = "out", NEW at \in {"kill", "killend"},
         KillOrNot(t, at), UNCHANGED <<itNode, itTask>>
  PROVE  ItInv'
<1>1. CASE itNode[t] = 0
  <2>1. ~ItLive(itNode[t]) BY <1>1, Zenon DEF ItLive
  <2>2. itNode' = [itNode EXCEPT ![t] = 0] BY <1>1, Zenon DEF ItInv, ItTypes
  <2>3. PICK q \in {"out", "ended"} : itPc' = [itPc EXCEPT ![t] = q]
    BY <1>1, Zenon DEF KillOrNot
  <2>4. itArmed' = [itArmed EXCEPT ![t] = FALSE] BY <1>1, Zenon DEF KillOrNot
  <2>. QED BY <2>1, <2>2, <2>3, <2>4, ForgetStep, Zenon
<1>2. CASE itNode[t] # 0
  <2>1. itPc' = [itPc EXCEPT ![t] = at] /\ UNCHANGED itArmed BY <1>2, Zenon DEF KillOrNot
  <2>2. \A u \in ItThreads : itPc'[u] = "created" <=> itPc[u] = "created"
    BY <2>1, Zenon DEF ItInv, ItTypes
  <2>3. ItTypes' BY <2>1, Zenon DEF ItInv, ItTypes
  <2>4. ItOrder' BY Zenon DEF ItInv, ItOrder, ItLive
  <2>5. ItBelongs' /\ ItCreating'
    BY <2>1, <2>2, ZenonT(30) DEF ItInv, ItBelongs, ItCreating, IsLast, ItLive
  <2>. QED BY <2>3, <2>4, <2>5, Zenon DEF ItInv
<1>. QED BY <1>1, <1>2, Zenon

(* Every step preserves the invariant.                                        *)
LEMMA ItInvNext == ASSUME ~ItNoMemory, ItInv, [ItNext]_itVars PROVE ItInv'
<1>1. CASE UNCHANGED itVars
  <2>1. UNCHANGED <<itPc, itNode, itTask, itArmed>> BY <1>1, Zenon DEF itVars
  <2>. QED BY <2>1, SMTT(30) DEF ItInv, ItTypes, ItOrder, ItBelongs, ItCreating, IsLast, ItLive
<1>2. ASSUME NEW t \in ItThreads, SetAgain(t) PROVE ItInv'
  <2>1. itNode[t] \in ItIds /\ itPc[t] = "out"
    BY <1>2, Zenon DEF SetAgain, ItCall, ItInv, ItTypes
  <2> DEFINE i == itNode[t]
  <2>2. itTask' = ItSignal(i, "CTRL_D") /\ UNCHANGED <<itPc, itNode>>
        /\ itArmed' = [itArmed EXCEPT ![t] = TRUE]
    BY <1>2, Zenon DEF SetAgain
  <2>. QED BY <2>1, <2>2, ArmStep, Zenon
<1>3. ASSUME NEW t \in ItThreads, SetZero(t) PROVE ItInv'
  BY <1>3, KillStep, Zenon DEF SetZero, ItCall
<1>4. ASSUME NEW t \in ItThreads, ThreadEnds(t) PROVE ItInv'
  BY <1>4, KillStep, Zenon DEF ThreadEnds
<1>5. ASSUME NEW t \in ItThreads, KillSignal(t) PROVE ItInv'
  <2>1. itNode[t] \in ItIds BY <1>5, Zenon DEF KillSignal, MayForget, ItLive, ItInv, ItTypes
  <2>. QED BY <1>5, <2>1, SignalKeeps, Zenon DEF KillSignal
<1>6. ASSUME NEW t \in ItThreads, KillDone(t) PROVE ItInv'
  <2>1. PICK at \in {"out", "ended"} : itPc' = [itPc EXCEPT ![t] = at]
    BY <1>6, Zenon DEF KillDone, ItInv, ItTypes
  <2>. QED BY <1>6, <2>1, ForgetStep, Zenon DEF KillDone, MayForget
<1>7. ASSUME NEW t \in ItThreads, NEW memory \in {TRUE, ~ItNoMemory}, AddNode(t, memory)
      PROVE  ItInv'
  <2>1. memory = TRUE BY <1>7, Zenon
  <2>. QED BY <1>7, <2>1, AddNodeStep, Zenon
<1>8. ASSUME NEW t \in ItThreads, NEW alarm \in BOOLEAN, NEW i \in ItIds, SetFirst(t, alarm, i)
      PROVE  ItInv'
  BY <1>8, SetFirstStep, Zenon
<1>9. ASSUME NEW i \in ItIds, ItTaskStep(i) PROVE ItInv'
  BY <1>9, TaskSteps, Zenon
<1>10. CASE SetMask
  <2>1. UNCHANGED <<itPc, itNode, itTask, itArmed>> BY <1>10, Zenon DEF SetMask
  <2>. QED BY <2>1, SMTT(30) DEF ItInv, ItTypes, ItOrder, ItBelongs, ItCreating, IsLast, ItLive
<1>. QED BY <1>1, <1>2, <1>3, <1>4, <1>5, <1>6, <1>7, <1>8, <1>9, <1>10, Zenon
         DEF ItNext, ItThreadStep

(* No timer task is alive that its thread has not asked for, or has stopped   *)
(* (setitimer, killitimer_by_thread).                                         *)
THEOREM ItSoundHolds == ASSUME ~ItNoMemory PROVE ItSpec => []ItSound
<1>1. ItInv => ItSound
  <2> SUFFICES ASSUME ItInv, NEW i \in ItIds, ItLive(i)
               PROVE  LET t == itTask[i].owner IN
                        itArmed[t] /\ (itNode[t] = i \/ (itPc[t] = "created" /\ i = Created(t)))
    BY Zenon DEF ItSound
  <2> DEFINE t == itTask[i].owner
  <2>1. t \in ItThreads BY Zenon DEF ItInv, ItTypes, ItRecords, ItOrder, ItLive
  <2>2. itArmed[t] /\ (itNode[t] = i \/ (itPc[t] = "created" /\ IsLast(t, i)))
    BY <2>1, Zenon DEF ItInv, ItBelongs
  <2>3. IsLast(t, i) => i = Created(t) BY <2>1, CreatedIsLast, Zenon
  <2>. QED BY <2>2, <2>3, Zenon
<1>. QED BY <1>1, ItInvInit, ItInvNext, PTL DEF ItSpec

-----------------------------------------------------------------------------
(* Proofs about module Signals, for any signals in any order, any handlers    *)
(* and any depth of nesting.  The invariant says of the whole stack of calls  *)
(* what the properties say of its top: each handler on it runs with its       *)
(* signal held back, and each wait remembers what it will put back.           *)
(* Stacks.                                                                    *)
IsSeq(st) == st \in Seq(Range(st))
HandlersIn(st) == {i \in DOMAIN st : st[i].kind \in {"plain", "sa"}}
WaitsIn(st) == {i \in DOMAIN st : st[i].kind = "wait"}
WaitSets(st) == {st[i].set : i \in WaitsIn(st)}

(* What a wait puts back is what it found.                                    *)
RestoredTo(act) == CASE act.h \in {"DFL", "IGN"} -> [h |-> act.h]
                     [] act.h \in {"NULL", "sa"} -> [h |-> "abort"]
                     [] OTHER -> act
WaitOk(f) ==
  /\ f.set \subseteq SgSignals /\ f.at \in Nat \ {0}
  /\ \A s \in f.set : /\ f.saved[s].h \in {"DFL", "IGN", "user", "sa"}
                      /\ f.saved[s] \in [h : {"DFL", "IGN", "user", "sa"},
                                         flags : SUBSET {"RESETHAND", "NODEFER"},
                                         mask : SUBSET SgSignals]
                      /\ RestoredTo(f.saved[s]) = f.was[s]
FramesOk(st) ==
  \A i \in DOMAIN st : /\ st[i].kind \in {"plain", "sa"} => st[i].sig \in SgSignals
                       /\ st[i].kind = "wait" => WaitOk(st[i])
OneWait(st) == \A i, j \in WaitsIn(st) : i = j

(* SgNested, for a stack and the signals held back by raise.                  *)
Nested(st, local) ==
  /\ local = {st[i].sig : i \in HandlersIn(st)} \ SgBreaks
  /\ \A i, j \in HandlersIn(st) : i # j /\ st[i].sig = st[j].sig => st[i].sig \in SgBreaks
StackOk(st, local) == IsSeq(st) /\ FramesOk(st) /\ OneWait(st) /\ Nested(st, local)

(* ignore_signal is in place for signals of the wait only, which answers with *)
(* one of them.                                                               *)
Taking(W, action, was) ==
  /\ \A s \in SgSignals : action[s].h = "ignore" => \E S \in W : s \in S
  /\ \A S \in W : was \in S \cup {"none"}

SgAct == [h : {"NULL", "user", "sa", "ignore"}, flags : SUBSET {"RESETHAND", "NODEFER"},
          mask : SUBSET SgSignals]
SgTypes == /\ sgTable \in [SgSignals -> {"DFL", "IGN", "user", "sa"}]
           /\ sgAction \in [SgSignals -> SgAct]

SgInv == SgTypes /\ StackOk(sgStack, sgLocal) /\ Taking(WaitSets(sgStack), sgAction, sgWas)

-------------------------------------------------------------------------------
(* Pushing, popping and replacing the innermost frame.                        *)

\* A sequence is one over its own elements.
LEMMA IsASequence ==
  ASSUME NEW st, NEW F, st \in Seq(F)
  PROVE  IsSeq(st)
<1>1. DOMAIN st = 1..Len(st) /\ Len(st) \in Nat /\ st \in [1..Len(st) -> F]
  BY LenProperties, Zenon
<1>2. st \in [1..Len(st) -> Range(st)]
  BY <1>1, Zenon DEF Range
<1>3. st \in UNION {[1..n -> Range(st)] : n \in Nat}
  BY <1>1, <1>2, Zenon
<1> QED
  BY <1>3, SeqDef, Zenon DEF IsSeq

\* What a stack is with a frame more.
LEMMA PushIs ==
  ASSUME NEW st, IsSeq(st), NEW f
  PROVE  /\ IsSeq(Append(st, f)) /\ Len(st) \in Nat /\ DOMAIN st = 1..Len(st)
         /\ Len(Append(st, f)) = Len(st) + 1
         /\ DOMAIN Append(st, f) = DOMAIN st \cup {Len(st) + 1}
         /\ Len(st) + 1 \notin DOMAIN st
         /\ Append(st, f)[Len(st) + 1] = f
         /\ \A i \in DOMAIN st : Append(st, f)[i] = st[i]
<1> DEFINE F == Range(st) \cup {f}
<1>1. st \in Seq(F) /\ f \in F
  BY DEF IsSeq
<1> HIDE DEF F
<1>2. Append(st, f) \in Seq(F)
  BY <1>1
<1>3. IsSeq(Append(st, f))
  BY <1>2, IsASequence, Zenon
<1> QED
  BY <1>1, <1>3

\* What a stack is with a frame less.
LEMMA PopIs ==
  ASSUME NEW st, IsSeq(st), st # <<>>
  PROVE  /\ IsSeq(Popped(st)) /\ Len(st) \in Nat \ {0} /\ DOMAIN st = 1..Len(st)
         /\ DOMAIN Popped(st) = DOMAIN st \ {Len(st)} /\ Len(st) \in DOMAIN st
         /\ Len(Popped(st)) = Len(st) - 1
         /\ \A i \in DOMAIN Popped(st) : Popped(st)[i] = st[i]
<1> DEFINE F == Range(st)
<1>1. st \in Seq(F)
  BY Zenon DEF IsSeq
<1> HIDE DEF F
<1>2. Len(st) \in Nat \ {0} /\ DOMAIN st = 1..Len(st)
  BY <1>1
<1>3. /\ SubSeq(st, 1, Len(st) - 1) \in Seq(F)
      /\ Len(SubSeq(st, 1, Len(st) - 1)) = Len(st) - 1
      /\ \A i \in 1..Len(st) - 1 : SubSeq(st, 1, Len(st) - 1)[i] = st[i]
  BY <1>1, <1>2
<1>4. DOMAIN SubSeq(st, 1, Len(st) - 1) = 1..Len(st) - 1
  BY <1>2, <1>3
<1>5. IsSeq(Popped(st))
  <2>1. Popped(st) \in Seq(F)
    BY <1>3, Zenon DEF Popped
  <2> QED
    BY <2>1, IsASequence, Zenon
<1> QED
  BY <1>2, <1>3, <1>4, <1>5 DEF Popped

\* A handler is called whose signal is not held back.
LEMMA PushHandler ==
  ASSUME NEW st, NEW local, StackOk(st, local), NEW f, f.kind \in {"plain", "sa"},
         f.sig \in SgSignals, f.sig \notin local \/ f.sig \in SgBreaks
  PROVE  /\ StackOk(Append(st, f), local \cup Recursion(f.sig))
         /\ WaitSets(Append(st, f)) = WaitSets(st) /\ Len(Append(st, f)) >= Len(st)
<1> DEFINE st2 == Append(st, f)
           n == Len(st) + 1
<1>1. /\ IsSeq(st2) /\ DOMAIN st2 = DOMAIN st \cup {n} /\ n \notin DOMAIN st
      /\ st2[n] = f /\ \A i \in DOMAIN st : st2[i] = st[i]
  BY PushIs, Zenon DEF StackOk
<1>2. Len(st2) >= Len(st)
  BY PushIs DEF StackOk
<1> HIDE DEF st2, n
<1>3. HandlersIn(st2) = HandlersIn(st) \cup {n} /\ n \notin HandlersIn(st)
  BY <1>1, Zenon DEF HandlersIn
<1>4. WaitsIn(st2) = WaitsIn(st) /\ WaitsIn(st) \subseteq DOMAIN st
  BY <1>1, Zenon DEF WaitsIn
<1>5. WaitSets(st2) = WaitSets(st)
  BY <1>1, <1>4, Zenon DEF WaitSets
<1>6. FramesOk(st2)
  BY <1>1, Zenon DEF StackOk, FramesOk
<1>7. OneWait(st2)
  BY <1>4, Zenon DEF StackOk, OneWait
<1>8. \A i \in HandlersIn(st) : st2[i] = st[i]
  BY <1>1, Zenon DEF HandlersIn
<1>9. {st2[i].sig : i \in HandlersIn(st2)} = {st[i].sig : i \in HandlersIn(st)} \cup {f.sig}
  BY <1>1, <1>3, <1>8
<1>10. local \cup Recursion(f.sig) = {st2[i].sig : i \in HandlersIn(st2)} \ SgBreaks
  BY <1>9, Zenon DEF StackOk, Nested, Recursion
<1>11. ASSUME NEW i \in HandlersIn(st2), NEW j \in HandlersIn(st2), i # j, st2[i].sig = st2[j].sig
       PROVE  st2[i].sig \in SgBreaks
  BY <1>1, <1>3, <1>8, <1>11, Zenon DEF StackOk, Nested
<1>12. Nested(st2, local \cup Recursion(f.sig))
  BY <1>10, <1>11, Zenon DEF Nested
<1> QED
  BY <1>1, <1>2, <1>5, <1>6, <1>7, <1>12, Zenon DEF StackOk, st2

(* Frames that are not handlers.                                              *)
LEMMA PushOther ==
  ASSUME NEW st, NEW local, StackOk(st, local), NEW f, f.kind \in {"pause", "wait"},
         f.kind = "wait" => WaitOk(f) /\ WaitsIn(st) = {}
  PROVE  /\ StackOk(Append(st, f), local) /\ Len(Append(st, f)) >= Len(st)
         /\ f.kind = "pause" => WaitSets(Append(st, f)) = WaitSets(st)
         /\ f.kind = "wait" => WaitSets(Append(st, f)) = {f.set}
<1> DEFINE st2 == Append(st, f)
           n == Len(st) + 1
<1>1. /\ IsSeq(st2) /\ DOMAIN st2 = DOMAIN st \cup {n} /\ n \notin DOMAIN st
      /\ st2[n] = f /\ \A i \in DOMAIN st : st2[i] = st[i]
  BY PushIs, Zenon DEF StackOk
<1>2. Len(st2) >= Len(st)
  BY PushIs DEF StackOk
<1> HIDE DEF st2, n
<1>3. HandlersIn(st2) = HandlersIn(st)
  BY <1>1, Zenon DEF HandlersIn
<1>4. /\ f.kind = "pause" => WaitsIn(st2) = WaitsIn(st)
      /\ f.kind = "wait" => WaitsIn(st2) = {n}
      /\ WaitsIn(st) \subseteq DOMAIN st
  BY <1>1, Zenon DEF WaitsIn
<1>5. f.kind = "pause" => WaitSets(st2) = WaitSets(st)
  BY <1>1, <1>4, Zenon DEF WaitSets
<1>6. f.kind = "wait" => WaitSets(st2) = {f.set}
  BY <1>1, <1>4, Zenon DEF WaitSets
<1>7. FramesOk(st2)
  BY <1>1, Zenon DEF StackOk, FramesOk
<1>8. OneWait(st2)
  BY <1>4, Zenon DEF StackOk, OneWait
<1>9. \A i \in HandlersIn(st) : st2[i] = st[i]
  BY <1>1, Zenon DEF HandlersIn
<1>10. Nested(st2, local)
  BY <1>3, <1>9, Zenon DEF StackOk, Nested
<1> QED
  BY <1>1, <1>2, <1>5, <1>6, <1>7, <1>8, <1>10, Zenon DEF StackOk, st2

\* The same, as one hypothesis and one conclusion.
MayPush(st, local, f) ==
  /\ StackOk(st, local) /\ f.kind \in {"pause", "wait"}
  /\ f.kind = "wait" => WaitOk(f) /\ WaitsIn(st) = {}
Pushed(st, local, f) ==
  /\ StackOk(Append(st, f), local) /\ Len(Append(st, f)) >= Len(st)
  /\ f.kind = "pause" => WaitSets(Append(st, f)) = WaitSets(st)
  /\ f.kind = "wait" => WaitSets(Append(st, f)) = {f.set}

\* PushOther with its hypotheses as MayPush.
LEMMA PushedOther ==
  ASSUME NEW st, NEW local, NEW f, MayPush(st, local, f)
  PROVE  Pushed(st, local, f)
  BY PushOther DEF MayPush, Pushed

MayHandle(st, local, f) ==
  /\ StackOk(st, local) /\ f.kind \in {"plain", "sa"}
  /\ f.sig \in SgSignals /\ (f.sig \notin local \/ f.sig \in SgBreaks)
Handled(st, local, f) ==
  /\ StackOk(Append(st, f), local \cup Recursion(f.sig))
  /\ WaitSets(Append(st, f)) = WaitSets(st) /\ Len(Append(st, f)) >= Len(st)

\* PushHandler with its hypotheses as MayHandle.
LEMMA PushedHandler ==
  ASSUME NEW st, NEW local, NEW f, MayHandle(st, local, f)
  PROVE  Handled(st, local, f)
  BY PushHandler DEF MayHandle, Handled

\* What the other frames keep when the innermost one goes.
LEMMA PopFrame ==
  ASSUME NEW st, NEW local, StackOk(st, local), st # <<>>
  PROVE  /\ IsSeq(Popped(st)) /\ FramesOk(Popped(st)) /\ OneWait(Popped(st))
         /\ WaitsIn(Popped(st)) = WaitsIn(st) \ {Len(st)}
         /\ HandlersIn(Popped(st)) = HandlersIn(st) \ {Len(st)}
         /\ \A i \in DOMAIN Popped(st) : i \in DOMAIN st /\ Popped(st)[i] = st[i]
<1> DEFINE st2 == Popped(st)
           n == Len(st)
<1>1. /\ IsSeq(st2) /\ DOMAIN st2 = DOMAIN st \ {n} /\ n \in DOMAIN st
      /\ \A i \in DOMAIN st2 : st2[i] = st[i]
  BY PopIs, Zenon DEF StackOk
<1> HIDE DEF st2, n
<1>2. HandlersIn(st2) = HandlersIn(st) \ {n} /\ WaitsIn(st2) = WaitsIn(st) \ {n}
  BY <1>1, Zenon DEF HandlersIn, WaitsIn
<1>3. FramesOk(st2)
  BY <1>1, Zenon DEF StackOk, FramesOk
<1>4. OneWait(st2)
  BY <1>2, Zenon DEF StackOk, OneWait
<1> QED
  BY <1>1, <1>2, <1>3, <1>4, Zenon DEF st2, n

\* A handler returns, and its signal is held back no longer.
LEMMA PopHandler ==
  ASSUME NEW st, NEW local, StackOk(st, local), st # <<>>, Top(st).kind \in {"plain", "sa"}
  PROVE  StackOk(Popped(st), local \ {Top(st).sig}) /\ WaitSets(Popped(st)) = WaitSets(st)
<1> DEFINE st2 == Popped(st)
           n == Len(st)
<1>1. /\ IsSeq(st2) /\ FramesOk(st2) /\ OneWait(st2)
      /\ WaitsIn(st2) = WaitsIn(st) \ {n} /\ HandlersIn(st2) = HandlersIn(st) \ {n}
      /\ \A i \in DOMAIN st2 : i \in DOMAIN st /\ st2[i] = st[i]
  BY PopFrame, Zenon
<1>2. n \in DOMAIN st /\ Top(st) = st[n]
  BY PopIs, Zenon DEF StackOk, Top
<1> HIDE DEF st2, n
<1>3. n \in HandlersIn(st) /\ n \notin WaitsIn(st)
  BY <1>2, Zenon DEF HandlersIn, WaitsIn
<1>4. WaitsIn(st2) = WaitsIn(st) /\ WaitsIn(st2) \subseteq DOMAIN st2
  BY <1>1, <1>3, Zenon DEF WaitsIn
<1>5. WaitSets(st2) = WaitSets(st)
  BY <1>1, <1>4, Zenon DEF WaitSets
<1>6. \A i \in HandlersIn(st2) : i \in HandlersIn(st) /\ i # n /\ st2[i] = st[i]
  BY <1>1, Zenon DEF HandlersIn
<1>7. local \ {st[n].sig} = {st2[i].sig : i \in HandlersIn(st2)} \ SgBreaks
  <2>1. ASSUME NEW s \in local, s # st[n].sig PROVE s \in {st2[i].sig : i \in HandlersIn(st2)} \ SgBreaks
    <3>1. PICK i \in HandlersIn(st) : st[i].sig = s /\ s \notin SgBreaks
      BY <2>1, Zenon DEF StackOk, Nested
    <3>2. i \in HandlersIn(st2)
      BY <1>1, <2>1, <3>1, Zenon
    <3> QED
      BY <1>6, <3>1, <3>2, Zenon
  <2>2. ASSUME NEW i \in HandlersIn(st2), st2[i].sig \notin SgBreaks
        PROVE  st2[i].sig \in local \ {st[n].sig}
    BY <1>3, <1>6, <2>2, Zenon DEF StackOk, Nested
  <2> QED
    BY <2>1, <2>2 DEF StackOk, Nested
<1>8. Nested(st2, local \ {st[n].sig})
  BY <1>6, <1>7, Zenon DEF StackOk, Nested
<1> QED
  BY <1>1, <1>2, <1>5, <1>8, Zenon DEF StackOk, st2, n

\* pause or sigtimedwait returns.
LEMMA PopOther ==
  ASSUME NEW st, NEW local, StackOk(st, local), st # <<>>, Top(st).kind \in {"pause", "wait"}
  PROVE  /\ StackOk(Popped(st), local)
         /\ Top(st).kind = "pause" => WaitSets(Popped(st)) = WaitSets(st)
         /\ Top(st).kind = "wait" => /\ WaitSets(Popped(st)) = {}
                                      /\ WaitSets(st) = {Top(st).set} /\ WaitOk(Top(st))
<1> DEFINE st2 == Popped(st)
           n == Len(st)
<1>1. /\ IsSeq(st2) /\ FramesOk(st2) /\ OneWait(st2)
      /\ WaitsIn(st2) = WaitsIn(st) \ {n} /\ HandlersIn(st2) = HandlersIn(st) \ {n}
      /\ \A i \in DOMAIN st2 : i \in DOMAIN st /\ st2[i] = st[i]
  BY PopFrame, Zenon
<1>2. n \in DOMAIN st /\ Top(st) = st[n]
  BY PopIs, Zenon DEF StackOk, Top
<1> HIDE DEF st2, n
<1>3. HandlersIn(st2) = HandlersIn(st) /\ \A i \in HandlersIn(st) : st2[i] = st[i]
  BY <1>1, <1>2, Zenon DEF HandlersIn
<1>4. Nested(st2, local)
  BY <1>3, Zenon DEF StackOk, Nested
<1>5. ASSUME Top(st).kind = "pause" PROVE WaitSets(st2) = WaitSets(st)
  <2>1. WaitsIn(st2) = WaitsIn(st) /\ WaitsIn(st2) \subseteq DOMAIN st2
    BY <1>1, <1>2, <1>5, Zenon DEF WaitsIn
  <2> QED
    BY <1>1, <2>1, Zenon DEF WaitSets
<1>6. ASSUME Top(st).kind = "wait"
      PROVE  WaitSets(st2) = {} /\ WaitSets(st) = {Top(st).set} /\ WaitOk(Top(st))
  <2>1. n \in WaitsIn(st)
    BY <1>2, <1>6, Zenon DEF WaitsIn
  <2>2. WaitsIn(st) = {n} /\ WaitsIn(st2) = {}
    BY <1>1, <2>1, Zenon DEF StackOk, OneWait
  <2> QED
    BY <1>2, <1>6, <2>2, Zenon DEF WaitSets, StackOk, FramesOk
<1> QED
  BY <1>1, <1>4, <1>5, <1>6, Zenon DEF StackOk, st2

(* The innermost frame goes on.                                               *)
LEMMA TopGoesOn ==
  ASSUME NEW st, NEW local, StackOk(st, local), st # <<>>, NEW f,
         Top(st).kind \in {"pause", "wait"}, f.kind = Top(st).kind,
         f.kind = "wait" => f.set = Top(st).set /\ WaitOk(f)
  PROVE  /\ StackOk(Append(Popped(st), f), local)
         /\ WaitSets(Append(Popped(st), f)) = WaitSets(st)
         /\ Len(Append(Popped(st), f)) = Len(st)
<1>1. Top(st).kind = "wait" => WaitsIn(Popped(st)) = {}
  <2>1. CASE Top(st).kind = "wait"
    <3>1. WaitSets(Popped(st)) = {}
      BY <2>1, PopOther, Zenon
    <3> QED BY <3>1, Zenon DEF WaitSets
  <2> QED
    BY <2>1, Zenon
<1>2. StackOk(Popped(st), local)
  BY PopOther, Zenon
<1>3. /\ StackOk(Append(Popped(st), f), local)
      /\ f.kind = "pause" => WaitSets(Append(Popped(st), f)) = WaitSets(Popped(st))
      /\ f.kind = "wait" => WaitSets(Append(Popped(st), f)) = {f.set}
  <2>1. f.kind \in {"pause", "wait"} /\ (f.kind = "wait" => WaitOk(f) /\ WaitsIn(Popped(st)) = {})
    BY <1>1, Zenon
  <2>2. MayPush(Popped(st), local, f)
    BY <1>2, <2>1, Zenon DEF MayPush
  <2>3. Pushed(Popped(st), local, f)
    BY <2>2, PushedOther, Zenon
  <2> QED BY <2>3, Zenon DEF Pushed
<1>4. WaitSets(Append(Popped(st), f)) = WaitSets(st)
  BY <1>3, PopOther, Zenon
<1>5. Len(Append(Popped(st), f)) = Len(st)
  <2>1. IsSeq(Popped(st)) /\ Len(Popped(st)) = Len(st) - 1 /\ Len(st) \in Nat
    BY PopIs, Zenon DEF StackOk
  <2>2. Len(Append(Popped(st), f)) = Len(Popped(st)) + 1
    BY <2>1, PushIs, Zenon
  <2> QED
    BY <2>1, <2>2
<1> QED
  BY <1>3, <1>4, <1>5, Zenon

-------------------------------------------------------------------------------
(* raise, whoever calls it.                                                   *)
LEMMA RaiseKeeps ==
  ASSUME SgInv, NEW s \in SgSignals, NEW c, DoRaise(s, c),
         StackOk(c.stack, sgLocal), WaitSets(c.stack) = WaitSets(sgStack), Len(c.stack) \in Nat
  PROVE  SgInv' /\ Len(sgStack') >= Len(c.stack)
<1>1. CASE RaiseHeld(s, c) \/ RaiseIgnored(s, c) \/ RaiseDefault(s, c) \/ RaiseAbort(s, c)
  <2>1. UNCHANGED <<sgTable, sgAction, sgLocal, sgWas>> /\ sgStack' = c.stack
    BY <1>1, Zenon DEF RaiseHeld, RaiseIgnored, RaiseDefault, RaiseAbort
  <2> QED
    BY <2>1 DEF SgInv, SgTypes, Taking
<1>2. CASE RaisePlain(s, c)
  <2> DEFINE f == [kind |-> "plain", sig |-> s]
  <2>1. /\ UNCHANGED <<sgTable, sgAction, sgWas>> /\ sgStack' = Append(c.stack, f)
        /\ sgLocal' = sgLocal \cup Recursion(s)
    BY <1>2, Zenon DEF RaisePlain
  <2>2. s \notin sgLocal \/ s \in SgBreaks
    BY <1>2, Zenon DEF RaisePlain, Held, SgBreaks
  <2>3. f.kind \in {"plain", "sa"} /\ f.sig = s
    BY Zenon
  <2> HIDE DEF f
  <2>4. /\ StackOk(sgStack', sgLocal') /\ WaitSets(sgStack') = WaitSets(sgStack)
        /\ Len(sgStack') >= Len(c.stack)
    <3>1. MayHandle(c.stack, sgLocal, f)
      BY <2>2, <2>3, Zenon DEF MayHandle
    <3>2. Handled(c.stack, sgLocal, f)
      BY <3>1, PushedHandler, Zenon
    <3> QED
      BY <2>1, <2>3, <3>2, Zenon DEF Handled
  <2> QED
    BY <2>1, <2>4, Zenon DEF SgInv, SgTypes, Taking
<1>3. CASE RaiseAction(s, c)
  <2> DEFINE f == [kind |-> "sa", sig |-> s, old |-> c.mask]
             act == sgAction[s]
  <2>1. /\ UNCHANGED <<sgTable, sgWas>> /\ sgStack' = Append(c.stack, f)
        /\ sgLocal' = sgLocal \cup Recursion(s)
    BY <1>3, Zenon DEF RaiseAction
  <2>2. s \notin sgLocal \/ s \in SgBreaks
    BY <1>3, Zenon DEF RaiseAction, Held, SgBreaks
  <2>3. f.kind \in {"plain", "sa"} /\ f.sig = s
    BY Zenon
  <2> HIDE DEF f
  <2>4. /\ StackOk(sgStack', sgLocal') /\ WaitSets(sgStack') = WaitSets(sgStack)
        /\ Len(sgStack') >= Len(c.stack)
    <3>1. MayHandle(c.stack, sgLocal, f)
      BY <2>2, <2>3, Zenon DEF MayHandle
    <3>2. Handled(c.stack, sgLocal, f)
      BY <3>1, PushedHandler, Zenon
    <3> QED
      BY <2>1, <2>3, <3>2, Zenon DEF Handled
  <2>5. PICK h \in {"NULL", "user"} : sgAction' = [sgAction EXCEPT ![s].h = h]
    <3>1. act.h = "user" /\ sgAction' = [sgAction EXCEPT ![s].h = IF "RESETHAND" \in act.flags THEN "NULL" ELSE @]
      BY <1>3, Zenon DEF RaiseAction
    <3> QED
      BY <3>1, Zenon
  <2>6. \A a \in SgAct : [a EXCEPT !.h = h] \in SgAct /\ [a EXCEPT !.h = h].h = h
    BY Zenon DEF SgAct
  <2>7. sgAction \in [SgSignals -> SgAct]
    BY Zenon DEF SgInv, SgTypes
  <2>8. /\ sgAction' \in [SgSignals -> SgAct]
        /\ \A r \in SgSignals : sgAction'[r].h = "ignore" => sgAction[r].h = "ignore"
    BY <2>5, <2>6, <2>7, Zenon
  <2> QED
    BY <2>1, <2>4, <2>8, Zenon DEF SgInv, SgTypes, Taking
<1>4. CASE RaiseTaken(s, c)
  <2>1. UNCHANGED <<sgTable, sgAction, sgLocal>> /\ sgWas' = s /\ sgStack' = c.stack
    BY <1>4, Zenon DEF RaiseTaken
  <2>2. PICK S \in WaitSets(sgStack) : s \in S
    BY <1>4, Zenon DEF RaiseTaken, SgInv, Taking
  <2>3. \A T \in WaitSets(sgStack) : T = S
    BY <2>2, Zenon DEF SgInv, StackOk, OneWait, WaitSets
  <2> QED
    BY <2>1, <2>2, <2>3 DEF SgInv, SgTypes, Taking
<1> QED
  BY <1>1, <1>2, <1>3, <1>4, Zenon DEF DoRaise

\* A stack has a length.
LEMMA LenIs ==
  ASSUME NEW st, NEW local, StackOk(st, local)
  PROVE  Len(st) \in Nat /\ DOMAIN st = 1..Len(st)
  BY DEF StackOk, IsSeq

(* What the program's calls do to the tables.                                 *)
LEMMA TablesKept ==
  ASSUME SgInv, SgTypes', UNCHANGED <<sgLocal, sgStack, sgWas>>,
         \A r \in SgSignals : sgAction'[r].h = "ignore" => sgAction[r].h = "ignore"
  PROVE  SgInv'
  BY Zenon DEF SgInv, Taking

\* signal and sigaction leave the stack alone.
LEMMA InstallKeeps ==
  ASSUME SgInv, NEW s \in SgSignals,
         (\E h \in {"DFL", "IGN", "user"} : Signal(s, h)) \/ (\E act \in SgActions : SigAction(s, act))
  PROVE  SgInv' /\ sgStack' = sgStack
<1>0. sgTable \in [SgSignals -> {"DFL", "IGN", "user", "sa"}] /\ sgAction \in [SgSignals -> SgAct]
  BY Zenon DEF SgInv, SgTypes
<1>1. ASSUME NEW h \in {"DFL", "IGN", "user"}, Signal(s, h)
      PROVE  SgInv' /\ sgStack' = sgStack
  <2>1. UNCHANGED <<sgLocal, sgStack, sgWas, sgAction>> /\ sgTable' = [sgTable EXCEPT ![s] = h]
    BY <1>1, Zenon DEF Signal
  <2>2. SgTypes'
    BY <1>0, <2>1, Zenon DEF SgTypes
  <2> QED
    BY <2>1, <2>2, TablesKept, Zenon
<1>2. ASSUME NEW act \in SgActions, SigAction(s, act)
      PROVE  SgInv' /\ sgStack' = sgStack
  <2>1. /\ UNCHANGED <<sgLocal, sgStack, sgWas>>
        /\ sgTable' = [sgTable EXCEPT ![s] = Installed(s, act)]
        /\ sgAction' = [sgAction EXCEPT ![s] = Recorded(s, act)]
    BY <1>2, Zenon DEF SigAction
  <2>2. Installed(s, act) \in {"DFL", "IGN", "user", "sa"}
    BY Zenon DEF Installed
  <2>3. Recorded(s, act) \in SgAct /\ Recorded(s, act).h # "ignore"
    <3>1. CASE act.h \in {"DFL", "IGN"}
      <4>1. Recorded(s, act) = [sgAction[s] EXCEPT !.h = "NULL"] /\ sgAction[s] \in SgAct
        BY <1>0, <3>1, Zenon DEF Recorded
      <4>2. \A a \in SgAct : [a EXCEPT !.h = "NULL"] \in SgAct /\ [a EXCEPT !.h = "NULL"].h = "NULL"
        BY Zenon DEF SgAct
      <4> QED
        BY <4>1, <4>2, Zenon
    <3>2. CASE act.h \notin {"DFL", "IGN"}
      <4>1. PICK f \in SgFlags, m \in SgSets : act = [h |-> "user", flags |-> f, mask |-> m]
        BY <3>2 DEF SgActions
      <4> QED
        BY <3>2, <4>1, SgAssumption, Zenon DEF Recorded, SgAct
    <3> QED
      BY <3>1, <3>2, Zenon
  <2>4. SgTypes'
    BY <1>0, <2>1, <2>2, <2>3, Zenon DEF SgTypes
  <2>5. \A r \in SgSignals : sgAction'[r].h = "ignore" => sgAction[r].h = "ignore"
    BY <1>0, <2>1, <2>3, Zenon
  <2> QED
    BY <2>1, <2>4, <2>5, TablesKept, Zenon
<1> QED
  BY <1>1, <1>2, Zenon

(* Steps that leave the tables, the stack and raise's own mask alone.         *)
LEMMA MasksKeep ==
  ASSUME SgInv, UNCHANGED <<sgTable, sgAction, sgLocal, sgStack, sgWas>>
  PROVE  SgInv'
  BY Zenon DEF SgInv, SgTypes, Taking

(* Steps that change the stack only, and leave its waits.                     *)
LEMMA StackKept ==
  ASSUME SgInv, UNCHANGED <<sgTable, sgAction, sgWas>>, StackOk(sgStack', sgLocal'),
         WaitSets(sgStack') = WaitSets(sgStack)
  PROVE  SgInv'
  BY Zenon DEF SgInv, SgTypes, Taking

-------------------------------------------------------------------------------
(* The actions: each keeps the invariant, and only the end of a wait takes a  *)
(* wait off the stack.                                                        *)
NotFromWait == TopIs("wait") => sgStack' # Popped(sgStack)

\* No wait returns if the stack stays,
LEMMA StackSame ==
  ASSUME SgInv, sgStack' = sgStack
  PROVE  NotFromWait
<1> SUFFICES ASSUME sgStack # <<>>, sgStack = Popped(sgStack) PROVE FALSE
  BY Zenon DEF NotFromWait, TopIs
<1>1. Len(Popped(sgStack)) = Len(sgStack) - 1 /\ Len(sgStack) \in Nat
  BY PopIs, Zenon DEF SgInv, StackOk
<1> QED
  BY <1>1

\* or grows.
LEMMA StackGrows ==
  ASSUME SgInv, Len(sgStack') \in Nat, Len(sgStack') >= Len(sgStack)
  PROVE  NotFromWait
<1> SUFFICES ASSUME sgStack # <<>>, sgStack' = Popped(sgStack) PROVE FALSE
  BY Zenon DEF NotFromWait, TopIs
<1>1. Len(Popped(sgStack)) = Len(sgStack) - 1 /\ Len(sgStack) \in Nat
  BY PopIs, Zenon DEF SgInv, StackOk
<1> QED
  BY <1>1

\* The stack as it is.
LEMMA StackIs ==
  ASSUME SgInv
  PROVE  /\ StackOk(sgStack, sgLocal) /\ Len(sgStack) \in Nat
         /\ SgHere.stack = sgStack
  BY LenIs, Zenon DEF SgInv, SgHere, Caller

\* And as it will be.
LEMMA NextLen ==
  ASSUME SgInv'
  PROVE  Len(sgStack') \in Nat
  BY LenIs, Zenon DEF SgInv

\* raise on top of the stack.
LEMMA RaiseFromHere ==
  ASSUME SgInv, NEW s \in SgSignals, NEW c, DoRaise(s, c), c.stack = sgStack
  PROVE  SgInv' /\ NotFromWait
<1>1. SgInv' /\ Len(sgStack') >= Len(sgStack)
  BY StackIs, RaiseKeeps, Zenon
<1> QED
  BY <1>1, NextLen, StackGrows, Zenon

\* raise called by the program, and the check for CTRL_C.
LEMMA CallsKeep ==
  ASSUME SgInv, NEW s \in SgSignals, Raise(s) \/ CheckAbort
  PROVE  SgInv' /\ NotFromWait
<1>1. "INT" \in SgSignals
  BY SgAssumption, Zenon
<1>2. CASE Raise(s)
  BY <1>2, StackIs, RaiseFromHere, Zenon DEF Raise
<1>3. CASE CheckAbort
  <2> DEFINE c == [SgHere EXCEPT !.bits = @ \ {"CTRL_C"}]
  <2>1. c.stack = sgStack
    BY Zenon DEF SgHere, Caller
  <2>2. DoRaise("INT", c)
    BY <1>3, Zenon DEF CheckAbort
  <2> HIDE DEF c
  <2> QED
    BY <1>1, <2>1, <2>2, RaiseFromHere, Zenon
<1> QED
  BY <1>2, <1>3, Zenon

\* A handler returns.
LEMMA HandlerReturnsKeeps ==
  ASSUME SgInv, HandlerReturns
  PROVE  SgInv' /\ NotFromWait
<1>1. /\ sgStack # <<>> /\ Top(sgStack).kind \in {"plain", "sa"} /\ ~TopIs("wait")
      /\ sgLocal' = sgLocal \ {Top(sgStack).sig} /\ sgStack' = Popped(sgStack)
      /\ UNCHANGED <<sgTable, sgAction, sgWas>>
  BY Zenon DEF HandlerReturns, TopIs
<1>2. StackOk(sgStack', sgLocal') /\ WaitSets(sgStack') = WaitSets(sgStack)
  BY <1>1, StackIs, PopHandler, Zenon
<1> QED
  BY <1>1, <1>2, StackKept, Zenon DEF NotFromWait

\* pause and sigsuspend, with their wake-ups.
LEMMA PausesKeep ==
  ASSUME SgInv,
         (\E suspend \in BOOLEAN, mask \in SgSets : SigSuspend(suspend, mask))
         \/ PauseClear \/ PauseReturns \/ (\E timer \in BOOLEAN : PauseWake(timer))
  PROVE  SgInv' /\ NotFromWait
<1>0. StackOk(sgStack, sgLocal) /\ Len(sgStack) \in Nat
  BY StackIs, Zenon
<1>1. ASSUME NEW suspend, NEW mask, SigSuspend(suspend, mask) PROVE SgInv' /\ NotFromWait
  <2> DEFINE f == PauseFrame(suspend)
  <2>1. f.kind = "pause" /\ sgStack' = Append(sgStack, f)
        /\ UNCHANGED <<sgTable, sgAction, sgLocal, sgWas>>
    BY <1>1, Zenon DEF SigSuspend, PauseFrame
  <2> HIDE DEF f
  <2>2. /\ StackOk(sgStack', sgLocal') /\ WaitSets(sgStack') = WaitSets(sgStack)
        /\ Len(sgStack') >= Len(sgStack)
    <3>1. MayPush(sgStack, sgLocal, f)
      BY <1>0, <2>1, Zenon DEF MayPush
    <3>2. Pushed(sgStack, sgLocal, f)
      BY <3>1, PushedOther, Zenon
    <3> QED
      BY <2>1, <3>2, Zenon DEF Pushed
  <2> QED
    BY <2>1, <2>2, StackKept, NextLen, StackGrows, Zenon
<1>2. CASE PauseClear
  <2> DEFINE f == [Top(sgStack) EXCEPT !.at = "wait"]
  <2>1. /\ sgStack # <<>> /\ Top(sgStack).kind = "pause" /\ ~TopIs("wait")
        /\ sgStack' = Append(Popped(sgStack), f)
        /\ UNCHANGED <<sgTable, sgAction, sgLocal, sgWas>>
    BY <1>2, Zenon DEF PauseClear, TopIs, SetTop
  <2>2. f.kind = "pause"
    BY <2>1
  <2> HIDE DEF f
  <2>3. StackOk(sgStack', sgLocal') /\ WaitSets(sgStack') = WaitSets(sgStack)
    BY <1>0, <2>1, <2>2, TopGoesOn
  <2> QED
    BY <2>1, <2>3, StackKept, Zenon DEF NotFromWait
<1>3. CASE PauseReturns
  <2>1. /\ sgStack # <<>> /\ Top(sgStack).kind = "pause" /\ ~TopIs("wait")
        /\ sgStack' = Popped(sgStack) /\ UNCHANGED <<sgTable, sgAction, sgLocal, sgWas>>
    BY <1>3, Zenon DEF PauseReturns, TopIs
  <2>2. StackOk(sgStack', sgLocal') /\ WaitSets(sgStack') = WaitSets(sgStack)
    BY <1>0, <2>1, PopOther, Zenon
  <2> QED
    BY <2>1, <2>2, StackKept, Zenon DEF NotFromWait
<1>4. ASSUME NEW timer, PauseWake(timer) PROVE SgInv' /\ NotFromWait
  <2> DEFINE f == [Top(sgStack) EXCEPT !.at = "woken", !.bits = sgBits \ {"CTRL_C"}]
             st == Append(Popped(sgStack), f)
  <2>1. sgStack # <<>> /\ Top(sgStack).kind = "pause" /\ ~TopIs("wait")
    BY <1>4, Zenon DEF PauseWake, TopIs
  <2>2. f.kind = "pause"
    BY <2>1
  <2>3. \/ DoRaise("INT", Caller(sgBlocked, {}, st))
        \/ sgStack' = st /\ UNCHANGED <<sgTable, sgAction, sgLocal, sgWas>>
    BY <1>4, Zenon DEF PauseWake, SetTop
  <2> HIDE DEF f
  <2>4. StackOk(st, sgLocal) /\ WaitSets(st) = WaitSets(sgStack) /\ Len(st) = Len(sgStack)
    BY <1>0, <2>1, <2>2, TopGoesOn, SMTT(30)
  <2> HIDE DEF st
  <2>5. CASE DoRaise("INT", Caller(sgBlocked, {}, st))
    <3> DEFINE c == Caller(sgBlocked, {}, st)
    <3>1. c.stack = st /\ DoRaise("INT", c)
      BY <2>5, Zenon DEF Caller
    <3> HIDE DEF c
    <3>2. SgInv'
      BY <1>0, <2>4, <3>1, SgAssumption, RaiseKeeps, Zenon
    <3> QED
      BY <2>1, <3>2, Zenon DEF NotFromWait
  <2>6. CASE sgStack' = st /\ UNCHANGED <<sgTable, sgAction, sgLocal, sgWas>>
    BY <2>1, <2>4, <2>6, StackKept, Zenon DEF NotFromWait
  <2> QED
    BY <2>3, <2>5, <2>6, Zenon
<1> QED
  BY <1>1, <1>2, <1>3, <1>4, Zenon

\* Masks, CTRL_C and jumps.
LEMMA OthersKeep ==
  ASSUME SgInv, SgJumpsFrom \subseteq SgBreaks,
         \/ \E how, set : SigProcMask(how, set)
         \/ CtrlC \/ SigSetJmp \/ (\E saved \in BOOLEAN : SigLongJmp(saved))
  PROVE  SgInv' /\ NotFromWait
<1>1. CASE (\E how, set : SigProcMask(how, set)) \/ CtrlC \/ SigSetJmp
  <2>1. UNCHANGED <<sgTable, sgAction, sgLocal, sgStack, sgWas>>
    BY <1>1, Zenon DEF SigProcMask, CtrlC, SigSetJmp
  <2> QED
    BY <2>1, MasksKeep, StackSame, Zenon
<1>2. ASSUME NEW saved, SigLongJmp(saved) PROVE SgInv' /\ NotFromWait
  <2>1. /\ sgStack # <<>> /\ sgStack' = <<>> /\ UNCHANGED <<sgTable, sgAction, sgLocal, sgWas>>
        /\ \A i \in DOMAIN sgStack : i \in HandlersIn(sgStack) /\ sgStack[i].sig \in SgBreaks
    BY <1>2, Zenon DEF SigLongJmp, Handlers, Frames, HandlersIn
  <2>2. sgLocal = {}
    BY <2>1, StackIs, Zenon DEF StackOk, Nested, HandlersIn
  <2>3. WaitsIn(sgStack) = {} /\ WaitSets(sgStack) = {}
    BY <2>1, Zenon DEF WaitsIn, WaitSets, HandlersIn
  <2>4. DOMAIN sgStack' = {} /\ sgStack' \in Seq({})
    BY <2>1
  <2>5. IsSeq(sgStack')
    BY <2>4, IsASequence, Zenon
  <2>6. WaitsIn(sgStack') = {} /\ HandlersIn(sgStack') = {} /\ WaitSets(sgStack') = {}
    BY <2>4, Zenon DEF WaitsIn, HandlersIn, WaitSets
  <2>7. StackOk(sgStack', sgLocal')
    BY <2>1, <2>2, <2>4, <2>5, <2>6, Zenon DEF StackOk, FramesOk, OneWait, Nested
  <2>8. ~TopIs("wait")
    <3>1. Len(sgStack) \in DOMAIN sgStack
      BY <2>1, StackIs, PopIs, Zenon DEF StackOk
    <3> QED
      BY <2>1, <3>1, Zenon DEF TopIs, Top, HandlersIn
  <2> QED
    BY <2>1, <2>3, <2>6, <2>7, <2>8, StackKept, Zenon DEF NotFromWait
<1> QED
  BY <1>1, <1>2, Zenon

-------------------------------------------------------------------------------
(* A wait begins, raises blocked signals and ends.                            *)
LEMMA SavedIs ==
  ASSUME SgInv, WaitSets(sgStack) = {}, NEW s \in SgSignals, ~Mixed(s)
  PROVE  /\ OldAction(s).h \in {"DFL", "IGN", "user", "sa"}
         /\ OldAction(s) \in [h : {"DFL", "IGN", "user", "sa"},
                              flags : SUBSET {"RESETHAND", "NODEFER"}, mask : SUBSET SgSignals]
         /\ RestoredTo(OldAction(s)) = Disposition(s)
<1> DEFINE a == sgAction[s]
           t == sgTable[s]
<1>1. t \in {"DFL", "IGN", "user", "sa"} /\ a \in SgAct /\ a.h # "ignore"
  BY Zenon DEF SgInv, SgTypes, Taking
<1>2. t # "user" /\ (t = "sa" \/ a.h = "NULL")
  BY <1>1, Zenon DEF Mixed
<1>3. CASE a.h # "NULL"
  <2>1. OldAction(s) = a /\ a.h \in {"user", "sa"} /\ t = "sa"
    BY <1>1, <1>2, <1>3, Zenon DEF OldAction, SgAct
  <2>2. a \in [h : {"DFL", "IGN", "user", "sa"},
               flags : SUBSET {"RESETHAND", "NODEFER"}, mask : SUBSET SgSignals]
    BY <1>1, <2>1, Zenon DEF SgAct
  <2> QED
    BY <2>1, <2>2, Zenon DEF RestoredTo, Disposition
<1>4. CASE a.h = "NULL"
  <2> DEFINE old == [h |-> t, flags |-> {"RESETHAND", "NODEFER"}, mask |-> {}]
  <2>1. OldAction(s) = old
    BY <1>4, Zenon DEF OldAction
  <2>2. old.h = t /\ old \in [h : {"DFL", "IGN", "user", "sa"},
                              flags : SUBSET {"RESETHAND", "NODEFER"}, mask : SUBSET SgSignals]
    BY <1>1, Zenon
  <2> HIDE DEF old
  <2>3. RestoredTo(old) = Disposition(s)
    <3>1. CASE t = "sa"
      <4>1. RestoredTo(old) = [h |-> "abort"]
        BY <2>2, <3>1, Zenon DEF RestoredTo
      <4>2. Disposition(s) = [h |-> "abort"]
        BY <1>4, <3>1, Zenon DEF Disposition
      <4> QED
        BY <4>1, <4>2, Zenon
    <3>2. CASE t # "sa"
      <4>1. t \in {"DFL", "IGN"}
        BY <1>1, <1>2, <3>2, Zenon
      <4>2. RestoredTo(old) = [h |-> old.h]
        BY <2>2, <4>1, Zenon DEF RestoredTo
      <4>3. Disposition(s) = [h |-> t]
        BY <3>2, Zenon DEF Disposition
      <4> QED
        BY <2>2, <4>2, <4>3, Zenon
    <3> QED
      BY <3>1, <3>2, Zenon
  <2> QED
    BY <1>1, <2>1, <2>2, <2>3, Zenon
<1> QED
  BY <1>3, <1>4, Zenon

\* sigtimedwait saves the dispositions of its set and ignores it.
LEMMA WaitBegins ==
  ASSUME SgInv, ~SgPlainWaits, NEW set \in SgSets, SigTimedWait(set)
  PROVE  SgInv' /\ NotFromWait
<1> DEFINE wait(at) == [kind |-> "wait", set |-> set, at |-> at,
                        saved |-> [s \in set |-> OldAction(s)],
                        was |-> [s \in set |-> Disposition(s)]]
           ign == [h |-> "ignore", flags |-> {}, mask |-> SgSignals]
<1>0. StackOk(sgStack, sgLocal) /\ Len(sgStack) \in Nat /\ set \subseteq SgSignals
      /\ Len(SgOrder) \in Nat
  BY StackIs, SgAssumption
<1>1. WaitsIn(sgStack) = {} /\ WaitSets(sgStack) = {}
  BY Zenon DEF SigTimedWait, Frames, WaitsIn, WaitSets
<1>2. \A s \in set : ~Mixed(s)
  BY Zenon DEF SigTimedWait
<1>3. ASSUME NEW at \in Nat \ {0} PROVE WaitOk(wait(at)) /\ wait(at).kind = "wait" /\ wait(at).set = set
  BY <1>0, <1>1, <1>2, SavedIs, Zenon DEF WaitOk
<1>4. /\ sgTable' = [s \in SgSignals |-> IF s \in set THEN "sa" ELSE sgTable[s]]
      /\ sgAction' = [s \in SgSignals |-> IF s \in set THEN ign ELSE sgAction[s]]
      /\ sgWas' = "none" /\ sgLocal' = sgLocal
  BY Zenon DEF SigTimedWait
<1>5. \/ sgStack' = Append(sgStack, wait(1))
      \/ sgStack' = sgStack \o <<wait(Len(SgOrder) + 1), PauseFrame(TRUE)>>
  BY Zenon DEF SigTimedWait
<1> HIDE DEF wait
<1>6. ASSUME NEW at \in Nat \ {0}
      PROVE  /\ StackOk(Append(sgStack, wait(at)), sgLocal)
             /\ WaitSets(Append(sgStack, wait(at))) = {set}
             /\ Len(Append(sgStack, wait(at))) >= Len(sgStack)
             /\ Len(Append(sgStack, wait(at))) \in Nat
  <2>1. /\ StackOk(Append(sgStack, wait(at)), sgLocal)
        /\ WaitSets(Append(sgStack, wait(at))) = {set}
        /\ Len(Append(sgStack, wait(at))) >= Len(sgStack)
    <3>1. MayPush(sgStack, sgLocal, wait(at))
      BY <1>0, <1>1, <1>3, Zenon DEF MayPush
    <3>2. Pushed(sgStack, sgLocal, wait(at))
      BY <3>1, PushedOther, Zenon
    <3> QED
      BY <1>3, <3>2, Zenon DEF Pushed
  <2> QED
    BY <2>1, LenIs, Zenon
<1>7. /\ StackOk(sgStack', sgLocal') /\ WaitSets(sgStack') = {set}
      /\ Len(sgStack') >= Len(sgStack) /\ Len(sgStack') \in Nat
  <2>1. CASE sgStack' = Append(sgStack, wait(1))
    <3>1. 1 \in Nat \ {0}
      OBVIOUS
    <3> QED BY <1>4, <1>6, <2>1, <3>1, Zenon
  <2>2. CASE sgStack' = sgStack \o <<wait(Len(SgOrder) + 1), PauseFrame(TRUE)>>
    <3> DEFINE f == wait(Len(SgOrder) + 1)
               g == PauseFrame(TRUE)
               st == Append(sgStack, f)
    <3>1. /\ StackOk(st, sgLocal) /\ WaitSets(st) = {set}
          /\ Len(st) >= Len(sgStack) /\ Len(st) \in Nat
      BY <1>0, <1>6
    <3>2. g.kind = "pause"
      BY Zenon DEF PauseFrame
    <3> HIDE DEF f, g
    <3>3. sgStack' = Append(st, g)
      <4> DEFINE F == Range(sgStack) \cup {f, g}
      <4>1. sgStack \in Seq(F) /\ f \in F /\ g \in F
        BY <1>0 DEF StackOk, IsSeq
      <4>2. sgStack' = sgStack \o <<f, g>>
        BY <2>2, Zenon DEF f, g
      <4> HIDE DEF F
      <4>3. Append(Append(sgStack, f), g) = sgStack \o <<f, g>>
        BY <4>1
      <4> QED
        BY <4>2, <4>3, Zenon
    <3> HIDE DEF st
    <3>4. /\ StackOk(Append(st, g), sgLocal) /\ WaitSets(Append(st, g)) = WaitSets(st)
          /\ Len(Append(st, g)) >= Len(st)
      <4>1. MayPush(st, sgLocal, g)
        BY <3>1, <3>2, Zenon DEF MayPush
      <4>2. Pushed(st, sgLocal, g)
        BY <4>1, PushedOther, Zenon
      <4> QED
        BY <3>2, <4>2, Zenon DEF Pushed
    <3>5. Len(Append(st, g)) \in Nat
      BY <3>4, LenIs, Zenon
    <3>6. PICK l \in Nat, m \in Nat, n \in Nat :
            l = Len(sgStack) /\ m = Len(st) /\ n = Len(Append(st, g))
      BY <1>0, <3>1, <3>5, Zenon
    <3>7. m >= l /\ n >= m
      BY <3>1, <3>4, <3>6, Zenon
    <3>8. n >= l
      BY <3>7
    <3> QED
      BY <1>4, <3>1, <3>3, <3>4, <3>5, <3>6, <3>8, Zenon
  <2> QED
    BY <1>5, <2>1, <2>2, Zenon
<1>8. ign \in SgAct /\ ign.h = "ignore"
  BY Zenon DEF SgAct
<1> HIDE DEF ign
<1>9. SgTypes'
  BY <1>4, <1>8, Zenon DEF SgInv, SgTypes
<1>10. Taking({set}, sgAction', sgWas')
  <2>1. \A s \in SgSignals : sgAction[s].h # "ignore"
    BY <1>1, Zenon DEF SgInv, Taking
  <2> QED
    BY <1>4, <2>1, Zenon DEF Taking
<1>11. SgInv'
  BY <1>7, <1>9, <1>10, Zenon DEF SgInv
<1> QED
  BY <1>7, <1>11, StackGrows, Zenon

\* sigtimedwait raises what was held back.
LEMMA WaitRaisesKeeps ==
  ASSUME SgInv, WaitRaises
  PROVE  SgInv' /\ NotFromWait
<1> DEFINE f == [Top(sgStack) EXCEPT !.at = @ + 1]
           st == Append(Popped(sgStack), f)
           s == SgOrder[Top(sgStack).at]
           c == Caller(sgBlocked \ {s}, sgBits, st)
<1>0. StackOk(sgStack, sgLocal) /\ Len(sgStack) \in Nat
  BY StackIs, Zenon
<1>1. sgStack # <<>> /\ Top(sgStack).kind = "wait" /\ Top(sgStack).at <= Len(SgOrder)
  BY Zenon DEF WaitRaises, TopIs
<1>2. WaitOk(Top(sgStack))
  BY <1>0, <1>1, PopOther, Zenon
<1>3. f.kind = "wait" /\ f.set = Top(sgStack).set /\ WaitOk(f)
  BY <1>1, <1>2 DEF WaitOk
<1>4. s \in SgSignals
  <2>1. Top(sgStack).at \in Nat \ {0}
    BY <1>2, Zenon DEF WaitOk
  <2>2. Top(sgStack).at \in 1..Len(SgOrder) /\ DOMAIN SgOrder = 1..Len(SgOrder)
    BY <1>1, <2>1, SgAssumption
  <2> QED BY <2>2, Zenon DEF SgSignals, Range
<1>5. \/ DoRaise(s, c)
      \/ sgStack' = st /\ UNCHANGED <<sgTable, sgAction, sgLocal, sgWas>>
  BY Zenon DEF WaitRaises, SetTop
<1>6. c.stack = st
  BY Zenon DEF Caller
<1> HIDE DEF f, c, s
<1>7. StackOk(st, sgLocal) /\ WaitSets(st) = WaitSets(sgStack) /\ Len(st) = Len(sgStack)
  BY <1>0, <1>1, <1>3, TopGoesOn
<1> HIDE DEF st
<1>8. CASE DoRaise(s, c)
  <2>1. StackOk(c.stack, sgLocal) /\ WaitSets(c.stack) = WaitSets(sgStack)
        /\ Len(c.stack) = Len(sgStack) /\ Len(c.stack) \in Nat
    BY <1>0, <1>6, <1>7, Zenon
  <2>2. SgInv' /\ Len(sgStack') >= Len(c.stack)
    BY <1>4, <1>8, <2>1, RaiseKeeps, Zenon
  <2>3. Len(sgStack') \in Nat
    BY <2>2, NextLen, Zenon
  <2> QED
    BY <2>1, <2>2, <2>3, StackGrows, Zenon
<1>9. CASE sgStack' = st /\ UNCHANGED <<sgTable, sgAction, sgLocal, sgWas>>
  <2>1. SgInv'
    BY <1>7, <1>9, StackKept, Zenon
  <2> QED
    BY <1>0, <1>7, <1>9, <2>1, StackGrows
<1> QED
  BY <1>5, <1>8, <1>9, Zenon

\* sigtimedwait puts back what it saved, which is what it found.
LEMMA WaitEnds ==
  ASSUME SgInv, WaitReturns
  PROVE  SgInv' /\ SgWaitsRestore
<1> DEFINE f == Top(sgStack)
<1>0. StackOk(sgStack, sgLocal)
  BY StackIs, Zenon
<1>1. sgStack # <<>> /\ f.kind = "wait"
  BY Zenon DEF WaitReturns, TopIs
<1>2. /\ sgTable' = [s \in SgSignals |-> IF s \in f.set THEN Installed(s, f.saved[s]) ELSE sgTable[s]]
      /\ sgAction' = [s \in SgSignals |-> IF s \in f.set THEN Recorded(s, f.saved[s]) ELSE sgAction[s]]
      /\ sgWas' = (IF sgWas = "ALRM" THEN "none" ELSE sgWas)
      /\ sgStack' = Popped(sgStack) /\ sgLocal' = sgLocal
  BY Zenon DEF WaitReturns
<1>3. /\ StackOk(sgStack', sgLocal') /\ WaitSets(sgStack') = {}
      /\ WaitSets(sgStack) = {f.set} /\ WaitOk(f)
  BY <1>0, <1>1, <1>2, PopOther, Zenon
<1> HIDE DEF f
<1>4. sgTable \in [SgSignals -> {"DFL", "IGN", "user", "sa"}] /\ sgAction \in [SgSignals -> SgAct]
  BY Zenon DEF SgInv, SgTypes
<1>5. ASSUME NEW s \in f.set
      PROVE  /\ s \in SgSignals /\ Recorded(s, f.saved[s]) \in SgAct
             /\ Installed(s, f.saved[s]) \in {"DFL", "IGN", "user", "sa"}
             /\ Recorded(s, f.saved[s]).h # "ignore" /\ Disposition(s)' = f.was[s]
  <2> DEFINE act == f.saved[s]
  <2>1. /\ s \in SgSignals /\ act.h \in {"DFL", "IGN", "user", "sa"}
        /\ act \in [h : {"DFL", "IGN", "user", "sa"},
                    flags : SUBSET {"RESETHAND", "NODEFER"}, mask : SUBSET SgSignals]
        /\ RestoredTo(act) = f.was[s]
    BY <1>3, Zenon DEF WaitOk
  <2>2. sgTable'[s] = Installed(s, act) /\ sgAction'[s] = Recorded(s, act)
    BY <1>2, <2>1, Zenon
  <2> HIDE DEF act
  <2>3. CASE act.h \in {"DFL", "IGN"}
    <3>1. Recorded(s, act) = [sgAction[s] EXCEPT !.h = "NULL"] /\ sgAction[s] \in SgAct
      BY <1>4, <2>1, <2>3, Zenon DEF Recorded
    <3>2. \A a \in SgAct : [a EXCEPT !.h = "NULL"] \in SgAct /\ [a EXCEPT !.h = "NULL"].h = "NULL"
      BY Zenon DEF SgAct
    <3>3. Installed(s, act) = act.h /\ act.h # "sa"
      BY <2>3, Zenon DEF Installed
    <3>4. Disposition(s)' = [h |-> act.h]
      <4>1. sgTable'[s] # "sa" /\ sgTable'[s] = act.h
        BY <2>2, <3>3, Zenon
      <4>2. Disposition(s)' = [h |-> sgTable'[s]]
        BY <4>1, Zenon DEF Disposition
      <4> QED
        BY <4>1, <4>2, Zenon
    <3>5. RestoredTo(act) = [h |-> act.h]
      BY <2>3, Zenon DEF RestoredTo
    <3> QED
      BY <2>1, <2>3, <3>1, <3>2, <3>3, <3>4, <3>5, Zenon DEF act
  <2>4. CASE act.h \notin {"DFL", "IGN"}
    <3>1. Recorded(s, act) = act /\ Installed(s, act) = "sa" /\ act.h \in {"user", "sa"}
      BY <2>1, <2>4, Zenon DEF Recorded, Installed
    <3>2. act \in SgAct
      BY <2>1, <3>1, Zenon DEF SgAct
    <3>3. Disposition(s)' = RestoredTo(act)
      BY <2>2, <3>1, Zenon DEF Disposition, RestoredTo
    <3> QED
      BY <2>1, <3>1, <3>2, <3>3, Zenon DEF act
  <2> QED
    BY <2>3, <2>4, Zenon
<1>6. SgTypes'
  <2>1. sgTable' \in [SgSignals -> {"DFL", "IGN", "user", "sa"}]
    BY <1>2, <1>4, <1>5, Zenon
  <2>2. sgAction' \in [SgSignals -> SgAct]
    BY <1>2, <1>4, <1>5, Zenon
  <2> QED
    BY <2>1, <2>2, Zenon DEF SgTypes
<1>7. Taking({}, sgAction', sgWas')
  <2>1. \A s \in SgSignals : sgAction[s].h = "ignore" => s \in f.set
    BY <1>3, Zenon DEF SgInv, Taking
  <2> QED
    BY <1>2, <1>5, <2>1, Zenon DEF Taking
<1>8. SgInv'
  BY <1>3, <1>6, <1>7, Zenon DEF SgInv
<1>9. sgWas' \in f.set \cup {"none"}
  BY <1>2, <1>3, Zenon DEF SgInv, Taking
<1>10. \A s \in f.set : Disposition(s)' = f.was[s]
  BY <1>5, Zenon
<1> QED
  BY <1>8, <1>9, <1>10, Zenon DEF SgWaitsRestore, f

-------------------------------------------------------------------------------
\* No call is under way at first.
LEMMA SgInitial ==
  ASSUME SgInit
  PROVE  SgInv
<1>1. sgStack = <<>> /\ sgLocal = {} /\ DOMAIN sgStack = {} /\ sgStack \in Seq({})
  BY DEF SgInit
<1>2. IsSeq(sgStack)
  BY <1>1, IsASequence, Zenon
<1>3. WaitsIn(sgStack) = {} /\ HandlersIn(sgStack) = {} /\ WaitSets(sgStack) = {}
  BY <1>1, Zenon DEF WaitsIn, HandlersIn, WaitSets
<1>4. StackOk(sgStack, sgLocal)
  BY <1>1, <1>2, <1>3, Zenon DEF StackOk, FramesOk, OneWait, Nested
<1>5. NoAction \in SgAct /\ NoAction.h = "NULL" /\ [NoAction EXCEPT !.h = "user"] \in SgAct
      /\ [NoAction EXCEPT !.h = "user"].h = "user"
  BY Zenon DEF NoAction, SgAct
<1>6. /\ sgTable \in [SgSignals -> {"DFL", "user", "sa"}]
      /\ sgAction = [s \in SgSignals |-> IF sgTable[s] = "sa" THEN [NoAction EXCEPT !.h = "user"]
                                         ELSE NoAction]
  BY Zenon DEF SgInit
<1>7. SgTypes /\ \A s \in SgSignals : sgAction[s].h # "ignore"
  BY <1>5, <1>6, Zenon DEF SgTypes
<1> QED
  BY <1>3, <1>4, <1>7, Zenon DEF SgInv, Taking

\* Every step of signals.
LEMMA SgStep ==
  ASSUME SgInv, ~SgPlainWaits, SgJumpsFrom \subseteq SgBreaks, [SgNext]_sgVars
  PROVE  SgInv' /\ SgWaitsRestore
<1>0. NotFromWait => SgWaitsRestore
  BY Zenon DEF NotFromWait, SgWaitsRestore
<1>1. ASSUME NEW s \in SgSignals,
             \/ Raise(s)
             \/ \E h \in {"DFL", "IGN", "user"} : Signal(s, h)
             \/ \E act \in SgActions : SigAction(s, act)
      PROVE  SgInv' /\ SgWaitsRestore
  BY <1>0, <1>1, CallsKeep, InstallKeeps, StackSame, Zenon
<1>2. CASE \E how \in {"BLOCK", "UNBLOCK", "SETMASK"}, set \in SgSets : SigProcMask(how, set)
  BY <1>0, <1>2, OthersKeep, Zenon
<1>3. CASE \/ \E suspend \in BOOLEAN, mask \in SgSets : SigSuspend(suspend, mask)
           \/ PauseClear \/ PauseReturns \/ \E timer \in BOOLEAN : PauseWake(timer)
  BY <1>0, <1>3, PausesKeep, Zenon
<1>4. CASE \E set \in SgSets : SigTimedWait(set)
  BY <1>0, <1>4, WaitBegins, Zenon
<1>5. CASE HandlerReturns
  BY <1>0, <1>5, HandlerReturnsKeeps, Zenon
<1>6. CASE CheckAbort
  BY <1>0, <1>6, SgAssumption, CallsKeep, Zenon
<1>7. CASE CtrlC \/ SigSetJmp \/ \E saved \in BOOLEAN : SigLongJmp(saved)
  BY <1>0, <1>7, OthersKeep, Zenon
<1>8. CASE WaitRaises
  BY <1>0, <1>8, WaitRaisesKeeps, Zenon
<1>9. CASE WaitReturns
  BY <1>9, WaitEnds, Zenon
<1>10. CASE UNCHANGED sgVars
  BY <1>0, <1>10, MasksKeep, StackSame, Zenon DEF sgVars
<1> QED
  BY <1>1, <1>2, <1>3, <1>4, <1>5, <1>6, <1>7, <1>8, <1>9, <1>10, Zenon DEF SgNext

\* What the invariant says of handlers on the stack.
LEMMA SgInvNested ==
  ASSUME SgInv
  PROVE  SgNested
  BY Zenon DEF SgInv, StackOk, Nested, HandlersIn, SgNested, Handlers, Frames

(* In a program that waits for no signal that has a handler from signal, and  *)
(* leaves no handler by siglongjmp but those of SIGINT, SIGTERM and SIGKILL:  *)
(* however raises, handlers, masks, pauses and waits nest, no other handler   *)
(* is entered again before it has returned, a signal is held back by raise    *)
(* just while its handler runs, and a wait answers with a signal of its set   *)
(* and puts back what it found.                                               *)
THEOREM SignalsAreSound ==
  ASSUME ~SgPlainWaits, SgJumpsFrom \subseteq SgBreaks
  PROVE  SgSpec => SgSound
<1>1. SgInit => SgInv
  BY SgInitial, Zenon
<1>2. SgInv /\ [SgNext]_sgVars => SgInv' /\ SgWaitsRestore
  BY SgStep, Zenon
<1>3. SgInv => SgNested
  BY SgInvNested, Zenon
<1> QED
  BY <1>1, <1>2, <1>3, PTL DEF SgSpec, SgSound
=============================================================================
