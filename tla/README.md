# TLA+ models of clib4

clib4 is a C runtime library for AmigaOS 4. Most of it (mathematics, strings,
formatted output) is sequential and stateless. The parts that are hard to test
are those where several tasks share state, or where a long sequence of legal
calls has to keep a data structure intact: the pthread library, System V
interprocess communication, asynchronous I/O, record locks, the tables and
buffers behind stdio, child processes, interval timers, the heap and its
containers. This directory models these, checks the models with TLC and proves with
TLAPS the safety properties of all of them but asynchronous I/O, streams, the heap
and its containers.

## 1. The system

### 1.1 The parts with shared state

| Part | Code (under `src/library`) | Module |
|---|---|---|
| condition variables, cancellation of waits | `pthread/pthread.c`, `pthread_cond_*.c`, `pthread_cancel.c` | `CondVar` |
| barriers | `pthread/pthread_barrier_*.c` | `Barrier`, `AbstractBarrier` |
| POSIX semaphores | `pthread/semaphore.c` | `PosixSem` |
| threads | `pthread/pthread_create.c`, `_exit.c`, `_join.c`, `_detach.c`, `pthread.c` | `ThreadLife` |
| mutexes | `pthread/pthread_mutex_*.c` | `Mutex` |
| read-write locks | `pthread/pthread_rwlock_*.c`, `pthread.c` | `RWLock` |
| once and spin locks | `pthread/pthread_once.c`, `pthread_spin_*.c` | `Once` |
| thread-specific data | `pthread/pthread_key_*.c`, `_setspecific.c`, `pthread_create.c` | `TlsKeys` |
| System V semaphores | `posix/sysv_sem*.c`, `sysv_idkey.c` | `SysVSem`, `AbstractSemSet` |
| System V messages | `posix/sysv_msg*.c` | `SysVMsg` |
| System V shared memory and key maps | `posix/sysv_shm*.c`, `sysv_idkey.c` | `SysVShm` |
| the heap | `wmem/wmem_allocator_block.c`, `stdlib/malloc.c` ... | `WmemBlock` |
| red-black and interval trees | `wmem/wmem_tree.c`, `wmem_interval_tree.c` | `WmemTree` |
| the hash map | `misc/map.c` | `HashMap` |
| asynchronous I/O | `rt/*.c` | `AioQueue` |
| descriptor table | `stdio/*fd*.c`, `fcntl/open.c`, `close.c`, `unistd/dup*.c` | `FdTable`, `AbstractFds` |
| record locks | `stdio/record_locking.c`, `fcntl/fcntl.c` | `RecordLock` |
| streams | `stdio/f*.c`, `*iob*buffer.c`, `setvbuf.c`, `ungetc.c` | `Stream`, `AbstractStream` |
| child processes | `misc/children.c`, `wait/waitpid.c` | `ChildProcs` |
| interval timers | `time/setitimer.c`, `alarm.c`, `ualarm.c` | `ITimer` |
| signals | `posix/raise.c`, `sig*.c`, `kill.c`, `unistd/pause.c`, `setjmp/sig*.c` | `Signals` |

`PROJECT.json` lists these and the remaining parts with the reason each of the
latter is left out (section 5).

### 1.2 How they interact

The mutex, the condition and the task signals are the base. Barriers and
semaphores are clients of `pthread_mutex_lock` and `_pthread_cond_timedwait` and
inherit what those do about spurious wake-ups, deadlines and cancellation. The
modules follow that: `Barrier` and `PosixSem` EXTEND `CondVar` and conjoin its
actions with their own control state. `AioQueue` uses the mutex and the
condition as they are promised, a passage through `__aio_requests_mutex` being
one step. The thread table, the read-write locks and the System V facilities use
exec's own semaphores and signals, so they stand by themselves. `FdTable` and
`RecordLock` meet in the lock marks of descriptors: `FdTable` says which close
must clean up, `RecordLock` what the clean-up does to the regions of several
processes. `ChildProcs` keeps its children in a hash map, whose entries move;
`HashMap` shows that they are never lost by that, `ChildProcs` what becomes of
a pointer that is kept across a move.

## 2. The modules

A module has the state of one object as its variables, an action for every
operation or for every step of one that other tasks can see, and its properties
at the end. Just before a definition `X` that is mutated stands its mutant
`X_something`. Each call of the code that runs under one lock is one step. A
bound on the model only (calls made, objects created) is a CONSTANT commented
"bound".

### 2.1 CondVar

One initialised mutex of the default kind, one condition, the threads using them.

| Variable | Code |
|---|---|
| `owner`, `incond` | owner of `mutex->mutex`, `mutex->incond` |
| `waiters` | `cond->waiters`; a node is its thread's local variable, so the list is a sequence of threads |
| `cpc` | where a thread is in `_pthread_cond_timedwait` |
| `sigs`, `got`, `sigbit` | pending signal bits, the result of `Wait()`, `waiter.sigbit` |
| `timer` | the TimeRequest: not used, armed, never to fire, fired |
| `canceled`, `cancelEnabled` | `inf->canceled`, `inf->cancelstate` |

The wait is cut where the code can be interrupted with visible effect:

| Action | Lines of `pthread.c` |
|---|---|
| `CondEnqueue` | 159-224: deadline to timer, signal bit, AddTail |
| `CondRelease` | 226-228: `incond++`, unlock |
| `CondWake` | 229: `Wait()` consumes the bits of its mask |
| `CondRelock` | 230-231: lock, `incond--` |
| `CondReturnTimedOut`, `CondReturnOk`, `CondReturnCanceled` | 233-261: Remove, FreeSignal, CloseTimerDevice, and the answer |

The list is only touched under `cond->semaphore`, one step each. The mutex
`pthread_cond_signal` does not need is not required of its caller.
`AllocSignal` may fail (`SigBits`): the fallback bit is used with whatever state
it has, because `SetSignal(SIGF_COND_FALLBACK, 0)` changes nothing. Deadlines
are kinds, not numbers: what the conversion at lines 193-206 makes of each kind
is `TimerOf`. A deadline in the past gives a negative difference that is stored
unsigned, a CLOCK_REALTIME deadline is compared with the uptime, and the
relative wait sends a TimeRequest whose time was never set.

### 2.2 AbstractBarrier and Barrier

`Barrier` is `pthread_barrier_wait` line by line on top of `CondVar`, plus
destroy in two steps (test of the height under the lock; destruction of
condition and mutex after it). `AbstractBarrier` has no lock, counter or
condition, only the set of threads waiting and whether they may leave.
`ImplementsBarrier` is the refinement, with `waiting <- Filling` (the threads
counted in and not out) and `open <- total > Flag`. A client destroys a barrier
only when no thread is blocked in it and calls it no more after that, as POSIX
asks; threads of the completed round may still be inside.

### 2.3 PosixSem

The value, `waiters_count` and the operations of an unnamed semaphore on top of
`CondVar`. `abstime` is the caller's deadline, which stays the same when the
loop at line 205 waits again; `held` counts the tokens a thread has taken less
those it has posted, and `Credit` bounds the posts beyond them. `sem_getvalue`
changes nothing and is left out; it answers `-waiters_count`, which may be 0,
whenever another thread has the semaphore's lock.

### 2.4 ThreadLife

`threads[]` with a small number of slots, the processes, and for each process
its place in the code. `CreatePick` finds a slot under `thread_sem`,
`CreateFill` writes the ThreadInfo, `CreateProc` starts the process, which may
run at once, and `CreateStore` stores the task pointer, which is what makes the
slot taken. A full table is answered with EAGAIN; the code then releases
`thread_sem` once more, which exec is taken to ignore. The end of a thread is
`Destructors`, `EndCheck` and then, for a joinable one, `EndNotify`, which is one step
from `Forbid()` to the end of the process. A detached thread has no `Forbid()`: it
clears its slot (`EndClear`) and has its last instructions still to go (`Leave`).
`__pthread_exit_func` frees `thread_sem` and `tls_sem` before it waits (`ExitCall`), so
whoever locks or releases one after that may stop there (`Crash`) or go on. `ids` are
the identifiers a client may still join or detach: each is used once. TLS is one value per
thread, of a key with a destructor; `owesTls` is a ghost that remembers that the
value has not been seen by a destructor. A thread that calls `pthread_exit`
before its creator has stored its task takes itself for thread 0 and jumps to
main's `jmp_buf`; the model calls it "lost" and follows it no further.

### 2.5 Mutex, RWLock, Once, TlsKeys

`Mutex` is one `pthread_mutex_t` of any kind. The exec mutexes behind it are
numbered in the order of their creation (`mxMade`, `mxLive`, `mxOwner`,
`mxNest`), and `mxPtr` is `mutex->mutex`. Every exec call of the code is a step,
so that a thread may read `mutex->mutex` in one and use it in another
(`mxArg`): `LazyInit` and the two actions after it are the first use of a static
mutex, `LockAttempt`, `LockUnattempt`, `LockObtain`, `LockReturn` are the lock of
an error-checking mutex, which tries, gives back and then obtains.
`MutexTimedlock` has the one TimeRequest of the process, whose replies only
reach the main task. The threads that call it (`MxTimed`), a call on a static mutex that
was never used (it creates none) and one while the request is out (`MxTimedUses`) are
parameters, because the code serves only the main task with a created mutex and the
request at home (3.1). `DestroyBusy`, `MutexDestroy`, `DestroyRelease` and
`DestroyFree` are destroy.

`RWLock` is a read-write lock over one SignalSemaphore. `RwFirst` and `RwCreate` are
the first use of a static lock, which finds no semaphore and makes one; with `RwRaces`
another thread may do the same in between. The semaphore is
external: `Queued`, `Served` and `Vacated` are its bids that wait (a set: the model
does not say which of them a release serves first), what a release grants, and
Vacate. `RwTimedLock`, `RwProcure`, `RwPort` and `RwDecide` are
`_pthread_obtain_sema_timed`: the timer's message and the answer to the bid
arrive at one port in either order.

`Once` has the three fields of `pthread_once_t`, the spin lock being the third;
`OnceRoutine`, `OnceCancel` and `OnceDone` are the routine and its two ends.

`TlsKeys` has the key table and the values of all threads. A value is the
number of the key creation it was set for, so that a destructor that sees a
value of an earlier use of its key can be told. `ExitLock` to `ExitScanned` are
the loop of StarterFunc, under `tls_sem`; a destructor may set values again.

### 2.6 SysVSem, AbstractSemSet, SysVMsg, SysVShm

`SysVSem` is one semaphore set. `semop` goes through `SemopLookup` (the map's
lock, then the set's), `SemopCheck` (the loop that finds the first operation
that cannot be done), `SemopApply` (the second loop, with SEM_UNDO and the
wake-ups; a value after so many turns is the sum of the operations up to there) and `SemopSuspend` (the counts and the sleep); after a sleep it starts
over. `SemSetVal`, `SemSetAll`, `SemRemove` are `semctl`. A process ends with
`ProcessExit`. `AbstractSemSet` has only the values, changed by a whole vector of
operations or not at all; `SvAtomic` is the refinement.

`SysVMsg` is one message queue. `MsgSend` and `MsgReceive` are a passage under
the locks each, including the search by type and the wake-up of the other side.
The size is counted modulo `MqSizeMod`, since the room left is an unsigned
difference. `SysVShm` is the key map with the segments in it: keys and slots,
the quota, the attachments of the processes and the mark of IPC_RMID. A segment is
memory that its creator got from malloc (`shmOwner`), and `ShmExit` is the end of a
process, which destroys its heap and detaches nothing. That `shm_destroy` hands that
memory to FreeVec and not to free is left out.

### 2.7 WmemBlock, WmemTree, HashMap

`WmemBlock` is the allocator behind `malloc`. The record `wb` is the allocator
and its memory: the headers of all chunks by address, the pointers that free
chunks hold, the top of the master stack, the head of the recycler, the block
list and the blocks of the operating system. The helpers keep the names of the
code's functions (`CycleRecycler`, `PushMaster`, `PopMaster`, `MergeFree`,
`SplitFree`, `SplitUsed`, `AllocJumbo`, ...) and map one such record to the
next. Addresses are words of 4 bytes. Header and alignment sizes are those of
the target, only the block size is a parameter. `WbListsExact` is what the lists
of `verify_master_list` and `verify_recycler` should be, with the size of an unused block
as `init_block` sets it; the assertion of the first on that size is `WbMasterAssert`
(3.1).

`WmemTree` is the red-black tree, with parent and child pointers as functions:
`rb_insert_case1` to `rb_insert_case5`, the six cases of the removal
(`Rebalance`), the three searches, and on top of it string keys and the interval
tree with `max_edge`. `HashMap` is `map.c`, bucket by bucket: `Place` is the loop of
`hashmap_set`, `ShiftBack` that of `hashmap_delete`, `Rehash` the resizing. Both
keep beside the structure the plain dictionary it stands for (`wtDict`,
`hmDict`), which is the reference its answers are compared with.

### 2.8 AioQueue

The record `aio` is what `__aio_requests_mutex` guards: the queue of each
descriptor by priority, the run list, the pool of request elements, the counts of
threads and idle threads, the waiters registered with each request. A passage
through the mutex is one step: `AioSubmit`, `AioCancel`, `AioCancelAll`,
`AioSuspend` with `AioSuspendReturn`, `Lio` with `LioReturn`, and for a helper
thread `WorkerStep` (take a request, or look for another, or wait for one, or
time out) and `WorkerIO` (the transfer, outside the mutex; what it returns is not told
apart).

### 2.9 FdTable, RecordLock, Stream

`FdTable` is `__fd[]`. An entry is an original or an alias; `orig` and `next` are
`fd_Original` and `fd_NextAlias`. `OpenPick` is the search for a vacant entry
(growing the table), `OpenDone` and `OpenFails` what follows the file system's
answer. `Migrated` moves an original to its first alias. `Chain` is the set of entries on an
alias list, the closure of `next`. `AbstractFds` is a
function from descriptors to files; `FdImplements` says that the aliases amount
to it and that a file is closed with its last descriptor. That the file system's
`Close()` may fail, after which the entry is cleared all the same, is left out.

`RecordLock` is the list of regions of one file, used by several processes, as
`fcntl` keeps it. It is a set, since every search that changes the list visits all of
it: `SetLk`, `SetLkWait` with `Poll` (it polls), `Unlock`, which removes
regions that are the same as its own and splits none, `CloseFd` and `RlExit` with the clean-up. The lock node lives in the
memory of the process that locked first (`rlNode`). Whoever removes the last region
frees the node through their own heap (`record_locking.c:207`); that this need not be the
heap it came from is left out.

`Stream` is one `struct iob` over a file open for update. `st` has the buffer, its
position and the counts of bytes read and to be written, all as in the code; the
file system is the string `stDisk` and may fail at any call, or take less than it is
given (`StFaults`). `Sought` is the seek of the descriptor layer: a position before the file
is taken for its beginning, and one behind its end is an error or, with
`__unix_path_semantics`, makes the file longer.
`AbstractStream` has a file, a position and whether it is open. `StImplements` is the
refinement: the file with what is still in the buffer is what the calls report written,
each read returns what is at the position, and nothing happens after fclose.

### 2.10 ChildProcs, ITimer

`ChildProcs` is a parent, its children and the table of them, which nothing locks. The
hooks of a child are two steps each: `insertSpawnedChildren` begins the insertion
and `spawnedProcessEnter` completes it, `spawnedProcessExit` finds the entry (`chHook`)
and `StoreCode` writes through the pointer. They and the end of the process
(`ChildGone`) fall anywhere into a `waitpid`. With `ChOverlaps` a call on the table may fall into
another one; an insertion or a removal then moves entries under pointers, and two
insertions may leave one entry. What else overlapping calls leave in the map is not
modelled. `waitpid` of one
child keeps a pointer into the table while it waits (`chWait.item`); of any child or
of a group it waits for SIGF_CHILD and walks the table entry by entry
(`ScanEntry`).

`ITimer` has the timer tasks of a process, at most one per thread. A task clears
its signals and sends its request (`TaskSend`), waits, and then leaves, takes a
new value, or raises SIGALRM; the thread that stops it repeats CTRL_F until the
process is gone (`KillSignal`, `KillDone`). Times are left out: a request is out
or done.

### 2.11 Signals

A signal is delivered by calling its handler from `raise`, so `sgStack` is a
stack of calls: handlers of the program, installed by `signal` ("plain") or called
by `sigaction_handler` ("sa", with the mask it will put back), `pause` with
the mask of `sigsuspend`, and `sigtimedwait` with the handlers it has saved. Whatever
is on top goes on; a handler of the program may make any call. `DoRaise` is
`raise` up to the first instruction of such a handler, by what it finds:
the signal held back by one of the two masks, ignored, defaulted, a plain handler,
an action, no action (`abort`), or `ignore_signal`, which is in place while
`sigtimedwait` runs. `HandlerReturns` is the rest of `sigaction_handler` and
of `raise`. Only CTRL_C arrives from outside, as a bit that `pause` and the
library's checks look at, so the other calls are one step each. The calls of
`sigwait` are those of `sigwaitinfo`, repeated.

## 3. What TLC checks

Modules that ask similar questions share a run: a selector variable (`use`,
`object`, `facility`, `layer`) is chosen in the initial state, and the behaviour
is about that one object while the others rest. The properties of each module
then hold or fail by its own behaviours.

| Run | Module, instance | States | What it shows |
|---|---|---|---|
| `cond_safety` | `MCCondVar`: 3 threads, untimed waits, Ctrl-C and cancellation | 302,904 | list, mutex, `incond`, destroy and cancellation on every way out of a wait |
| `cond_live` | `MCCondVar`: 2 threads, both signal bits, untimed and future deadlines | 308 thousand | a signal is not lost, a timed wait ends |
| `cond_cancel_timed` | `MCCondVar`: 2 threads, timed waits, cancellation | | **violated**: a timed wait forgets a pending request |
| `sync` | `MCSync`: barrier of 3 with 3 threads; semaphore as a lock of 3; semaphore counting for 2, with deadlines | 124,841 | counter, refinement, destroy and progress of barriers; tokens and waiters are counted exactly, nobody is stranded |
| `sem_count` | `PosixSem`: 3 threads, from value 0, two posts beyond the tokens held | | **violated**: two posts wake one thread |
| `thread_life` | `MCThreadLife`: main and 3 processes over 2 slots, joined or detached, until the program ends; 2 children; 2 threads with timers | 159,960 | slots, TLS, end of program, join and exit return; children are collected once and with their status; stopped timers are gone, others go off |
| `thread_create_race` | `ThreadLife`: two creators | | **violated**: both get the same slot |
| `thread_tls_exit` | `ThreadLife`: `pthread_exit` and a joiner | | **violated**: the joiner wipes TLS values before the destructors run |
| `locks` | `MCLocks`: mutexes, read-write locks and once with 3 threads, keys with 2; SIGINT and SIGALRM, 3 calls after the handlers are installed, with the set of both and that of SIGINT | 261,168 | exclusion, counts, nobody waits for a bid, a routine or a timer that does not come; handlers are not re-entered, no signal stays held back, sigwaitinfo puts handlers back |
| `ipc_heap` | `MCIpcHeap`: 3 processes on a set or a queue, 2 on segments; heap of 2 blocks; trees of 9 keys, 5 strings, 5 intervals; map of 6 keys | 103,611 | atomic semop, order and limits of queues, attached memory stays; heap, trees and map keep their invariants and contents |
| `files` | `MCFiles`: 4 requests, 3 helper threads; table of 4 descriptors; 2 processes with record locks; stream with a buffer of 2 bytes | 56,545 | requests complete once and in order; refinement of descriptors and of the stream; locks never conflict |
| `stream_update` | `MCStream` | | **violated**: fwrite after fread and fseek lands elsewhere |

Several invariants of one module are checked under one name: `CondSound`
(types, `IncondExact`, `MutexHeld`, `DestroyIsSafe`), `CondWaitsReturn`,
`BarrierSound`, `BarrierProgress`, `SemSound`, `ThreadSound`, `ThreadsEnd`,
`MxSound`, `RwSound`, `OnceSafe`, `LocksReturn`, `SvSound`, `SvEffects`,
`SvProgress`, `MqSound`, `ShmSound`, `WbHeapSound`, `TablesSound`,
`SgSound`, `ItProgress`, `AioSound`, `AioProgress`, `FdSound`, `RlSound`, `StSound`. Each of
their conjuncts has a definition and a comment of its own in its module.

**Bounds.** Three threads are a signaller and two waiters, the least with which a
signal can go to the wrong waiter; two suffice for a signal that comes early.
A barrier of three has an early thread, a leaving one and one still asleep at
once. Three processes over two slots make the table full and slots be reused.
A value limit of 1 reaches EOVERFLOW. Three lockers let a bid be granted, time
out and wait behind another. Two semaphores and three processes give a vector
that blocks on its second operation while a third process changes the first.
A queue of 2 or 3 bytes is full and empty with messages of 1 and 2. The heap
has blocks of 40 words and requests of 1, 6 and 50, which are chunks too small
for a free list, chunks that split, and jumbo blocks. Nine keys make a
red-black tree of height 4, where every case of insertion and removal occurs.
The hash map starts with 4 buckets and not 16, so that six keys make it grow
and shrink, wrap around and displace. Two helper threads with three identities
let one end and another begin. A buffer of 2 bytes with a file of 3 is filled,
refilled, flushed and bypassed. Two signals are one that `raise` protects from
recursion and one that it does not; three calls block, raise and wait for a signal,
and in a wait for SIGINT alone the handler of SIGALRM runs. The liveness runs use no symmetry.

Larger instances were checked once and are not kept as runs, because they take
longer than the others or add no case: the heap with blocks of 52 words
(1,537,127 states), `ChildProcs` with three children (177,023 states), `WmemTree`
with 10 keys, 6 strings and 6 intervals (23,611 states), `Signals` with three
signals and 4 calls from SIG_DFL (2,029,066 states), with two and 5 calls
(6,444,000 states), and with two and 4 calls after the handlers are installed
(1,058,439 states). None of them shows an
error.

**Deadlock.** It is not checked, because every one of these systems may stop. The
threads of a program may all sit in a wait for a signal that no client
sends, a process may sleep in semop for ever, and a program is over when
`__pthread_exit_func` has returned. Where a task has a right to go on, a
liveness property says so.

**Fairness.** A task inside the library runs on (weak fairness of its steps).
exec gives a mutex to the tasks that queue for it in order, so the relock of a
condition wait and the steps of semop, msgsnd and msgrcv are strongly fair: they
are enabled again and again while others lock and unlock. An armed timer
expires. The loop that stops a timer task repeats its signal every 10 ticks until the
task is gone, and the task waits for most of its life: that the signal finds it
waiting is strongly fair. A helper thread that has a request works on it and a
process that polls for a record lock polls again; no fairness is assumed for an
idle helper's timeout. A client unlocks a mutex it has locked, and a
thread's function returns. Nothing is assumed of whether clients call.

**Assumptions on clients.** Constants of the models switch off behaviours that
break a property; what happens with them is told below.

| Run | Constants and what they leave out |
|---|---|
| `thread_life` | `Creators`, `Joiners`: one task creates and joins. `ExitsEarly = FALSE`: main ends when its threads have started. Threads that are joined return and do not call `pthread_exit`. `DetachesLate` in `MCThreadLife`: where threads are joined or the program ends, a thread is detached when it is created or by itself before the end of the program. `ChOverlaps = FALSE`: no task changes the table of children inside another's call on it or while another holds a pointer into it. `ItNoMemory = FALSE`: there is memory for a TimerNode. `ItRearms = FALSE`: a timer is not set again after it has gone off |
| `locks` | `MxRaces = FALSE`: the first use of a static mutex and a destroy are made by one thread alone. `MxDeadlines = {"amiga"}`. `MxTimed`, `MxTimedUses = {}`: only the main task calls `pthread_mutex_timedlock`, on a mutex that has been used or initialised, and not again before its last request came back. `RwRaces = FALSE`: as for mutexes. `TkStaleDelete = FALSE`: only keys without values are deleted. `SgPlainWaits = FALSE`: a program waits only for signals whose handlers were set by sigaction, or not at all. `SgJumpsFrom = {"INT"}`: only handlers of SIGINT are left by siglongjmp. Handlers do not wait for signals |
| `ipc_heap` | `SvBusyCtl`, `MqBusyCtl = FALSE`: semctl and IPC_SET are not called while an operation is under way. `SvDirtyExit = FALSE`: a process ends when its adjustments are zero. `ShmExits = {}`: it ends after it has detached its segments and those it made are gone. `WbGrowJumbo = FALSE` |
| `files` | `AioCancelHead = FALSE`: a request at the head of a longer queue is not cancelled. `FdThreads = {t1}`, `FdUses = {}`, `StUses = {}`, `RlExits = FALSE`. `StFaults` has no "late" and no "quiet": a seek that fails has not moved |

### 3.1 Where the code and its comments disagree

The five violation runs:

* `cond_cancel_timed`: `pthread_cancel` sends CTRL_C "for the timed waits"; the
  timed wait starts with `SetSignal(0, sigs)`, CTRL_C included.
* `sem_count`: the node of a signalled thread stays first in the list until the
  thread runs, so a second `sem_post` signals the same thread. The other waiter
  sleeps on with a token there until the next post. POSIX.md calls semaphores
  complete.
* `thread_create_race`: "grab an empty thread slot" finds the slot under
  `thread_sem`, and the slot becomes non-empty after that.
* `thread_tls_exit`: `pthread_exit` sets DESTRUCT before StarterFunc comes to
  "destroy all non-NULL TLS key values".
* `stream_update`: `fseek` prefers to adjust the buffer position, and `fwrite`,
  unlike `fputc`, does not drop the bytes read ahead; the data lands behind
  them. `test_programs/io/iotest.c` changes over from reading to writing this way.

Further disagreements that TLC shows when a constant of a run is changed, and
that no run of this directory keeps:

| Change | Violated | Why |
|---|---|---|
| `ExitsEarly = TRUE` | `ExitWaits` | `__pthread_exit_func` joins RUNNING threads only, and a thread is IDLE until it has started ("we can easily end up with unloaded code being executed", `pthread.c:360`) |
| `ExitWaitsForAll` as an invariant | itself | the same comment: a detached thread clears its slot, which lets `__pthread_exit_func` return, before its last instructions |
| `~DetachesLate` dropped from use "join" of `MCThreadLife` | `ThreadsEnd` | a thread that is detached while it is joined, or after it was found joinable in `__pthread_exit_func`, clears its slot and signals nobody |
| `Deadlines = {"realtime"}` or `{"past"}` | `TimedWaitReturns` | the deadline is compared with the uptime, a negative difference is stored unsigned; `test_programs/threads/pthread_cond_timewait.c` uses CLOCK_REALTIME |
| `MxDeadlines = {"unix"}` | `MxTimedReturns` | timer.device counts from 1978, the deadline of `test_programs/threads/timedlock.c` from 1970 |
| `MxRaces = TRUE` | `MxExclusive` | two first users of a static mutex allocate one each |
| `RwRaces = TRUE` | `RwSound` | two first users of a static read-write lock initialise it one after the other, the second while the first holds it |
| `MxTimed` with a created thread | `LocksReturn` | the reply port of the one TimeRequest signals the main task; `test_programs/threads/timedlock.c` calls `pthread_mutex_timedlock` from the threads it creates |
| `MxTimedUses = {"static"}`; `{"resend"}` | `MxSound`; `LocksReturn` | `pthread_mutex_timedlock` creates no static mutex and passes on NULL; it sends the request again while it is out (`pthread_mutex_timedlock.c:57-62`) |
| `TkStaleDelete = TRUE` | `KeyOwnValues` | `pthread_key_delete` leaves the values of all threads, and the next key with that number has them |
| `SvDirtyExit = TRUE` | `SvUndoBalanced` | "Operations are undone when the interface is dropped." (`ipc_headers.h:35`); `libClose` frees the UndoInfo and applies nothing |
| `MqRemovedReturns` as a property | itself | `sysv_msgctl.c:65` sets `qi` to 0 on IPC_RMID and line 70 releases `qi->Lock` |
| `ShmExits = {"creator"}`; `{"attached"}` | `ShmSound` | a segment is in the heap of its creator (`sysv_shmget.c:50`), which goes at its exit (`malloc.c:70`); nothing detaches for a process that ends |
| `AioCancelHead = TRUE` | `AioRunnableListed` | `aio_misc.c:223` marks the next request as runnable and does not put it on the run list |
| `FdUses = {"dup2own"}` | `FdDupMatches` | dup2 over the original of its own first argument closes what it is about to copy |
| `FdUses = {"dupdir"}` | `FdImplements` | closing a directory never looks for aliases: the lock is given up while a duplicate names it |
| `FdThreads` of two | `FdPickExclusive` | open marks its entry as used only after the file system has answered |
| `RlExits = TRUE` | `RlNodesAlive` | the node of a file is freed with the process that made it |
| `StUses` with `fullfwrite` (and `StMaxFile = 4`), `nonefread`, `ungetother` or `shortflush` | `StImplements` | fwrite on a full buffer takes a byte too many from the caller's data; fread after fgetc on an unbuffered stream; a character pushed back replaces the byte in the buffer and is read again after a seek; a flush of which the file system takes a part drops the rest (`flushiobwritebuffer.c:42`) |
| `StUses = {"vbuffail"}` | `StSound` | a setvbuf that cannot flush frees the buffer in use and leaves the stream with it |
| `StFaults` with `late` or `quiet` | `StImplements` | a seek that has moved the file and fails after that; one to the end or before the beginning whose failure is not looked at (`fdhookentry.c:490`, `:499`) |
| `WbGrowJumbo = TRUE` | `WbOwnership` | the old size of a jumbo block is computed from `chunk->len`, which is 0 for it |
| `WbMasterAssert` as an invariant | itself | `verify_master_list` asserts that the chunks below the top of the master stack have the length of a block (`wmem_allocator_block.c:286`); `init_block` gives them that length less the header of the block (`:760`) |
| `WtLows = 1..8`, `WtWide = {9}` | `WtIntervals` | "In an augmented interval tree, each node saves the maximum edge of its child subtrees" (`wmem_interval_tree.c:44`); after a rotation a node whose children are right already stops the update, and the node that went up keeps a `max_edge` that is too small |
| `ChOverlaps = TRUE` | `ChSound` | an insertion moves the entries of the table while waitpid or an exit hook holds a pointer to one |
| `ItNoMemory = TRUE` | `ItSound` | without memory for the node CTRL_F is sent once, before the task looks for it |
| `SgPlainWaits = TRUE` | `SgWaitsRestore` | "we must restore all handlers" (`sigtimedwait.c:123`); sigaction reports a handler set by signal as a one-shot action, which is what is put back: after its next call `sigaction_handler` aborts |
| `SgJumpsFrom = {"INT", "ALRM"}` | `SgNested` | siglongjmp restores `__signals_blocked` only; the flag in `local_signals_blocked` stays and the signal is never delivered again. `test_programs/setjmp/sigsetjmp1.c` leaves a SIGALRM handler by longjmp |
| `ItRearms = TRUE` | `ItProgress` | the task of an alarm that has gone off is gone and its node is not: the next call signals nobody |

Seen while the models were written, and not the subject of a property: GetUndo goes round for ever
when its entry is not the first, because the loop does not advance (`sysv_idkey.c:27`); `waitpid(-1)` always
returns -1, because it assigns the argument to the pid it has found; a blocking
`waitpid` of a group does not set its iterator back; two children that end
together leave one SIGF_CHILD, and the second `waitpid(-1)` may wait for ever;
`waitpid` right after a spawn may answer ECHILD; `sigwaitinfo` raises every signal
that is blocked, and not those that were remembered (`sigtimedwait.c:101`), leaves
them unblocked and never forgets that one was remembered; it takes a SIGALRM it
was asked for as a time limit (line 131); in `raise` a SIGALRM without a handler
blocks SIGHUP, SIGINT and SIGQUIT, the bits of its number; `sigblock(SIGALRM)` in
`setitimer` passes a signal number where a mask is meant, and SIGALRM stays as it was; all threads share one
`tmr_time`; a one-shot timer (interval zero) goes off repeatedly; a new value
takes effect when the old request expires; inserting an interval with a low edge
that is in the tree keeps the old high edge.

## 4. What TLAPS proves

Where a run checks a safety property on an instance, a theorem states it for
every value of the constants: any number of threads, processes, slots, semaphores,
signals, messages. Eight modules hold the proofs.

| Module | About | Theorems |
|---|---|---|
| `SyncProofs` | `CondVar`, `Barrier`, `PosixSem`, `RWLock` | `CondSoundHolds`, `WaiterListSound`, `CancelKept`; `BarrierSoundHolds`, `BarrierRefines`; `SemWaitersExact`, `SemUsesCondSafely`, `TokensAreConserved`, `SemaphoresAreSound`; `ReadWriteLocksAreSound` |
| `LockProofs` | `Mutex`, `Once`, `TlsKeys` | `MxSoundHolds`, `OnceSafeHolds`, `KeyOwnValuesHolds`, `KeysDestroyedHolds` |
| `TaskProofs` | `ThreadLife`, `ChildProcs`, `ITimer`, `Signals` | `SlotsAreExclusive`, `ValuesAreDestroyed`, `ExitedValuesAreDestroyed`, `ThreadsAreWaitedFor`; `ChSoundHolds`; `ItSoundHolds`; `SignalsAreSound` |
| `IpcProofs` | `SysVShm`, `SysVMsg` | `SegmentsAreSound`; `MessagesKeepTheirOrder`, `QueuesAreSound` |
| `SemProofs` | `SysVSem` | `SemaphoreSetsAreSound`, `UndoIsBalanced`, `SemopIsAtomic`, `SemopEffects` |
| `FdTableProofs` | tables of descriptors: alias lists, duplicating, closing, growing | (lemmas) |
| `FileProofs` | `RecordLock`, `FdTable` | `RecordLocksAreSound`; `DescriptorsAreSound`, `DescriptorsImplement` |
| `Sums` | `SumFunction` and `MapThenSumSet` over finite sets | (lemmas) |

### 4.1 Conditions of the theorems

The assumptions on constants (`...Assumption` in each module) say what the
constants are: finite sets of tasks, numbers, no task that is also a
"nobody". Beyond them some theorems have hypotheses. Each is a condition
on clients, and each is needed: without it the code breaks the property, as
the violation runs or the table in 3.1 show, or as told here. The constants of
the passing runs satisfy them.

| Theorem | Hypothesis |
|---|---|
| `CancelKept` | `Deadlines \subseteq {"none"}`: a timed wait forgets the request (run `cond_cancel_timed`) |
| `SemaphoresAreSound` | `UsedAsLock` and no deadlines: one token, posted by who has it; two posts in a row wake one thread (run `sem_count`) |
| `MxSoundHolds` | `MxCareful`: `~MxRaces`, and `MxTimedUses` without "static" |
| `ReadWriteLocksAreSound` | `~RwRaces` |
| `KeyOwnValuesHolds` | `~TkStaleDelete` |
| `SlotsAreExclusive` and the others about `ThreadLife` | `OneCreator` (run `thread_create_race`); threads that are joined do not call `pthread_exit` (run `thread_tls_exit`), which is `JoinsAfterEnd`, `~CallsExit` or `Joiners = {}`; for the end of the program `~ExitsEarly` |
| `ChSoundHolds`, `ItSoundHolds` | `~ChOverlaps`; `~ItNoMemory` |
| `SegmentsAreSound` | `ShmExits = {}` |
| `QueuesAreSound` | `~MqBusyCtl`; `BuffersSuffice`: a msgrcv that fails with E2BIG has taken the message out and leaves it counted; `NoTypeRange`: a search for the types up to one forgets the range when it sleeps |
| `SemaphoreSetsAreSound`, `SemopIsAtomic` | `~SvBusyCtl`: SETVAL wakes nobody and takes no `si->Lock`; `OneOpEach`: the first loop of semop tests every operation against the values before the call; `OneSet`: a process on its way out of a removed set counts itself out of the next one with that id |
| `UndoIsBalanced`; `SemopEffects` | `~SvDirtyExit`; both sets of conditions |
| `DescriptorsAreSound`, `DescriptorsImplement` | `OneOpener`; `PlainUses`: `FdUses = {}` |
| `SignalsAreSound` | `~SgPlainWaits`; `SgJumpsFrom \subseteq SgBreaks` |

The theorems about conditions (but one), barriers, the tokens of semaphores,
once, destructors of keys, record locks, and the order of messages have none.

### 4.2 The arguments

Each proof finds a strengthening of the property that every action preserves,
with a step per action. Why the property alone is not enough:

*Conditions.* `CondInd`: types, `NodesAreLive`, `IncondExact`, `MutexHeld`. The types
need `IncondExact`, or `incond - 1` might not be a natural number. `IncondExact`
needs that relocking takes a thread out of `Released`, a finite set.
`NodesAreLive` needs the injectivity of the list, or `RemoveNode` might leave a
second node of the same thread behind. A lemma for each action asks no more of
the caller than the action's guard, so that barriers and semaphores use the same
lemmas. `CancelKept` adds `UntimedInd`: no timer is in use.

*Barriers.* `BarrierInd` adds to `CondInd` that the counter is exact, that a thread
on its way out holds the lock (which is why the trylock of destroy sees it), and
that a barrier is empty from the test of destroy on. The same case analysis
gives the refinement: every step is a step of `AbstractBarrier` or leaves
`Filling` and the phase alone.

*Semaphores.* `SemInd` is `CondInd` with the types and `WaitersCounted`. That
tokens are conserved is a sum over the threads; the lemmas of `Sums` say what it
becomes when one thread's share changes. That nobody is stranded needs
`SemWakeInd`: a thread enters the wait with the value at 0, and once a token is
free some waiter is awake or has its signal.

*Mutexes.* `MxInv` says that `mutex->mutex` is the last exec mutex created, that a
first use or a destruction is alone (`MxAlone`), that all threads in a call have
been given the same exec mutex (`MxUnused`), and what `pthread_mutex_lock` knows on
its way (`MxLocking`). Exclusion follows from `MxBalanced`, the nesting count of
the owner.

*Read-write locks.* `RwInd`: types, `RwAlone` (one thread at most is about to
make the semaphore, so that it replaces none in use), `RwCalls` (which place in a call goes with
which place in the semaphore: queued, granted or neither), `RwOwned` (the owner of
the semaphore is just who writes or has been granted a lock to write, and then
nobody reads) and `RwAccounted`. The count is over two finite sets, the granted
bids and the locks held; a grant moves one element from the first to the second,
and a timeout that comes with the grant either takes it along or gives it back.

*Once.* `OnceInv` says that the thread inside holds the spin lock, and that `done`
lags behind the routine only while a thread is between the two.

*Keys.* For the values: a free key has none. For the destructors: a pass that has
found nothing has no value behind it, because `tls_sem` keeps other threads from
creating keys there.

*Threads.* `TlInv`: the slot that pthread_create works on is used only by the
thread it has started (`NewSlot`), the table shows the slot of a living thread as
taken but for the moment before its creator stores the task (`SlotsOwned`), only
a thread that has ended can be joined (`NotEnded`), `__pthread_exit_func` has passed
no slot of a living thread (`ExitBehind`), and a value that waits for its
destructor is in the slot of a thread that has not run them yet (`TlsInSlot`).

*Children.* `ChInv` follows an entry through its life: made with the flag, given the
return code without it, removed when the child has gone. A pointer of an exit hook is
to the hook's own entry, and nobody inserts or removes while there is one. It needs that no
return code looks like the flag or like a missing entry once the exit hook has
masked it, and that waitpid's pointer is still the entry of its child.

*Timers.* `ItInv` ties a task that is alive to its thread, through the TimerNode or,
before there is one, by being the last task the thread has created.
`KillDone` only forgets a node whose task is gone, and a thread without a node
has no other task.

*Shared memory.* `ShmInd`: `nobj`, `nused` and the bytes are what the map holds, and
`totshm` is at least that. A segment that is attached has been cleared, so no
later attachment clears it. `ShmKept`: the creator of a segment in the map has not
ended.

*Messages.* `MqShape` has the types and what place goes with which call. The search
takes the first message that matches, so the order within a type is kept whatever
is taken. `MqCounts`: `msg_cbytes` is the sum of the sizes (never more than
`msg_qbytes`, so the unsigned room left is the real one), and every message fits
the buffers it may be read into. `MqWaits`: what a sleeper waits for is not
there; a wake-up sends all sleepers of a list back to the search.

*Semaphore sets.* `SvInd`: who holds which lock, and that what a process has tested
in the first loop still holds in the second (`SvHolds`); the counts are the
numbers of those that wait or have been woken and have not retried (`SvCounts`);
a sleeper's operation cannot proceed (`SvAsleep`). The last one needs that an
operation that raises a value wakes nList unless the value is zero, and that
one that ends at zero wakes zList. For the refinement the two loops, which the
model has in closed form as sums over the operations of a vector, are taken apart
into the turns of `AbstractSemSet`.

*Record locks.* `RlInv`: types, exclusion, the node is there exactly while regions
are, and every region's owner has a descriptor open that is marked.

*Descriptors.* `TabOk` is what every operation on the table keeps: cleared entries,
aliases that lead to one original in use with the same file, one predecessor for
each entry, and lists that are complete: `Chain`, the closure of the next
pointers, is the original with all its aliases. `FdTableProofs` shows by induction
along a chain what adding, removing and migrating an entry makes of it. `FdInv` adds
the open files, the marks of files with locks, and that an open in progress has
chosen the lowest vacant entry.

*Signals.* `SgInv` is about the whole stack, not its top: each handler on it is one
that `raise` holds back, each wait on it has saved what it found, there is one
wait at most, and `ignore_signal` is in place only for signals of that wait.

`Sums` and the proofs about chains and slots need induction, which is done with the
least counterexample of a set of numbers (`WFMin`).

### 4.3 Only model-checked

* Everything under fairness: `CondWaitsReturn`, `BarrierProgress`, `ThreadsEnd`,
  `LocksReturn`, `SvProgress`, `ItProgress`, `AioProgress`; the prover has no rule for it.
* `WbHeapSound`, `WbOwnership`, `TablesSound` (heap, trees, hash map), `StSound` and
  `StImplements` (streams): `WmemBlock`, `WmemTree`, `HashMap` and `Stream` follow loops of the
  code with recursive operators, which the prover does not reason about.
* `AioSound`: the queues are rebuilt by folds, insertion by priority and filtering of
  sequences, whose results for every length are again inductions.

## 5. What is not modelled

In the parts that are modelled these are left out: named semaphores and
`sem_destroy`; asynchronous cancellation (through an exception handler of the
target task), the clean-up stack, and cancellation inside `sem_wait` and
read-write locks; memory exhaustion, except where a constant or an action says otherwise;
scheduling parameters and names of threads; permissions, `semtimedop`, `ftok`
and the queries of System V; F_GETLK; start-up and shutdown of the AIO threads and
what a signal notification does; sockets and pipes as descriptors; `fopen`,
`freopen` and the table of streams; the simple, strict and fast allocators, trees
of trees and the other containers of wmem; what spawnvpe sets up for a child;
the times of timers; the time limit of `sigtimedwait`, a timer task that raises
SIGALRM while the program changes masks or handlers (plain words that both
write), and the handler of SIGABRT; all use of an object after its destruction.

Whole parts without a module, with the reason:

* mathematics (floating point), strings, wide characters, argz and envz,
  formatted input and output, regular expressions and patterns, locale and
  character sets, cryptography and random numbers, searching: sequential
  functions without state that outlives the call, or tables. They are most of
  the library's lines. Their input is text or numbers of unbounded size, and the
  test programs cover them as well as a bounded model could;
* processor-specific routines: assembler;
* sockets, name resolution, directories, files and mounts, terminals, users and
  groups: thin calls into other libraries of the system, whose state is not in
  this repository;
* database files: a page format, dominated by I/O;
* thread attributes: setters of plain structures;
* start-up code and profiling.

## 6. Running the checks

    tlc -config MCCondVar.cfg MCCondVar
    tlapm SyncProofs.tla

and so on for the other configurations and proof modules, as `PROJECT.json`
pairs them.
