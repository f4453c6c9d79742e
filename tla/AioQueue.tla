------------------------------- MODULE AioQueue -------------------------------
(* Asynchronous I/O: the request queues and helper threads of aio_misc.c with *)
(* aio_read/aio_write/aio_fsync, aio_cancel, aio_suspend and lio_listio on    *)
(* top.  All shared state is behind __aio_requests_mutex; it is the record    *)
(* aio, and each passage through the mutex is one step that maps it to a new  *)
(* record.  The I/O of a helper thread happens outside the mutex.             *)
EXTENDS Integers, Sequences, FiniteSets, SequencesExt, FiniteSetsExt

CONSTANTS AioReqs,       \* control blocks (struct aiocb)
          AioFd,         \* aio_fildes of each
          AioPrio,       \* __abs_prio of each
          AioThreads,    \* optim.aio_threads
          AioRow,        \* elements that get_elem allocates at once
          AioWorkers,    \* identities for helper threads
          AioClients,    \* threads that wait for requests
          AioWants,      \* the waiting calls each of them makes
          AioMaxCalls,   \* bound on the number of requests submitted
          AioCancelHead  \* whether aio_cancel hits a waiting request with others behind it

ASSUME AioAssumption == /\ AioThreads \in Nat \ {0} /\ AioRow \in Nat \ {0}
                        /\ AioMaxCalls \in Nat /\ AioCancelHead \in BOOLEAN

VARIABLES aio, aioCalls

aioVars == <<aio, aioCalls>>

Fds == Range(AioFd)
NoCall == [kind |-> "none", list |-> <<>>]

AioInit ==
  /\ aioCalls = 0
  /\ aio = [err |-> [r \in AioReqs |-> "unused"],       \* __error_code
            run |-> [r \in AioReqs |-> "no"],           \* running
            q |-> [f \in Fds |-> <<>>],                 \* requests: next_fd, next_prio
            runlist |-> <<>>, free |-> 0, pool |-> 0,
            nthreads |-> 0, idle |-> 0,
            pc |-> [w \in AioWorkers |-> "none"],
            job |-> [w \in AioWorkers |-> "none"],
            waiting |-> [r \in AioReqs |-> {}],         \* waiting, by the thread that waits
            call |-> [c \in AioClients |-> NoCall],
            woken |-> [c \in AioClients |-> FALSE],     \* its condition was signalled
            left |-> [c \in AioClients |-> 0]]          \* *counterp

(* A priority queue insertion at or after position from: behind everything    *)
(* of the same or a higher priority.                                          *)
Insert(seq, from, r) ==
  LET lower == {k \in from..Len(seq) : AioPrio[seq[k]] < AioPrio[r]}
  IN  InsertAt(seq, IF lower = {} THEN Len(seq) + 1 ELSE Min(lower), r)

(* pthread_cond_signal(&__aio_new_request_notification): goes to the waiter   *)
(* at the head of the list, which stays there until it runs.                  *)
SignalIdle(s) ==
  LET idlers == {w \in AioWorkers : s.pc[w] = "idle"}
  IN  IF idlers = {} \/ "signalled" \in Range(s.pc) THEN s
      ELSE [s EXCEPT !.pc[CHOOSE w \in idlers : TRUE] = "signalled"]

(* A helper thread is created for request r, or, when r is "none", to serve   *)
(* the run list.                                                              *)
StartThread(s, r) ==
  LET w == CHOOSE v \in AioWorkers : s.pc[v] = "none"
  IN  [s EXCEPT !.pc[w] = IF r = "none" THEN "new" ELSE "io", !.job[w] = r, !.nthreads = @ + 1]

GetElem(s) == IF s.free = 0 THEN [s EXCEPT !.free = AioRow - 1, !.pool = @ + AioRow]
                            ELSE [s EXCEPT !.free = @ - 1]

FreeElem(s, r) == [s EXCEPT !.run[r] = "no", !.free = @ + 1]

ToRunlist(s, r) == [s EXCEPT !.runlist = Insert(@, 1, r), !.run[r] = "yes"]

MayStart(s) == s.nthreads < AioThreads /\ s.idle = 0

(* __aio_enqueue_request; spawned tells whether pthread_create succeeds.      *)
Enqueue(s, r, spawned) ==
  LET f  == AioFd[r]
      s1 == [GetElem(s) EXCEPT !.err[r] = "EINPROGRESS", !.waiting[r] = {}]
      s2 == [s1 EXCEPT !.q[f] = <<r>>]
  IN  IF s.q[f] # <<>>
        THEN [s1 EXCEPT !.q[f] = Insert(@, 2, r), !.run[r] = "queued"]
      ELSE IF MayStart(s) /\ spawned
        THEN StartThread([s2 EXCEPT !.run[r] = "allocated"], r)
      ELSE IF MayStart(s) /\ s.nthreads = 0
        THEN FreeElem([s1 EXCEPT !.err[r] = "EAGAIN"], r)
      ELSE LET s3 == ToRunlist(s2, r) IN IF s.idle > 0 THEN SignalIdle(s3) ELSE s3

(* __aio_notify: every waiter of r counts it and is signalled; the last one   *)
(* of an asynchronous lio_listio sends its signal and frees the list.         *)
Notify(s, r) ==
  [s EXCEPT !.left  = [c \in AioClients |-> IF c \in s.waiting[r] THEN @[c] - 1 ELSE @[c]],
            !.woken = [c \in AioClients |-> @[c] \/ c \in s.waiting[r]],
            !.waiting[r] = {}]

NextRunnable_keep(s, r) == s

(* The successor of a finished request becomes runnable.                      *)
NextRunnable(s, r) == LET f == AioFd[r] IN IF s.q[f] = <<>> THEN s ELSE ToRunlist(s, Head(s.q[f]))

(* More work is left than the taker can do: wake or create another helper.    *)
TakeSpawns(s, spawned) ==
  IF s.runlist = <<>> THEN s
  ELSE IF s.idle > 0 THEN SignalIdle(s)
  ELSE IF s.nthreads < AioThreads /\ spawned THEN StartThread(s, "none") ELSE s

Take(s, w, spawned) ==
  LET r == Head(s.runlist)
  IN  TakeSpawns([s EXCEPT !.run[r] = "allocated", !.runlist = Tail(@),
                           !.pc[w] = "io", !.job[w] = r], spawned)

(* The end of the loop of handle_fildes_io: take a request or become idle.    *)
Seek(s, w, spawned) ==
  IF s.runlist = <<>> THEN [s EXCEPT !.idle = @ + 1, !.pc[w] = "idle", !.job[w] = "none"]
                      ELSE Take(s, w, spawned)

(* handle_fildes_io after the I/O: publish the result, notify, dequeue, pass  *)
(* the descriptor on, and look for more work.                                 *)
Finished(s, w, spawned) ==
  LET r  == s.job[w]
      s1 == Notify([s EXCEPT !.err[r] = "0"], r)
      s2 == NextRunnable([s1 EXCEPT !.q[AioFd[r]] = Tail(@)], r)
  IN  Seek(FreeElem(s2, r), w, spawned)

(* A helper back from its wait, signalled or not, takes a request or ends.    *)
Awake(s, w, spawned) ==
  LET s1 == [s EXCEPT !.idle = @ - 1]
  IN  IF s.runlist = <<>> THEN [s1 EXCEPT !.pc[w] = "none", !.nthreads = @ - 1]
                          ELSE Take(s1, w, spawned)

(* The I/O itself.  Whether it succeeds is not told apart, as nothing in the  *)
(* queue depends on it: "0" stands for its errno as well.                     *)
WorkerIO(w) ==
  /\ aio.pc[w] = "io"
  /\ aio' = [aio EXCEPT !.pc[w] = "finish"]
  /\ UNCHANGED aioCalls

WorkerStep(w, spawned) ==
  /\ \/ aio.pc[w] = "finish" /\ aio' = Finished(aio, w, spawned)
     \/ aio.pc[w] = "new" /\ aio' = Seek(aio, w, spawned)
     \/ aio.pc[w] \in {"idle", "signalled"} /\ aio' = Awake(aio, w, spawned)
  /\ UNCHANGED aioCalls

InProgress(r) == aio.err[r] = "EINPROGRESS"

AioSubmit(r, spawned) ==
  /\ ~InProgress(r) /\ aioCalls < AioMaxCalls
  /\ aio' = Enqueue(aio, r, spawned)
  /\ aioCalls' = aioCalls + 1

(* aio_cancel ends request r: ECANCELED, the waiters are told, the element    *)
(* is freed.                                                                  *)
Canceled(s, r) == FreeElem(Notify([s EXCEPT !.err[r] = "ECANCELED"], r), r)

(* __aio_remove_request of one entry.  A successor of the head is marked as   *)
(* runnable; the head leaves the run list.                                    *)
Removed(s, r) ==
  LET f  == AioFd[r]
      s1 == [s EXCEPT !.q[f] = Remove(@, r)]
  IN  IF Head(s.q[f]) # r THEN s1
      ELSE LET s2 == [s1 EXCEPT !.runlist = Remove(@, r)]
           IN  IF s1.q[f] = <<>> THEN s2 ELSE [s2 EXCEPT !.run[Head(s1.q[f])] = "yes"]

(* aio_cancel(fd, aiocbp).                                                    *)
AioCancel(r) ==
  /\ InProgress(r) /\ aio.run[r] # "allocated"
  /\ AioCancelHead \/ aio.run[r] = "queued" \/ Len(aio.q[AioFd[r]]) = 1
  /\ aio' = Canceled(Removed(aio, r), r)
  /\ UNCHANGED aioCalls

(* What aio_cancel(fd, NULL) cancels: all requests, but not a first one that  *)
(* a thread works on.                                                         *)
AllButAllocated(f) == {r \in Range(aio.q[f]) : aio.run[r] # "allocated"}

AioCancelAll(f) ==
  LET gone == AllButAllocated(f)
      s    == [aio EXCEPT !.q[f] = SelectSeq(@, LAMBDA r : r \notin gone),
                          !.runlist = SelectSeq(@, LAMBDA r : r \notin gone)]
  IN  /\ gone # {}
      /\ aio' = FoldSet(LAMBDA r, t : Canceled(t, r), s, gone)
      /\ UNCHANGED aioCalls

(* aio_suspend: registers with every request of the list and waits, unless    *)
(* one of them is not in progress.                                            *)
AioSuspend(c, call) ==
  /\ call.kind = "suspend" /\ aio.call[c] = NoCall
  /\ \A r \in Range(call.list) : InProgress(r)
  /\ aio' = [aio EXCEPT !.call[c] = call, !.woken[c] = FALSE, !.left[c] = 1,
                        !.waiting = [r \in AioReqs |-> IF r \in Range(call.list)
                                                       THEN @[r] \cup {c} ELSE @[r]]]
  /\ UNCHANGED aioCalls

(* The waiting lists after the thread took its entries out again: those of    *)
(* the requests that are still in progress.                                   *)
Unregistered(c) ==
  [r \in AioReqs |-> IF r \in Range(aio.call[c].list) /\ InProgress(r)
                     THEN aio.waiting[r] \ {c} ELSE aio.waiting[r]]

(* aio_suspend returns: signalled or timed out.                               *)
AioSuspendReturn(c) ==
  /\ aio.call[c].kind = "suspend"
  /\ aio' = [aio EXCEPT !.call[c] = NoCall, !.waiting = Unregistered(c),
                        !.woken[c] = FALSE, !.left[c] = 0]
  /\ UNCHANGED aioCalls

LioCount_all(call, entered) == Len(call.list)

(* The counter that lio_listio waits on.                                      *)
LioCount(call, entered) == Cardinality(entered)

(* lio_listio: enqueues the list under one hold of the (recursive) mutex and  *)
(* registers with each request that was accepted; spawned: the requests for   *)
(* which a thread can be created.                                             *)
Lio(c, call, spawned) ==
  LET s       == FoldLeft(LAMBDA t, r : Enqueue(t, r, r \in spawned), aio, call.list)
      entered == {r \in Range(call.list) : s.err[r] = "EINPROGRESS"}
  IN  /\ call.kind \in {"wait", "nowait"} /\ aio.call[c] = NoCall
      /\ \A r \in Range(call.list) : ~InProgress(r)
      /\ aioCalls + Len(call.list) <= AioMaxCalls
      /\ aioCalls' = aioCalls + Len(call.list)
      /\ aio' = IF entered = {} THEN s
                ELSE [s EXCEPT !.call[c] = call, !.woken[c] = FALSE,
                               !.left[c] = LioCount(call, entered),
                               !.waiting = [r \in AioReqs |-> IF r \in entered THEN @[r] \cup {c} ELSE @[r]]]

(* A LIO_WAIT caller sees the counter at zero, or a LIO_NOWAIT list has sent  *)
(* its signal and is freed.                                                   *)
LioReturn(c) ==
  /\ aio.call[c].kind \in {"wait", "nowait"} /\ aio.left[c] = 0
  /\ aio' = [aio EXCEPT !.call[c] = NoCall, !.woken[c] = FALSE]
  /\ UNCHANGED aioCalls

AioNext ==
  \/ \E w \in AioWorkers : WorkerIO(w) \/ \E sp \in BOOLEAN : WorkerStep(w, sp)
  \/ \E r \in AioReqs : AioCancel(r) \/ \E sp \in BOOLEAN : AioSubmit(r, sp)
  \/ \E f \in Fds : AioCancelAll(f)
  \/ \E c \in AioClients : \/ AioSuspendReturn(c) \/ LioReturn(c)
                           \/ \E call \in AioWants[c] :
                                AioSuspend(c, call) \/ \E sp \in SUBSET Range(call.list) : Lio(c, call, sp)

(* A helper thread that is not idle: one that is may sleep for ever.          *)
WorkerRuns(w) == /\ aio.pc[w] # "idle"
                 /\ WorkerIO(w) \/ \E sp \in BOOLEAN : WorkerStep(w, sp)

(* Helper threads run, their I/O ends, and a signalled caller returns.        *)
AioFairness ==
  /\ \A w \in AioWorkers : WF_aioVars(WorkerRuns(w))
  /\ \A c \in AioClients : WF_aioVars(LioReturn(c))

AioSpec == AioInit /\ [][AioNext]_aioVars /\ AioFairness

AioStates == {"unused", "EINPROGRESS", "EAGAIN", "0", "ECANCELED"}
AioTypeOK ==
  /\ aio.err \in [AioReqs -> AioStates]
  /\ aio.run \in [AioReqs -> {"no", "queued", "yes", "allocated"}]
  /\ \A f \in Fds : \A r \in Range(aio.q[f]) : AioFd[r] = f /\ InProgress(r)
  /\ aio.pc \in [AioWorkers -> {"none", "new", "io", "finish", "idle", "signalled"}]
  /\ aio.free \in Nat /\ aioCalls \in 0..AioMaxCalls

(* The run list is the "list of request waiting to be processed": a request   *)
(* is runnable exactly when it is in it, once, and only the first request of  *)
(* a descriptor is runnable or worked on.                                     *)
AioRunnableListed ==
  /\ Range(aio.runlist) = {r \in AioReqs : aio.run[r] = "yes"}
  /\ Cardinality(Range(aio.runlist)) = Len(aio.runlist)
  /\ \A f \in Fds : \A i \in 1..Len(aio.q[f]) :
       IF i = 1 THEN aio.run[aio.q[f][i]] \in {"yes", "allocated"} ELSE aio.run[aio.q[f][i]] = "queued"

(* A descriptor is worked on by one helper thread at a time, the one that     *)
(* holds its first request.                                                   *)
AioOneWorkerPerFd ==
  \A w \in AioWorkers : aio.pc[w] \in {"io", "finish"} =>
    /\ aio.run[aio.job[w]] = "allocated"
    /\ Head(aio.q[AioFd[aio.job[w]]]) = aio.job[w]
    /\ \A v \in AioWorkers \ {w} : aio.pc[v] \in {"io", "finish"} => AioFd[aio.job[v]] # AioFd[aio.job[w]]

(* nthreads and idle_thread_count count the helper threads, of which there    *)
(* are never more than aio_threads, and there is one whenever work waits.     *)
AioThreadsCounted ==
  /\ aio.nthreads = Cardinality({w \in AioWorkers : aio.pc[w] # "none"})
  /\ aio.idle = Cardinality({w \in AioWorkers : aio.pc[w] \in {"idle", "signalled"}})
  /\ aio.nthreads <= AioThreads
  /\ aio.runlist # <<>> => aio.nthreads > 0

(* Every element of the pool is either free or the entry of one request.      *)
AioPoolConserved ==
  aio.pool = aio.free + FoldSet(LAMBDA f, acc : acc + Len(aio.q[f]), 0, Fds)

(* No request points at the waiting-list entry, on the stack of aio_suspend   *)
(* and lio_listio, of a call that has returned.                               *)
AioNoStaleWaiter ==
  \A r \in AioReqs : \A c \in aio.waiting[r] : r \in Range(aio.call[c].list)

(* A caller that was not signalled still waits for every request of its list, *)
(* and the counter of lio_listio is the number of those it waits for: no      *)
(* completion or cancellation is missed, none is counted twice.               *)
AioWaitersExact ==
  \A c \in AioClients :
    LET pending == {r \in AioReqs : c \in aio.waiting[r]}
    IN  /\ aio.call[c].kind = "suspend" /\ ~aio.woken[c] => pending = Range(aio.call[c].list)
        /\ aio.call[c].kind \in {"wait", "nowait"} => aio.left[c] = Cardinality(pending)

(* Requests of a higher priority come first, on the run list and behind the   *)
(* first request of a descriptor.                                             *)
AioByPriority ==
  LET sorted(seq) == \A i, j \in 1..Len(seq) : i < j => AioPrio[seq[i]] >= AioPrio[seq[j]]
  IN  sorted(aio.runlist) /\ \A f \in Fds : aio.q[f] # <<>> => sorted(Tail(aio.q[f]))

(* Every request that was accepted is completed or cancelled.                 *)
AioCompletes == \A r \in AioReqs : InProgress(r) ~> ~InProgress(r)

(* lio_listio(LIO_WAIT) returns, and LIO_NOWAIT sends its signal.             *)
AioLioReturns == \A c \in AioClients : aio.call[c].kind \in {"wait", "nowait"} ~> aio.call[c] = NoCall

(* The lists, counters and pool of the request queue agree with each other    *)
(* and with the helper threads and callers, whenever the lock is free.        *)
AioSound == /\ AioTypeOK /\ AioRunnableListed /\ AioOneWorkerPerFd /\ AioThreadsCounted
            /\ AioPoolConserved /\ AioNoStaleWaiter /\ AioWaitersExact /\ AioByPriority

(* Requests come to an end, and so do the list calls that wait for them.      *)
AioProgress == AioCompletes /\ AioLioReturns
===============================================================================
