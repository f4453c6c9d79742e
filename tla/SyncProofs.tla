----------------------------- MODULE SyncProofs -----------------------------
EXTENDS Barrier, PosixSem, RWLock, Sums

(***************************************************************************)
(* Proofs about CondVar, for every finite set of threads, every kind of    *)
(* deadline and with or without cancellation.                              *)
(***************************************************************************)

\* Taking one node out of a list without duplicates (CondDequeue) leaves a list
\* without duplicates of exactly the other nodes.
LEMMA RemoveNodeRange ==
    ASSUME NEW S, NEW s \in Seq(S), IsInjective(s), NEW i \in DOMAIN s
    PROVE  /\ RemoveNode(s, i) \in Seq(S)
           /\ IsInjective(RemoveNode(s, i))
           /\ Range(RemoveNode(s, i)) = Range(s) \ {s[i]}
<1> DEFINE r == RemoveNode(s, i)
<1>1. /\ r \in Seq(S)
      /\ Len(r) = Len(s) - 1
      /\ \A j \in 1 .. Len(r) : r[j] = IF j < i THEN s[j] ELSE s[j + 1]
  <2> DEFINE a == SubSeq(s, 1, i - 1)
             b == SubSeq(s, i + 1, Len(s))
  <2>1. i \in 1 .. Len(s) /\ Len(s) \in Nat
    OBVIOUS
  <2>2. a \in Seq(S) /\ Len(a) = i - 1 /\ \A j \in 1 .. i - 1 : a[j] = s[j]
    BY <2>1
  <2>3. b \in Seq(S) /\ Len(b) = Len(s) - i /\ \A j \in 1 .. Len(s) - i : b[j] = s[j + i]
    BY <2>1
  <2>4. r = a \o b
    BY Zenon DEF RemoveNode
  <2> HIDE DEF a, b, r
  <2>5. r \in Seq(S) /\ Len(r) = Len(s) - 1
    BY <2>1, <2>2, <2>3, <2>4
  <2>6. ASSUME NEW j \in 1 .. Len(r) PROVE r[j] = IF j < i THEN s[j] ELSE s[j + 1]
    <3>1. CASE j < i
      <4>1. j \in 1 .. i - 1 /\ r[j] = a[j]
        BY <2>1, <2>2, <2>3, <2>4, <2>5, <3>1, SMTT(30)
      <4> QED BY <2>2, <3>1, <4>1, Zenon
    <3>2. CASE ~(j < i)
      <4>0. /\ Len(s) \in Nat /\ i \in 1 .. Len(s) /\ Len(a) = i - 1 /\ Len(b) = Len(s) - i
            /\ Len(r) = Len(s) - 1
        BY <2>1, <2>2, <2>3, <2>5, Zenon
      <4>1. j - (i - 1) \in 1 .. Len(s) - i /\ r[j] = b[j - (i - 1)] /\ (j - (i - 1)) + i = j + 1
        <5>1. j - (i - 1) \in 1 .. Len(s) - i /\ (j - (i - 1)) + i = j + 1
          BY <3>2, <4>0
        <5>2. ~(j <= Len(a)) /\ j \in 1 .. Len(a) + Len(b)
          BY <3>2, <4>0
        <5>3. r[j] = b[j - Len(a)]
          <6>1. a \in Seq(S) /\ b \in Seq(S) /\ r = a \o b
            BY <2>2, <2>3, <2>4, Zenon
          <6> QED BY <5>2, <6>1
        <5> QED BY <4>0, <5>1, <5>3
      <4> QED BY <2>3, <3>2, <4>1, Zenon
    <3> QED BY <3>1, <3>2, Zenon
  <2> QED BY <2>5, <2>6, Zenon
<1> HIDE DEF r
<1>2. IsInjective(r)
  <2>1. ASSUME NEW a \in DOMAIN r, NEW b \in DOMAIN r, r[a] = r[b] PROVE a = b
    <3>1. a \in 1 .. Len(s) - 1 /\ b \in 1 .. Len(s) - 1 /\ Len(s) \in Nat /\ i \in 1 .. Len(s)
      BY <1>1
    <3> DEFINE p == IF a < i THEN a ELSE a + 1
               q == IF b < i THEN b ELSE b + 1
    <3>2. p \in 1 .. Len(s) /\ q \in 1 .. Len(s)
      BY <3>1
    <3>3. r[a] = s[p] /\ r[b] = s[q]
      BY <1>1, <3>1, Zenon
    <3>4. (p = q) => (a = b)
      BY <3>1
    <3> HIDE DEF p, q
    <3>5. p = q
      <4>1. p \in DOMAIN s /\ q \in DOMAIN s
        BY <3>2
      <4>2. s[p] = s[q]
        BY <2>1, <3>3, Zenon
      <4> QED BY <4>1, <4>2, Zenon DEF IsInjective
    <3> QED BY <3>4, <3>5, Zenon
  <2> QED BY <2>1, Zenon DEF IsInjective
<1>3. \A x : x \in Range(r) <=> x \in Range(s) \ {s[i]}
  <2>1. ASSUME NEW x \in Range(r) PROVE x \in Range(s) \ {s[i]}
    BY <1>1, SMTT(30) DEF Range, IsInjective
  <2>2. ASSUME NEW x \in Range(s) \ {s[i]} PROVE x \in Range(r)
    <3>1. PICK j \in DOMAIN s : x = s[j]
      BY Zenon DEF Range
    <3>2. CASE j < i
      BY <3>1, <3>2, <1>1, SMTT(30) DEF Range
    <3>3. CASE j > i
      <4>1. j - 1 \in DOMAIN r /\ r[j - 1] = x
        BY <3>1, <3>3, <1>1
      <4> QED BY <4>1, Zenon DEF Range
    <3> QED BY <3>1, <3>2, <3>3
  <2> QED BY <2>1, <2>2, Zenon
<1> QED BY <1>1, <1>2, <1>3, Zenon DEF r

\* A waiter's node at the end of the list (CondEnqueue).
LEMMA AppendRange ==
    ASSUME NEW S, NEW s \in Seq(S), IsInjective(s), NEW x \in S, x \notin Range(s)
    PROVE  /\ Append(s, x) \in Seq(S)
           /\ IsInjective(Append(s, x))
           /\ Range(Append(s, x)) = Range(s) \cup {x}
<1> DEFINE r == Append(s, x)
<1>1. /\ r \in Seq(S)
      /\ Len(r) = Len(s) + 1
      /\ \A j \in 1 .. Len(r) : r[j] = IF j = Len(s) + 1 THEN x ELSE s[j]
  OBVIOUS
<1>2. IsInjective(r)
  BY <1>1 DEF IsInjective, Range
<1>3. \A y : y \in Range(r) <=> y \in Range(s) \cup {x}
  BY <1>1 DEF Range
<1> QED BY <1>1, <1>2, <1>3, Zenon

-----------------------------------------------------------------------------

\* The inductive invariant.  CondTypeOK alone is not inductive: that incond
\* stays a natural number when CondRelock decrements it follows from
\* IncondExact; and NodesAreLive needs itself, for the node CondDequeue finds.
CondInd == CondTypeOK /\ NodesAreLive /\ IncondExact /\ MutexHeld

\* incond counts a finite set.
LEMMA ReleasedFinite == IsFiniteSet(Released) /\ Cardinality(Released) \in Nat
BY ThreadsAssumption, FS_Subset, FS_CardinalityType, Zenon DEF Released

\* The invariant holds before the first call.
LEMMA CondInitInd == CondInit => CondInd
<1> SUFFICES ASSUME CondInit PROVE CondInd
  BY Zenon
<1>1. CondTypeOK
  BY DEF CondInit, CondTypeOK, CondPC, InWait
<1>2. NodesAreLive
  BY DEF CondInit, NodesAreLive, IsInjective, Range, InWait
<1>3. IncondExact
  <2>1. Released = {}
    BY Zenon DEF CondInit, Released
  <2> QED BY <2>1, FS_EmptySet, Zenon DEF CondInit, IncondExact
<1>4. MutexHeld
  BY Zenon DEF CondInit, MutexHeld
<1> QED BY <1>1, <1>2, <1>3, <1>4, Zenon DEF CondInd

\* A step that leaves the owner, the count, the list and every thread's place
\* alone preserves the invariant if it respects the types.
LEMMA QuietStep ==
    ASSUME CondInd, CondTypeOK', UNCHANGED <<owner, incond, waiters, cpc>>
    PROVE  CondInd'
<1>1. NodesAreLive'
  BY Zenon DEF CondInd, NodesAreLive, IsInjective, Range
<1>2. IncondExact'
  <2>1. Released' = Released
    BY Zenon DEF Released
  <2> QED BY <2>1, Zenon DEF CondInd, IncondExact
<1>3. MutexHeld'
  BY Zenon DEF CondInd, MutexHeld
<1> QED BY <1>1, <1>2, <1>3, Zenon DEF CondInd

\* pthread_mutex_lock and pthread_mutex_unlock outside a wait.
LEMMA MutexStep ==
    ASSUME CondInd, NEW t \in Threads, pthread_mutex_lock(t) \/ pthread_mutex_unlock(t)
    PROVE  CondInd'
<1>1. CondTypeOK'
  BY Zenon DEF CondInd, CondTypeOK, pthread_mutex_lock, pthread_mutex_unlock
<1>2. NodesAreLive'
  BY Zenon DEF CondInd, NodesAreLive, IsInjective, Range, pthread_mutex_lock, pthread_mutex_unlock
<1>3. IncondExact'
  <2>1. Released' = Released
    BY Zenon DEF Released, pthread_mutex_lock, pthread_mutex_unlock
  <2> QED BY <2>1, Zenon DEF CondInd, IncondExact, pthread_mutex_lock, pthread_mutex_unlock
<1>4. MutexHeld'
  BY NoThreadAssumption, Zenon DEF CondInd, MutexHeld, pthread_mutex_lock, pthread_mutex_unlock
<1> QED BY <1>1, <1>2, <1>3, <1>4, Zenon DEF CondInd

\* The beginning of a wait adds the node of a thread that is not in the list.
LEMMA EnqueueStep ==
    ASSUME CondInd, NEW t \in Threads,
           NEW d \in {"none", "zero", "future", "past", "realtime", "relative"},
           CondEnqueue(t, d)
    PROVE  CondInd'
<1>1. t \notin Range(waiters) /\ waiters \in Seq(Threads) /\ IsInjective(waiters)
  BY Zenon DEF CondInd, CondTypeOK, NodesAreLive, CondEnqueue, InWait
<1>2. /\ waiters' \in Seq(Threads)
      /\ IsInjective(waiters')
      /\ Range(waiters') = Range(waiters) \cup {t}
  BY <1>1, AppendRange DEF CondEnqueue
<1>3. CondTypeOK'
  <2>1. PICK bit \in SigBits, tm \in TimerOf(d) :
           /\ sigbit' = [sigbit EXCEPT ![t] = bit]
           /\ timer' = [timer EXCEPT ![t] = tm]
           /\ sigs' = [sigs EXCEPT ![t] = SignalsOnEntry(t, d # "none", bit)]
    BY Zenon DEF CondEnqueue
  <2>2. bit \in {"COND", "FALLBACK"} /\ tm \in {"idle", "armed", "never", "fired"}
    BY SigBitsAssumption, Zenon DEF TimerOf
  <2>3. SignalsOnEntry(t, d # "none", bit) \in SUBSET Bits
    BY Zenon DEF SignalsOnEntry, CondInd, CondTypeOK
  <2> QED BY <1>2, <2>1, <2>2, <2>3, Zenon
          DEF CondInd, CondTypeOK, CondEnqueue, CondPC, InWait
<1>4. NodesAreLive'
  BY <1>2 DEF CondInd, CondTypeOK, NodesAreLive, CondEnqueue, InWait
<1>5. IncondExact'
  <2>1. Released' = Released
    BY Zenon DEF Released, CondEnqueue, CondInd, CondTypeOK
  <2> QED BY <2>1, Zenon DEF CondInd, IncondExact, CondEnqueue
<1>6. MutexHeld'
  BY Zenon DEF CondInd, CondTypeOK, MutexHeld, CondEnqueue
<1> QED BY <1>3, <1>4, <1>5, <1>6, Zenon DEF CondInd

\* A waiter counts itself in and unlocks.
LEMMA ReleaseStep ==
    ASSUME CondInd, NEW t \in Threads, CondRelease(t)
    PROVE  CondInd'
<1>1. CondTypeOK'
  BY DEF CondInd, CondTypeOK, CondRelease, CondPC, InWait
<1>2. NodesAreLive'
  BY Zenon DEF CondInd, CondTypeOK, NodesAreLive, CondRelease, InWait
<1>3. IncondExact'
  <2>1. t \notin Released /\ Released' = Released \cup {t}
    BY Zenon DEF Released, CondRelease, CondInd, CondTypeOK
  <2>2. Cardinality(Released') = Cardinality(Released) + 1
    BY <2>1, ReleasedFinite, FS_AddElement, Zenon
  <2> QED BY <2>2, Zenon DEF CondInd, IncondExact, CondRelease
<1>4. MutexHeld'
  BY NoThreadAssumption, Zenon DEF CondInd, CondTypeOK, MutexHeld, CondRelease
<1> QED BY <1>1, <1>2, <1>3, <1>4, Zenon DEF CondInd

\* Wait() returns: only signal bits change.
LEMMA WakeStep ==
    ASSUME CondInd, NEW t \in Threads, CondWake(t)
    PROVE  CondInd'
<1>1. CondTypeOK'
  BY Zenon DEF CondInd, CondTypeOK, CondWake, CondPC, InWait
<1>2. NodesAreLive'
  BY Zenon DEF CondInd, CondTypeOK, NodesAreLive, CondWake, InWait
<1>3. IncondExact'
  <2>1. Released' = Released
    BY Zenon DEF Released, CondWake, CondInd, CondTypeOK
  <2> QED BY <2>1, Zenon DEF CondInd, IncondExact, CondWake
<1>4. MutexHeld'
  BY Zenon DEF CondInd, CondTypeOK, MutexHeld, CondWake
<1> QED BY <1>1, <1>2, <1>3, <1>4, Zenon DEF CondInd

\* The thread that relocks is one of those counted, so the count is positive.
LEMMA RelockStep ==
    ASSUME CondInd, NEW t \in Threads, CondRelock(t)
    PROVE  CondInd'
<1>1. t \in Released /\ Released' = Released \ {t}
  BY Zenon DEF Released, CondRelock, CondInd, CondTypeOK
<1>2. Cardinality(Released') = Cardinality(Released) - 1 /\ Cardinality(Released') \in Nat
  <2>1. Cardinality(Released') = Cardinality(Released) - 1
    BY <1>1, ReleasedFinite, FS_RemoveElement, Zenon
  <2>2. IsFiniteSet(Released')
    BY <1>1, ReleasedFinite, FS_Subset, Zenon
  <2> QED BY <2>1, <2>2, FS_CardinalityType, Zenon
<1>3. incond' = Cardinality(Released')
  BY <1>2, Zenon DEF CondInd, IncondExact, CondRelock
<1>4. CondTypeOK'
  BY <1>2, <1>3, Zenon DEF CondInd, CondTypeOK, CondRelock, CondPC, InWait
<1>5. NodesAreLive'
  BY ZenonT(30) DEF CondInd, CondTypeOK, NodesAreLive, CondRelock, InWait
<1>6. MutexHeld'
  BY NoThreadAssumption, Zenon DEF CondInd, CondTypeOK, MutexHeld, CondRelock
<1> QED BY <1>3, <1>4, <1>5, <1>6, Zenon DEF CondInd, IncondExact

\* The three ways out of a wait take the node out and leave the mutex held.
LEMMA DequeueStep ==
    ASSUME CondInd, NEW t \in Threads,
           CondReturnTimedOut(t) \/ CondReturnOk(t) \/ CondReturnCanceled(t)
    PROVE  CondInd'
<1>1. PICK pc \in {"run", "cleanup"} : CondDequeue(t, pc)
  BY Zenon DEF CondReturnTimedOut, CondReturnOk, CondReturnCanceled
<1>2. sigs' \in [Threads -> SUBSET Bits]
  BY ZenonT(30) DEF CondReturnTimedOut, CondReturnOk, CondReturnCanceled, CondInd, CondTypeOK
<1>3. PICK i \in DOMAIN waiters : waiters[i] = t /\ waiters' = RemoveNode(waiters, i)
  BY <1>1, Zenon DEF CondDequeue
<1>4. waiters \in Seq(Threads) /\ IsInjective(waiters)
  BY Zenon DEF CondInd, CondTypeOK, NodesAreLive
<1>5. /\ waiters' \in Seq(Threads)
      /\ IsInjective(waiters')
      /\ Range(waiters') = Range(waiters) \ {t}
  BY <1>3, <1>4, RemoveNodeRange, Zenon
<1>6. CondTypeOK'
  BY <1>1, <1>2, <1>5, Zenon DEF CondInd, CondTypeOK, CondDequeue, CondPC, InWait
<1>7. NodesAreLive'
  BY <1>1, <1>5, Zenon DEF CondInd, CondTypeOK, NodesAreLive, CondDequeue, InWait
<1>8. IncondExact'
  <2>1. Released' = Released
    BY <1>1, Zenon DEF Released, CondDequeue, CondInd, CondTypeOK
  <2> QED BY <1>1, <2>1, Zenon DEF CondInd, IncondExact, CondDequeue
<1>9. MutexHeld'
  BY <1>1, Zenon DEF CondInd, CondTypeOK, MutexHeld, CondDequeue
<1> QED BY <1>6, <1>7, <1>8, <1>9, Zenon DEF CondInd

\* The clean-up handlers of a cancelled wait unlock the mutex.
LEMMA CleanupStep ==
    ASSUME CondInd, NEW t \in Threads, CleanupHandlers(t)
    PROVE  CondInd'
<1>1. CondTypeOK'
  BY Zenon DEF CondInd, CondTypeOK, CleanupHandlers, CondPC
<1>2. NodesAreLive'
  BY Zenon DEF CondInd, CondTypeOK, NodesAreLive, CleanupHandlers, InWait
<1>3. IncondExact'
  <2>1. Released' = Released
    BY Zenon DEF Released, CleanupHandlers, CondInd, CondTypeOK
  <2> QED BY <2>1, Zenon DEF CondInd, IncondExact, CleanupHandlers
<1>4. MutexHeld'
  BY NoThreadAssumption, Zenon DEF CondInd, CondTypeOK, MutexHeld, CleanupHandlers
<1> QED BY <1>1, <1>2, <1>3, <1>4, Zenon DEF CondInd

\* The steps that only set signal bits, timers and the cancellation flags.
LEMMA SignalStep ==
    ASSUME CondInd, NEW t \in Threads,
           \/ pthread_cond_signal(t)
           \/ pthread_cond_broadcast(t)
           \/ CancelStep(t)
           \/ TimerFires(t)
           \/ ConsoleBreak(t)
    PROVE  CondInd'
<1>1. CASE pthread_cond_signal(t) \/ pthread_cond_broadcast(t)
  <2>1. PICK woken : SignalWaiters(woken)
    BY <1>1, Zenon DEF pthread_cond_signal, pthread_cond_broadcast
  <2>2. sigs' \in [Threads -> SUBSET Bits]
    BY <2>1, Zenon DEF SignalWaiters, Bits, CondInd, CondTypeOK
  <2>3. CondTypeOK'
    BY <1>1, <2>2, Zenon DEF CondInd, CondTypeOK, pthread_cond_signal, pthread_cond_broadcast
  <2> QED BY <1>1, <2>3, QuietStep, Zenon DEF pthread_cond_signal, pthread_cond_broadcast
<1>2. CASE CancelStep(t)
  <2>1. CASE \E victim \in Threads : pthread_cancel(t, victim)
    BY <2>1, QuietStep, SMTT(30) DEF CondInd, CondTypeOK, pthread_cancel, Bits
  <2>2. CASE \E enable \in BOOLEAN : pthread_setcancelstate(t, enable)
    BY <2>2, QuietStep, Zenon DEF CondInd, CondTypeOK, pthread_setcancelstate
  <2> QED BY <1>2, <2>1, <2>2, Zenon DEF CancelStep
<1>3. CASE TimerFires(t)
  BY <1>3, QuietStep, Zenon DEF CondInd, CondTypeOK, TimerFires, Bits
<1>4. CASE ConsoleBreak(t)
  BY <1>4, QuietStep, Zenon DEF CondInd, CondTypeOK, ConsoleBreak, Bits
<1> QED BY <1>1, <1>2, <1>3, <1>4, Zenon

\* Every step of a condition variable and its mutex.
LEMMA CondNextInd == CondInd /\ [CondNext]_condVars => CondInd'
<1> SUFFICES ASSUME CondInd, [CondNext]_condVars PROVE CondInd'
  BY Zenon
<1>1. CASE UNCHANGED condVars
  <2>1. CondTypeOK'
    BY <1>1, Zenon DEF CondInd, CondTypeOK, condVars
  <2> QED BY <1>1, <2>1, QuietStep, Zenon DEF condVars
<1>2. ASSUME NEW t \in Threads, WaitStep(t) PROVE CondInd'
  BY <1>2, ReleaseStep, WakeStep, RelockStep, DequeueStep, CleanupStep, Zenon DEF WaitStep
<1>3. ASSUME NEW t \in Threads, ClientStep(t) PROVE CondInd'
  BY <1>3, DeadlinesAssumption, MutexStep, EnqueueStep, SignalStep, Zenon DEF ClientStep
<1>4. ASSUME NEW t \in Threads, CancelStep(t) \/ TimerFires(t) \/ ConsoleBreak(t)
      PROVE  CondInd'
  BY <1>4, SignalStep, Zenon
<1> QED BY <1>1, <1>2, <1>3, <1>4, Zenon DEF CondNext

\* The inductive invariant holds in every state of every execution.
THEOREM CondInvariant == CondSafety => []CondInd
BY CondInitInd, CondNextInd, PTL DEF CondSafety

-----------------------------------------------------------------------------

\* Every variable keeps its type; mutex->incond never becomes negative.
THEOREM CondTypeCorrect == CondSafety => []CondTypeOK
BY CondInvariant, PTL DEF CondInd

\* On every way out of _pthread_cond_timedwait (signal, timeout, CTRL_C,
\* cancellation) the waiter's node, a local variable, has left cond->waiters.
THEOREM WaiterListSound == CondSafety => []NodesAreLive
BY CondInvariant, PTL DEF CondInd

\* A thread works on the waiter list around a wait, and runs its clean-up
\* handlers, with the mutex held.
THEOREM WaitReturnsWithMutex == CondSafety => []MutexHeld
BY CondInvariant, PTL DEF CondInd

\* mutex->incond is the number of threads that will come back to the mutex.
THEOREM IncondCounts == CondSafety => []IncondExact
BY CondInvariant, PTL DEF CondInd

\* If pthread_mutex_destroy or pthread_cond_destroy answers 0, no thread is
\* inside a wait that uses the object: incond accounts for the threads without
\* the mutex, the mutex for the others, and the list for all of them.
THEOREM DestroySafe == CondSafety => []DestroyIsSafe
<1>1. CondInd => DestroyIsSafe
  <2> SUFFICES ASSUME CondInd, MutexDestroyable \/ CondDestroyable,
                      NEW t \in Threads, cpc[t] \in InWait
               PROVE  FALSE
    BY Zenon DEF DestroyIsSafe
  <2>1. CASE MutexDestroyable
    <3>1. cpc[t] \in {"wait", "relock"}
      BY <2>1, NoThreadAssumption, Zenon DEF MutexDestroyable, CondInd, MutexHeld, InWait
    <3>2. Released = {}
      BY <2>1, ReleasedFinite, FS_EmptySet, Zenon DEF MutexDestroyable, CondInd, IncondExact
    <3> QED BY <3>1, <3>2, Zenon DEF Released
  <2>2. CASE CondDestroyable
    <3>1. Range(waiters) = {}
      BY <2>2 DEF CondDestroyable, Range
    <3> QED BY <3>1, Zenon DEF CondInd, NodesAreLive
  <2> QED BY <2>1, <2>2, Zenon
<1> QED BY <1>1, CondInvariant, PTL

-----------------------------------------------------------------------------

\* What keeps a cancellation pending when no wait has a deadline: no timer is
\* ever started, and outside the part of the routine after Wait() no thread
\* remembers bits that Wait() consumed.
UntimedInd ==
    /\ CondTypeOK
    /\ CancelNotLost
    /\ \A t \in Threads : timer[t] = "idle"
    /\ \A t \in Threads : cpc[t] \notin {"relock", "dequeue"} => got[t] = {}

\* The steps other than CondWake and the returns leave got alone, and no
\* signal bit is taken back.
LEMMA UntimedStep ==
    ASSUME Deadlines \subseteq {"none"}, UntimedInd, CondTypeOK', [CondNext]_condVars
    PROVE  UntimedInd'
<1> USE DEF UntimedInd, CondTypeOK, CancelNotLost
<1>1. CASE UNCHANGED condVars
  BY <1>1, Zenon DEF condVars
<1>2. ASSUME NEW t \in Threads,
             \/ pthread_mutex_lock(t)
             \/ pthread_mutex_unlock(t)
             \/ CondRelease(t)
             \/ CondRelock(t)
             \/ CleanupHandlers(t)
      PROVE  UntimedInd'
  BY <1>2, SMTT(30) DEF pthread_mutex_lock, pthread_mutex_unlock, CondRelease, CondRelock,
              CleanupHandlers
<1>3. ASSUME NEW t \in Threads, NEW d \in Deadlines, CondEnqueue(t, d) PROVE UntimedInd'
  <2>1. d = "none"
    BY Zenon
  <2>2. timer' = [timer EXCEPT ![t] = "idle"]
    BY <1>3, <2>1, Zenon DEF CondEnqueue, TimerOf
  <2>3. \A u \in Threads : "CTRL_C" \in sigs[u] => "CTRL_C" \in sigs'[u]
    BY <1>3, <2>1, SMTT(30) DEF CondEnqueue, SignalsOnEntry
  <2> QED BY <1>3, <2>2, <2>3, SMTT(30) DEF CondEnqueue
<1>4. ASSUME NEW t \in Threads, CondWake(t) PROVE UntimedInd'
  <2>1. \A u \in Threads : "CTRL_C" \in sigs[u] \cup got[u] =>
                              "CTRL_C" \in sigs'[u] \cup got'[u]
    BY <1>4, SMTT(30) DEF CondWake, WaitMask
  <2> QED BY <1>4, <2>1, SMTT(30) DEF CondWake
<1>5. ASSUME NEW t \in Threads, CondReturnOk(t) PROVE UntimedInd'
  <2>1. \A u \in Threads : "CTRL_C" \in sigs[u] \cup got[u] =>
                              "CTRL_C" \in sigs'[u] \cup got'[u]
    BY <1>5, SMTT(30) DEF CondReturnOk, CondDequeue
  <2> QED BY <1>5, <2>1, SMTT(30) DEF CondReturnOk, CondDequeue
<1>6. ASSUME NEW t \in Threads, CondReturnCanceled(t) PROVE UntimedInd'
  BY <1>6, SMTT(30) DEF CondReturnCanceled, CondDequeue
<1>7. ASSUME NEW t \in Threads, CondReturnTimedOut(t) \/ TimerFires(t) PROVE FALSE
  BY <1>7, Zenon DEF CondReturnTimedOut, TimedOut, TimerFires
<1>8. ASSUME NEW t \in Threads,
             \/ pthread_cond_signal(t)
             \/ pthread_cond_broadcast(t)
             \/ ConsoleBreak(t)
      PROVE  UntimedInd'
  <2>1. \A u \in Threads : "CTRL_C" \in sigs[u] => "CTRL_C" \in sigs'[u]
    BY <1>8, SMTT(30) DEF pthread_cond_signal, pthread_cond_broadcast, SignalWaiters, ConsoleBreak
  <2> QED BY <1>8, <2>1, SMTT(30) DEF pthread_cond_signal, pthread_cond_broadcast, ConsoleBreak
<1>9. ASSUME NEW t \in Threads, CancelStep(t) PROVE UntimedInd'
  <2>1. ASSUME NEW victim \in Threads, pthread_cancel(t, victim) PROVE UntimedInd'
    BY <2>1, SMTT(30) DEF pthread_cancel
  <2>2. ASSUME NEW enable \in BOOLEAN, pthread_setcancelstate(t, enable) PROVE UntimedInd'
    BY <2>2, Zenon DEF pthread_setcancelstate
  <2> QED BY <1>9, <2>1, <2>2, Zenon DEF CancelStep
<1> QED BY <1>1, <1>2, <1>3, <1>4, <1>5, <1>6, <1>7, <1>8, <1>9, Zenon
        DEF CondNext, WaitStep, ClientStep

\* In a program without timed waits a cancellation request is never lost: it is
\* pending, or consumed by a wait that will act on it or send it again.
THEOREM CancelKept ==
    ASSUME Deadlines \subseteq {"none"}
    PROVE  CondSafety => []CancelNotLost
<1>1. CondInit => UntimedInd
  BY DEF CondInit, UntimedInd, CondTypeOK, CancelNotLost, CondPC, InWait
<1>2. UntimedInd /\ CondTypeOK' /\ [CondNext]_condVars => UntimedInd'
  BY UntimedStep, Zenon
<1>3. UntimedInd => CancelNotLost
  BY Zenon DEF UntimedInd
<1> QED BY <1>1, <1>2, <1>3, CondTypeCorrect, PTL DEF CondSafety

\* The state that waits share with each other and with the destroy calls stays
\* consistent on every way out of _pthread_cond_timedwait.
THEOREM CondSoundHolds == CondSafety => []CondSound
BY CondTypeCorrect, IncondCounts, WaitReturnsWithMutex, DestroySafe, PTL DEF CondSound

-----------------------------------------------------------------------------
(***************************************************************************)
(* Proofs about Barrier, for every finite set of threads and every count.  *)
(* The invariant of the condition variable carries over, because each step *)
(* of the barrier takes a step of CondVar or none.  With it, the counter   *)
(* total_height is exact, a destroyed barrier has no thread in it, and the *)
(* code implements AbstractBarrier.                                        *)
(***************************************************************************)

BarrierTypes ==
    /\ total \in Nat
    /\ bpc \in [Threads -> {"out", "enter", "fill", "leave"}]
    /\ bstate \in {"live", "checked", "freed"}

\* A thread on its way out holds barrier->lock until it is out, so the trylock
\* of pthread_barrier_destroy sees it.
LeaversLock ==
    \A t \in Threads :
      /\ bpc[t] = "leave" => owner = t
      /\ bpc[t] \in {"out", "leave"} => cpc[t] = "run"

\* From the test of total_height on, the barrier is empty.
DestroyedEmpty ==
    /\ bstate # "live" => \A t \in Threads : bpc[t] = "out"
    /\ bstate = "freed" => total = 0

BarrierInd == CondInd /\ BarrierTypes /\ HeightExact /\ LeaversLock /\ DestroyedEmpty

\* total_height counts a finite set.
LEMMA FillingFinite == IsFiniteSet(Filling) /\ Cardinality(Filling) \in Nat
  BY ThreadsAssumption, FS_Subset, FS_CardinalityType, Zenon DEF Filling

\* AbstractBarrier has the same notion of cardinality.
LEMMA SameCardinality == \A S : Abstract!Cardinality(S) = Cardinality(S)
  BY Zenon DEF Abstract!Cardinality, Cardinality, Abstract!IsFiniteSet, IsFiniteSet

\* The invariant holds for a new barrier.
LEMMA BarrierInitInd == BarrierInit => BarrierInd
<1> SUFFICES ASSUME BarrierInit PROVE BarrierInd
  BY Zenon
<1>1. Cardinality(Filling) = 0
  <2>1. Filling = {} BY Zenon DEF BarrierInit, Filling
  <2>. QED BY <2>1, FS_EmptySet, Zenon
<1>. QED BY <1>1, CondInitInd, FlagAssumption, CountAssumption, SMTT(30)
         DEF BarrierInit, CondInit, BarrierInd, BarrierTypes, HeightExact, LeaversLock,
             DestroyedEmpty

\* What each step does to the mutex and the condition.
LEMMA BarrierCondInd ==
  ASSUME BarrierInd, [BarrierNext]_barrierVars
  PROVE  CondInd'
<1> USE DEF BarrierInd
<1>1. CASE UNCHANGED condVars BY <1>1, CondNextInd, Zenon
<1>2. ASSUME NEW t \in Threads, BarrierLock(t) \/ BarrierReturn(t) PROVE CondInd'
  BY <1>2, MutexStep, Zenon DEF BarrierLock, BarrierReturn
<1>3. ASSUME NEW t \in Threads, BarrierAwaitExit(t) \/ BarrierAwaitFill(t) PROVE CondInd'
  BY <1>3, EnqueueStep, Zenon DEF BarrierAwaitExit, BarrierAwaitFill
<1>4. ASSUME NEW t \in Threads, BarrierBreech(t) \/ BarrierExit(t) PROVE CondInd'
  BY <1>1, <1>4, SignalStep, Zenon DEF BarrierBreech, BarrierExit
<1>5. ASSUME NEW t \in Threads, BarrierWaitStep(t) PROVE CondInd'
  BY <1>5, ReleaseStep, WakeStep, RelockStep, DequeueStep, SignalStep, Zenon DEF BarrierWaitStep
<1>6. ASSUME NEW t \in Threads, BarrierEnter(t) \/ BarrierDestroy(t) PROVE CondInd'
  BY <1>1, <1>6, Zenon DEF BarrierEnter, BarrierDestroy, BarrierDestroyCheck, BarrierDestroyFree
<1>. QED BY <1>1, <1>2, <1>3, <1>4, <1>5, <1>6, Zenon DEF BarrierNext, BarrierStep, barrierVars

-----------------------------------------------------------------------------
(* What each step does to the barrier, and which abstract step it is.        *)

BarrierOwn == BarrierTypes /\ HeightExact /\ LeaversLock /\ DestroyedEmpty

\* A thread in the body of the barrier: it is alive, and nobody is leaving.
LEMMA BodyFacts ==
  ASSUME BarrierInd, NEW t \in Threads, NEW pc \in {"enter", "fill"}, InBody(t, pc)
  PROVE  /\ bstate = "live"
         /\ \A u \in Threads : bpc[u] # "leave"
         /\ Cardinality(Filling) = IF total < Flag THEN total ELSE total - Flag
         /\ Cardinality(Filling) < Count
  BY Zenon DEF BarrierInd, BarrierTypes, HeightExact, LeaversLock, DestroyedEmpty, InBody

\* The caller is counted in.
LEMMA EnterStep ==
  ASSUME BarrierInd, NEW t \in Threads, BarrierEnter(t)
  PROVE  BarrierOwn' /\ Abstract!Arrive(t)
<1> USE FlagAssumption, CountAssumption, FillingFinite
<1>0. LeaversLock BY Zenon DEF BarrierInd
<1>1. /\ bpc[t] = "enter" /\ total <= Flag /\ Entered # Count /\ total' = Entered
      /\ bpc' = [bpc EXCEPT ![t] = "fill"] /\ UNCHANGED <<owner, cpc, bstate>>
  BY Zenon DEF BarrierEnter, InBody, BarrierGoto, condVars
<1>2. /\ bstate = "live" /\ \A u \in Threads : bpc[u] # "leave"
      /\ Cardinality(Filling) = IF total < Flag THEN total ELSE total - Flag
      /\ Cardinality(Filling) < Count
  BY BodyFacts, Zenon DEF BarrierEnter
<1>3. total \in Nat /\ bpc \in [Threads -> {"out", "enter", "fill", "leave"}]
  BY Zenon DEF BarrierInd, BarrierTypes
<1>4. Entered = Cardinality(Filling) + 1 /\ Entered < Count
  BY <1>1, <1>2, <1>3 DEF Entered
<1>5. t \notin Filling /\ Filling' = Filling \cup {t}
  BY <1>1, <1>3, Zenon DEF Filling
<1>6. Cardinality(Filling') = Cardinality(Filling) + 1
  BY <1>5, FS_AddElement, Zenon
<1>7. BarrierOwn'
  <2>1. BarrierTypes' BY <1>1, <1>2, <1>3, <1>4, <1>6 DEF BarrierTypes
  <2>2. HeightExact' BY <1>1, <1>2, <1>3, <1>4, <1>6 DEF HeightExact
  <2>3. LeaversLock' BY <1>0, <1>1, <1>2, <1>3, Zenon DEF LeaversLock
  <2>4. DestroyedEmpty' BY <1>1, <1>2, Zenon DEF DestroyedEmpty
  <2>. QED BY <2>1, <2>2, <2>3, <2>4, Zenon DEF BarrierOwn
<1>8. Abstract!Arrive(t)
  <2>1. ~(total > Flag) /\ Cardinality(Filling) + 1 < Count BY <1>1, <1>3, <1>4
  <2>2. (total' > Flag) = FALSE BY <1>1, <1>2, <1>4
  <2>. QED BY <1>5, <2>1, <2>2, SameCardinality, Zenon DEF Abstract!Arrive
<1>. QED BY <1>7, <1>8, Zenon

\* The last caller turns the counter over.
LEMMA BreechStep ==
  ASSUME BarrierInd, NEW t \in Threads, BarrierBreech(t)
  PROVE  BarrierOwn' /\ Abstract!Complete(t)
<1> USE FlagAssumption, CountAssumption, FillingFinite
<1>0. LeaversLock BY Zenon DEF BarrierInd
<1>1. /\ bpc[t] = "enter" /\ cpc[t] = "run" /\ owner = t
      /\ total <= Flag /\ Entered = Count /\ total' = Entered + Flag - 1
      /\ bpc' = [bpc EXCEPT ![t] = "leave"] /\ UNCHANGED <<owner, cpc, bstate>>
  BY Zenon DEF BarrierBreech, InBody, BarrierGoto, pthread_cond_broadcast
<1>2. /\ bstate = "live" /\ \A u \in Threads : bpc[u] # "leave"
      /\ Cardinality(Filling) = IF total < Flag THEN total ELSE total - Flag
      /\ Cardinality(Filling) < Count
  BY BodyFacts, Zenon DEF BarrierBreech
<1>3. total \in Nat /\ bpc \in [Threads -> {"out", "enter", "fill", "leave"}]
  BY Zenon DEF BarrierInd, BarrierTypes
<1>4. Entered = Cardinality(Filling) + 1 /\ total' = Flag + Cardinality(Filling)
  BY <1>1, <1>2, <1>3, SMTT(30) DEF Entered
<1>5. t \notin Filling /\ Filling' = Filling
  BY <1>1, <1>3, Zenon DEF Filling
<1>6. Filling # {} <=> Cardinality(Filling) > 0
  BY FS_EmptySet
<1>7. BarrierOwn'
  <2>1. BarrierTypes' BY <1>1, <1>2, <1>3, <1>4, <1>5, SMTT(30) DEF BarrierTypes
  <2>2. HeightExact' BY <1>1, <1>2, <1>3, <1>4, <1>5, SMTT(30) DEF HeightExact
  <2>3. LeaversLock' BY <1>0, <1>1, <1>2, <1>3, Zenon DEF LeaversLock
  <2>4. DestroyedEmpty' BY <1>1, <1>2, Zenon DEF DestroyedEmpty
  <2>. QED BY <2>1, <2>2, <2>3, <2>4, Zenon DEF BarrierOwn
<1>8. Abstract!Complete(t)
  <2>1. ~(total > Flag) /\ Cardinality(Filling) + 1 = Count BY <1>1, <1>3, <1>4
  <2>2. (total' > Flag) = (Filling # {}) BY <1>4, <1>6, SMTT(20)
  <2>. QED BY <1>5, <2>1, <2>2, SameCardinality, Zenon DEF Abstract!Complete
<1>. QED BY <1>7, <1>8, Zenon

\* A thread is counted out.
LEMMA ExitStep ==
  ASSUME BarrierInd, NEW t \in Threads, BarrierExit(t)
  PROVE  BarrierOwn' /\ Abstract!Leave(t)
<1> USE FlagAssumption, CountAssumption, FillingFinite
<1>0. LeaversLock BY Zenon DEF BarrierInd
<1>1. /\ bpc[t] = "fill" /\ cpc[t] = "run" /\ owner = t
      /\ total >= Flag /\ total' = total - 1
      /\ bpc' = [bpc EXCEPT ![t] = "leave"] /\ UNCHANGED <<owner, cpc, bstate>>
  BY Zenon DEF BarrierExit, InBody, BarrierGoto, pthread_cond_broadcast, condVars
<1>2. /\ bstate = "live" /\ \A u \in Threads : bpc[u] # "leave"
      /\ Cardinality(Filling) = IF total < Flag THEN total ELSE total - Flag
      /\ Cardinality(Filling) < Count
  BY BodyFacts, Zenon DEF BarrierExit
<1>3. total \in Nat /\ bpc \in [Threads -> {"out", "enter", "fill", "leave"}]
  BY Zenon DEF BarrierInd, BarrierTypes
<1>4. t \in Filling /\ Filling' = Filling \ {t}
  BY <1>1, <1>3, Zenon DEF Filling
<1>5. /\ Cardinality(Filling') = Cardinality(Filling) - 1
      /\ IsFiniteSet(Filling') /\ Cardinality(Filling') \in Nat
  BY <1>4, FS_RemoveElement, FS_Subset, FS_CardinalityType, Zenon
<1>6. Filling' # {} <=> Cardinality(Filling') > 0
  BY <1>5, FS_EmptySet
<1>7. total > Flag /\ total' = Flag + Cardinality(Filling')
  BY <1>1, <1>2, <1>3, <1>5
<1>8. BarrierOwn'
  <2>1. BarrierTypes' BY <1>1, <1>2, <1>3, <1>5, <1>7, SMTT(30) DEF BarrierTypes
  <2>2. HeightExact' BY <1>1, <1>2, <1>3, <1>5, <1>7 DEF HeightExact
  <2>3. LeaversLock' BY <1>0, <1>1, <1>2, <1>3, Zenon DEF LeaversLock
  <2>4. DestroyedEmpty' BY <1>1, <1>2, Zenon DEF DestroyedEmpty
  <2>. QED BY <2>1, <2>2, <2>3, <2>4, Zenon DEF BarrierOwn
<1>9. Abstract!Leave(t)
  BY <1>3, <1>4, <1>5, <1>6, <1>7 DEF Abstract!Leave
<1>. QED BY <1>8, <1>9, Zenon

\* The other steps count nobody: the abstract barrier does not see them.
LEMMA QuietBarrierStep ==
  ASSUME BarrierInd, UNCHANGED <<total, bstate>>, Filling' = Filling, BarrierTypes',
         LeaversLock', DestroyedEmpty'
  PROVE  BarrierOwn' /\ UNCHANGED <<Filling, total > Flag>>
  BY Zenon DEF BarrierInd, BarrierOwn, HeightExact

\* Entering and leaving pthread_barrier_wait does not count.
LEMMA CallStep ==
  ASSUME BarrierInd, NEW t \in Threads, BarrierLock(t) \/ BarrierReturn(t)
  PROVE  BarrierOwn' /\ UNCHANGED <<Filling, total > Flag>>
<1>1. PICK pc \in {"enter", "out"} : bpc' = [bpc EXCEPT ![t] = pc]
  BY Zenon DEF BarrierLock, BarrierReturn, BarrierGoto
<1>2. /\ UNCHANGED <<total, bstate, cpc>> /\ bpc[t] \in {"out", "leave"}
      /\ bpc[t] = "out" => bstate = "live" /\ owner = NoThread
      /\ bpc[t] = "leave" => owner = t
  BY Zenon DEF BarrierLock, BarrierReturn, pthread_mutex_lock, pthread_mutex_unlock
<1>3. bpc \in [Threads -> {"out", "enter", "fill", "leave"}]
  BY Zenon DEF BarrierInd, BarrierTypes
<1>4. Filling' = Filling BY <1>1, <1>2, <1>3, Zenon DEF Filling
<1>5. BarrierTypes' BY <1>1, <1>2, Zenon DEF BarrierInd, BarrierTypes
<1>6. LeaversLock'
  <2> SUFFICES ASSUME NEW u \in Threads, bpc'[u] = "leave" PROVE FALSE
    BY <1>1, <1>2, <1>3, Zenon DEF BarrierInd, LeaversLock
  <2>1. u # t /\ bpc[u] = "leave" BY <1>1, <1>3, Zenon
  <2>2. owner = u BY <2>1, Zenon DEF BarrierInd, LeaversLock
  <2>. QED BY <1>2, <2>1, <2>2, NoThreadAssumption, Zenon
<1>7. DestroyedEmpty'
  BY <1>1, <1>2, <1>3, Zenon DEF BarrierInd, DestroyedEmpty
<1>. QED BY <1>2, <1>4, <1>5, <1>6, <1>7, QuietBarrierStep, Zenon

\* Nor does waiting, whatever the wait returns with.
LEMMA WaitingStep ==
  ASSUME BarrierInd, NEW t \in Threads,
         BarrierAwaitExit(t) \/ BarrierAwaitFill(t) \/ BarrierWaitStep(t)
  PROVE  BarrierOwn' /\ UNCHANGED <<Filling, total > Flag>>
<1>1. UNCHANGED <<total, bpc, bstate>>
  BY Zenon DEF BarrierAwaitExit, BarrierAwaitFill, BarrierWaitStep
<1>2. Filling' = Filling BY <1>1, Zenon DEF Filling
<1>3. BarrierTypes' BY <1>1, Zenon DEF BarrierInd, BarrierTypes
<1>4. DestroyedEmpty' BY <1>1, Zenon DEF BarrierInd, DestroyedEmpty
<1>5. LeaversLock'
  <2> SUFFICES ASSUME NEW u \in Threads, bpc[u] \in {"out", "leave"}
               PROVE  cpc'[u] = "run" /\ (bpc[u] = "leave" => owner' = u)
    BY <1>1, Zenon DEF LeaversLock
  <2>1. cpc[u] = "run" /\ (bpc[u] = "leave" => owner = u) BY Zenon DEF BarrierInd, LeaversLock
  <2>2. cpc \in [Threads -> CondPC] /\ MutexHeld BY Zenon DEF BarrierInd, CondInd, CondTypeOK
  <2>3. CASE BarrierAwaitExit(t) \/ BarrierAwaitFill(t)
    BY <2>1, <2>2, <2>3, Zenon DEF BarrierAwaitExit, BarrierAwaitFill, InBody, CondEnqueue
  <2>4. CASE BarrierWaitStep(t)
    BY <2>1, <2>2, <2>4, NoThreadAssumption, Zenon
       DEF BarrierWaitStep, CondRelease, CondWake, CondRelock, CondReturnOk, CondDequeue,
           ConsoleBreak, MutexHeld
  <2>. QED BY <2>3, <2>4, Zenon
<1>. QED BY <1>1, <1>2, <1>3, <1>4, <1>5, QuietBarrierStep, Zenon

\* pthread_barrier_destroy finds no thread in the barrier: the ones that have
\* been counted are excluded by total_height, the others by the lock.
LEMMA DestroyStep ==
  ASSUME BarrierInd, NEW t \in Threads, BarrierDestroy(t)
  PROVE  BarrierOwn' /\ UNCHANGED <<Filling, total > Flag>>
<1> USE FlagAssumption, CountAssumption, FillingFinite
<1>0. UNCHANGED <<owner, cpc, bpc>> /\ Filling' = Filling
  BY Zenon DEF BarrierDestroy, BarrierDestroyCheck, BarrierDestroyFree, condVars, Filling
<1>1. CASE BarrierDestroyCheck(t)
  <2>1. \A u \in Threads : bpc[u] = "out"
    BY <1>1, NoThreadAssumption, SMTT(30)
       DEF BarrierDestroyCheck, RoundComplete, BarrierInd, BarrierTypes, LeaversLock
  <2>2. UNCHANGED total /\ bstate = "live" /\ bstate' = "checked"
    BY <1>1, Zenon DEF BarrierDestroyCheck
  <2>3. BarrierOwn'
    BY <1>0, <2>1, <2>2, Zenon
       DEF BarrierInd, BarrierOwn, BarrierTypes, HeightExact, LeaversLock, DestroyedEmpty
  <2>. QED BY <1>0, <2>2, <2>3, Zenon
<1>2. CASE BarrierDestroyFree(t)
  <2>1. /\ bstate = "checked" /\ bstate' \in {"freed", "live"}
        /\ total' = IF bstate' = "freed" THEN 0 ELSE total
    BY <1>2, Zenon DEF BarrierDestroyFree
  <2>2. Filling = {} /\ \A u \in Threads : bpc[u] = "out"
    BY <2>1, Zenon DEF BarrierInd, DestroyedEmpty, Filling
  <2>3. Cardinality(Filling) = 0 /\ total \in Nat /\ total <= Flag
    BY <2>1, <2>2, FS_EmptySet, SMTT(30) DEF BarrierInd, BarrierTypes, HeightExact
  <2>4. BarrierOwn'
    BY <1>0, <2>1, <2>2, <2>3, Zenon
       DEF BarrierInd, BarrierOwn, BarrierTypes, HeightExact, LeaversLock, DestroyedEmpty
  <2>5. UNCHANGED (total > Flag) BY <2>1, <2>3
  <2>. QED BY <1>0, <2>4, <2>5, Zenon
<1>. QED BY <1>1, <1>2, Zenon DEF BarrierDestroy

\* Every step keeps the invariant and is a step of AbstractBarrier, or none.
LEMMA BarrierNextInd ==
  ASSUME BarrierInd, [BarrierNext]_barrierVars
  PROVE  BarrierInd' /\ [Abstract!Next]_<<Filling, total > Flag>>
<1>1. CondInd' BY BarrierCondInd, Zenon
<1>2. BarrierOwn' /\ [Abstract!Next]_<<Filling, total > Flag>>
  <2>1. CASE UNCHANGED barrierVars
    BY <2>1, Zenon DEF barrierVars, condVars, BarrierInd, BarrierOwn, BarrierTypes, HeightExact,
               LeaversLock, DestroyedEmpty, Filling
  <2>2. CASE BarrierNext
    BY <2>2, EnterStep, BreechStep, ExitStep, CallStep, WaitingStep, DestroyStep, Zenon
       DEF BarrierNext, BarrierStep, Abstract!Next
  <2>. QED BY <2>1, <2>2, Zenon
<1>. QED BY <1>1, <1>2, Zenon DEF BarrierInd, BarrierOwn

\* The phase bit, the height and the places of the threads agree at every moment
\* of pthread_barrier_wait and pthread_barrier_destroy.
THEOREM BarrierInvariant == BarrierSafety => []BarrierInd
<1>1. BarrierInd /\ [BarrierNext]_barrierVars => BarrierInd' BY BarrierNextInd, Zenon
<1>. QED BY <1>1, BarrierInitInd, PTL DEF BarrierSafety

-----------------------------------------------------------------------------
\* In both phases total_height is the number of threads between the count in
\* and the count out, whatever wake-ups pthread_cond_wait returns with.
THEOREM BarrierHeightExact == BarrierSafety => []HeightExact
BY BarrierInvariant, PTL DEF BarrierInd

\* When pthread_barrier_destroy has freed the mutex and the condition, no
\* thread is inside pthread_barrier_wait.
THEOREM BarrierFreedQuiet == BarrierSafety => []FreedIsQuiet
<1>1. BarrierInd => FreedIsQuiet
  BY Zenon DEF BarrierInd, LeaversLock, DestroyedEmpty, FreedIsQuiet
<1>. QED BY <1>1, BarrierInvariant, PTL

\* pthread_barrier_wait implements the abstract barrier: nobody passes, or joins
\* the next round, before the current round is complete.
THEOREM BarrierRefines == BarrierSafety => ImplementsBarrier
<1>1. BarrierInit => Abstract!Init
  BY FlagAssumption DEF BarrierInit, Abstract!Init, Filling
<1>2. BarrierInd /\ [BarrierNext]_barrierVars => [Abstract!Next]_<<Filling, total > Flag>>
  BY BarrierNextInd, Zenon
<1>. QED BY <1>1, <1>2, BarrierInvariant, PTL DEF BarrierSafety, ImplementsBarrier, Abstract!Spec

\* pthread_barrier_wait counts exactly, and pthread_barrier_destroy frees only a
\* barrier that nobody is in.
THEOREM BarrierSoundHolds == BarrierSafety => []BarrierSound
<1>1. BarrierInd => BarrierTypeOK
  BY Zenon DEF BarrierInd, CondInd, BarrierTypes, BarrierTypeOK
<1>. QED BY <1>1, BarrierInvariant, BarrierHeightExact, BarrierFreedQuiet, PTL DEF BarrierSound

-----------------------------------------------------------------------------
(***************************************************************************)
(* Proofs about PosixSem, for every finite set of threads, every limit and *)
(* every initial value.  The invariant of the condition variable carries   *)
(* over: each step of the semaphore takes a step of CondVar or none.       *)
(***************************************************************************)

\* WaitersCounted is what keeps waiters_count a natural number.
SemInd == CondInd /\ SemTypeOK /\ WaitersCounted

\* waiters_count counts a finite set.
LEMMA SemWaitersFinite == IsFiniteSet(SemWaiters) /\ Cardinality(SemWaiters) \in Nat
BY ThreadsAssumption, FS_Subset, FS_CardinalityType, Zenon DEF SemWaiters

\* The invariant holds after sem_init.
LEMMA SemInitInd == SemInit => SemInd
<1> SUFFICES ASSUME SemInit PROVE SemInd
  BY Zenon
<1>1. CondInd
  BY CondInitInd, Zenon DEF SemInit
<1>2. SemTypeOK
  BY <1>1, SemValueAssumption, SMTT(30) DEF SemInit, SemTypeOK, CondInd
<1>3. WaitersCounted
  <2>1. SemWaiters = {}
    BY Zenon DEF SemInit, SemWaiters
  <2> QED BY <2>1, FS_EmptySet, Zenon DEF SemInit, WaitersCounted
<1> QED BY <1>1, <1>2, <1>3, Zenon DEF SemInd

\* What each step does to the mutex and the condition.
LEMMA SemCondInd ==
    ASSUME SemInd, [SemNext]_semVars
    PROVE  CondInd'
<1> USE DEF SemInd
<1>1. CASE UNCHANGED semVars
  BY <1>1, CondNextInd, Zenon DEF semVars
<1>2. ASSUME NEW t \in Threads, SemCall(t) PROVE CondInd'
  BY <1>2, MutexStep, Zenon DEF SemCall, SemWaitLock, SemTryLock, SemPostLock
<1>3. ASSUME NEW t \in Threads, SemStep(t) PROVE CondInd'
  <2>1. CASE SemWaitSleep(t)
    <3>1. abstime[t] \in {"none", "zero", "future", "past", "realtime", "relative"}
      BY Zenon DEF SemTypeOK
    <3> QED BY <2>1, <3>1, EnqueueStep, Zenon DEF SemWaitSleep
  <2>2. CASE SemWaitTimedOut(t)
    BY <2>2, DequeueStep, Zenon DEF SemWaitTimedOut
  <2>3. CASE SemPost(t)
    <3>1. CASE UNCHANGED condVars
      BY <3>1, CondNextInd, Zenon
    <3> QED BY <2>3, <3>1, SignalStep, Zenon DEF SemPost
  <2> QED BY <1>3, <2>1, <2>2, <2>3, MutexStep, Zenon
          DEF SemStep, SemWaitTake, SemWaitFail, SemTry, SemPostOverflow, SemPostUnlock
<1>4. ASSUME NEW t \in Threads, SemCondStep(t) PROVE CondInd'
  BY <1>4, ReleaseStep, WakeStep, RelockStep, DequeueStep, SignalStep, Zenon DEF SemCondStep
<1>5. ASSUME NEW t \in Threads, DeadlinePasses(t) PROVE CondInd'
  <2>1. CASE UNCHANGED condVars
    BY <2>1, CondNextInd, Zenon
  <2> QED BY <1>5, <2>1, SignalStep, Zenon DEF DeadlinePasses
<1> QED BY <1>1, <1>2, <1>3, <1>4, <1>5, Zenon DEF SemNext

\* A thread enters sem_timedwait ...
LEMMA SemEnter ==
    ASSUME SemInd, NEW t \in Threads, NEW d \in Deadlines, SemWaitLock(t, d)
    PROVE  WaitersCounted' /\ waiters_count' \in Nat
<1>1. t \notin SemWaiters /\ SemWaiters' = SemWaiters \cup {t}
  BY Zenon DEF SemWaiters, SemWaitLock, Goto, SemInd, SemTypeOK
<1>2. Cardinality(SemWaiters') = Cardinality(SemWaiters) + 1
  BY <1>1, SemWaitersFinite, FS_AddElement, Zenon
<1> QED BY <1>2, SMTT(30) DEF SemInd, SemTypeOK, WaitersCounted, SemWaitLock

\* ... and leaves it, with the token or without it.
LEMMA SemLeave ==
    ASSUME SemInd, NEW t \in Threads, SemWaitTake(t) \/ SemWaitFail(t)
    PROVE  WaitersCounted' /\ waiters_count' \in Nat
<1>1. t \in SemWaiters /\ SemWaiters' = SemWaiters \ {t}
  BY Zenon DEF SemWaiters, SemWaitTake, SemWaitFail, In, Goto, SemInd, SemTypeOK
<1>2. Cardinality(SemWaiters') = Cardinality(SemWaiters) - 1
  BY <1>1, SemWaitersFinite, FS_RemoveElement, Zenon
<1>3. IsFiniteSet(SemWaiters') /\ Cardinality(SemWaiters') \in Nat
  BY <1>1, SemWaitersFinite, FS_Subset, FS_CardinalityType, Zenon
<1>4. waiters_count' = waiters_count - 1
  BY Zenon DEF SemWaitTake, SemWaitFail
<1> QED BY <1>2, <1>3, <1>4, Zenon DEF SemInd, WaitersCounted

\* A step that moves no thread into or out of sem_timedwait.
LEMMA SemStay ==
    ASSUME SemInd, UNCHANGED waiters_count, SemWaiters' = SemWaiters
    PROVE  WaitersCounted'
BY Zenon DEF SemInd, WaitersCounted

\* Every step of a semaphore.
LEMMA SemNextInd == SemInd /\ [SemNext]_semVars => SemInd'
<1> SUFFICES ASSUME SemInd, [SemNext]_semVars PROVE SemInd'
  BY Zenon
<1>0. CondInd' /\ CondTypeOK'
  BY SemCondInd, Zenon DEF CondInd
<1> USE SemValueAssumption, SemDeadlinesAssumption DEF SemTypeOK, Goto
<1>1. CASE UNCHANGED semVars
  <2>1. SemWaiters' = SemWaiters
    BY <1>1, Zenon DEF SemWaiters, semVars
  <2> QED BY <1>0, <1>1, <2>1, SemStay, Zenon DEF SemInd, semVars
<1>2. ASSUME NEW t \in Threads, NEW d \in Deadlines, SemWaitLock(t, d) PROVE SemInd'
  BY <1>0, <1>2, SemEnter, Zenon DEF SemInd, SemWaitLock
<1>3. ASSUME NEW t \in Threads, SemWaitTake(t) \/ SemWaitFail(t) PROVE SemInd'
  <2>1. value' \in 0 .. SEM_VALUE_MAX
    BY <1>3, SMTT(30) DEF SemInd, SemWaitTake, SemWaitFail
  <2> QED BY <1>0, <1>3, <2>1, SemLeave, SMTT(30) DEF SemInd, SemWaitTake, SemWaitFail
<1>4. ASSUME NEW t \in Threads,
             \/ SemTryLock(t)
             \/ SemTry(t)
             \/ SemPostLock(t)
             \/ SemPost(t)
             \/ SemPostOverflow(t)
             \/ SemPostUnlock(t)
             \/ SemWaitTimedOut(t)
      PROVE  SemInd'
  <2>1. SemWaiters' = SemWaiters
    BY <1>4, Zenon DEF SemInd, SemWaiters, In, SemTryLock, SemTry, SemPostLock, SemPost,
                SemPostOverflow, SemPostUnlock, SemWaitTimedOut
  <2>2. value' \in 0 .. SEM_VALUE_MAX /\ held' \in [Threads -> Int]
    BY <1>4, SMTT(30) DEF SemInd, SemTryLock, SemTry, SemPostLock, SemPost, SemPostOverflow,
                SemPostUnlock, SemWaitTimedOut
  <2>3. UNCHANGED <<waiters_count, abstime>>
    BY <1>4, Zenon DEF SemTryLock, SemTry, SemPostLock, SemPost, SemPostOverflow,
                SemPostUnlock, SemWaitTimedOut
  <2>4. \E pc \in {"out", "failed", "try", "post", "posted"} : Goto(t, pc)
    BY <1>4, Zenon DEF SemTryLock, SemTry, SemPostLock, SemPost, SemPostOverflow,
                SemPostUnlock, SemWaitTimedOut
  <2> QED BY <1>0, <2>1, <2>2, <2>3, <2>4, SemStay, Zenon DEF SemInd
<1>5. ASSUME NEW t \in Threads, SemWaitSleep(t) \/ SemCondStep(t) \/ DeadlinePasses(t)
      PROVE  SemInd'
  <2>1. UNCHANGED <<value, waiters_count, spc, held>>
    BY <1>5, Zenon DEF SemWaitSleep, SemCondStep, SemRest, DeadlinePasses
  <2>2. SemWaiters' = SemWaiters
    BY <2>1, Zenon DEF SemWaiters
  <2>3. abstime' \in [Threads -> {"none", "future", "past"}]
    BY <1>5, Zenon DEF SemInd, SemWaitSleep, SemCondStep, SemRest, DeadlinePasses
  <2> QED BY <1>0, <2>1, <2>2, <2>3, SemStay, Zenon DEF SemInd
<1> QED BY <1>1, <1>2, <1>3, <1>4, <1>5, Zenon DEF SemNext, SemCall, SemStep

\* The invariant of the semaphore and of the condition variable under it holds
\* in every state.
THEOREM SemInvariant == SemSafety => []SemInd
BY SemInitInd, SemNextInd, PTL DEF SemSafety

\* sem->value stays between 0 and SEM_VALUE_MAX whatever sem_wait, sem_trywait
\* and sem_post do, and no counter becomes negative.
THEOREM SemTypeCorrect == SemSafety => []SemTypeOK
BY SemInvariant, PTL DEF SemInd

\* waiters_count is the number of threads inside sem_timedwait, so sem_post
\* omits its signal only when nobody waits.
THEOREM SemWaitersExact == SemSafety => []WaitersCounted
BY SemInvariant, PTL DEF SemInd

\* The semaphore's condition variable keeps its promises: the waiter list holds
\* the nodes of the threads inside a wait, and no wait returns without the lock.
THEOREM SemUsesCondSafely == SemSafety => [](NodesAreLive /\ MutexHeld)
BY SemInvariant, PTL DEF SemInd, CondInd

-----------------------------------------------------------------------------

\* TokensConserved as a sum that the lemmas of Sums are about.
LEMMA Tokens ==
    /\ TokensConserved <=> value + SumOf(held, Threads) = InitValue
    /\ TokensConserved' <=> value' + SumOf(held', Threads) = InitValue
BY Zenon DEF TokensConserved, MapThenSumSet, MapThenFoldSet, SumOf, Adding, Adds, Pick

\* A token moves between the semaphore and one thread.
LEMMA TokenMoves ==
    ASSUME SemTypeOK, TokensConserved, NEW t \in Threads, NEW n \in Int,
           value' = value - n, held'[t] = held[t] + n,
           \A u \in Threads \ {t} : held'[u] = held[u]
    PROVE  TokensConserved'
<1>1. \A u \in Threads : held[u] \in Int /\ held'[u] \in Int
  BY DEF SemTypeOK
<1>3. SumOf(held', Threads) = SumOf(held, Threads) + held'[t] - held[t]
  <2>1. ASSUME NEW k, \A u \in Threads : k[u] \in Int, \A u \in Threads \ {t} : held[u] = k[u]
        PROVE  SumOf(k, Threads) = SumOf(held, Threads) + k[t] - held[t]
    BY <1>1, <2>1, ThreadsAssumption, SumChange, SMTT(30)
  <2> QED BY <1>1, <2>1, Zenon
<1>4. SumOf(held, Threads) \in Int
  BY <1>1, ThreadsAssumption, SumInt, Zenon
<1>5. value \in Int /\ InitValue \in Int
  BY SemValueAssumption, SMTT(30) DEF SemTypeOK
<1> QED BY <1>1, <1>3, <1>4, <1>5, Tokens

\* A step that changes neither the value nor what a thread holds.
LEMMA TokensStay ==
    ASSUME TokensConserved, UNCHANGED <<value, held>>
    PROVE  TokensConserved'
BY Tokens, Zenon

\* sem_init: all tokens are in the value.
LEMMA TokensInit == SemInit => TokensConserved
<1> SUFFICES ASSUME SemInit PROVE TokensConserved
  BY Zenon
<1>1. SumOf(held, Threads) = 0
  <2>1. \A u \in Threads : held[u] = 0
    BY Zenon DEF SemInit
  <2> QED BY <2>1, ThreadsAssumption, SumZero, Zenon
<1> QED BY <1>1, Tokens, SemValueAssumption DEF SemInit
\* A token that leaves the value is held by the thread that took it.
LEMMA TokensStep ==
    ASSUME SemInd, TokensConserved, [SemNext]_semVars
    PROVE  TokensConserved'
<1>0. SemTypeOK
  BY Zenon DEF SemInd
<1>1. ASSUME NEW t \in Threads, SemWaitTake(t) PROVE TokensConserved'
  <2>1. /\ value' = value - 1 /\ held'[t] = held[t] + 1
        /\ \A u \in Threads \ {t} : held'[u] = held[u]
    BY <1>0, <1>1, Zenon DEF SemWaitTake, SemTypeOK
  <2> QED BY <1>0, <2>1, TokenMoves, SMTT(30)
<1>2. ASSUME NEW t \in Threads, SemTry(t) PROVE TokensConserved'
  <2> DEFINE n == IF value > 0 THEN 1 ELSE 0
  <2>1. /\ value' = value - n /\ held'[t] = held[t] + n /\ n \in Int
        /\ \A u \in Threads \ {t} : held'[u] = held[u]
    BY <1>0, <1>2 DEF SemTry, SemTypeOK
  <2> HIDE DEF n
  <2> QED BY <1>0, <2>1, TokenMoves, Zenon
<1>3. ASSUME NEW t \in Threads, SemPost(t) PROVE TokensConserved'
  <2>1. /\ value' = value - (-1) /\ held'[t] = held[t] + (-1)
        /\ \A u \in Threads \ {t} : held'[u] = held[u]
    BY <1>0, <1>3, SMTT(30) DEF SemPost, SemTypeOK
  <2> QED BY <1>0, <2>1, TokenMoves, SMTT(30)
<1>4. CASE UNCHANGED <<value, held>>
  BY <1>4, TokensStay, Zenon
<1> QED
  BY <1>1, <1>2, <1>3, <1>4, Zenon
  DEF SemNext, SemCall, SemStep, SemCondStep, SemRest, SemWaitLock, SemTryLock, SemPostLock,
      SemWaitSleep, SemWaitTimedOut, SemWaitFail, SemPostOverflow, SemPostUnlock,
      DeadlinePasses, semVars

\* Whatever way sem_wait, sem_timedwait and sem_trywait end, and however often
\* sem_post is called, the value and the tokens the threads hold add up to what
\* sem_init gave.
THEOREM TokensAreConserved == SemSafety => []TokensConserved
<1>1. SemInd /\ TokensConserved /\ [SemNext]_semVars => TokensConserved'
  BY TokensStep, Zenon
<1> QED BY <1>1, TokensInit, SemInvariant, PTL DEF SemSafety

-----------------------------------------------------------------------------
\* A thread in sem_wait that is not asleep, or that has its signal.
OnItsWay(u) == spc[u] = "loop" /\ (cpc[u] # "wait" \/ sigs[u] \cap WaitMask(u) # {})

\* A token there is on its way to a thread, if any waits.
TokenSeen == (value > 0 /\ \E t \in Threads : spc[t] = "loop") => \E u \in Threads : OnItsWay(u)

\* Without deadlines the only threads inside the condition wait are in the loop
\* of sem_wait, which one of them enters while it owns the lock and the value
\* is 0.
SemWakeInd ==
    /\ \A t \in Threads : timer[t] = "idle" /\ abstime[t] = "none"
    /\ \A t \in Threads : cpc[t] \in InWait => spc[t] = "loop"
    /\ \A t \in Threads : cpc[t] = "enqueued" => value = 0
    /\ TokenSeen

\* Nobody waits after sem_init.
LEMMA SemWakeInit == SemInit => SemWakeInd
BY SMTT(30) DEF SemInit, CondInit, SemWakeInd, TokenSeen, InWait

\* A token that is seen strands nobody.
LEMMA SeenEnough == SemInd /\ SemWakeInd => NoStrandedWaiter
BY Zenon DEF SemWakeInd, TokenSeen, NoStrandedWaiter, Sleeping, OnItsWay

\* The threads on their way stay so, and nobody comes to wait.
LEMMA SeenStays ==
    ASSUME TokenSeen, value' > 0 => value > 0,
           \A u \in Threads : spc'[u] = "loop" => spc[u] = "loop",
           \A u \in Threads : OnItsWay(u) => OnItsWay(u)'
    PROVE  TokenSeen'
BY Zenon DEF TokenSeen

\* One thread on its way to the token is enough.
LEMMA SeenBy ==
    ASSUME NEW u \in Threads, OnItsWay(u)'
    PROVE  TokenSeen'
BY Zenon DEF TokenSeen
\* A post wakes a waiter, and a waiter leaves the wait only to look at the
\* value.
LEMMA SemWakeStep ==
    ASSUME Deadlines \subseteq {"none"}, SemInd, SemWakeInd, value <= 1, [SemNext]_semVars
    PROVE  SemWakeInd'
<1>0. SemTypeOK /\ CondTypeOK /\ MutexHeld /\ NodesAreLive /\ WaitersCounted /\ TokenSeen
  BY Zenon DEF SemInd, CondInd, SemWakeInd
<1>1. ASSUME NEW t \in Threads, NEW d \in Deadlines, SemWaitLock(t, d) PROVE SemWakeInd'
  <2>1. OnItsWay(t)'
    BY <1>0, <1>1, Zenon DEF SemWaitLock, Goto, pthread_mutex_lock, OnItsWay, SemTypeOK
  <2>2. TokenSeen'
    BY <2>1, SeenBy, Zenon
  <2> QED
    BY <1>0, <1>1, <2>2, Zenon DEF SemWakeInd, SemWaitLock, Goto, pthread_mutex_lock, SemTypeOK, InWait
<1>2. ASSUME NEW t \in Threads, SemWaitSleep(t) PROVE SemWakeInd'
  <2>1. value = 0 /\ TokenSeen'
    BY <1>2, SMTT(30) DEF SemWaitSleep, TokenSeen
  <2>2. timer' = [timer EXCEPT ![t] = "idle"] /\ cpc' = [cpc EXCEPT ![t] = "enqueued"]
    BY <1>2, Zenon DEF SemWaitSleep, CondEnqueue, SemWakeInd, TimerOf
  <2> QED
    BY <1>0, <1>2, <2>1, <2>2, ZenonT(30) DEF SemWakeInd, SemWaitSleep, In, CondTypeOK
<1>3. ASSUME NEW t \in Threads, SemWaitTake(t) \/ SemTry(t) PROVE SemWakeInd'
  <2>1. value' = 0 \/ (value' = value /\ value = 0)
    BY <1>0, <1>3, SMTT(30) DEF SemWaitTake, SemTry, SemTypeOK
  <2>2. TokenSeen'
    BY <2>1 DEF TokenSeen
  <2> QED
    BY <1>0, <1>3, <2>1, <2>2, SMTT(60)
    DEF SemWakeInd, SemWaitTake, SemTry, In, Goto, pthread_mutex_unlock, SemTypeOK, CondTypeOK, InWait
<1>4. ASSUME NEW t \in Threads,
             \/ SemWaitFail(t) \/ SemTryLock(t) \/ SemPostLock(t)
             \/ SemPostOverflow(t) \/ SemPostUnlock(t)
      PROVE  SemWakeInd'
  <2>1. /\ UNCHANGED <<value, cpc, sigs, sigbit, timer>> /\ cpc[t] = "run"
        /\ \E pc \in {"out", "try", "post"} : Goto(t, pc)
        /\ spc[t] # "loop"
        /\ \A u \in Threads : abstime'[u] = "none"
    BY <1>0, <1>4, Zenon DEF SemWaitFail, SemTryLock, SemPostLock, SemPostOverflow, SemPostUnlock, In,
                      pthread_mutex_unlock, pthread_mutex_lock, SemWakeInd, SemTypeOK
  <2>2. TokenSeen'
    <3>1. \A u \in Threads : spc'[u] = "loop" <=> spc[u] = "loop"
      BY <1>0, <2>1, Zenon DEF Goto, SemTypeOK
    <3> QED
      BY <1>0, <2>1, <3>1, SeenStays, Zenon DEF OnItsWay, WaitMask
  <2> QED
    BY <1>0, <2>1, <2>2, Zenon DEF SemWakeInd, Goto, SemTypeOK, InWait
<1>5. ASSUME NEW t \in Threads, SemWaitTimedOut(t) PROVE SemWakeInd'
  BY <1>5, Zenon DEF SemWaitTimedOut, CondReturnTimedOut, TimedOut, SemWakeInd
<1>6. ASSUME NEW t \in Threads, DeadlinePasses(t) PROVE SemWakeInd'
  BY <1>6, Zenon DEF DeadlinePasses, SemWakeInd
<1>7. ASSUME NEW t \in Threads, SemPost(t) PROVE SemWakeInd'
  <2>1. /\ UNCHANGED <<cpc, sigbit, timer, abstime>> /\ owner = t /\ cpc[t] = "run"
        /\ Goto(t, "posted") /\ spc[t] = "post"
    BY <1>7, Zenon DEF SemPost, In, pthread_cond_signal, condVars
  <2>2. \A u \in Threads : cpc[u] # "enqueued"
    BY <1>0, <2>1, Zenon DEF MutexHeld
  <2>3. TokenSeen'
    <3> SUFFICES ASSUME NEW w \in Threads, spc'[w] = "loop" PROVE TokenSeen'
      BY Zenon DEF TokenSeen
    <3>1. spc[w] = "loop" /\ w # t
      BY <1>0, <2>1, Zenon DEF Goto, SemTypeOK
    <3>2. CASE cpc[w] \notin InWait
      <4>1. OnItsWay(w)'
        BY <2>1, <3>2, Zenon DEF OnItsWay, InWait
      <4> QED BY <4>1, SeenBy, Zenon
    <3>3. CASE cpc[w] \in InWait
      <4>1. waiters_count > 0
        <5>1. w \in SemWaiters
          BY <3>1, Zenon DEF SemWaiters
        <5>2. Cardinality(SemWaiters) # 0
          BY <5>1, SemWaitersFinite, FS_EmptySet, Zenon
        <5> QED BY <1>0, <5>2, SemWaitersFinite DEF WaitersCounted
      <4>2. w \in Range(waiters) /\ waiters \in Seq(Threads)
        BY <1>0, <3>3, Zenon DEF NodesAreLive, CondTypeOK
      <4>3. waiters # <<>> /\ Head(waiters) \in Range(waiters)
        BY <4>2 DEF Range
      <4>4. PICK h \in Threads : h = Head(waiters) /\ cpc[h] \in InWait
        BY <1>0, <4>3, Zenon DEF NodesAreLive
      <4>5. sigs'[h] = sigs[h] \cup {sigbit[h]}
        BY <1>7, <4>1, <4>3, <4>4, Zenon DEF SemPost, pthread_cond_signal, SignalWaiters
      <4>6. spc'[h] = "loop"
        BY <1>0, <2>1, <4>4, Zenon DEF SemWakeInd, Goto, SemTypeOK
      <4>7. OnItsWay(h)'
        BY <2>1, <4>5, <4>6, Zenon DEF OnItsWay, WaitMask
      <4> QED BY <4>4, <4>7, SeenBy, Zenon
    <3> QED BY <3>2, <3>3, Zenon
  <2> QED
    BY <1>0, <2>1, <2>2, <2>3, Zenon DEF SemWakeInd, Goto, SemTypeOK, InWait
<1>8. ASSUME NEW t \in Threads, SemCondStep(t) PROVE SemWakeInd'
  <2>0. UNCHANGED <<value, spc, abstime>>
    BY <1>8, Zenon DEF SemCondStep, SemRest
  <2>1. CASE CondRelease(t)
    <3>1. value' = 0
      BY <2>0, <2>1, Zenon DEF CondRelease, SemWakeInd
    <3>2. TokenSeen'
      BY <3>1 DEF TokenSeen
    <3> QED
      BY <1>0, <2>0, <2>1, <3>1, <3>2, ZenonT(30) DEF CondRelease, SemWakeInd, CondTypeOK, InWait
  <2>2. CASE CondWake(t) \/ CondRelock(t) \/ CondReturnOk(t)
    <3>1. /\ cpc[t] \in InWait /\ timer' \in {timer, [timer EXCEPT ![t] = "idle"]}
          /\ \E pc \in {"relock", "dequeue", "run"} : cpc' = [cpc EXCEPT ![t] = pc]
      BY <2>2, Zenon DEF CondWake, CondRelock, CondReturnOk, CondDequeue, InWait
    <3>2. OnItsWay(t)'
      BY <1>0, <2>0, <3>1, Zenon DEF OnItsWay, SemWakeInd, CondTypeOK
    <3>3. TokenSeen'
      BY <3>2, SeenBy, Zenon
    <3> QED
      BY <1>0, <2>0, <3>1, <3>3, SMTT(30) DEF SemWakeInd, CondTypeOK, InWait
  <2>3. CASE ConsoleBreak(t)
    <3>1. /\ UNCHANGED <<cpc, sigbit, timer>>
          /\ \A u \in Threads : sigs[u] \subseteq sigs'[u]
      BY <1>0, <2>3, Zenon DEF ConsoleBreak, CondTypeOK
    <3>2. TokenSeen'
      BY <1>0, <2>0, <3>1, SeenStays, Zenon DEF OnItsWay, WaitMask
    <3> QED
      BY <1>0, <2>0, <3>1, <3>2, Zenon DEF SemWakeInd
  <2> QED BY <1>8, <2>1, <2>2, <2>3, Zenon DEF SemCondStep
<1>9. CASE UNCHANGED semVars
  <2>1. TokenSeen'
    BY <1>0, <1>9, SeenStays, Zenon DEF semVars, condVars, OnItsWay, WaitMask
  <2> QED
    BY <1>9, <2>1, Zenon DEF semVars, condVars, SemWakeInd
<1> QED
  BY <1>1, <1>2, <1>3, <1>4, <1>5, <1>6, <1>7, <1>8, <1>9, Zenon DEF SemNext, SemCall, SemStep

-----------------------------------------------------------------------------
\* The use as a lock: one token at most to begin with, and a thread posts only
\* what it took.
UsedAsLock == InitValue <= 1 /\ Credit = 0
TokensOwned == \A t \in Threads : held[t] >= IF spc[t] = "post" THEN 1 ELSE 0

\* A thread posts only what it holds.
LEMMA OwnedStep ==
    ASSUME UsedAsLock, SemInd, TokensOwned, [SemNext]_semVars
    PROVE  TokensOwned'
<1>0. held \in [Threads -> Int] /\ spc \in [Threads -> {"out", "loop", "failed", "try", "post", "posted"}]
  BY Zenon DEF SemInd, SemTypeOK
<1>1. ASSUME NEW t \in Threads, SemPostLock(t) PROVE TokensOwned'
  BY <1>0, <1>1 DEF SemPostLock, Goto, TokensOwned, UsedAsLock
<1>2. ASSUME NEW t \in Threads, SemPost(t) PROVE TokensOwned'
  BY <1>0, <1>2, SMTT(30) DEF SemPost, In, Goto, TokensOwned
<1>3. ASSUME NEW t \in Threads, SemWaitTake(t) \/ SemTry(t) PROVE TokensOwned'
  BY <1>0, <1>3, SMTT(30) DEF SemWaitTake, SemTry, In, Goto, TokensOwned
<1>4. ASSUME NEW t \in Threads, NEW pc \in {"out", "loop", "failed", "try"}, Goto(t, pc), UNCHANGED held
      PROVE  TokensOwned'
  BY <1>0, <1>4 DEF Goto, TokensOwned
<1>5. CASE UNCHANGED <<spc, held>>
  BY <1>5, Zenon DEF TokensOwned
<1> QED
  BY <1>1, <1>2, <1>3, <1>4, <1>5, Zenon
  DEF SemNext, SemCall, SemStep, SemCondStep, SemRest, SemWaitLock, SemTryLock,
      SemWaitSleep, SemWaitTimedOut, SemWaitFail, SemPostOverflow, SemPostUnlock,
      DeadlinePasses, semVars

\* A semaphore used as a lock has one token at most.
LEMMA LockValue ==
    ASSUME UsedAsLock, SemInd, TokensConserved, TokensOwned
    PROVE  value <= 1
<1>1. \A t \in Threads : held[t] \in Int /\ held[t] >= 0
  BY DEF SemInd, SemTypeOK, TokensOwned
<1>2. SumOf(held, Threads) \in Int /\ SumOf(held, Threads) >= 0
  BY <1>1, ThreadsAssumption, SumInt, Zenon
<1>3. value \in Int /\ InitValue \in Int /\ value + SumOf(held, Threads) = InitValue
  BY Tokens, SemValueAssumption DEF SemInd, SemTypeOK
<1> QED BY <1>2, <1>3 DEF UsedAsLock

\* A semaphore used as a lock, whose threads wait without deadlines, is sound:
\* in particular sem_post's signal reaches a waiter.  With more tokens a waiter
\* may be left asleep (run sem_count).
THEOREM SemaphoresAreSound ==
    ASSUME UsedAsLock, Deadlines \subseteq {"none"}
    PROVE  SemSafety => []SemSound
<1>1. SemInit => TokensOwned
  BY DEF SemInit, TokensOwned
<1>2. SemInd /\ TokensOwned /\ [SemNext]_semVars => TokensOwned'
  BY OwnedStep, Zenon
<1>3. SemInd /\ TokensConserved /\ TokensOwned => value <= 1
  BY LockValue, Zenon
<1>4. SemInd /\ SemWakeInd /\ value <= 1 /\ [SemNext]_semVars => SemWakeInd'
  BY SemWakeStep, Zenon
<1>5. SemInd => SemTypeOK /\ WaitersCounted
  BY Zenon DEF SemInd
<1> QED
  BY <1>1, <1>2, <1>3, <1>4, <1>5, SemWakeInit, SeenEnough, TokensAreConserved,
     SemInvariant, PTL
  DEF SemSafety, SemSound

-----------------------------------------------------------------------------
(***************************************************************************)
(* Proofs about module RWLock, for any number of threads, deadlines and    *)
(* read locks of one thread, if the first calls on a static lock do not    *)
(* overlap (RwRaces = FALSE).                                              *)
(***************************************************************************)

Semas == [made : BOOLEAN, owner : RwThreads \cup {RwNone}, nest : Nat,
          queue : SUBSET RwThreads, granted : SUBSET RwThreads]

RwTypes ==
    /\ rwSema \in Semas
    /\ rwPc \in [RwThreads -> RwPlaces]
    /\ rwMode \in [RwThreads -> {"rd", "wr"}]
    /\ rwTimer \in [RwThreads -> {"idle", "armed", "never", "fired"}]
    /\ rwSaw \in [RwThreads -> BOOLEAN]
    /\ rwRead \in [RwThreads -> 0 .. RwNests]
    /\ rwWrite \in [RwThreads -> BOOLEAN]

\* A thread with a bid is in a call; one that is about to be told that it has
\* the lock was given it; a call is for a lock the thread may ask for, and has a
\* semaphore unless it is about to make it.
CallOk(t) ==
    /\ t \in rwSema.granted \cup rwSema.queue => rwPc[t] \in {"sleep", "port", "decide"}
    /\ t \in rwSema.queue => t \notin rwSema.granted
    /\ rwPc[t] = "decide" /\ ~rwSaw[t] => t \in rwSema.granted
    /\ rwPc[t] # "out" => ~rwWrite[t]
    /\ rwPc[t] # "out" /\ rwMode[t] = "wr" => rwRead[t] = 0
    /\ rwPc[t] # "out" /\ rwMode[t] = "rd" => rwRead[t] < RwNests
    /\ rwPc[t] \in {"lock", "try", "sleep", "bid", "port", "decide"} => rwSema.made
    /\ rwPc[t] \in {"initlock", "inittry"} => ~rwSema.made

RwCalls == \A t \in RwThreads : CallOk(t)

\* The semaphore has an owner exactly while a thread writes, or was given the
\* lock to, and then nobody reads.
RwOwned ==
    /\ \A t \in RwThreads :
         (rwWrite[t] \/ (t \in rwSema.granted /\ rwMode[t] = "wr")) <=> rwSema.owner = t
    /\ rwSema.owner # RwNone =>
         \A t \in RwThreads : rwRead[t] = 0 /\ (t \in rwSema.granted => rwMode[t] = "wr")

RwInd == RwTypes /\ RwCalls /\ RwOwned /\ RwAccounted

-----------------------------------------------------------------------------
\* A semaphore by its fields.
LEMMA SemaIs ==
    ASSUME NEW m, m \in BOOLEAN, NEW o \in RwThreads \cup {RwNone}, NEW n \in Nat,
           NEW q \in SUBSET RwThreads, NEW g \in SUBSET RwThreads
    PROVE  [made |-> m, owner |-> o, nest |-> n, queue |-> q, granted |-> g] \in Semas
BY DEF Semas

\* Locks are numbered from a finite set.
LEMMA HoldingsFinite ==
    ASSUME NEW S, S \subseteq RwThreads \X (0 .. RwNests)
    PROVE  IsFiniteSet(S)
<1>1. IsFiniteSet(0 .. RwNests)
  BY RwAssumption, FS_Interval
<1>2. IsFiniteSet(RwThreads \X (0 .. RwNests))
  BY <1>1, RwAssumption, FS_Product, Zenon
<1> QED BY <1>2, FS_Subset, Zenon

\* The sets that RwAccounted counts are finite.
LEMMA RwFinite ==
    ASSUME RwTypes
    PROVE  /\ IsFiniteSet(LocksHeld) /\ IsFiniteSet(rwSema.granted)
           /\ Cardinality(LocksHeld) \in Nat /\ Cardinality(rwSema.granted) \in Nat
<1>2. LocksHeld \subseteq RwThreads \X (0 .. RwNests)
  BY Zenon DEF LocksHeld
<1>3. rwSema.granted \subseteq RwThreads /\ IsFiniteSet(RwThreads)
  BY RwAssumption, Zenon DEF RwTypes, Semas
<1> QED BY <1>2, <1>3, HoldingsFinite, FS_Subset, FS_CardinalityType, Zenon

\* What a call that answers 0 records.
LEMMA TookIs ==
    ASSUME RwTypes, NEW t \in RwThreads, NEW mode \in {"rd", "wr"}, Took(t, mode), ~rwWrite[t],
           mode = "rd" => rwRead[t] < RwNests
    PROVE  /\ \A u \in RwThreads : rwWrite'[u] = (rwWrite[u] \/ (u = t /\ mode = "wr"))
           /\ \A u \in RwThreads :
                rwRead'[u] = IF u = t /\ mode = "rd" THEN rwRead[u] + 1 ELSE rwRead[u]
           /\ rwWrite' \in [RwThreads -> BOOLEAN] /\ rwRead' \in [RwThreads -> 0 .. RwNests]
<1>1. /\ rwWrite \in [RwThreads -> BOOLEAN] /\ rwRead \in [RwThreads -> 0 .. RwNests]
      /\ RwNests \in Nat
  BY RwAssumption, Zenon DEF RwTypes
<1>2. CASE mode = "wr"
  BY <1>1, <1>2, ZenonT(30) DEF Took
<1>3. CASE mode = "rd"
  <2>1. rwRead' = [rwRead EXCEPT ![t] = @ + 1] /\ rwWrite' = rwWrite
    BY <1>3, Zenon DEF Took
  <2>2. rwRead[t] + 1 \in 0 .. RwNests
    BY <1>1, <1>3
  <2> QED BY <1>1, <1>3, <2>1, <2>2, Zenon
<1> QED BY <1>2, <1>3, Zenon

\* A call that answers 0 gives its thread one lock more.
LEMMA TookOne ==
    ASSUME RwTypes, RwTypes', NEW t \in RwThreads, NEW mode \in {"rd", "wr"}, Took(t, mode),
           ~rwWrite[t], mode = "rd" => rwRead[t] < RwNests
    PROVE  Cardinality(LocksHeld') = Cardinality(LocksHeld) + 1
<1> DEFINE n == IF mode = "wr" THEN 0 ELSE rwRead[t] + 1
<1>1. n \in 0 .. RwNests /\ <<t, n>> \notin LocksHeld
  BY RwAssumption DEF RwTypes, LocksHeld
<1>2. \A u \in RwThreads, k \in 0 .. RwNests :
        <<u, k>> \in LocksHeld' <=> <<u, k>> \in LocksHeld \/ (u = t /\ k = n)
  BY RwAssumption DEF RwTypes, LocksHeld, Took
<1>3. LocksHeld' = LocksHeld \cup {<<t, n>>}
  BY <1>1, <1>2 DEF LocksHeld
<1> QED BY <1>1, <1>3, RwFinite, FS_AddElement, Zenon

\* pthread_rwlock_unlock takes one from it.
LEMMA GaveOne ==
    ASSUME RwTypes, NEW t \in RwThreads, rwWrite[t] \/ rwRead[t] > 0,
           rwWrite' = [rwWrite EXCEPT ![t] = FALSE],
           rwRead' = [rwRead EXCEPT ![t] = IF rwWrite[t] THEN @ ELSE @ - 1]
    PROVE  Cardinality(LocksHeld') = Cardinality(LocksHeld) - 1
<1> DEFINE n == IF rwWrite[t] THEN 0 ELSE rwRead[t]
<1>1. n \in 0 .. RwNests /\ <<t, n>> \in LocksHeld
  BY RwAssumption DEF RwTypes, LocksHeld
<1>2. \A u \in RwThreads, k \in 0 .. RwNests :
        <<u, k>> \in LocksHeld' <=> <<u, k>> \in LocksHeld /\ ~(u = t /\ k = n)
  BY RwAssumption DEF RwTypes, LocksHeld
<1>3. LocksHeld' = LocksHeld \ {<<t, n>>}
  BY <1>1, <1>2 DEF LocksHeld
<1> QED BY <1>1, <1>3, RwFinite, FS_RemoveElement, Zenon

\* The locks held depend on what threads were told only.
LEMMA SameLocks == ASSUME UNCHANGED rwHeld PROVE LocksHeld' = LocksHeld
  BY Zenon DEF rwHeld, LocksHeld

\* A thread that a step passes by stays as it was.
LEMMA OtherOk ==
    ASSUME RwInd, NEW u \in RwThreads,
           rwPc'[u] = rwPc[u], rwMode'[u] = rwMode[u], rwSaw'[u] = rwSaw[u],
           rwRead'[u] = rwRead[u], rwWrite'[u] = rwWrite[u],
           u \in rwSema'.queue <=> u \in rwSema.queue,
           u \in rwSema'.granted <=> u \in rwSema.granted, rwSema'.made = rwSema.made
    PROVE  CallOk(u)'
  BY Zenon DEF RwInd, RwCalls, CallOk

\* Nor does the owner change when nobody takes or gives the semaphore.
LEMMA SameOwned ==
    ASSUME RwInd, rwSema'.owner = rwSema.owner, rwSema'.granted = rwSema.granted,
           rwRead' = rwRead, rwWrite' = rwWrite,
           \A u \in RwThreads : u \in rwSema.granted => rwMode'[u] = rwMode[u]
    PROVE  RwOwned'
<1>1. ASSUME NEW u \in RwThreads
      PROVE  (rwWrite'[u] \/ (u \in rwSema'.granted /\ rwMode'[u] = "wr")) <=> rwSema'.owner = u
  <2>1. (rwWrite[u] \/ (u \in rwSema.granted /\ rwMode[u] = "wr")) <=> rwSema.owner = u
    BY Zenon DEF RwInd, RwOwned
  <2> QED BY <2>1, Zenon
<1>2. rwSema'.owner # RwNone =>
        \A u \in RwThreads : rwRead'[u] = 0 /\ (u \in rwSema'.granted => rwMode'[u] = "wr")
  BY Zenon DEF RwInd, RwOwned
<1> QED BY <1>1, <1>2, Zenon DEF RwOwned

\* The owner has the semaphore once.
LEMMA OwnerAlone ==
    ASSUME RwInd, rwSema.owner # RwNone
    PROVE  rwSema.nest = 1
<1>1. PICK o \in RwThreads : rwSema.owner = o
  BY Zenon DEF RwInd, RwTypes, Semas
<1>2. \A u \in RwThreads : u # o => ~rwWrite[u] /\ u \notin rwSema.granted
  BY <1>1, RwAssumption, Zenon DEF RwInd, RwOwned
<1>3. rwWrite[o] \/ o \in rwSema.granted
  BY <1>1, Zenon DEF RwInd, RwOwned
<1>4. rwWrite[o] => o \notin rwSema.granted
  BY Zenon DEF RwInd, RwCalls, CallOk
<1>5. \A u \in RwThreads : rwRead[u] = 0
  BY Zenon DEF RwInd, RwOwned
<1>6. rwSema.granted \subseteq RwThreads
  BY Zenon DEF RwInd, RwTypes, Semas
<1>7. LocksHeld = IF rwWrite[o] THEN {<<o, 0>>} ELSE {}
  BY <1>2, <1>5, RwAssumption DEF LocksHeld
<1>8. rwSema.granted = IF rwWrite[o] THEN {} ELSE {o}
  BY <1>2, <1>3, <1>4, <1>6, Zenon
<1>9. Cardinality({o}) = 1 /\ Cardinality({<<o, 0>>}) = 1 /\ Cardinality({}) = 0
  BY FS_Singleton, FS_EmptySet, Zenon
<1> QED BY <1>7, <1>8, <1>9 DEF RwInd, RwAccounted
-----------------------------------------------------------------------------
\* What a thread is given that finds the semaphore free or shared.
LEMMA GivenIs ==
    ASSUME RwInd, NEW t \in RwThreads, NEW mode \in {"rd", "wr"}, Grants(t, mode),
           ~rwWrite[t], t \notin rwSema.granted
    PROVE  /\ Given(t, mode) \in Semas
           /\ Given(t, mode).made = rwSema.made
           /\ Given(t, mode).nest = rwSema.nest + 1
           /\ Given(t, mode).queue = rwSema.queue /\ Given(t, mode).granted = rwSema.granted
           /\ Given(t, mode).owner = (IF mode = "wr" THEN t ELSE RwNone)
           /\ rwSema.owner = RwNone
           /\ mode = "wr" => rwSema.nest = 0
<1>1. rwSema \in Semas /\ rwSema.nest \in Nat
  BY Zenon DEF RwInd, RwTypes, Semas
<1>2. rwSema.owner # t
  BY Zenon DEF RwInd, RwOwned
<1>3. rwSema.owner = RwNone
  BY <1>2, OwnerAlone DEF Grants
<1>4. mode = "wr" => rwSema.nest = 0
  BY <1>2, Zenon DEF Grants
<1> DEFINE o == IF mode = "wr" THEN t ELSE RwNone
           g == [rwSema EXCEPT !.nest = rwSema.nest + 1, !.owner = o]
<1>5. Given(t, mode) = g
  BY <1>3, <1>4, Zenon DEF Given
<1>6. o \in RwThreads \cup {RwNone} /\ o = IF mode = "wr" THEN t ELSE RwNone
  BY Zenon
<1> HIDE DEF o
<1>7. /\ g.made = rwSema.made /\ g.nest = rwSema.nest + 1 /\ g.owner = o
      /\ g.queue = rwSema.queue /\ g.granted = rwSema.granted
  BY <1>1, Zenon DEF Semas
<1>8. g \in Semas
  <2>1. PICK n \in Nat : n = rwSema.nest + 1
    BY <1>1
  <2>2. g = [rwSema EXCEPT !.nest = n, !.owner = o]
    BY <2>1, Zenon
  <2> HIDE DEF g
  <2> QED BY <1>1, <1>6, <2>1, <2>2, Zenon DEF Semas
<1> QED BY <1>3, <1>4, <1>5, <1>6, <1>7, <1>8, Zenon

\* Nobody has any lock when the semaphore is free.
LEMMA FreeIs ==
    ASSUME RwInd, rwSema.nest = 0
    PROVE  /\ rwSema.granted = {} /\ rwSema.owner = RwNone
           /\ \A t \in RwThreads : ~rwWrite[t] /\ rwRead[t] = 0
<1>1. Cardinality(LocksHeld) = 0 /\ Cardinality(rwSema.granted) = 0
  BY RwFinite DEF RwInd, RwAccounted
<1>2. LocksHeld = {} /\ rwSema.granted = {}
  BY <1>1, RwFinite, FS_EmptySet, Zenon DEF RwInd
<1>3. \A t \in RwThreads : <<t, 0>> \notin LocksHeld /\ <<t, 1>> \notin LocksHeld
  BY <1>2, Zenon
<1>4. ASSUME NEW t \in RwThreads PROVE ~rwWrite[t] /\ rwRead[t] = 0
  <2>1. <<t, 0>> \in RwThreads \X (0 .. RwNests) /\ <<t, 1>> \in RwThreads \X (0 .. RwNests)
    BY RwAssumption
  <2>2. ~rwWrite[t]
    BY <1>3, <2>1, Zenon DEF LocksHeld
  <2>3. ~(1 <= rwRead[t])
    BY <1>3, <2>1 DEF LocksHeld
  <2>4. rwRead[t] \in Nat
    BY RwAssumption DEF RwInd, RwTypes
  <2> QED BY <2>2, <2>3, <2>4
<1> QED BY <1>2, <1>4, OwnerAlone

\* What a call that has a semaphore knows.
LEMMA AsksIs ==
    ASSUME RwInd, NEW t \in RwThreads, NEW mode \in {"rd", "wr"}, NEW call \in {"lock", "try"},
           Asks(t, call, mode)
    PROVE  /\ rwSema.made /\ ~rwWrite[t] /\ t \notin rwSema.granted \cup rwSema.queue
           /\ mode = "rd" => rwRead[t] < RwNests
           /\ mode = "wr" => rwRead[t] = 0
  BY Zenon DEF Asks, MayAsk, RwInd, RwCalls, CallOk

\* pthread_rwlock_rdlock and its siblings that find it so.
LEMMA GivenKeeps ==
    ASSUME RwInd, NEW t \in RwThreads, NEW mode \in {"rd", "wr"}, NEW call \in {"lock", "try"},
           Asks(t, call, mode), Grants(t, mode), rwSema' = Given(t, mode), Took(t, mode),
           RwGoto(t, "out", "rd"), UNCHANGED <<rwTimer, rwSaw>>
    PROVE  RwInd'
<1>1. /\ rwSema.made /\ ~rwWrite[t] /\ t \notin rwSema.granted /\ t \notin rwSema.queue
      /\ (mode = "rd" => rwRead[t] < RwNests) /\ (mode = "wr" => rwRead[t] = 0)
  BY AsksIs, Zenon
<1>0. /\ \A u \in RwThreads : u # t => rwPc'[u] = rwPc[u] /\ rwMode'[u] = rwMode[u]
      /\ rwPc'[t] = "out" /\ rwPc' \in [RwThreads -> RwPlaces]
      /\ rwMode' \in [RwThreads -> {"rd", "wr"}]
  BY Zenon DEF RwGoto, RwInd, RwTypes, RwPlaces
<1>2. /\ rwSema' \in Semas /\ rwSema'.made = rwSema.made /\ rwSema'.nest = rwSema.nest + 1
      /\ rwSema'.queue = rwSema.queue /\ rwSema'.granted = rwSema.granted
      /\ rwSema'.owner = (IF mode = "wr" THEN t ELSE RwNone)
      /\ rwSema.owner = RwNone /\ (mode = "wr" => rwSema.nest = 0)
  BY <1>1, GivenIs, Zenon
<1>3. /\ \A u \in RwThreads : rwWrite'[u] = (rwWrite[u] \/ (u = t /\ mode = "wr"))
      /\ \A u \in RwThreads : rwRead'[u] = IF u = t /\ mode = "rd" THEN rwRead[u] + 1 ELSE rwRead[u]
      /\ rwWrite' \in [RwThreads -> BOOLEAN] /\ rwRead' \in [RwThreads -> 0 .. RwNests]
  BY <1>1, TookIs, Zenon DEF RwInd
<1>4. RwTypes'
  BY <1>0, <1>2, <1>3, Zenon DEF RwInd, RwTypes
<1>5. RwCalls'
  <2>1. CallOk(t)'
    BY <1>0, <1>1, <1>2, Zenon DEF CallOk
  <2>2. ASSUME NEW u \in RwThreads \ {t} PROVE CallOk(u)'
    <3>1. rwRead'[u] = rwRead[u] /\ rwWrite'[u] = rwWrite[u]
      <4>1. rwWrite[u] \in BOOLEAN
        BY Zenon DEF RwInd, RwTypes
      <4> QED BY <1>3, <4>1
    <3> QED BY <1>0, <1>2, <3>1, OtherOk, Zenon
  <2> QED BY <2>1, <2>2, Zenon DEF RwCalls
<1>6. RwOwned'
  <2>1. CASE mode = "wr"
    <3>1. /\ rwSema.granted = {} /\ \A u \in RwThreads : ~rwWrite[u] /\ rwRead[u] = 0
      BY <1>2, <2>1, FreeIs, Zenon
    <3>2. /\ \A u \in RwThreads : rwWrite'[u] <=> u = t
          /\ \A u \in RwThreads : rwRead'[u] = 0 /\ u \notin rwSema'.granted
      BY <1>2, <1>3, <2>1, <3>1
    <3> QED BY <1>2, <2>1, <3>2, Zenon DEF RwOwned
  <2>2. CASE mode = "rd"
    <3>1. \A u \in RwThreads : ~rwWrite[u] /\ ~(u \in rwSema.granted /\ rwMode[u] = "wr")
      BY <1>2, RwAssumption, Zenon DEF RwInd, RwOwned
    <3>2. \A u \in RwThreads : ~rwWrite'[u]
      BY <1>3, <2>2, <3>1, Zenon
    <3>3. \A u \in RwThreads : ~(u \in rwSema'.granted /\ rwMode'[u] = "wr")
      BY <1>0, <1>1, <1>2, <3>1, Zenon
    <3>4. rwSema'.owner = RwNone /\ \A u \in RwThreads : RwNone # u
      BY <1>2, <2>2, RwAssumption, Zenon
    <3> QED BY <3>2, <3>3, <3>4, Zenon DEF RwOwned
  <2> QED BY <2>1, <2>2, Zenon
<1>7. RwAccounted'
  <2>1. Cardinality(LocksHeld') = Cardinality(LocksHeld) + 1
    BY <1>1, <1>4, TookOne, Zenon DEF RwInd
  <2>2. PICK a \in Nat, b \in Nat : a = Cardinality(LocksHeld) /\ b = Cardinality(rwSema.granted)
    BY RwFinite, Zenon DEF RwInd
  <2>3. a + 1 > 0 /\ a + 1 + b = a + b + 1
    OBVIOUS
  <2> QED BY <1>1, <1>2, <2>1, <2>2, <2>3 DEF RwInd, RwAccounted
<1> QED BY <1>4, <1>5, <1>6, <1>7, Zenon DEF RwInd

\* A bid that is queued.
LEMMA QueuedKeeps ==
    ASSUME RwInd, NEW t \in RwThreads, NEW mode \in {"rd", "wr"}, NEW pc \in {"sleep", "port"},
           rwSema.made, t \notin rwSema.granted, ~rwWrite[t],
           mode = "rd" => rwRead[t] < RwNests, mode = "wr" => rwRead[t] = 0,
           rwSema' = Queued(t), RwGoto(t, pc, mode), UNCHANGED <<rwTimer, rwSaw, rwRead, rwWrite>>
    PROVE  RwInd'
<1>1. /\ rwSema' \in Semas /\ rwSema'.made = rwSema.made /\ rwSema'.nest = rwSema.nest
      /\ rwSema'.queue = rwSema.queue \cup {t} /\ rwSema'.granted = rwSema.granted
      /\ rwSema'.owner = rwSema.owner
  BY Zenon DEF RwInd, RwTypes, Semas, Queued
<1>2. /\ \A u \in RwThreads : rwPc'[u] = (IF u = t THEN pc ELSE rwPc[u])
                              /\ rwMode'[u] = (IF u = t THEN mode ELSE rwMode[u])
      /\ rwPc' \in [RwThreads -> RwPlaces]
      /\ rwMode' \in [RwThreads -> {"rd", "wr"}]
  BY Zenon DEF RwGoto, RwInd, RwTypes, RwPlaces
<1>3. RwTypes'
  BY <1>1, <1>2, Zenon DEF RwInd, RwTypes
<1>4. RwCalls'
  <2>1. CallOk(t)'
    BY <1>1, <1>2, Zenon DEF CallOk
  <2>2. ASSUME NEW u \in RwThreads \ {t} PROVE CallOk(u)'
    BY <1>1, <1>2, OtherOk, Zenon
  <2> QED BY <2>1, <2>2, Zenon DEF RwCalls
<1>5. RwOwned'
  <2>1. \A u \in RwThreads : u \in rwSema.granted => rwMode'[u] = rwMode[u]
    BY <1>2, Zenon
  <2> QED BY <1>1, <2>1, SameOwned, Zenon
<1>6. RwAccounted'
  BY <1>1, SameLocks, Zenon DEF RwInd, RwAccounted, rwHeld
<1> QED BY <1>3, <1>4, <1>5, <1>6, Zenon DEF RwInd
-----------------------------------------------------------------------------
\* A call whose bid was answered returns with its lock.
LEMMA GrantedTook ==
    ASSUME RwInd, NEW t \in rwSema.granted,
           rwSema' = [rwSema EXCEPT !.granted = @ \ {t}],
           Took(t, rwMode[t]), RwGoto(t, "out", "rd"),
           rwTimer' \in [RwThreads -> {"idle", "armed", "never", "fired"}],
           rwSaw' \in [RwThreads -> BOOLEAN],
           \A u \in RwThreads : u # t => rwSaw'[u] = rwSaw[u]
    PROVE  RwInd'
<1>1. t \in RwThreads /\ rwMode[t] \in {"rd", "wr"} /\ rwSema \in Semas
  BY Zenon DEF RwInd, RwTypes, Semas
<1>2. /\ ~rwWrite[t] /\ rwPc[t] # "out"
      /\ (rwMode[t] = "rd" => rwRead[t] < RwNests) /\ (rwMode[t] = "wr" => rwRead[t] = 0)
  BY <1>1, Zenon DEF RwInd, RwCalls, CallOk
<1>3. /\ rwSema' \in Semas /\ rwSema'.made = rwSema.made /\ rwSema'.nest = rwSema.nest
      /\ rwSema'.queue = rwSema.queue /\ rwSema'.granted = rwSema.granted \ {t}
      /\ rwSema'.owner = rwSema.owner
  BY <1>1, Zenon DEF Semas
<1>4. /\ \A u \in RwThreads : u # t => rwPc'[u] = rwPc[u] /\ rwMode'[u] = rwMode[u]
      /\ rwPc'[t] = "out"
      /\ rwPc' \in [RwThreads -> RwPlaces]
      /\ rwMode' \in [RwThreads -> {"rd", "wr"}]
  BY <1>1, Zenon DEF RwGoto, RwInd, RwTypes, RwPlaces
<1>5. /\ \A u \in RwThreads : rwWrite'[u] = (rwWrite[u] \/ (u = t /\ rwMode[t] = "wr"))
      /\ \A u \in RwThreads :
           rwRead'[u] = IF u = t /\ rwMode[t] = "rd" THEN rwRead[u] + 1 ELSE rwRead[u]
      /\ rwWrite' \in [RwThreads -> BOOLEAN] /\ rwRead' \in [RwThreads -> 0 .. RwNests]
  BY <1>1, <1>2, TookIs, Zenon DEF RwInd
<1>6. RwTypes'
  BY <1>3, <1>4, <1>5, Zenon DEF RwTypes
<1>7. RwCalls'
  <2>1. CallOk(t)'
    <3>1. t \notin rwSema'.granted /\ t \notin rwSema'.queue
      BY <1>1, <1>3, Zenon DEF RwInd, RwCalls, CallOk
    <3> QED BY <1>4, <3>1, Zenon DEF CallOk
  <2>2. ASSUME NEW u \in RwThreads \ {t} PROVE CallOk(u)'
    <3>1. rwRead'[u] = rwRead[u] /\ rwWrite'[u] = rwWrite[u]
      <4>1. rwWrite[u] \in BOOLEAN
        BY Zenon DEF RwInd, RwTypes
      <4> QED BY <1>5, <4>1
    <3> QED BY <1>3, <1>4, <3>1, OtherOk, Zenon
  <2> QED BY <2>1, <2>2, Zenon DEF RwCalls
<1>8. RwOwned'
  <2>1. \A u \in RwThreads :
          (rwWrite'[u] \/ (u \in rwSema'.granted /\ rwMode'[u] = "wr")) <=> rwSema'.owner = u
    BY <1>1, <1>2, <1>3, <1>4, <1>5 DEF RwInd, RwOwned
  <2>2. rwSema.owner # RwNone => rwMode[t] = "wr"
    BY <1>1, Zenon DEF RwInd, RwOwned
  <2>3. rwSema'.owner # RwNone =>
          \A u \in RwThreads : rwRead'[u] = 0 /\ (u \in rwSema'.granted => rwMode'[u] = "wr")
    BY <1>1, <1>3, <1>4, <1>5, <2>2 DEF RwInd, RwOwned
  <2> QED BY <2>1, <2>3, Zenon DEF RwOwned
<1>9. RwAccounted'
  <2>1. Cardinality(LocksHeld') = Cardinality(LocksHeld) + 1
    BY <1>1, <1>2, <1>6, TookOne, Zenon DEF RwInd
  <2>2. Cardinality(rwSema'.granted) = Cardinality(rwSema.granted) - 1
    BY <1>3, RwFinite, FS_RemoveElement, Zenon DEF RwInd
  <2> QED BY <1>3, <2>1, <2>2, RwFinite DEF RwInd, RwAccounted
<1> QED BY <1>6, <1>7, <1>8, <1>9, Zenon DEF RwInd

\* A bid that finds the semaphore free or shared is answered at once.
LEMMA ProcuredKeeps ==
    ASSUME RwInd, NEW t \in RwThreads, rwPc[t] = "bid", Grants(t, rwMode[t]),
           rwSema' = [Given(t, rwMode[t]) EXCEPT !.granted = @ \cup {t}],
           RwGoto(t, "port", rwMode[t]), UNCHANGED <<rwTimer, rwSaw, rwHeld>>
    PROVE  RwInd'
<1> DEFINE g == Given(t, rwMode[t])
<1>1. rwMode[t] \in {"rd", "wr"} /\ rwRead' = rwRead /\ rwWrite' = rwWrite
  BY Zenon DEF RwInd, RwTypes, rwHeld
<1>2. rwSema.made /\ ~rwWrite[t] /\ t \notin rwSema.granted /\ t \notin rwSema.queue
  BY Zenon DEF RwInd, RwCalls, CallOk
<1>3. /\ g \in Semas /\ g.made = rwSema.made /\ g.nest = rwSema.nest + 1
      /\ g.queue = rwSema.queue /\ g.granted = rwSema.granted
      /\ g.owner = (IF rwMode[t] = "wr" THEN t ELSE RwNone)
      /\ rwSema.owner = RwNone /\ (rwMode[t] = "wr" => rwSema.nest = 0)
  BY <1>1, <1>2, GivenIs, Zenon
<1> HIDE DEF g
<1>4. /\ rwSema' \in Semas /\ rwSema'.made = rwSema.made /\ rwSema'.nest = rwSema.nest + 1
      /\ rwSema'.queue = rwSema.queue /\ rwSema'.granted = rwSema.granted \cup {t}
      /\ rwSema'.owner = (IF rwMode[t] = "wr" THEN t ELSE RwNone)
  <2>1. rwSema' = [g EXCEPT !.granted = @ \cup {t}]
    BY Zenon DEF g
  <2>2. /\ rwSema' \in Semas /\ rwSema'.made = g.made /\ rwSema'.nest = g.nest
        /\ rwSema'.queue = g.queue /\ rwSema'.granted = g.granted \cup {t}
        /\ rwSema'.owner = g.owner
    BY <1>3, <2>1 DEF Semas
  <2> QED BY <1>3, <2>2, Zenon
<1>5. /\ \A u \in RwThreads : rwPc'[u] = (IF u = t THEN "port" ELSE rwPc[u])
      /\ rwMode' = rwMode
      /\ rwPc' \in [RwThreads -> RwPlaces]
  BY Zenon DEF RwGoto, RwInd, RwTypes, RwPlaces
<1>6. RwTypes'
  BY <1>1, <1>4, <1>5, Zenon DEF RwInd, RwTypes
<1>7. RwCalls'
  BY <1>1, <1>2, <1>4, <1>5, Zenon DEF RwInd, RwCalls, CallOk
<1>8. RwOwned'
  <2>1. CASE rwMode[t] = "wr"
    <3>1. /\ rwSema.granted = {} /\ \A u \in RwThreads : ~rwWrite[u] /\ rwRead[u] = 0
      BY <1>3, <2>1, FreeIs, Zenon
    <3>2. /\ \A u \in RwThreads : ~rwWrite'[u] /\ rwRead'[u] = 0
          /\ \A u \in RwThreads : u \in rwSema'.granted <=> u = t
          /\ rwMode'[t] = "wr" /\ rwSema'.owner = t
      BY <1>1, <1>4, <1>5, <2>1, <3>1, Zenon
    <3> QED BY <3>2, Zenon DEF RwOwned
  <2>2. CASE rwMode[t] = "rd"
    BY <1>1, <1>3, <1>4, <1>5, <2>2 DEF RwInd, RwOwned
  <2> QED BY <1>1, <2>1, <2>2, Zenon
<1>9. RwAccounted'
  <2>1. Cardinality(rwSema'.granted) = Cardinality(rwSema.granted) + 1
    BY <1>2, <1>4, RwFinite, FS_AddElement, Zenon DEF RwInd
  <2>2. LocksHeld' = LocksHeld
    BY SameLocks, Zenon
  <2>3. PICK a \in Nat, b \in Nat : a = Cardinality(LocksHeld) /\ b = Cardinality(rwSema.granted)
    BY RwFinite, Zenon DEF RwInd
  <2>5. rwSema.nest = b + a
    BY <2>3, Zenon DEF RwInd, RwAccounted
  <2>6. rwSema'.nest = (b + 1) + a
    BY <1>4, <2>5
  <2> QED BY <1>2, <1>4, <2>1, <2>2, <2>3, <2>6, Zenon DEF RwAccounted
<1> QED BY <1>6, <1>7, <1>8, <1>9, Zenon DEF RwInd
-----------------------------------------------------------------------------
\* Nobody holds what no lock is numbered for.
LEMMA NoLocks ==
    ASSUME NEW w \in [RwThreads -> BOOLEAN], NEW r \in [RwThreads -> 0 .. RwNests],
           {h \in RwThreads \X (0 .. RwNests) : IF h[2] = 0 THEN w[h[1]] ELSE h[2] <= r[h[1]]} = {}
    PROVE  \A t \in RwThreads : ~w[t] /\ r[t] = 0
<1> SUFFICES ASSUME NEW t \in RwThreads PROVE ~w[t] /\ r[t] = 0
  BY Zenon
<1>1. <<t, 0>> \in RwThreads \X (0 .. RwNests) /\ <<t, 1>> \in RwThreads \X (0 .. RwNests)
  BY RwAssumption
<1>2. ~w[t]
  BY <1>1
<1>3. ~(1 <= r[t])
  BY <1>1
<1>4. r[t] \in Nat
  BY RwAssumption
<1> QED BY <1>2, <1>3, <1>4

\* Whom a semaphore left free serves: a writer, or readers.
LEMMA ServedIs ==
    ASSUME RwTypes, NEW served \in Served(rwSema.queue)
    PROVE  /\ served \subseteq rwSema.queue /\ served \subseteq RwThreads
           /\ IsFiniteSet(served) /\ Cardinality(served) \in Nat
           /\ \/ \E u \in served : served = {u} /\ rwMode[u] = "wr"
              \/ \A u \in served : rwMode[u] = "rd"
<1>1. rwSema.queue \subseteq RwThreads /\ rwMode \in [RwThreads -> {"rd", "wr"}]
  BY Zenon DEF RwTypes, Semas
<1>2. served \subseteq rwSema.queue
  BY DEF Served
<1>3. \/ \E u \in served : served = {u} /\ rwMode[u] = "wr"
      \/ \A u \in served : rwMode[u] = "rd"
  BY <1>1, Zenon DEF Served
<1>4. IsFiniteSet(served)
  BY <1>1, <1>2, RwAssumption, FS_Subset, Zenon
<1> QED BY <1>1, <1>2, <1>3, <1>4, FS_CardinalityType, Zenon

\* Thread t, without bid in its queue, gives the semaphore back, with what s says
\* of its own bid, and serves the others if that was the last lock.
Vacates(t, s, served) ==
    /\ t \notin rwSema.queue
    /\ s.made = rwSema.made /\ s.owner = rwSema.owner /\ s.nest = rwSema.nest
    /\ s.queue = rwSema.queue /\ s.granted = rwSema.granted \ {t}
    /\ rwSema' = SemaReleased(s, served)
    /\ rwPc' \in [RwThreads -> RwPlaces]
    /\ rwMode' \in [RwThreads -> {"rd", "wr"}]
    /\ rwTimer' \in [RwThreads -> {"idle", "armed", "never", "fired"}]
    /\ rwSaw' \in [RwThreads -> BOOLEAN]
    /\ rwRead' \in [RwThreads -> 0 .. RwNests] /\ rwWrite' \in [RwThreads -> BOOLEAN]
    /\ \A u \in RwThreads \ {t} :
         /\ rwPc'[u] = rwPc[u] /\ rwMode'[u] = rwMode[u] /\ rwSaw'[u] = rwSaw[u]
         /\ rwRead'[u] = rwRead[u] /\ rwWrite'[u] = rwWrite[u]
    /\ rwPc'[t] = "out" /\ ~rwWrite'[t]
    /\ Cardinality(s.granted) + Cardinality(LocksHeld') = rwSema.nest - 1

\* Giving it back keeps the invariant.
LEMMA ReleaseKeeps ==
    ASSUME RwInd, NEW t \in RwThreads, NEW s \in Semas, NEW served \in Served(rwSema.queue),
           Vacates(t, s, served)
    PROVE  RwInd'
<1>same. /\ t \notin rwSema.queue
         /\ s.made = rwSema.made /\ s.owner = rwSema.owner /\ s.nest = rwSema.nest
         /\ s.queue = rwSema.queue /\ s.granted = rwSema.granted \ {t}
  BY Zenon DEF Vacates
<1>next. rwSema' = SemaReleased(s, served)
  BY Zenon DEF Vacates
<1>others. \A u \in RwThreads \ {t} :
             /\ rwPc'[u] = rwPc[u] /\ rwMode'[u] = rwMode[u] /\ rwSaw'[u] = rwSaw[u]
             /\ rwRead'[u] = rwRead[u] /\ rwWrite'[u] = rwWrite[u]
  BY Zenon DEF Vacates
<1>own. rwPc'[t] = "out" /\ ~rwWrite'[t]
  BY Zenon DEF Vacates
<1>count. Cardinality(s.granted) + Cardinality(LocksHeld') = rwSema.nest - 1
  BY Zenon DEF Vacates
<1>1. /\ served \subseteq rwSema.queue /\ served \subseteq RwThreads
      /\ IsFiniteSet(served) /\ Cardinality(served) \in Nat
      /\ \/ \E u \in served : served = {u} /\ rwMode[u] = "wr"
         \/ \A u \in served : rwMode[u] = "rd"
  BY ServedIs, Zenon DEF RwInd
<1>2. /\ IsFiniteSet(s.granted) /\ Cardinality(s.granted) \in Nat
      /\ IsFiniteSet(LocksHeld') /\ Cardinality(LocksHeld') \in Nat
      /\ rwSema.nest \in Nat /\ rwSema.nest > 0 /\ rwSema.made
  <2>1. IsFiniteSet(s.granted)
    BY <1>same, RwFinite, FS_Subset, Zenon DEF RwInd
  <2>2. IsFiniteSet(LocksHeld')
    BY HoldingsFinite, Zenon DEF LocksHeld
  <2>3. Cardinality(s.granted) \in Nat /\ Cardinality(LocksHeld') \in Nat
    BY <2>1, <2>2, FS_CardinalityType, Zenon
  <2>4. rwSema.nest \in Nat
    BY Zenon DEF RwInd, RwTypes, Semas
  <2>5. rwSema.nest > 0
    BY <1>count, <2>3, <2>4
  <2> QED BY <2>1, <2>2, <2>3, <2>4, <2>5, Zenon DEF RwInd, RwAccounted
<1>3. CASE rwSema.nest > 1
  <2>1. rwSema.owner = RwNone
    BY <1>3, OwnerAlone
  <2>2. PICK n \in Nat : n = rwSema.nest - 1
    BY <1>2, <1>3
  <2>3. rwSema' = [s EXCEPT !.nest = n]
    BY <1>same, <1>next, <1>3, <2>2, Zenon DEF SemaReleased
  <2>4. /\ rwSema' \in Semas /\ rwSema'.made = rwSema.made /\ rwSema'.nest = n
        /\ rwSema'.queue = rwSema.queue /\ rwSema'.granted = rwSema.granted \ {t}
        /\ rwSema'.owner = RwNone
    BY <1>same, <2>1, <2>3, Zenon DEF Semas
  <2>5. RwTypes'
    BY <2>4, Zenon DEF RwTypes, Vacates
  <2>6. RwCalls'
    <3>1. CallOk(t)'
      BY <1>same, <1>own, <2>4, Zenon DEF CallOk
    <3>2. ASSUME NEW u \in RwThreads \ {t} PROVE CallOk(u)'
      BY <1>others, <2>4, OtherOk, Zenon
    <3> QED BY <3>1, <3>2, Zenon DEF RwCalls
  <2>7. RwOwned'
    <3>1. ASSUME NEW u \in RwThreads
          PROVE  ~rwWrite'[u] /\ ~(u \in rwSema'.granted /\ rwMode'[u] = "wr")
      <4>1. CASE u = t
        BY <1>own, <2>4, <4>1, Zenon
      <4>2. CASE u # t
        <5>1. ~rwWrite[u] /\ ~(u \in rwSema.granted /\ rwMode[u] = "wr")
          <6>1. rwSema.owner # u
            BY <2>1, RwAssumption, Zenon
          <6> QED BY <6>1, Zenon DEF RwInd, RwOwned
        <5> QED BY <1>others, <2>4, <4>2, <5>1, Zenon
      <4> QED BY <4>1, <4>2, Zenon
    <3>2. \A u \in RwThreads : rwSema'.owner # u
      BY <2>4, RwAssumption, Zenon
    <3> QED BY <2>4, <3>1, <3>2, Zenon DEF RwOwned
  <2>8. RwAccounted'
    BY <1>2, <1>same, <1>count, <2>2, <2>4, Zenon DEF RwAccounted
  <2> QED BY <2>5, <2>6, <2>7, <2>8, Zenon DEF RwInd
<1>4. CASE rwSema.nest = 1
  <2>1. s.granted = {} /\ LocksHeld' = {} /\ Cardinality(LocksHeld') = 0
    BY <1>count, <1>2, <1>4, FS_EmptySet
  <2>2. \A u \in RwThreads : ~rwWrite'[u] /\ rwRead'[u] = 0
    <3>1. rwRead' \in [RwThreads -> 0 .. RwNests] /\ rwWrite' \in [RwThreads -> BOOLEAN]
      BY Zenon DEF Vacates
    <3> QED BY <2>1, <3>1, NoLocks, Zenon DEF LocksHeld
  <2> DEFINE writers == {u \in served : rwMode[u] = "wr"}
             o == IF writers = {} THEN RwNone ELSE CHOOSE u \in writers : TRUE
  <2>3. \/ served = {o} /\ o \in RwThreads /\ rwMode[o] = "wr"
        \/ o = RwNone /\ \A u \in served : rwMode[u] = "rd"
    <3>1. CASE \E u \in served : served = {u} /\ rwMode[u] = "wr"
      <4>1. PICK u \in served : served = {u} /\ rwMode[u] = "wr"
        BY <3>1, Zenon
      <4>2. writers = {u}
        BY <4>1, Zenon
      <4>3. (CHOOSE v \in {u} : TRUE) = u
        BY Zenon
      <4> QED BY <1>1, <4>1, <4>2, <4>3, Zenon
    <3>2. CASE \A u \in served : rwMode[u] = "rd"
      <4>1. writers = {}
        BY <3>2, Zenon
      <4> QED BY <3>2, <4>1, Zenon
    <3> QED BY <1>1, <3>1, <3>2, Zenon
  <2>4. rwSema' = [s EXCEPT !.nest = Cardinality(served), !.owner = o,
                            !.queue = @ \ served, !.granted = @ \cup served]
    <3>1. ~(s.nest > 1)
      BY <1>same, <1>4
    <3> QED BY <1>next, <3>1, Zenon DEF SemaReleased
  <2>5. o \in RwThreads \cup {RwNone}
    BY <2>3, Zenon
  <2> HIDE DEF o
  <2>6. /\ rwSema' \in Semas /\ rwSema'.made = rwSema.made
        /\ rwSema'.nest = Cardinality(served)
        /\ rwSema'.queue = rwSema.queue \ served /\ rwSema'.granted = served
        /\ rwSema'.owner = o
    <3>1. PICK n \in Nat : n = Cardinality(served)
      BY <1>1, Zenon
    <3>2. rwSema.queue \ served \subseteq RwThreads /\ s.granted \cup served = served
      BY <1>same, <1>1, <2>1, Zenon DEF Semas
    <3>3. rwSema' = [s EXCEPT !.nest = n, !.owner = o, !.queue = rwSema.queue \ served, !.granted = served]
      BY <1>same, <2>4, <3>1, <3>2, Zenon
    <3>4. PICK q \in SUBSET RwThreads : q = rwSema.queue \ served
      BY <3>2, Zenon
    <3>5. PICK w \in RwThreads \cup {RwNone} : w = o
      BY <2>5, Zenon
    <3>6. PICK g \in SUBSET RwThreads : g = served
      BY <1>1, Zenon
    <3>7. rwSema' = [s EXCEPT !.nest = n, !.owner = w, !.queue = q, !.granted = g]
      BY <3>3, <3>4, <3>5, <3>6, Zenon
    <3>8. /\ rwSema' \in Semas
          /\ rwSema'.made = s.made /\ rwSema'.nest = n /\ rwSema'.owner = w
          /\ rwSema'.queue = q /\ rwSema'.granted = g
      <4>1. rwSema' = [made |-> s.made, owner |-> w, nest |-> n, queue |-> q, granted |-> g]
        BY <3>7, Zenon DEF Semas
      <4>2. s.made \in BOOLEAN
        BY Zenon DEF Semas
      <4>3. [made |-> s.made, owner |-> w, nest |-> n, queue |-> q, granted |-> g] \in Semas
        BY <4>2, SemaIs
      <4> QED BY <4>1, <4>3
    <3> QED BY <1>same, <3>1, <3>4, <3>5, <3>6, <3>8, Zenon
  <2>7. RwTypes'
    BY <2>6, Zenon DEF RwTypes, Vacates
  <2>8. RwCalls'
    <3>1. CallOk(t)'
      BY <1>same, <1>own, <1>1, <2>6, Zenon DEF CallOk
    <3>2. ASSUME NEW u \in RwThreads \ {t} PROVE CallOk(u)'
      <4>1. CallOk(u) /\ u \notin rwSema.granted
        BY <1>same, <2>1, Zenon DEF RwInd, RwCalls
      <4> QED BY <1>others, <1>1, <2>6, <4>1, Zenon DEF CallOk
    <3> QED BY <3>1, <3>2, Zenon DEF RwCalls
  <2>9. RwOwned'
    <3>1. \A u \in served : u \in RwThreads /\ rwMode'[u] = rwMode[u]
      BY <1>same, <1>others, <1>1, Zenon
    <3>2. CASE served = {o} /\ o \in RwThreads /\ rwMode[o] = "wr"
      <4>1. \A u \in RwThreads : u \in rwSema'.granted <=> u = o
        BY <2>6, <3>2, Zenon
      <4>2. rwMode'[o] = "wr" /\ rwSema'.owner = o
        BY <2>6, <3>1, <3>2, Zenon
      <4> QED BY <2>2, <4>1, <4>2, Zenon DEF RwOwned
    <3>3. CASE o = RwNone /\ \A u \in served : rwMode[u] = "rd"
      <4>1. \A u \in RwThreads : ~(u \in rwSema'.granted /\ rwMode'[u] = "wr")
        BY <2>6, <3>1, <3>3, Zenon
      <4>2. rwSema'.owner = RwNone /\ \A u \in RwThreads : RwNone # u
        BY <2>6, <3>3, RwAssumption, Zenon
      <4> QED BY <2>2, <4>1, <4>2, Zenon DEF RwOwned
    <3> QED BY <2>3, <3>2, <3>3, Zenon
  <2>10. RwAccounted'
    BY <1>same, <1>1, <1>2, <2>1, <2>6 DEF RwAccounted
  <2> QED BY <2>7, <2>8, <2>9, <2>10, Zenon DEF RwInd
<1> QED BY <1>2, <1>3, <1>4
-----------------------------------------------------------------------------
\* A step that leaves the semaphore and the locks alone, of a thread without an
\* answered bid.
LEMMA CallKeeps ==
    ASSUME RwInd, NEW t \in RwThreads, NEW mode \in {"rd", "wr"},
           NEW pc \in {"initlock", "inittry", "bid", "decide"},
           pc \in {"bid", "decide"} => rwSema.made, pc \in {"initlock", "inittry"} => ~rwSema.made,
           RwGoto(t, pc, mode), UNCHANGED <<rwSema, rwRead, rwWrite>>,
           t \in rwSema.granted \cup rwSema.queue => pc = "decide" /\ mode = rwMode[t],
           ~rwWrite[t], mode = "rd" => rwRead[t] < RwNests, mode = "wr" => rwRead[t] = 0,
           rwTimer' \in [RwThreads -> {"idle", "armed", "never", "fired"}],
           rwSaw' \in [RwThreads -> BOOLEAN],
           \A u \in RwThreads : u # t => rwSaw'[u] = rwSaw[u],
           pc = "decide" /\ ~rwSaw'[t] => t \in rwSema.granted
    PROVE  RwInd'
<1>1. /\ \A u \in RwThreads : rwPc'[u] = (IF u = t THEN pc ELSE rwPc[u])
                              /\ rwMode'[u] = (IF u = t THEN mode ELSE rwMode[u])
      /\ rwPc' \in [RwThreads -> RwPlaces]
      /\ rwMode' \in [RwThreads -> {"rd", "wr"}]
  BY Zenon DEF RwGoto, RwInd, RwTypes, RwPlaces
<1>2. RwTypes'
  BY <1>1, Zenon DEF RwInd, RwTypes
<1>3. RwCalls'
  <2>1. CallOk(t)'
    BY <1>1, Zenon DEF RwInd, RwCalls, CallOk
  <2>2. ASSUME NEW u \in RwThreads \ {t} PROVE CallOk(u)'
    <3>1. CallOk(u) /\ rwPc'[u] = rwPc[u] /\ rwMode'[u] = rwMode[u] /\ rwSaw'[u] = rwSaw[u]
      BY <1>1, Zenon DEF RwInd, RwCalls
    <3> QED BY <3>1, Zenon DEF CallOk
  <2> QED BY <2>1, <2>2, Zenon DEF RwCalls
<1>4. RwOwned'
  <2>1. \A u \in RwThreads : u \in rwSema.granted => rwMode'[u] = rwMode[u]
    BY <1>1, Zenon
  <2> QED BY <2>1, SameOwned, Zenon
<1>5. RwAccounted'
  BY SameLocks, Zenon DEF RwInd, RwAccounted, rwHeld
<1> QED BY <1>2, <1>3, <1>4, <1>5, Zenon DEF RwInd

\* A call that returns without the lock.
LEMMA OutKeeps ==
    ASSUME RwInd, NEW t \in RwThreads, RwGoto(t, "out", "rd"),
           UNCHANGED <<rwSema, rwTimer, rwSaw, rwRead, rwWrite>>,
           ~rwWrite[t], t \notin rwSema.granted \cup rwSema.queue
    PROVE  RwInd'
<1>1. /\ \A u \in RwThreads : u # t => rwPc'[u] = rwPc[u] /\ rwMode'[u] = rwMode[u]
      /\ rwPc'[t] = "out" /\ rwPc' \in [RwThreads -> RwPlaces]
      /\ rwMode' \in [RwThreads -> {"rd", "wr"}]
  BY Zenon DEF RwGoto, RwInd, RwTypes, RwPlaces
<1>2. RwTypes'
  BY <1>1, Zenon DEF RwInd, RwTypes
<1>3. RwCalls'
  <2>1. CallOk(t)'
    BY <1>1, Zenon DEF CallOk
  <2>2. ASSUME NEW u \in RwThreads \ {t} PROVE CallOk(u)'
    BY <1>1, OtherOk, Zenon
  <2> QED BY <2>1, <2>2, Zenon DEF RwCalls
<1>4. RwOwned'
  <2>1. \A u \in RwThreads : u \in rwSema.granted => rwMode'[u] = rwMode[u]
    BY <1>1, Zenon
  <2> QED BY <2>1, SameOwned, Zenon
<1>5. RwAccounted'
  BY SameLocks, Zenon DEF RwInd, RwAccounted, rwHeld
<1> QED BY <1>2, <1>3, <1>4, <1>5, Zenon DEF RwInd

\* A step that changes no more than a timer.
LEMMA TimerKeeps ==
    ASSUME RwInd, UNCHANGED <<rwSema, rwPc, rwMode, rwSaw, rwRead, rwWrite>>,
           rwTimer' \in [RwThreads -> {"idle", "armed", "never", "fired"}]
    PROVE  RwInd'
<1>1. RwTypes'
  BY Zenon DEF RwInd, RwTypes
<1>2. RwCalls'
  BY Zenon DEF RwInd, RwCalls, CallOk
<1>3. RwOwned'
  BY Zenon DEF RwInd, RwOwned
<1>4. RwAccounted'
  BY SameLocks, Zenon DEF RwInd, RwAccounted, rwHeld
<1> QED BY <1>1, <1>2, <1>3, <1>4, Zenon DEF RwInd

\* Stuttering.
LEMMA UnchangedKeeps == ASSUME RwInd, UNCHANGED rwVars PROVE RwInd'
  BY TimerKeeps, Zenon DEF rwVars, RwInd, RwTypes

\* pthread_rwlock_unlock.
LEMMA UnlockKeeps == ASSUME RwInd, NEW t \in RwThreads, RwUnlock(t) PROVE RwInd'
<1>1. t \notin rwSema.queue /\ t \notin rwSema.granted /\ rwPc[t] = "out"
  BY Zenon DEF RwUnlock, RwInd, RwCalls, CallOk
<1>2. PICK served \in Served(rwSema.queue) : rwSema' = SemaReleased(rwSema, served)
  BY Zenon DEF RwUnlock
<1>3. rwSema \in Semas /\ rwSema.granted \ {t} = rwSema.granted
  BY <1>1, Zenon DEF RwInd, RwTypes
<1>4. rwWrite \in [RwThreads -> BOOLEAN] /\ rwRead \in [RwThreads -> 0 .. RwNests] /\ RwNests \in Nat
  BY RwAssumption, Zenon DEF RwInd, RwTypes
<1>5. /\ rwWrite' = [rwWrite EXCEPT ![t] = FALSE]
      /\ rwRead' = [rwRead EXCEPT ![t] = IF rwWrite[t] THEN @ ELSE @ - 1]
      /\ rwWrite[t] \/ rwRead[t] > 0
      /\ UNCHANGED <<rwPc, rwMode, rwTimer, rwSaw>>
  BY Zenon DEF RwUnlock
<1>6. /\ rwWrite' \in [RwThreads -> BOOLEAN] /\ ~rwWrite'[t]
      /\ rwRead' \in [RwThreads -> 0 .. RwNests]
      /\ \A u \in RwThreads \ {t} : rwWrite'[u] = rwWrite[u] /\ rwRead'[u] = rwRead[u]
  <2>1. (IF rwWrite[t] THEN rwRead[t] ELSE rwRead[t] - 1) \in 0 .. RwNests
    BY <1>4, <1>5
  <2> QED BY <1>4, <1>5, <2>1, Zenon
<1>7. Cardinality(rwSema.granted) + Cardinality(LocksHeld') = rwSema.nest - 1
  <2>1. Cardinality(LocksHeld') = Cardinality(LocksHeld) - 1
    BY <1>5, GaveOne, Zenon DEF RwInd
  <2> QED BY <2>1, RwFinite DEF RwInd, RwAccounted
<1>8. /\ rwPc \in [RwThreads -> RwPlaces]
      /\ rwMode \in [RwThreads -> {"rd", "wr"}]
      /\ rwTimer \in [RwThreads -> {"idle", "armed", "never", "fired"}]
      /\ rwSaw \in [RwThreads -> BOOLEAN]
  BY Zenon DEF RwInd, RwTypes
<1>9. Vacates(t, rwSema, served)
  BY <1>1, <1>2, <1>3, <1>5, <1>6, <1>7, <1>8, Zenon DEF Vacates
<1> QED BY <1>3, <1>9, ReleaseKeeps, Zenon

\* The end of _pthread_obtain_sema_timed.
LEMMA DecideKeeps == ASSUME RwInd, NEW t \in RwThreads, RwDecide(t) PROVE RwInd'
<1>1. /\ rwPc' = [rwPc EXCEPT ![t] = "out"] /\ rwMode' = [rwMode EXCEPT ![t] = "rd"]
      /\ rwTimer' = [rwTimer EXCEPT ![t] = "idle"] /\ rwSaw' = [rwSaw EXCEPT ![t] = FALSE]
      /\ rwPc[t] = "decide" /\ ~rwWrite[t]
  BY Zenon DEF RwDecide, RwGoto, RwInd, RwCalls, CallOk
<1>2. /\ rwPc' \in [RwThreads -> RwPlaces]
      /\ rwMode' \in [RwThreads -> {"rd", "wr"}]
      /\ rwTimer' \in [RwThreads -> {"idle", "armed", "never", "fired"}]
      /\ rwSaw' \in [RwThreads -> BOOLEAN]
      /\ \A u \in RwThreads \ {t} :
           rwPc'[u] = rwPc[u] /\ rwMode'[u] = rwMode[u] /\ rwSaw'[u] = rwSaw[u]
      /\ rwPc'[t] = "out"
  BY <1>1, Zenon DEF RwInd, RwTypes, RwPlaces
<1>3. PICK served \in Served(rwSema.queue) :
        rwSema' = IF rwSaw[t] THEN Vacated(t, served) ELSE [rwSema EXCEPT !.granted = @ \ {t}]
  BY Zenon DEF RwDecide
<1>4. rwSema \in Semas /\ rwRead \in [RwThreads -> 0 .. RwNests] /\ rwWrite \in [RwThreads -> BOOLEAN]
  BY Zenon DEF RwInd, RwTypes
<1>5. CASE ~rwSaw[t]
  <2>1. t \in rwSema.granted
    BY <1>1, <1>5, Zenon DEF RwInd, RwCalls, CallOk
  <2>2. Took(t, rwMode[t])
    BY <1>5, Zenon DEF RwDecide, AnswersOk
  <2>3. rwSema' = [rwSema EXCEPT !.granted = @ \ {t}]
    BY <1>3, <1>5, Zenon
  <2> QED BY <1>2, <2>1, <2>2, <2>3, GrantedTook, Zenon DEF RwDecide
<1>6. CASE rwSaw[t] /\ t \in rwSema.granted
  <2>1. rwRead' = rwRead /\ rwWrite' = rwWrite
    BY <1>6, Zenon DEF RwDecide, AnswersOk, rwHeld
  <2> DEFINE s == [rwSema EXCEPT !.granted = @ \ {t}]
  <2>2. /\ s \in Semas /\ s.made = rwSema.made /\ s.owner = rwSema.owner /\ s.nest = rwSema.nest
        /\ s.queue = rwSema.queue /\ s.granted = rwSema.granted \ {t}
    BY <1>4, Zenon DEF Semas
  <2>3. rwSema' = SemaReleased(s, served)
    BY <1>3, <1>6, Zenon DEF Vacated
  <2> HIDE DEF s
  <2>4. t \notin rwSema.queue
    BY <1>6, Zenon DEF RwInd, RwCalls, CallOk
  <2>5. Cardinality(s.granted) + Cardinality(LocksHeld') = rwSema.nest - 1
    <3>1. IsFiniteSet(rwSema.granted)
      BY RwFinite, Zenon DEF RwInd
    <3>2. Cardinality(s.granted) = Cardinality(rwSema.granted) - 1
      BY <1>6, <2>2, <3>1, FS_RemoveElement, Zenon
    <3> QED BY <2>1, <3>2, RwFinite, SameLocks DEF RwInd, RwAccounted, rwHeld
  <2>6. Vacates(t, s, served)
    BY <1>1, <1>2, <1>4, <2>1, <2>2, <2>3, <2>4, <2>5, Zenon DEF Vacates
  <2> QED BY <2>2, <2>6, ReleaseKeeps, Zenon
<1>7. CASE rwSaw[t] /\ t \notin rwSema.granted
  <2>1. rwRead' = rwRead /\ rwWrite' = rwWrite
    BY <1>7, Zenon DEF RwDecide, AnswersOk, rwHeld
  <2>2. rwSema' = [rwSema EXCEPT !.queue = @ \ {t}]
    BY <1>3, <1>7, Zenon DEF Vacated
  <2>3. /\ rwSema' \in Semas /\ rwSema'.made = rwSema.made /\ rwSema'.owner = rwSema.owner
        /\ rwSema'.nest = rwSema.nest
        /\ rwSema'.queue = rwSema.queue \ {t} /\ rwSema'.granted = rwSema.granted
    BY <1>4, <2>2, Zenon DEF Semas
  <2>4. RwTypes'
    BY <1>2, <1>4, <2>1, <2>3, Zenon DEF RwTypes
  <2>5. RwCalls'
    <3>1. CallOk(t)'
      BY <1>2, <1>7, <2>3, Zenon DEF CallOk
    <3>2. ASSUME NEW u \in RwThreads \ {t} PROVE CallOk(u)'
      BY <1>2, <2>1, <2>3, OtherOk, Zenon
    <3> QED BY <3>1, <3>2, Zenon DEF RwCalls
  <2>6. RwOwned'
    BY <1>2, <1>7, <2>1, <2>3 DEF RwInd, RwOwned
  <2>7. RwAccounted'
    BY <2>1, <2>3, SameLocks, Zenon DEF RwInd, RwAccounted, rwHeld
  <2> QED BY <2>4, <2>5, <2>6, <2>7, Zenon DEF RwInd
<1> QED BY <1>4, <1>5, <1>6, <1>7, Zenon

\* pthread_rwlock_destroy finds a lock nobody has.
LEMMA DestroyKeeps == ASSUME RwInd, NEW t \in RwThreads, RwDestroy(t) PROVE RwInd'
<1>1. /\ \A u \in RwThreads : rwPc[u] = "out"
      /\ ~rwWrite[t] /\ UNCHANGED <<rwPc, rwMode, rwTimer, rwSaw, rwRead, rwWrite>>
  BY Zenon DEF RwDestroy, rwHeld
<1>2. CASE RwBusy(t)
  <2>1. rwSema' = rwSema
    BY <1>2, Zenon DEF RwDestroy
  <2> QED BY <1>1, <2>1, UnchangedKeeps, Zenon DEF rwVars
<1>3. CASE ~RwBusy(t)
  <2>1. rwSema' = NewSema
    BY <1>3, Zenon DEF RwDestroy
  <2>2. rwSema.owner # t
    BY <1>1, Zenon DEF RwInd, RwOwned, RwCalls, CallOk
  <2>3. rwSema.nest = 0
    BY <1>3, <2>2, Zenon DEF RwBusy, Grants
  <2>4. /\ rwSema.granted = {} /\ rwSema.owner = RwNone
        /\ \A u \in RwThreads : ~rwWrite[u] /\ rwRead[u] = 0
    BY <2>3, FreeIs, Zenon
  <2>5. RwTypes'
    BY <1>1, <2>1, RwAssumption, Zenon DEF RwInd, RwTypes, Semas, NewSema
  <2>6. RwCalls'
    BY <1>1, <2>1, Zenon DEF RwCalls, CallOk, NewSema
  <2>7. RwOwned'
    BY <1>1, <2>1, <2>4, RwAssumption, Zenon DEF RwOwned, NewSema
  <2>8. RwAccounted'
    <3>1. LocksHeld' = LocksHeld /\ rwSema'.granted = rwSema.granted
          /\ rwSema'.nest = rwSema.nest
      BY <1>1, <2>1, <2>3, <2>4, SameLocks, Zenon DEF NewSema, rwHeld
    <3> QED BY <2>3, <3>1 DEF RwInd, RwAccounted
  <2> QED BY <2>5, <2>6, <2>7, <2>8, Zenon DEF RwInd
<1> QED BY <1>2, <1>3, Zenon

\* A new lock has no bids, no holders and no owner.
LEMMA RwIndInit == ASSUME RwInit PROVE RwInd
<1>1. RwTypes
  BY RwAssumption DEF RwInit, NewSema, RwTypes, Semas, RwPlaces
<1>2. RwCalls
  BY Zenon DEF RwInit, NewSema, RwCalls, CallOk
<1>3. RwOwned
  BY RwAssumption, Zenon DEF RwInit, NewSema, RwOwned
<1>4. RwAccounted
  <2>1. LocksHeld = {}
    BY RwAssumption DEF RwInit, LocksHeld
  <2> QED BY <2>1, FS_EmptySet DEF RwInit, NewSema, RwAccounted
<1> QED BY <1>1, <1>2, <1>3, <1>4, Zenon DEF RwInd

\* At most one thread is about to make the semaphore.
RwAlone == \A t, u \in RwThreads : rwPc[t] \in Firsts /\ rwPc[u] \in Firsts => t = u

\* pthread_rwlock_init in the first call on a static lock.
LEMMA CreateKeeps == ASSUME RwInd, RwAlone, NEW t \in RwThreads, RwCreate(t) PROVE RwInd'
<1>1. /\ rwPc[t] \in {"initlock", "inittry"} /\ rwSema.queue = {}
      /\ rwSema' = [NewSema EXCEPT !.made = TRUE]
      /\ UNCHANGED <<rwTimer, rwSaw, rwRead, rwWrite>>
  BY Zenon DEF RwCreate, Firsts, rwHeld
<1>2. rwSema.nest = 0
  BY <1>1 DEF RwInd, RwCalls, CallOk, RwAccounted, RwTypes, Semas
<1>3. /\ rwSema.granted = {} /\ rwSema.owner = RwNone
      /\ \A u \in RwThreads : ~rwWrite[u] /\ rwRead[u] = 0
  BY <1>2, FreeIs, Zenon
<1>4. /\ rwSema' \in Semas /\ rwSema'.made /\ rwSema'.owner = RwNone /\ rwSema'.nest = 0
      /\ rwSema'.queue = {} /\ rwSema'.granted = {}
  <2>1. rwSema' = [made |-> TRUE, owner |-> RwNone, nest |-> 0, queue |-> {}, granted |-> {}]
    BY <1>1, Zenon DEF NewSema
  <2>2. TRUE \in BOOLEAN /\ RwNone \in RwThreads \cup {RwNone} /\ 0 \in Nat /\ {} \in SUBSET RwThreads
    OBVIOUS
  <2>3. [made |-> TRUE, owner |-> RwNone, nest |-> 0, queue |-> {}, granted |-> {}] \in Semas
    BY <2>2, SemaIs, Zenon
  <2> QED BY <2>1, <2>3, Zenon
<1>5. /\ rwPc'[t] \in {"lock", "try"} /\ rwPc' \in [RwThreads -> RwPlaces]
      /\ rwMode' = rwMode /\ \A u \in RwThreads : u # t => rwPc'[u] = rwPc[u]
  BY Zenon DEF RwCreate, RwGoto, RwInd, RwTypes, RwPlaces
<1>6. \A u \in RwThreads : u # t => rwPc[u] \notin {"initlock", "inittry"}
  BY <1>1, Zenon DEF RwAlone, Firsts
<1>7. RwTypes'
  BY <1>1, <1>4, <1>5, Zenon DEF RwInd, RwTypes
<1>8. RwCalls'
  <2>1. CallOk(t)'
    <3>1. CallOk(t) /\ rwPc[t] # "out"
      BY <1>1, Zenon DEF RwInd, RwCalls
    <3> QED BY <1>1, <1>4, <1>5, <3>1, Zenon DEF CallOk
  <2>2. ASSUME NEW u \in RwThreads \ {t} PROVE CallOk(u)'
    <3>1. CallOk(u) /\ rwPc'[u] = rwPc[u] /\ rwPc[u] \notin {"initlock", "inittry"}
      BY <1>5, <1>6, Zenon DEF RwInd, RwCalls
    <3> QED BY <1>1, <1>3, <1>4, <1>5, <3>1, Zenon DEF CallOk
  <2> QED BY <2>1, <2>2, Zenon DEF RwCalls
<1>9. RwOwned'
  BY <1>1, <1>3, <1>4, <1>5, RwAssumption, Zenon DEF RwOwned
<1>10. RwAccounted'
  BY <1>1, <1>2, <1>3, <1>4, SameLocks DEF RwInd, RwAccounted, rwHeld
<1> QED BY <1>7, <1>8, <1>9, <1>10, Zenon DEF RwInd

\* Every step of a read-write lock.
LEMMA RwIndNext == ASSUME RwInd, RwAlone, [RwNext]_rwVars PROVE RwInd'
<1>1. CASE UNCHANGED rwVars
  BY <1>1, UnchangedKeeps, Zenon
<1>2. CASE RwNext
  <2>1. PICK t \in RwThreads :
          \/ RwStep(t) \/ RwTimerFires(t) \/ RwRelock(t) \/ RwUnlock(t) \/ RwDestroy(t)
          \/ \E mode \in {"rd", "wr"} :
               \/ \E first \in Firsts : RwFirst(t, first, mode)
               \/ RwLock(t, mode) \/ RwTry(t, mode)
               \/ \E d \in RwDeadlines : RwTimedLock(t, mode, d)
    BY <1>2, Zenon DEF RwNext
  <2>2. ASSUME NEW mode \in {"rd", "wr"}, RwLock(t, mode) PROVE RwInd'
    <3>1. /\ Asks(t, "lock", mode) /\ rwSema.made /\ ~rwWrite[t] /\ t \notin rwSema.granted
          /\ (mode = "rd" => rwRead[t] < RwNests) /\ (mode = "wr" => rwRead[t] = 0)
      BY <2>2, AsksIs, Zenon DEF RwLock
    <3>2. CASE Grants(t, mode) /\ rwSema' = Given(t, mode) /\ Took(t, mode) /\ RwGoto(t, "out", "rd")
      BY <2>2, <3>1, <3>2, GivenKeeps, Zenon DEF RwLock
    <3>3. CASE rwSema' = Queued(t) /\ RwGoto(t, "sleep", mode) /\ UNCHANGED rwHeld
      <4>1. UNCHANGED <<rwTimer, rwSaw, rwRead, rwWrite>>
        BY <2>2, <3>3, Zenon DEF RwLock, rwHeld
      <4> QED BY <3>1, <3>3, <4>1, QueuedKeeps, Zenon
    <3> QED BY <2>2, <3>2, <3>3, Zenon DEF RwLock
  <2>3. ASSUME NEW mode \in {"rd", "wr"}, RwTry(t, mode) PROVE RwInd'
    <3>1. CASE Grants(t, mode)
      BY <2>3, <3>1, GivenKeeps, Zenon DEF RwTry
    <3>2. CASE ~Grants(t, mode)
      <4>1. RwGoto(t, "out", "rd") /\ UNCHANGED <<rwSema, rwTimer, rwSaw, rwRead, rwWrite>>
        BY <2>3, <3>2, Zenon DEF RwTry, rwHeld
      <4>2. ~rwWrite[t] /\ t \notin rwSema.granted \cup rwSema.queue
        BY <2>3, AsksIs, Zenon DEF RwTry
      <4> QED BY <4>1, <4>2, OutKeeps, Zenon
    <3> QED BY <3>1, <3>2, Zenon
  <2>10. ASSUME NEW mode \in {"rd", "wr"}, NEW first \in Firsts, RwFirst(t, first, mode) PROVE RwInd'
    <3>1. /\ ~rwWrite[t] /\ t \notin rwSema.granted \cup rwSema.queue /\ ~rwSema.made
          /\ (mode = "rd" => rwRead[t] < RwNests) /\ (mode = "wr" => rwRead[t] = 0)
      BY <2>10, Zenon DEF RwFirst, MayAsk, RwInd, RwCalls, CallOk
    <3>2. RwGoto(t, first, mode) /\ UNCHANGED <<rwSema, rwTimer, rwSaw, rwRead, rwWrite>>
      BY <2>10, Zenon DEF RwFirst, rwHeld
    <3>3. rwTimer' \in [RwThreads -> {"idle", "armed", "never", "fired"}] /\ rwSaw' \in [RwThreads -> BOOLEAN]
      BY <3>2, Zenon DEF RwInd, RwTypes
    <3>4. first \in {"initlock", "inittry"}
      BY Zenon DEF Firsts
    <3> QED BY <3>1, <3>2, <3>3, <3>4, CallKeeps, Zenon
  <2>4. ASSUME NEW mode \in {"rd", "wr"}, NEW d \in RwDeadlines, RwTimedLock(t, mode, d) PROVE RwInd'
    <3>1. /\ ~rwWrite[t] /\ t \notin rwSema.granted \cup rwSema.queue /\ rwSema.made
          /\ (mode = "rd" => rwRead[t] < RwNests) /\ (mode = "wr" => rwRead[t] = 0)
      BY <2>4, AsksIs, Zenon DEF RwTimedLock
    <3>2. /\ RwGoto(t, "bid", mode) /\ rwSaw' = rwSaw /\ UNCHANGED <<rwSema, rwRead, rwWrite>>
          /\ rwTimer' = [rwTimer EXCEPT ![t] = RwTimerOf(d)]
      BY <2>4, Zenon DEF RwTimedLock, rwHeld
    <3>3. rwTimer' \in [RwThreads -> {"idle", "armed", "never", "fired"}] /\ rwSaw' \in [RwThreads -> BOOLEAN]
      <4>1. RwTimerOf(d) \in {"idle", "armed", "never", "fired"}
        BY Zenon DEF RwTimerOf
      <4> QED BY <3>2, <4>1, Zenon DEF RwInd, RwTypes
    <3> QED BY <3>1, <3>2, <3>3, CallKeeps, Zenon
  <2>5. ASSUME RwWake(t) PROVE RwInd'
    BY <2>5, GrantedTook, Zenon DEF RwWake, RwInd, RwTypes
  <2>6. ASSUME RwProcure(t) PROVE RwInd'
    <3>1. rwMode[t] \in {"rd", "wr"}
      BY Zenon DEF RwInd, RwTypes
    <3>2. /\ rwSema.made /\ ~rwWrite[t] /\ t \notin rwSema.granted
          /\ (rwMode[t] = "rd" => rwRead[t] < RwNests) /\ (rwMode[t] = "wr" => rwRead[t] = 0)
      BY <2>6, Zenon DEF RwProcure, RwInd, RwCalls, CallOk
    <3>3. CASE Grants(t, rwMode[t]) /\ rwSema' = [Given(t, rwMode[t]) EXCEPT !.granted = @ \cup {t}]
      BY <2>6, <3>3, ProcuredKeeps, Zenon DEF RwProcure
    <3>4. CASE rwSema' = Queued(t)
      <4>1. RwGoto(t, "port", rwMode[t]) /\ UNCHANGED <<rwTimer, rwSaw, rwRead, rwWrite>>
        BY <2>6, Zenon DEF RwProcure, rwHeld
      <4> QED BY <3>1, <3>2, <3>4, <4>1, QueuedKeeps, Zenon
    <3> QED BY <2>6, <3>3, <3>4, Zenon DEF RwProcure
  <2>7. ASSUME RwPort(t) PROVE RwInd'
    <3>1. rwMode[t] \in {"rd", "wr"}
      BY Zenon DEF RwInd, RwTypes
    <3>2. /\ rwSema.made /\ ~rwWrite[t]
          /\ (rwMode[t] = "rd" => rwRead[t] < RwNests) /\ (rwMode[t] = "wr" => rwRead[t] = 0)
      BY <2>7, Zenon DEF RwPort, RwInd, RwCalls, CallOk
    <3>3. /\ RwGoto(t, "decide", rwMode[t]) /\ rwTimer' = rwTimer /\ UNCHANGED <<rwSema, rwRead, rwWrite>>
          /\ rwSaw' = [rwSaw EXCEPT ![t] = rwTimer[t] = "fired"]
          /\ t \in rwSema.granted \/ rwTimer[t] = "fired"
      BY <2>7, Zenon DEF RwPort, PortReady, rwHeld
    <3>4. /\ rwSaw' \in [RwThreads -> BOOLEAN] /\ rwTimer' \in [RwThreads -> {"idle", "armed", "never", "fired"}]
          /\ \A u \in RwThreads : u # t => rwSaw'[u] = rwSaw[u]
          /\ ~rwSaw'[t] => t \in rwSema.granted
      BY <3>3, Zenon DEF RwInd, RwTypes
    <3> QED BY <3>1, <3>2, <3>3, <3>4, CallKeeps
  <2>8. ASSUME RwTimerFires(t) PROVE RwInd'
    <3>1. /\ rwTimer' = [rwTimer EXCEPT ![t] = "fired"]
          /\ UNCHANGED <<rwSema, rwPc, rwMode, rwSaw, rwRead, rwWrite>>
      BY <2>8, Zenon DEF RwTimerFires, rwHeld
    <3> QED BY <3>1, TimerKeeps, Zenon DEF RwInd, RwTypes
  <2>9. ASSUME RwRelock(t) PROVE RwInd'
    <3>1. rwSema.owner = t
      BY <2>9, Zenon DEF RwRelock, RwInd, RwOwned
    <3> QED BY <2>9, <3>1, UnchangedKeeps, Zenon DEF RwRelock, rwVars, rwHeld
  <2> QED BY <2>1, <2>2, <2>3, <2>4, <2>5, <2>6, <2>7, <2>8, <2>9, <2>10,
             CreateKeeps, UnlockKeeps, DecideKeeps, DestroyKeeps, Zenon DEF RwStep
<1> QED BY <1>1, <1>2, Zenon

\* Only RwFirst brings a thread to the making of a semaphore.
LEMMA RwAloneNext == ASSUME ~RwRaces, RwInd, RwAlone, [RwNext]_rwVars PROVE RwAlone'
<1>0. rwPc \in [RwThreads -> RwPlaces]
  BY Zenon DEF RwInd, RwTypes
<1>1. ASSUME NEW t \in RwThreads, NEW pc, pc \notin Firsts, rwPc' = [rwPc EXCEPT ![t] = pc]
      PROVE  RwAlone'
  <2>1. \A u \in RwThreads : rwPc'[u] \in Firsts => rwPc[u] \in Firsts
    BY <1>0, <1>1, Zenon
  <2> QED BY <2>1, Zenon DEF RwAlone
<1>2. ASSUME NEW t \in RwThreads, NEW first \in Firsts, NEW mode, RwFirst(t, first, mode)
      PROVE  RwAlone'
  <2>1. \A u \in RwThreads : rwPc'[u] \in Firsts => u = t
    BY <1>0, <1>2, Zenon DEF RwFirst, RwGoto
  <2> QED BY <2>1, Zenon DEF RwAlone
<1>3. ASSUME rwPc' = rwPc PROVE RwAlone'
  BY <1>3, Zenon DEF RwAlone
<1>4. {"out", "lock", "try", "sleep", "bid", "port", "decide"} \cap Firsts = {}
  BY DEF Firsts
<1>5. ASSUME NEW t \in RwThreads, RwStep(t) PROVE RwAlone'
  <2>1. PICK pc \in {"out", "lock", "try", "port", "decide"} : rwPc' = [rwPc EXCEPT ![t] = pc]
    BY <1>5, ZenonT(30) DEF RwStep, RwCreate, RwWake, RwProcure, RwPort, RwDecide, RwGoto
  <2> QED BY <1>1, <1>4, <2>1, Zenon
<1>6. ASSUME NEW t \in RwThreads, NEW mode,
             RwLock(t, mode) \/ RwTry(t, mode) \/ \E d \in RwDeadlines : RwTimedLock(t, mode, d)
      PROVE  RwAlone'
  <2>1. PICK pc \in {"out", "sleep", "bid"} : rwPc' = [rwPc EXCEPT ![t] = pc]
    BY <1>6, Zenon DEF RwLock, RwTry, RwTimedLock, RwGoto
  <2> QED BY <1>1, <1>4, <2>1, Zenon
<1>7. ASSUME NEW t \in RwThreads,
             RwTimerFires(t) \/ RwRelock(t) \/ RwUnlock(t) \/ RwDestroy(t)
      PROVE  RwAlone'
  <2>1. rwPc' = rwPc \/ rwPc' = [rwPc EXCEPT ![t] = "sleep"]
    BY <1>7, Zenon DEF RwTimerFires, RwRelock, RwUnlock, RwDestroy, RwGoto
  <2> QED BY <1>1, <1>3, <1>4, <2>1, Zenon
<1>8. CASE UNCHANGED rwVars
  BY <1>3, <1>8, Zenon DEF rwVars
<1> QED BY <1>2, <1>5, <1>6, <1>7, <1>8, Zenon DEF RwNext

\* Threads of any number that read, write, try, wait with deadlines, give up,
\* destroy and begin again on one read-write lock, static or not: a writer is
\* always alone, the semaphore is held as often as they were told or are about
\* to be, and no bid outlives its call.  The first calls on a static lock must
\* not overlap (pthread_rwlock_rdlock.c:48): with RwRaces two of them make two
\* semaphores.
THEOREM ReadWriteLocksAreSound == ASSUME ~RwRaces PROVE RwSpec => []RwSound
<1>1. RwInit => RwInd /\ RwAlone
  <2>1. RwInit => RwAlone
    BY Zenon DEF RwInit, RwAlone, Firsts
  <2> QED BY <2>1, RwIndInit, Zenon
<1>2. RwInd /\ RwAlone /\ [RwNext]_rwVars => RwInd' /\ RwAlone'
  BY RwIndNext, RwAloneNext, Zenon
<1>3. RwInd => RwSound
  <2> SUFFICES ASSUME RwInd PROVE RwSound
    BY Zenon
  <2>1. RwTypeOK
    BY Zenon DEF RwInd, RwTypes, Semas, RwTypeOK
  <2>2. RwExclusive
    BY RwAssumption, Zenon DEF RwInd, RwOwned, RwExclusive
  <2>3. RwBidsLive
    BY Zenon DEF RwInd, RwTypes, Semas, RwCalls, CallOk, RwBidsLive
  <2> QED BY <2>1, <2>2, <2>3, Zenon DEF RwInd, RwSound
<1> QED BY <1>1, <1>2, <1>3, PTL DEF RwSpec
=============================================================================
