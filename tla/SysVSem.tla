------------------------------- MODULE SysVSem -------------------------------
(* System V semaphore sets: semget, semop, semctl, the sleep and wake-up      *)
(* protocol of sysv_idkey.c (RequestWakeup, WaitList, WakeList), and the end  *)
(* of a process that recorded SEM_UNDO adjustments.  One set, found through   *)
(* the key map; the map's lock and the set's own Lock are exec semaphores.    *)
EXTENDS Integers, Sequences, FiniteSets, Functions

CONSTANTS SvProcs,      \* the processes that use the set
          SvNums,       \* the semaphores of the set
          SvVectors,    \* the vectors of operations each of them asks for
          SvMaxSets,    \* bound on the number of sets semget creates
          SvMaxVal,     \* bound on the values and adjustments a call may aim at
          SvBusyCtl,    \* whether semctl changes a set while semop runs on it
          SvDirtyExit   \* whether a process may end with undo work recorded

(* struct sembuf, for a semaphore that the set has.                           *)
SvOp == [num : SvNums, op : Int, nowait : BOOLEAN, undo : BOOLEAN]

ASSUME SvAssumption == /\ SvBusyCtl \in BOOLEAN
                       /\ SvDirtyExit \in BOOLEAN
                       /\ SvMaxSets \in Nat /\ SvMaxVal \in Nat
                       /\ IsFiniteSet(SvProcs) /\ "none" \notin SvProcs
                       /\ SvVectors \in [SvProcs -> SUBSET Seq(SvOp)]

VARIABLES svMade,    \* how many sets were created
          svId,      \* objv[semid] # 0
          svKey,     \* owner of the key map's lock, or "none"
          svLock,    \* owner of si->Lock, or "none"
          semval, semncnt, semzcnt,
          svAdj,     \* Adj of each process's UndoInfo
          svPc, svOps, svWait

svVars == <<svMade, svId, svKey, svLock, semval, semncnt, semzcnt, svAdj,
            svPc, svOps, svWait>>
svSet  == <<svMade, svId, semval, semncnt, semzcnt, svAdj>>

NoWait == <<"-", 0>>

SvTypeOK ==
  /\ svMade \in 0..SvMaxSets /\ svId \in BOOLEAN
  /\ {svKey, svLock} \subseteq SvProcs \cup {"none"}
  /\ semval \in [SvNums -> Int]
  /\ {semncnt, semzcnt} \subseteq [SvNums -> Nat]
  /\ svAdj \in [SvProcs -> [SvNums -> Int]]
  /\ svPc \in [SvProcs -> {"out", "lookup", "check", "apply", "suspending", "asleep"}]
  /\ \A p \in SvProcs : svOps[p] \in SvVectors[p] \cup {<<>>}
  /\ svWait \in [SvProcs -> {NoWait} \cup ({"n", "z"} \X SvNums)]

SvInit ==
  /\ svMade = 0 /\ svId = FALSE /\ svKey = "none" /\ svLock = "none"
  /\ semval = [n \in SvNums |-> 0]
  /\ semncnt = [n \in SvNums |-> 0] /\ semzcnt = [n \in SvNums |-> 0]
  /\ svAdj = [p \in SvProcs |-> [n \in SvNums |-> 0]]
  /\ svPc = [p \in SvProcs |-> "out"]
  /\ svOps = [p \in SvProcs |-> <<>>]
  /\ svWait = [p \in SvProcs |-> NoWait]

(* nList ("n") or zList ("z") of semaphore n: the processes whose node is in  *)
(* the list.  A woken process keeps nW or zW until it has counted itself out. *)
Waiting(kind, n) ==
  {p \in SvProcs : svWait[p] = <<kind, n>> /\ svPc[p] \in {"suspending", "asleep"}}

(* Operation o cannot be performed now.                                       *)
Blocks(o) == \/ o.op < 0 /\ semval[o.num] < -o.op
             \/ o.op = 0 /\ semval[o.num] > 0

FirstBlocked_one(vec) == {i \in 1..Len(vec) : i = 1 /\ Blocks(vec[i])}

(* The operation at which the first loop of semop stops, if any.              *)
FirstBlocked(vec) == {i \in 1..Len(vec) : Blocks(vec[i]) /\ \A j \in 1..(i - 1) : ~Blocks(vec[j])}

SvQuiet == \A p \in SvProcs : svPc[p] = "out"

(* semget(IPC_CREAT): sem_construct and sem_setup, each value starting at 1.  *)
SemGet(p) ==
  /\ svPc[p] = "out" /\ svKey = "none" /\ ~svId /\ svMade < SvMaxSets
  /\ svMade' = svMade + 1
  /\ svId' = TRUE
  /\ semval' = [n \in SvNums |-> 1]
  /\ semncnt' = [n \in SvNums |-> 0] /\ semzcnt' = [n \in SvNums |-> 0]
  /\ UNCHANGED <<svKey, svLock, svAdj, svPc, svOps, svWait>>

(* semop is called.                                                           *)
SemopCall(p, vec) ==
  /\ svPc[p] = "out" /\ svMade > 0
  /\ \A o \in Range(vec) : /\ semval[o.num] + o.op <= SvMaxVal
                           /\ o.undo => svAdj[p][o.num] - o.op \in -SvMaxVal..SvMaxVal
  /\ svPc' = [svPc EXCEPT ![p] = "lookup"]
  /\ svOps' = [svOps EXCEPT ![p] = vec]
  /\ svWait' = [svWait EXCEPT ![p] = NoWait]
  /\ UNCHANGED <<svSet, svKey, svLock>>

SemopReturn(p) == /\ svPc' = [svPc EXCEPT ![p] = "out"]
                  /\ svOps' = [svOps EXCEPT ![p] = <<>>]

(* redo: IPCLock and GetIPCById.  The map stays locked while the caller waits *)
(* for si->Lock; a missing set fails with EIDRM.                              *)
SemopLookup(p) ==
  /\ svPc[p] = "lookup" /\ svKey = "none"
  /\ IF svId THEN /\ svKey' = p
                  /\ svPc' = [svPc EXCEPT ![p] = "check"]
                  /\ UNCHANGED <<svOps, svWait>>
             ELSE /\ svKey' = svKey
                  /\ SemopReturn(p)
                  /\ svWait' = [svWait EXCEPT ![p] = NoWait]
  /\ UNCHANGED <<svSet, svLock>>

(* A woken process counts itself out of semncnt or semzcnt.                   *)
CountedOut(cnt, kind, p) ==
  IF svWait[p][1] = kind THEN [cnt EXCEPT ![svWait[p][2]] = @ - 1] ELSE cnt

CountedIn(cnt, kind, w) == IF w[1] = kind THEN [cnt EXCEPT ![w[2]] = @ + 1] ELSE cnt

(* The node that semop queues when operation o blocks.                        *)
WaitFor(o) == IF o.op < 0 THEN <<"n", o.num>> ELSE <<"z", o.num>>

(* si->Lock after the first loop: kept for the second one, else released.     *)
LockAfter(p, blocked) == IF blocked = {} THEN p ELSE "none"

(* ObtainSemaphore(si->Lock), IPCUnlock, then the first loop: every operation *)
(* is tested against the current values.  The Lock is kept only when all of   *)
(* them may proceed; otherwise the call fails or queues its node.             *)
SemopCheck(p) ==
  LET blocked == FirstBlocked(svOps[p])
      o       == svOps[p][CHOOSE i \in blocked : TRUE]
      w       == IF blocked # {} /\ ~o.nowait THEN WaitFor(o) ELSE NoWait
  IN  /\ svPc[p] = "check" /\ svLock = "none"
      /\ svKey' = "none"
      /\ svLock' = LockAfter(p, blocked)
      /\ semncnt' = CountedIn(CountedOut(semncnt, "n", p), "n", w)
      /\ semzcnt' = CountedIn(CountedOut(semzcnt, "z", p), "z", w)
      /\ svWait' = [svWait EXCEPT ![p] = w]
      /\ IF blocked # {} /\ o.nowait
           THEN SemopReturn(p)
           ELSE /\ svPc' = [svPc EXCEPT ![p] = IF blocked = {} THEN "apply" ELSE "suspending"]
                /\ svOps' = svOps
      /\ UNCHANGED <<svMade, svId, semval, svAdj>>

(* The operations of a vector on semaphore n, among the first i.              *)
OpsOn(vec, i, n) == {j \in 1..i : vec[j].num = n}

(* The value of n after i turns of the second loop.                           *)
ValueAfter(vec, i, n) ==
  semval[n] + SumFunction([j \in OpsOn(vec, i, n) |-> vec[j].op])

WokenBy_zeroonly(vec, i) ==
  IF ValueAfter(vec, i, vec[i].num) = 0 THEN Waiting("z", vec[i].num) ELSE {}

(* The list that the i-th turn wakes: a value of zero wakes zList, and any    *)
(* other increment nList.                                                     *)
WokenBy(vec, i) ==
  IF ValueAfter(vec, i, vec[i].num) = 0 THEN Waiting("z", vec[i].num)
  ELSE IF vec[i].op > 0 THEN Waiting("n", vec[i].num) ELSE {}

(* WakeList restarts every task of the list, and spins until each is asleep.  *)
WakeList(woken, next) ==
  /\ \A q \in woken : svPc[q] = "asleep"
  /\ svPc' = [q \in SvProcs |-> IF q \in woken THEN "lookup" ELSE next[q]]

(* What the second loop takes from Adj[n], for the operations with SEM_UNDO.  *)
Recorded(vec, n) ==
  SumFunction([j \in OpsOn(vec, Len(vec), n) |-> IF vec[j].undo THEN vec[j].op ELSE 0])

(* The second loop of semop, SEM_UNDO accounting included, and the release.   *)
SemopApply(p) ==
  LET vec == svOps[p]
  IN  /\ svPc[p] = "apply"
      /\ semval' = [n \in SvNums |-> ValueAfter(vec, Len(vec), n)]
      /\ svAdj' = [svAdj EXCEPT ![p] = [n \in SvNums |-> @[n] - Recorded(vec, n)]]
      /\ WakeList(UNION {WokenBy(vec, i) : i \in 1..Len(vec)}, [svPc EXCEPT ![p] = "out"])
      /\ svLock' = "none"
      /\ svOps' = [svOps EXCEPT ![p] = <<>>]
      /\ UNCHANGED <<svMade, svId, svKey, semncnt, semzcnt, svWait>>

(* WaitList: SuspendTask on itself.                                           *)
SemopSuspend(p) ==
  /\ svPc[p] = "suspending"
  /\ svPc' = [svPc EXCEPT ![p] = "asleep"]
  /\ UNCHANGED <<svSet, svKey, svLock, svOps, svWait>>

(* semctl(SETVAL): under the map's lock only, and without a wake-up.  The     *)
(* caller's own adjustment is cleared.                                        *)
SemSetVal(p, n, v) ==
  /\ svPc[p] = "out" /\ svKey = "none" /\ svId
  /\ SvBusyCtl \/ SvQuiet
  /\ semval' = [semval EXCEPT ![n] = v]
  /\ svAdj' = [svAdj EXCEPT ![p][n] = 0]
  /\ UNCHANGED <<svMade, svId, svKey, svLock, semncnt, semzcnt, svPc, svOps, svWait>>

(* semctl(SETALL): all values, and the adjustment that semnum names cleared.  *)
SemSetAll(p, n, v) ==
  /\ svPc[p] = "out" /\ svKey = "none" /\ svId
  /\ SvBusyCtl \/ SvQuiet
  /\ semval' = [m \in SvNums |-> v]
  /\ svAdj' = [svAdj EXCEPT ![p][n] = 0]
  /\ UNCHANGED <<svMade, svId, svKey, svLock, semncnt, semzcnt, svPc, svOps, svWait>>

DestroyWakes_nonly == UNION {Waiting("n", n) : n \in SvNums}

(* The processes that sem_destroy wakes so they can fail.                     *)
DestroyWakes == {p \in SvProcs : svWait[p] # NoWait /\ svPc[p] \in {"suspending", "asleep"}}

(* semctl(IPC_RMID): sem_destroy wakes all sleepers and frees the set, and    *)
(* the slot is cleared.  The map's lock is held, si->Lock is not taken.       *)
SemRemove(p) ==
  /\ svPc[p] = "out" /\ svKey = "none" /\ svId
  /\ SvBusyCtl \/ svLock = "none"
  /\ WakeList(DestroyWakes, svPc)
  /\ svId' = FALSE
  /\ UNCHANGED <<svMade, svKey, svLock, semval, semncnt, semzcnt, svAdj, svOps, svWait>>

(* The process ends and libClose frees its UndoInfo; a new one takes over.    *)
ProcessExit(p) ==
  /\ svPc[p] = "out"
  /\ SvDirtyExit \/ \A n \in SvNums : svAdj[p][n] = 0
  /\ svAdj' = [svAdj EXCEPT ![p] = [n \in SvNums |-> 0]]
  /\ UNCHANGED <<svMade, svId, svKey, svLock, semval, semncnt, semzcnt, svPc, svOps, svWait>>

SemopStep(p) == SemopLookup(p) \/ SemopCheck(p) \/ SemopApply(p) \/ SemopSuspend(p)

SvNext == \E p \in SvProcs :
  \/ SemGet(p) \/ SemopStep(p) \/ SemRemove(p) \/ ProcessExit(p)
  \/ \E vec \in SvVectors[p] : SemopCall(p, vec)
  \/ \E n \in SvNums : \E v \in {0} : SemSetVal(p, n, v) \/ SemSetAll(p, n, v)

(* The scheduler runs every ready process, and exec semaphores queue their   *)
(* waiters in order.                                                          *)
SvFairness == \A p \in SvProcs : SF_svVars(SemopStep(p))

SvSpec == SvInit /\ [][SvNext]_svVars /\ SvFairness

(* No value of the set ever goes below zero: the values that the first loop   *)
(* of semop tested are still the ones its second loop changes.                *)
SvNonNegative == \A n \in SvNums : semval[n] >= 0

(* A process that sleeps in semop is one whose operation cannot proceed: no   *)
(* change of a value that lets it proceed leaves it in nList or zList.        *)
SvSleepersBlocked ==
  svId => \A p \in SvProcs : svPc[p] \in {"suspending", "asleep"} =>
            \E o \in Range(svOps[p]) : WaitFor(o) = svWait[p] /\ Blocks(o)

(* semncnt and semzcnt, what GETNCNT and GETZCNT return, count the processes  *)
(* that wait, the woken ones that have not yet retried included.              *)
SvCountsExact ==
  svId => \A n \in SvNums :
    /\ semncnt[n] = Cardinality({p \in SvProcs : svPc[p] # "out" /\ svWait[p] = <<"n", n>>})
    /\ semzcnt[n] = Cardinality({p \in SvProcs : svPc[p] # "out" /\ svWait[p] = <<"z", n>>})

(* A semaphore that is only changed with SEM_UNDO keeps the value it has once *)
(* every recorded adjustment is applied, whatever semop does and whoever ends *)
(* ("Operations are undone when the interface is dropped").                   *)
SvUndoNums == {n \in SvNums : \A vec \in UNION Range(SvVectors) : \A o \in Range(vec) :
                                o.num = n => o.undo \/ o.op = 0}
SvSettled(n) == semval[n] + SumFunction([p \in SvProcs |-> svAdj[p][n]])
SvUndoBalanced ==
  [][(\E p \in SvProcs : SemopStep(p) \/ ProcessExit(p)) =>
       \A n \in SvUndoNums : SvSettled(n)' = SvSettled(n)]_svVars

(* semop is atomic: the set implements the abstract one, in which a vector    *)
(* takes effect as a whole, in its order, or not at all.                      *)
SvAbstract == INSTANCE AbstractSemSet WITH AbsNums <- SvNums, AbsVectors <- UNION Range(SvVectors), AbsValues <- {0}, absval <- semval
SvAtomic == SvAbstract!AbsSpec

(* What semop leaves behind: all of a vector or nothing, and adjustments that *)
(* give back exactly what was taken with SEM_UNDO.                            *)
SvEffects == SvUndoBalanced /\ SvAtomic

(* IPC_RMID lets every sleeper fail: no process stays in semop on a set that  *)
(* is gone.                                                                   *)
SvRemovedReturns ==
  \A p \in SvProcs : (~svId /\ svPc[p] # "out") ~> (svPc[p] = "out" \/ svId)

(* Whoever gets si->Lock gives it back, although WakeList spins under it.     *)
SvLockReleased == \A p \in SvProcs : svLock = p ~> svLock # p

(* The set is consistent with what processes do in semop: values, counts and  *)
(* sleepers.                                                                  *)
SvSound == SvTypeOK /\ SvNonNegative /\ SvCountsExact /\ SvSleepersBlocked

(* A process gets out of semop once its set is removed, and out of si->Lock.  *)
SvProgress == SvRemovedReturns /\ SvLockReleased
===============================================================================
