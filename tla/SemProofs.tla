------------------------------ MODULE SemProofs ------------------------------
EXTENDS SysVSem, Sums

(***************************************************************************)
(* Proofs about module SysVSem, for any number of processes, semaphores,   *)
(* vectors and values.                                                     *)
(*                                                                         *)
(* What the code leaves to its callers are the hypotheses: semctl changes  *)
(* no set that semop is at work on (SvBusyCtl = FALSE), a vector names a   *)
(* semaphore once, and an id is not used again for another set.            *)
(***************************************************************************)

\* No vector names a semaphore twice: the first loop tests every operation
\* against the values before the call.
OneOpEach ==
  \A p \in SvProcs : \A vec \in SvVectors[p] :
    \A i, j \in 1..Len(vec) : vec[i].num = vec[j].num => i = j

\* One set is made: an id that is used again meets those that still leave the
\* set before.
OneSet == SvMaxSets <= 1

SvSleeps(p) == svPc[p] \in {"suspending", "asleep"}

\* The processes that count in semncnt ("n") or semzcnt ("z") of n.
CountedFor(kind, n) == {p \in SvProcs : svPc[p] # "out" /\ svWait[p] = <<kind, n>>}

SvWaits == {NoWait} \cup ({"n", "z"} \X SvNums)

SvTypes ==
  /\ svMade \in 0..SvMaxSets /\ svId \in BOOLEAN
  /\ svKey \in SvProcs \cup {"none"} /\ svLock \in SvProcs \cup {"none"}
  /\ semval \in [SvNums -> Nat] /\ semncnt \in [SvNums -> Nat] /\ semzcnt \in [SvNums -> Nat]
  /\ svAdj \in [SvProcs -> [SvNums -> Int]]
  /\ svPc \in [SvProcs -> {"out", "lookup", "check", "apply", "suspending", "asleep"}]
  /\ svOps \in [SvProcs -> Seq(SvOp)]
  /\ svWait \in [SvProcs -> SvWaits]

\* Who holds which lock, what a process in the second loop has tested, and that
\* nobody is at work on a set that is gone.
SvHolds ==
  /\ \A p \in SvProcs : (svKey = p <=> svPc[p] = "check") /\ (svLock = p <=> svPc[p] = "apply")
  /\ \A p \in SvProcs : IF svPc[p] = "out" THEN svOps[p] = <<>> ELSE svOps[p] \in SvVectors[p]
  /\ \A p \in SvProcs : svPc[p] = "apply" =>
       svWait[p] = NoWait /\ \A i \in 1..Len(svOps[p]) : ~Blocks(svOps[p][i])
  /\ ~svId => \A p \in SvProcs : svPc[p] \in {"out", "lookup"}
  /\ svMade = 0 => ~svId /\ \A p \in SvProcs : svPc[p] = "out"

SvCounts ==
  svId => \A n \in SvNums : /\ semncnt[n] = Cardinality(CountedFor("n", n))
                            /\ semzcnt[n] = Cardinality(CountedFor("z", n))

\* The operation p waits for cannot proceed.
SvBlocked(p) ==
  \E i \in 1..Len(svOps[p]) : WaitFor(svOps[p][i]) = svWait[p] /\ Blocks(svOps[p][i])

SvAsleep == \A p \in SvProcs : SvSleeps(p) => SvBlocked(p)

SvInd == SvTypes /\ SvHolds /\ SvCounts /\ SvAsleep

-----------------------------------------------------------------------------
\* What a vector of operations is.
LEMMA VectorIs ==
    ASSUME NEW p \in SvProcs, NEW vec \in SvVectors[p]
    PROVE  /\ vec \in Seq(SvOp) /\ Len(vec) \in Nat
           /\ \A i \in 1..Len(vec) : vec[i] \in SvOp /\ vec[i].num \in SvNums /\ vec[i].op \in Int
                                     /\ vec[i].undo \in BOOLEAN
<1>1. vec \in Seq(SvOp)
  BY SvAssumption, Zenon
<1>2. \A o \in SvOp : o.num \in SvNums /\ o.op \in Int /\ o.undo \in BOOLEAN
  BY Zenon DEF SvOp
<1> QED BY <1>1, <1>2

\* A sum with one term at most.
LEMMA SumOfOne ==
    ASSUME NEW h, NEW j, h[j] \in Int
    PROVE  SumOf(h, {j}) = h[j] /\ SumOf(h, {}) = 0
<1>1. IsFiniteSet({j}) /\ IsFiniteSet({}) /\ {j} \ {j} = {}
  BY FS_Singleton, FS_EmptySet, Zenon
<1>2. SumOf(h, {}) = 0
  BY <1>1, SumFirst, Zenon
<1>3. SumOf(h, {j}) = h[j] + SumOf(h, {j} \ {j})
  <2>1. \A y \in {j} : h[y] \in Int
    BY Zenon
  <2> QED BY <1>1, <2>1, SumWithout, Zenon
<1> QED BY <1>1, <1>2, <1>3

\* The value of n after i operations.
LEMMA ValueAfterIs ==
    ASSUME OneOpEach, NEW p \in SvProcs, NEW vec \in SvVectors[p], NEW i \in 0..Len(vec), NEW n \in SvNums,
           semval[n] \in Int
    PROVE  /\ \A j \in 1..i : vec[j].num = n => ValueAfter(vec, i, n) = semval[n] + vec[j].op
           /\ (\A j \in 1..i : vec[j].num # n) => ValueAfter(vec, i, n) = semval[n]
<1> DEFINE S == OpsOn(vec, i, n)
           h == [j \in S |-> vec[j].op]
<1>1. ValueAfter(vec, i, n) = semval[n] + SumOf(h, S)
  BY SumFunctionIs, Zenon DEF ValueAfter
<1>2. Len(vec) \in Nat /\ \A j \in 1..i : j \in 1..Len(vec) /\ vec[j].op \in Int
  BY VectorIs
<1>3. ASSUME NEW j \in 1..i, vec[j].num = n PROVE ValueAfter(vec, i, n) = semval[n] + vec[j].op
  <2>1. S = {j}
    BY <1>2, <1>3, Zenon DEF OpsOn, OneOpEach
  <2>2. h[j] = vec[j].op
    BY <2>1, Zenon
  <2> HIDE DEF h, S
  <2> QED BY <1>1, <1>2, <2>1, <2>2, SumOfOne, Zenon
<1>4. ASSUME \A j \in 1..i : vec[j].num # n PROVE ValueAfter(vec, i, n) = semval[n]
  <2>1. S = {}
    BY <1>4, Zenon DEF OpsOn
  <2>2. SumOf(h, {}) = 0
    BY FS_EmptySet, SumFirst, Zenon
  <2> HIDE DEF h, S
  <2> QED BY <1>1, <2>1, <2>2
<1> QED BY <1>3, <1>4, Zenon

\* No operation blocks exactly if the first loop does not stop.
LEMMA FirstBlockedIs ==
    ASSUME NEW p \in SvProcs, NEW vec \in SvVectors[p]
    PROVE  /\ FirstBlocked(vec) = {} <=> \A i \in 1..Len(vec) : ~Blocks(vec[i])
           /\ FirstBlocked(vec) # {} =>
                LET i == CHOOSE k \in FirstBlocked(vec) : TRUE
                IN  i \in 1..Len(vec) /\ Blocks(vec[i])
<1> DEFINE T == {i \in 1..Len(vec) : Blocks(vec[i])}
<1>0. Len(vec) \in Nat
  BY VectorIs, Zenon
<1>1. ASSUME T # {} PROVE FirstBlocked(vec) # {}
  <2>1. T \subseteq Nat
    OBVIOUS
  <2> HIDE DEF T
  <2>2. PICK b : b \in T /\ \A c \in T : b <= c
    BY <1>1, <2>1, LeastNat, Zenon
  <2>3. b \in 1..Len(vec) /\ Blocks(vec[b])
    BY <2>2, Zenon DEF T
  <2>4. \A j \in 1..(b - 1) : j \in 1..Len(vec) /\ ~(b <= j)
    BY <1>0, <2>3
  <2>5. \A j \in 1..(b - 1) : ~Blocks(vec[j])
    BY <2>2, <2>4, Zenon DEF T
  <2> QED BY <2>3, <2>5, Zenon DEF FirstBlocked
<1>2. \A i \in FirstBlocked(vec) : i \in 1..Len(vec) /\ Blocks(vec[i])
  BY Zenon DEF FirstBlocked
<1> QED BY <1>1, <1>2, Zenon

\* What a process may wait for, and that NoWait is none of it.
LEMMA NoWaitApart ==
    /\ NoWait \notin {"n", "z"} \X SvNums
    /\ \A kind \in {"n", "z"}, n \in SvNums : <<kind, n>> # NoWait /\ <<kind, n>>[1] = kind /\ <<kind, n>>[2] = n
    /\ NoWait[1] = "-"
    /\ \A w \in SvWaits : w = NoWait \/ \E kind \in {"n", "z"}, n \in SvNums : w = <<kind, n>>
BY DEF NoWait, SvWaits

\* semncnt and semzcnt count finite sets.
LEMMA CountedFinite ==
    ASSUME NEW kind, NEW n
    PROVE  IsFiniteSet(CountedFor(kind, n)) /\ Cardinality(CountedFor(kind, n)) \in Nat
BY SvAssumption, FS_Subset, FS_CardinalityType, Zenon DEF CountedFor

\* A process counts itself out of one list and into another.
LEMMA CheckCounts ==
    ASSUME SvTypes, NEW p \in SvProcs, svPc[p] = "check", NEW w \in SvWaits, NEW x,
           x = "out" => w = NoWait,
           svWait' = [svWait EXCEPT ![p] = w], svPc' = [svPc EXCEPT ![p] = x],
           NEW kind \in {"n", "z"}, NEW cnt \in [SvNums -> Nat],
           \A n \in SvNums : cnt[n] = Cardinality(CountedFor(kind, n))
    PROVE  /\ CountedIn(CountedOut(cnt, kind, p), kind, w) \in [SvNums -> Nat]
           /\ \A n \in SvNums : CountedIn(CountedOut(cnt, kind, p), kind, w)[n] = Cardinality(CountedFor(kind, n))'
<1> DEFINE Rest(n) == CountedFor(kind, n) \ {p}
           Here(n) == IF w = <<kind, n>> THEN Rest(n) \cup {p} ELSE Rest(n)
<1>0. svWait[p] \in SvWaits /\ svPc \in [SvProcs -> {"out", "lookup", "check", "apply", "suspending", "asleep"}]
      /\ svWait \in [SvProcs -> SvWaits]
  BY Zenon DEF SvTypes
<1>1. \A n \in SvNums : IsFiniteSet(CountedFor(kind, n)) /\ Cardinality(CountedFor(kind, n)) \in Nat
  BY CountedFinite, Zenon
<1>2. \A n \in SvNums : p \in CountedFor(kind, n) <=> svWait[p] = <<kind, n>>
  BY Zenon DEF CountedFor
<1>3. \A n \in SvNums : Cardinality(Rest(n)) = cnt[n] - (IF svWait[p] = <<kind, n>> THEN 1 ELSE 0)
                        /\ IsFiniteSet(Rest(n)) /\ Cardinality(Rest(n)) \in Nat
  BY <1>1, <1>2, FS_RemoveElement, FS_CardinalityType
<1>4. \A n \in SvNums : Cardinality(Here(n)) = Cardinality(Rest(n)) + (IF w = <<kind, n>> THEN 1 ELSE 0)
  <2> SUFFICES ASSUME NEW n \in SvNums
               PROVE  Cardinality(Here(n)) = Cardinality(Rest(n)) + (IF w = <<kind, n>> THEN 1 ELSE 0)
    BY Zenon
  <2>1. Cardinality(Rest(n) \cup {p}) = Cardinality(Rest(n)) + 1
    <3>1. IsFiniteSet(Rest(n)) /\ p \notin Rest(n)
      BY <1>3, Zenon
    <3> HIDE DEF Rest
    <3> QED BY <3>1, FS_AddElement, Zenon
  <2>2. Cardinality(Rest(n)) \in Nat
    BY <1>3, Zenon
  <2> HIDE DEF Rest
  <2> QED BY <2>1, <2>2
<1>5. \A n \in SvNums : CountedFor(kind, n)' = Here(n)
  <2> SUFFICES ASSUME NEW n \in SvNums, NEW q \in SvProcs
               PROVE  (svPc'[q] # "out" /\ svWait'[q] = <<kind, n>>) <=> q \in Here(n)
    BY Zenon DEF CountedFor
  <2>1. CASE q = p
    BY <1>0, <2>1, NoWaitApart
  <2>2. CASE q # p
    BY <1>0, <2>2, Zenon DEF CountedFor
  <2> QED BY <2>1, <2>2, Zenon
<1> DEFINE out == CountedOut(cnt, kind, p)
<1>6. out \in [SvNums -> Nat] /\ \A n \in SvNums : out[n] = Cardinality(Rest(n))
  <2>1. CASE svWait[p][1] = kind
    <3>1. PICK m \in SvNums : svWait[p] = <<kind, m>>
      BY <1>0, <2>1, NoWaitApart
    <3>2. out = [cnt EXCEPT ![m] = @ - 1]
      BY <2>1, <3>1 DEF CountedOut
    <3>3. \A n \in SvNums : svWait[p] = <<kind, n>> <=> n = m
      BY <3>1
    <3> HIDE DEF Rest, out
    <3>4. \A n \in SvNums : out[n] = Cardinality(Rest(n))
      BY <1>3, <3>2, <3>3
    <3> QED BY <1>3, <3>2, <3>4, Zenon
  <2>2. CASE svWait[p][1] # kind
    <3>1. \A n \in SvNums : svWait[p] # <<kind, n>>
      BY <2>2
    <3>2. out = cnt
      BY <2>2, Zenon DEF CountedOut
    <3> HIDE DEF Rest, out
    <3> QED BY <1>3, <3>1, <3>2
  <2> QED BY <2>1, <2>2, Zenon
<1> DEFINE all == CountedIn(out, kind, w)
<1> HIDE DEF out, Rest, Here
<1>7. all \in [SvNums -> Nat] /\ \A n \in SvNums : all[n] = Cardinality(Here(n))
  <2>1. CASE w[1] = kind
    <3>1. PICK m \in SvNums : w = <<kind, m>>
      BY <2>1, NoWaitApart
    <3>2. all = [out EXCEPT ![m] = @ + 1]
      BY <2>1, <3>1 DEF CountedIn
    <3>3. \A n \in SvNums : w = <<kind, n>> <=> n = m
      BY <3>1, Zenon
    <3> HIDE DEF all
    <3> QED BY <1>3, <1>4, <1>6, <3>2, <3>3
  <2>2. CASE w[1] # kind
    <3>1. \A n \in SvNums : w # <<kind, n>>
      BY <2>2
    <3>2. all = out
      BY <2>2, Zenon DEF CountedIn
    <3> HIDE DEF all
    <3> QED BY <1>3, <1>4, <1>6, <3>1, <3>2
  <2> QED BY <2>1, <2>2, Zenon
<1> QED BY <1>5, <1>7, Zenon DEF out

\* Nobody who counts comes or goes.
LEMMA CountsStay ==
    ASSUME SvCounts, svId' => svId, UNCHANGED <<semncnt, semzcnt>>,
           \A q \in SvProcs : \A kind \in {"n", "z"}, n \in SvNums :
             (svPc'[q] # "out" /\ svWait'[q] = <<kind, n>>) <=> (svPc[q] # "out" /\ svWait[q] = <<kind, n>>)
    PROVE  SvCounts'
<1>1. \A kind \in {"n", "z"}, n \in SvNums : CountedFor(kind, n)' = CountedFor(kind, n)
  BY Zenon DEF CountedFor
<1> QED BY <1>1, Zenon DEF SvCounts

\* semget makes the set.
LEMMA SemGetKeeps == ASSUME SvInd, OneSet, NEW p \in SvProcs, SemGet(p) PROVE SvInd'
<1>1. svMade = 0 /\ svMade' = svMade + 1 /\ svMade + 1 \in 0..SvMaxSets
  BY SvAssumption DEF SemGet, SvInd, SvTypes, OneSet
<1>2. \A q \in SvProcs : svPc[q] = "out" /\ svPc'[q] = "out"
  BY <1>1, Zenon DEF SvInd, SvHolds, SemGet
<1>3. SvTypes'
  BY <1>1, Zenon DEF SvInd, SvTypes, SemGet
<1>4. SvHolds'
  BY <1>1, <1>2 DEF SvInd, SvHolds, SvTypes, SemGet
<1>5. SvCounts'
  <2>1. \A kind \in {"n", "z"}, n \in SvNums : CountedFor(kind, n)' = {}
    BY <1>2, Zenon DEF CountedFor
  <2> QED BY <2>1, FS_EmptySet, Zenon DEF SvCounts, SemGet
<1>6. SvAsleep'
  BY <1>2, Zenon DEF SvAsleep, SvSleeps
<1> QED BY <1>3, <1>4, <1>5, <1>6, Zenon DEF SvInd

\* semop is called.
LEMMA SemopCallKeeps ==
    ASSUME SvInd, NEW p \in SvProcs, NEW vec \in SvVectors[p], SemopCall(p, vec) PROVE SvInd'
<1>1. /\ svPc[p] = "out" /\ svMade > 0 /\ UNCHANGED <<svMade, svId, semval, semncnt, semzcnt, svAdj, svKey, svLock>>
      /\ svPc' = [svPc EXCEPT ![p] = "lookup"] /\ svOps' = [svOps EXCEPT ![p] = vec]
      /\ svWait' = [svWait EXCEPT ![p] = NoWait]
  BY Zenon DEF SemopCall, svSet
<1>2. vec \in Seq(SvOp)
  BY VectorIs, Zenon
<1>3. SvTypes'
  BY <1>1, <1>2, Zenon DEF SvInd, SvTypes, SvWaits
<1>4. SvHolds'
  BY <1>1, <1>2 DEF SvInd, SvHolds, SvTypes, Blocks
<1>5. SvCounts'
  <2>1. \A q \in SvProcs : \A kind \in {"n", "z"}, n \in SvNums :
          (svPc'[q] # "out" /\ svWait'[q] = <<kind, n>>) <=> (svPc[q] # "out" /\ svWait[q] = <<kind, n>>)
    <3>1. svPc[p] = "out" /\ svWait'[p] = NoWait
      BY <1>1, Zenon DEF SvInd, SvTypes
    <3>2. \A q \in SvProcs \ {p} : svPc'[q] = svPc[q] /\ svWait'[q] = svWait[q]
      BY <1>1, Zenon DEF SvInd, SvTypes
    <3> QED BY <3>1, <3>2, NoWaitApart
  <2> QED BY <1>1, <2>1, CountsStay, Zenon DEF SvInd
<1>6. SvAsleep'
  <2>1. \A q \in SvProcs : SvSleeps(q)' => q # p /\ SvSleeps(q) /\ svOps'[q] = svOps[q] /\ svWait'[q] = svWait[q]
    BY <1>1, Zenon DEF SvInd, SvTypes, SvSleeps
  <2> QED BY <1>1, <2>1, SMTT(30) DEF SvInd, SvAsleep, SvBlocked, Blocks
<1> QED BY <1>3, <1>4, <1>5, <1>6, Zenon DEF SvInd

\* semop finds the set, or that it is gone.
LEMMA SemopLookupKeeps == ASSUME SvInd, NEW p \in SvProcs, SemopLookup(p) PROVE SvInd'
<1>1. /\ svPc[p] = "lookup" /\ svKey = "none"
      /\ UNCHANGED <<svMade, svId, semval, semncnt, semzcnt, svAdj, svLock>>
  BY Zenon DEF SemopLookup, svSet
<1>2. CASE svId
  <2>1. svKey' = p /\ svPc' = [svPc EXCEPT ![p] = "check"] /\ UNCHANGED <<svOps, svWait>>
    BY <1>2, Zenon DEF SemopLookup
  <2>2. SvTypes'
    BY <1>1, <2>1, Zenon DEF SvInd, SvTypes
  <2>3. SvHolds'
    <3>1. \A q \in SvProcs : svPc[q] # "check"
      BY <1>1, SvAssumption, Zenon DEF SvInd, SvHolds
    <3> QED BY <1>1, <1>2, <2>1, <3>1, Zenon DEF SvInd, SvHolds, SvTypes, Blocks
  <2>4. SvCounts'
    <3>1. \A q \in SvProcs : svPc'[q] # "out" <=> svPc[q] # "out"
      BY <1>1, <2>1, Zenon DEF SvInd, SvTypes
    <3> QED BY <1>1, <2>1, <3>1, CountsStay, Zenon DEF SvInd
  <2>5. SvAsleep'
    <3>1. \A q \in SvProcs : SvSleeps(q)' => SvSleeps(q)
      BY <2>1, Zenon DEF SvInd, SvTypes, SvSleeps
    <3> QED BY <1>1, <2>1, <3>1, Zenon DEF SvInd, SvAsleep, SvBlocked, Blocks
  <2> QED BY <2>2, <2>3, <2>4, <2>5, Zenon DEF SvInd
<1>3. CASE ~svId
  <2>1. /\ svKey' = svKey /\ svPc' = [svPc EXCEPT ![p] = "out"] /\ svOps' = [svOps EXCEPT ![p] = <<>>]
        /\ svWait' = [svWait EXCEPT ![p] = NoWait]
    BY <1>3, Zenon DEF SemopLookup, SemopReturn
  <2>2. SvTypes'
    BY <1>1, <2>1 DEF SvInd, SvTypes, SvWaits
  <2>3. SvHolds'
    BY <1>1, <1>3, <2>1, Zenon DEF SvInd, SvHolds, SvTypes, Blocks
  <2>4. SvCounts'
    BY <1>1, <1>3, Zenon DEF SvCounts
  <2>5. SvAsleep'
    <3>1. \A q \in SvProcs : ~SvSleeps(q)'
      BY <1>3, <2>1, Zenon DEF SvInd, SvTypes, SvHolds, SvSleeps
    <3> QED BY <3>1, Zenon DEF SvAsleep
  <2> QED BY <2>2, <2>3, <2>4, <2>5, Zenon DEF SvInd
<1> QED BY <1>2, <1>3, Zenon

\* The first loop of semop: all may proceed, or the call fails or queues its
\* node.
LEMMA SemopCheckKeeps == ASSUME SvInd, NEW p \in SvProcs, SemopCheck(p) PROVE SvInd'
<1> DEFINE vec == svOps[p]
           blocked == FirstBlocked(vec)
<1>1. PICK o, w, x :
        /\ o = vec[CHOOSE i \in blocked : TRUE]
        /\ w = (IF blocked # {} /\ ~o.nowait THEN WaitFor(o) ELSE NoWait)
        /\ x = (IF blocked # {} /\ o.nowait THEN "out" ELSE IF blocked = {} THEN "apply" ELSE "suspending")
  BY Zenon
<1>2. /\ svPc[p] = "check" /\ svLock = "none" /\ svKey' = "none"
      /\ svLock' = (IF blocked = {} THEN p ELSE "none")
      /\ semncnt' = CountedIn(CountedOut(semncnt, "n", p), "n", w)
      /\ semzcnt' = CountedIn(CountedOut(semzcnt, "z", p), "z", w)
      /\ svWait' = [svWait EXCEPT ![p] = w]
      /\ UNCHANGED <<svMade, svId, semval, svAdj>>
  BY <1>1, Zenon DEF SemopCheck, LockAfter
<1>3. /\ svPc' = [svPc EXCEPT ![p] = x]
      /\ IF x = "out" THEN svOps' = [svOps EXCEPT ![p] = <<>>] ELSE svOps' = svOps
  BY <1>1, Zenon DEF SemopCheck, SemopReturn
<1>4. svKey = p /\ svId /\ vec \in SvVectors[p] /\ \A q \in SvProcs : svPc[q] = "check" => q = p
  BY <1>2, Zenon DEF SvInd, SvHolds
<1>5. \A q \in SvProcs : svPc[q] # "apply"
  BY <1>2, SvAssumption, Zenon DEF SvInd, SvHolds
<1>6. blocked # {} => \E i \in 1..Len(vec) : o = vec[i] /\ Blocks(o)
  BY <1>1, <1>4, FirstBlockedIs, Zenon
<1>7. blocked = {} => \A i \in 1..Len(vec) : ~Blocks(vec[i])
  BY <1>4, FirstBlockedIs, Zenon
<1>8. w \in SvWaits /\ (x = "out" => w = NoWait)
  <2>1. blocked # {} => o.num \in SvNums
    BY <1>4, <1>6, VectorIs, Zenon
  <2> QED BY <1>1, <2>1, Zenon DEF WaitFor, SvWaits
<1> HIDE DEF vec, blocked
<1>9. /\ semncnt' \in [SvNums -> Nat] /\ semzcnt' \in [SvNums -> Nat]
      /\ \A n \in SvNums : semncnt'[n] = Cardinality(CountedFor("n", n))' /\ semzcnt'[n] = Cardinality(CountedFor("z", n))'
  <2>1. /\ SvTypes /\ semncnt \in [SvNums -> Nat] /\ semzcnt \in [SvNums -> Nat]
        /\ \A n \in SvNums : semncnt[n] = Cardinality(CountedFor("n", n))
        /\ \A n \in SvNums : semzcnt[n] = Cardinality(CountedFor("z", n))
    BY <1>4, Zenon DEF SvInd, SvTypes, SvCounts
  <2>2. "n" \in {"n", "z"} /\ "z" \in {"n", "z"}
    BY Zenon
  <2>3. /\ CountedIn(CountedOut(semncnt, "n", p), "n", w) \in [SvNums -> Nat]
        /\ \A n \in SvNums : CountedIn(CountedOut(semncnt, "n", p), "n", w)[n] = Cardinality(CountedFor("n", n))'
    BY <1>2, <1>3, <1>8, <2>1, <2>2, CheckCounts, Zenon
  <2>4. /\ CountedIn(CountedOut(semzcnt, "z", p), "z", w) \in [SvNums -> Nat]
        /\ \A n \in SvNums : CountedIn(CountedOut(semzcnt, "z", p), "z", w)[n] = Cardinality(CountedFor("z", n))'
    BY <1>2, <1>3, <1>8, <2>1, <2>2, CheckCounts, Zenon
  <2> QED BY <1>2, <2>3, <2>4, Zenon
<1>10. SvTypes'
  <2>1. svPc' \in [SvProcs -> {"out", "lookup", "check", "apply", "suspending", "asleep"}]
    BY <1>1, <1>3, Zenon DEF SvInd, SvTypes
  <2>2. svOps' \in [SvProcs -> Seq(SvOp)]
    <3>1. svOps \in [SvProcs -> Seq(SvOp)] /\ <<>> \in Seq(SvOp)
      BY DEF SvInd, SvTypes
    <3> QED BY <1>3, <3>1, Zenon
  <2>3. svWait' \in [SvProcs -> SvWaits]
    BY <1>2, <1>8, Zenon DEF SvInd, SvTypes
  <2> QED BY <1>2, <1>9, <2>1, <2>2, <2>3, Zenon DEF SvInd, SvTypes
<1>11. SvHolds'
  <2>1. /\ svPc'[p] = x /\ svWait'[p] = w /\ svOps'[p] = (IF x = "out" THEN <<>> ELSE vec)
        /\ \A q \in SvProcs \ {p} : svPc'[q] = svPc[q] /\ svWait'[q] = svWait[q] /\ svOps'[q] = svOps[q]
    BY <1>2, <1>3, Zenon DEF SvInd, SvTypes, vec
  <2>2. x # "check" /\ (x = "apply" <=> blocked = {}) /\ (x = "apply" => w = NoWait)
    BY <1>1, Zenon
  <2>3. \A q \in SvProcs : (svKey' = q <=> svPc'[q] = "check") /\ (svLock' = q <=> svPc'[q] = "apply")
    BY <1>2, <1>4, <1>5, <2>1, <2>2, SvAssumption, Zenon
  <2>4. \A q \in SvProcs : IF svPc'[q] = "out" THEN svOps'[q] = <<>> ELSE svOps'[q] \in SvVectors[q]
    BY <1>4, <2>1, Zenon DEF SvInd, SvHolds
  <2>5. (\A q \in SvProcs : svPc[q] = "apply" =>
           svWait[q] = NoWait /\ \A i \in 1..Len(svOps[q]) : ~Blocks(svOps[q][i]))'
    <3> SUFFICES ASSUME NEW q \in SvProcs, svPc'[q] = "apply"
                 PROVE  svWait'[q] = NoWait /\ \A i \in 1..Len(svOps'[q]) : ~Blocks(svOps[q][i])'
      BY Zenon
    <3>1. q = p /\ blocked = {} /\ svWait'[q] = NoWait /\ svOps'[q] = vec
      BY <1>5, <2>1, <2>2, Zenon
    <3> QED BY <1>2, <1>7, <3>1, Zenon DEF Blocks
  <2>6. svMade' # 0 /\ svId'
    <3>1. svMade # 0
      BY <1>4, Zenon DEF SvInd, SvHolds
    <3> QED BY <1>2, <1>4, <3>1, Zenon
  <2> QED BY <2>3, <2>4, <2>5, <2>6, Zenon DEF SvHolds
<1>12. SvCounts'
  BY <1>9, Zenon DEF SvCounts
<1>13. SvAsleep'
  <2>1. \A q \in SvProcs \ {p} : SvSleeps(q)' => SvBlocked(q)'
    <3>1. \A q \in SvProcs \ {p} : svPc'[q] = svPc[q] /\ svWait'[q] = svWait[q] /\ svOps'[q] = svOps[q]
      BY <1>2, <1>3, Zenon DEF SvInd, SvTypes
    <3> QED BY <1>2, <3>1, SMTT(30) DEF SvInd, SvAsleep, SvSleeps, SvBlocked, Blocks
  <2>2. SvSleeps(p)' => SvBlocked(p)'
    <3> SUFFICES ASSUME SvSleeps(p)' PROVE SvBlocked(p)'
      BY Zenon
    <3>1. svPc'[p] = x /\ svWait'[p] = w
      BY <1>2, <1>3, Zenon DEF SvInd, SvTypes
    <3>2. blocked # {} /\ ~o.nowait /\ w = WaitFor(o) /\ svOps'[p] = vec
      BY <1>1, <1>3, <3>1 DEF SvSleeps, vec
    <3>3. PICK i \in 1..Len(vec) : o = vec[i] /\ Blocks(o)
      BY <1>6, <3>2, Zenon
    <3>4. Blocks(o)' = Blocks(o)
      BY <1>2, Zenon DEF Blocks
    <3> QED BY <1>2, <3>1, <3>2, <3>3, Zenon DEF SvBlocked, Blocks
  <2> QED BY <2>1, <2>2, Zenon DEF SvAsleep
<1> QED BY <1>10, <1>11, <1>12, <1>13, Zenon DEF SvInd

\* What the second loop leaves in n, and what every turn on n found there.
LEMMA AppliedIs ==
    ASSUME OneOpEach, NEW p \in SvProcs, NEW vec \in SvVectors[p], NEW n \in SvNums, semval[n] \in Nat,
           \A i \in 1..Len(vec) : ~Blocks(vec[i])
    PROVE  /\ ValueAfter(vec, Len(vec), n) \in Nat
           /\ \A j \in 1..Len(vec) : vec[j].num = n =>
                /\ ValueAfter(vec, Len(vec), n) = semval[n] + vec[j].op
                /\ ValueAfter(vec, j, n) = semval[n] + vec[j].op
           /\ (\A j \in 1..Len(vec) : vec[j].num # n) => ValueAfter(vec, Len(vec), n) = semval[n]
<1>1. Len(vec) \in Nat /\ \A i \in 1..Len(vec) : vec[i].op \in Int
  BY VectorIs, Zenon
<1>2. Len(vec) \in 0..Len(vec) /\ \A j \in 1..Len(vec) : j \in 0..Len(vec) /\ j \in 1..j
  BY <1>1
<1>3. /\ \A j \in 1..Len(vec) : vec[j].num = n => ValueAfter(vec, Len(vec), n) = semval[n] + vec[j].op
      /\ (\A j \in 1..Len(vec) : vec[j].num # n) => ValueAfter(vec, Len(vec), n) = semval[n]
  BY <1>2, ValueAfterIs
<1>4. ASSUME NEW j \in 1..Len(vec), vec[j].num = n PROVE ValueAfter(vec, j, n) = semval[n] + vec[j].op
  BY <1>2, <1>4, ValueAfterIs
<1>5. ASSUME NEW j \in 1..Len(vec), vec[j].num = n PROVE semval[n] + vec[j].op \in Nat
  BY <1>1, <1>5 DEF Blocks
<1>6. ValueAfter(vec, Len(vec), n) \in Nat
  <2>1. CASE \E j \in 1..Len(vec) : vec[j].num = n
    BY <1>3, <1>5, <2>1, Zenon
  <2>2. CASE \A j \in 1..Len(vec) : vec[j].num # n
    BY <1>3, <2>2, Zenon
  <2> QED BY <2>1, <2>2, Zenon
<1> QED BY <1>3, <1>4, <1>6, Zenon

\* What SEM_UNDO records is a number.
LEMMA RecordedInt ==
    ASSUME NEW p \in SvProcs, NEW vec \in SvVectors[p], NEW n \in SvNums
    PROVE  Recorded(vec, n) \in Int
<1> DEFINE S == OpsOn(vec, Len(vec), n)
           h == [j \in S |-> IF vec[j].undo THEN vec[j].op ELSE 0]
<1>1. Recorded(vec, n) = SumOf(h, S)
  BY SumFunctionIs, Zenon DEF Recorded
<1>2. Len(vec) \in Nat /\ \A i \in 1..Len(vec) : vec[i].op \in Int
  BY VectorIs, Zenon
<1>3. \A j \in S : h[j] \in Int
  BY <1>2 DEF OpsOn
<1>4. IsFiniteSet(S)
  <2>1. IsFiniteSet(1..Len(vec)) /\ S \subseteq 1..Len(vec)
    BY <1>2, FS_Interval DEF OpsOn
  <2> HIDE DEF S
  <2> QED BY <2>1, FS_Subset, Zenon
<1> HIDE DEF h, S
<1> QED BY <1>1, <1>3, <1>4, SumInt, Zenon

\* A value that did not grow, or is zero, is still too small.
LEMMA StillLess ==
    ASSUME NEW a \in Int, NEW b \in Int, NEW c \in Int, NEW v \in Int, v = a + b, a < -c, c < 0, v = 0 \/ ~(b > 0)
    PROVE  v < -c
OBVIOUS

\* A sleeper that the second loop does not wake still cannot proceed.
LEMMA StillBlocked ==
    ASSUME OneOpEach, SvInd, NEW p \in SvProcs, SemopApply(p), NEW q \in SvProcs, SvSleeps(q),
           \A i \in 1..Len(svOps[p]) : q \notin WokenBy(svOps[p], i), svOps'[q] = svOps[q],
           svOps[p] \in SvVectors[p], \A i \in 1..Len(svOps[p]) : ~Blocks(svOps[p][i])
    PROVE  SvBlocked(q)'
<1>1. PICK k \in 1..Len(svOps[q]) : WaitFor(svOps[q][k]) = svWait[q] /\ Blocks(svOps[q][k])
  BY Zenon DEF SvInd, SvAsleep, SvBlocked
<1>2. svOps[q] \in SvVectors[q]
  BY Zenon DEF SvInd, SvHolds, SvSleeps
<1>3. PICK o \in SvOp : o = svOps[q][k] /\ o.num \in SvNums /\ o.op \in Int
  BY <1>1, <1>2, VectorIs, Zenon
<1>4. PICK n \in SvNums : n = o.num
  BY <1>3, Zenon
<1>5. semval[n] \in Nat
  BY Zenon DEF SvInd, SvTypes
<1>6. PICK vec \in SvVectors[p] : vec = svOps[p]
  BY Zenon
<1>7. /\ semval'[n] = ValueAfter(vec, Len(vec), n) /\ semval'[n] \in Nat
      /\ \A j \in 1..Len(vec) : vec[j].num = n =>
           semval'[n] = semval[n] + vec[j].op /\ ValueAfter(vec, j, n) = semval[n] + vec[j].op
      /\ (\A j \in 1..Len(vec) : vec[j].num # n) => semval'[n] = semval[n]
  <2>1. semval'[n] = ValueAfter(vec, Len(vec), n)
    BY <1>6, Zenon DEF SemopApply
  <2>2. \A i \in 1..Len(vec) : ~Blocks(vec[i])
    BY <1>6, Zenon
  <2> QED BY <1>5, <2>1, <2>2, AppliedIs, Zenon
<1>8. svWait' = svWait
  BY Zenon DEF SemopApply
<1>9. Blocks(o)'
  <2>1. CASE \A j \in 1..Len(vec) : vec[j].num # n
    BY <1>1, <1>3, <1>4, <1>7, <2>1, Zenon DEF Blocks
  <2>2. ASSUME NEW j \in 1..Len(vec), vec[j].num = n PROVE Blocks(o)'
    <3>1. vec[j].op \in Int /\ semval'[n] = semval[n] + vec[j].op /\ q \notin WokenBy(vec, j)
      BY <1>6, <1>7, <2>2, VectorIs, Zenon
    <3>2. IF semval'[n] = 0 THEN q \notin Waiting("z", n)
          ELSE vec[j].op > 0 => q \notin Waiting("n", n)
      BY <1>7, <2>2, <3>1, Zenon DEF WokenBy
    <3>3. \A kind \in {"n", "z"} : q \in Waiting(kind, n) <=> svWait[q] = <<kind, n>>
      BY Zenon DEF Waiting, SvSleeps
    <3>4. CASE o.op < 0
      <4>1. svWait[q] = <<"n", n>>
        BY <1>1, <1>3, <1>4, <3>4, Zenon DEF WaitFor
      <4>2. semval[n] < -o.op
        BY <1>1, <1>3, <1>4, <3>4, SMTT(30) DEF Blocks
      <4>3. semval'[n] = 0 \/ ~(vec[j].op > 0)
        BY <3>2, <3>3, <4>1, Zenon
      <4>4. semval'[n] < -o.op
        <5>1. semval[n] \in Int /\ semval'[n] \in Int
          BY <1>5, <1>7
        <5> QED BY <1>3, <3>1, <3>4, <4>2, <4>3, <5>1, StillLess, Zenon
      <4> QED BY <1>4, <3>4, <4>4, Zenon DEF Blocks
    <3>5. CASE ~(o.op < 0)
      <4>1. svWait[q] = <<"z", n>> /\ o.op = 0
        BY <1>1, <1>3, <1>4, <3>5, Zenon DEF WaitFor, Blocks
      <4>2. semval'[n] # 0
        BY <3>2, <3>3, <4>1, Zenon
      <4>3. semval'[n] > 0
        BY <1>7, <4>2
      <4> QED BY <1>4, <4>1, <4>3, Zenon DEF Blocks
    <3> QED BY <3>4, <3>5, Zenon
  <2> QED BY <2>1, <2>2, Zenon
<1> QED BY <1>1, <1>3, <1>8, <1>9, Zenon DEF SvBlocked, WaitFor

\* The second loop of semop: who may proceed now is woken.
LEMMA SemopApplyKeeps == ASSUME OneOpEach, SvInd, NEW p \in SvProcs, SemopApply(p) PROVE SvInd'
<1>1. PICK vec, woken : vec = svOps[p] /\ woken = UNION {WokenBy(vec, i) : i \in 1..Len(vec)}
  BY Zenon
<1>2. /\ svPc[p] = "apply" /\ svLock' = "none" /\ svOps' = [svOps EXCEPT ![p] = <<>>]
      /\ semval' = [n \in SvNums |-> ValueAfter(vec, Len(vec), n)]
      /\ svAdj' = [svAdj EXCEPT ![p] = [n \in SvNums |-> @[n] - Recorded(vec, n)]]
      /\ \A q \in woken : svPc[q] = "asleep"
      /\ svPc' = [q \in SvProcs |-> IF q \in woken THEN "lookup" ELSE [svPc EXCEPT ![p] = "out"][q]]
      /\ UNCHANGED <<svMade, svId, svKey, semncnt, semzcnt, svWait>>
  BY <1>1 DEF SemopApply, WakeList
<1>3. /\ svLock = p /\ svId /\ vec \in SvVectors[p] /\ svWait[p] = NoWait
      /\ \A i \in 1..Len(vec) : ~Blocks(vec[i])
      /\ \A q \in SvProcs : svPc[q] = "apply" => q = p
  BY <1>1, <1>2, Zenon DEF SvInd, SvHolds
<1>4. /\ svPc'[p] = "out" /\ svOps'[p] = <<>>
      /\ \A q \in SvProcs \ {p} : /\ svOps'[q] = svOps[q]
                                  /\ IF q \in woken THEN svPc[q] = "asleep" /\ svPc'[q] = "lookup" ELSE svPc'[q] = svPc[q]
  BY <1>2, Zenon DEF SvInd, SvTypes
<1>5. SvTypes'
  <2>1. semval' \in [SvNums -> Nat]
    BY <1>2, <1>3, AppliedIs, Zenon DEF SvInd, SvTypes
  <2>2. svAdj' \in [SvProcs -> [SvNums -> Int]]
    <3>1. \A n \in SvNums : Recorded(vec, n) \in Int
      BY <1>3, RecordedInt, Zenon
    <3>2. [n \in SvNums |-> svAdj[p][n] - Recorded(vec, n)] \in [SvNums -> Int]
      BY <3>1 DEF SvInd, SvTypes
    <3> QED BY <1>2, <3>2, Zenon DEF SvInd, SvTypes
  <2>3. svPc' \in [SvProcs -> {"out", "lookup", "check", "apply", "suspending", "asleep"}]
    BY <1>2, Zenon DEF SvInd, SvTypes
  <2>4. svOps' \in [SvProcs -> Seq(SvOp)]
    <3>1. svOps \in [SvProcs -> Seq(SvOp)] /\ <<>> \in Seq(SvOp)
      BY DEF SvInd, SvTypes
    <3> QED BY <1>2, <3>1, Zenon
  <2> QED BY <1>2, <2>1, <2>2, <2>3, <2>4, Zenon DEF SvInd, SvTypes
<1>6. SvHolds'
  <2>1. \A q \in SvProcs : (svKey' = q <=> svPc'[q] = "check") /\ (svLock' = q <=> svPc'[q] = "apply")
    <3>1. \A q \in SvProcs : (svPc'[q] = "check" <=> svPc[q] = "check") /\ svPc'[q] # "apply"
      BY <1>2, <1>3, <1>4, Zenon
    <3> QED BY <1>2, <3>1, SvAssumption, Zenon DEF SvInd, SvHolds
  <2>2. \A q \in SvProcs : IF svPc'[q] = "out" THEN svOps'[q] = <<>> ELSE svOps'[q] \in SvVectors[q]
    BY <1>4, Zenon DEF SvInd, SvHolds
  <2>3. \A q \in SvProcs : svPc'[q] # "apply"
    BY <1>3, <1>4, Zenon
  <2>4. svMade' # 0 /\ svId'
    <3>1. svMade # 0
      BY <1>3, Zenon DEF SvInd, SvHolds
    <3> QED BY <1>2, <1>3, <3>1, Zenon
  <2> QED BY <2>1, <2>2, <2>3, <2>4, Zenon DEF SvHolds
<1>7. SvCounts'
  <2>1. \A q \in SvProcs : q = p \/ (svPc'[q] # "out" <=> svPc[q] # "out")
    BY <1>4, Zenon
  <2>2. \A kind \in {"n", "z"}, n \in SvNums : svWait[p] # <<kind, n>>
    BY <1>3, NoWaitApart
  <2> QED BY <1>2, <2>1, <2>2, CountsStay, Zenon DEF SvInd
<1>8. SvAsleep'
  <2> SUFFICES ASSUME NEW q \in SvProcs, SvSleeps(q)' PROVE SvBlocked(q)'
    BY Zenon DEF SvAsleep
  <2>1. q # p /\ q \notin woken /\ SvSleeps(q) /\ svOps'[q] = svOps[q]
    BY <1>4, Zenon DEF SvSleeps
  <2>2. \A i \in 1..Len(vec) : q \notin WokenBy(vec, i)
    BY <1>1, <2>1, Zenon
  <2> QED BY <1>1, <1>3, <2>1, <2>2, StillBlocked, Zenon
<1> QED BY <1>5, <1>6, <1>7, <1>8, Zenon DEF SvInd

\* The process suspends itself.
LEMMA SemopSuspendKeeps == ASSUME SvInd, NEW p \in SvProcs, SemopSuspend(p) PROVE SvInd'
<1>1. /\ svPc[p] = "suspending" /\ svPc' = [svPc EXCEPT ![p] = "asleep"]
      /\ UNCHANGED <<svMade, svId, semval, semncnt, semzcnt, svAdj, svKey, svLock, svOps, svWait>>
  BY Zenon DEF SemopSuspend, svSet
<1>2. svPc'[p] = "asleep" /\ \A q \in SvProcs \ {p} : svPc'[q] = svPc[q]
  BY <1>1, Zenon DEF SvInd, SvTypes
<1>3. SvTypes'
  BY <1>1, Zenon DEF SvInd, SvTypes
<1>4. SvHolds'
  BY <1>1, <1>2, Zenon DEF SvInd, SvHolds, Blocks
<1>5. SvCounts'
  BY <1>1, <1>2, CountsStay, Zenon DEF SvInd
<1>6. SvAsleep'
  <2>1. \A q \in SvProcs : SvSleeps(q)' => SvSleeps(q)
    BY <1>1, <1>2, Zenon DEF SvSleeps
  <2> QED BY <1>1, <2>1, Zenon DEF SvInd, SvAsleep, SvBlocked, Blocks
<1> QED BY <1>3, <1>4, <1>5, <1>6, Zenon DEF SvInd

\* semctl sets values only while nobody is in semop.
LEMMA SetValuesKeeps ==
    ASSUME SvInd, SvQuiet, semval' \in [SvNums -> Nat], svAdj' \in [SvProcs -> [SvNums -> Int]],
           UNCHANGED <<svMade, svId, svKey, svLock, semncnt, semzcnt, svPc, svOps, svWait>>
    PROVE  SvInd'
<1>1. \A q \in SvProcs : svPc[q] = "out" /\ svPc'[q] = "out"
  BY Zenon DEF SvQuiet
<1>2. SvTypes'
  BY Zenon DEF SvInd, SvTypes
<1>3. SvHolds'
  BY <1>1, Zenon DEF SvInd, SvHolds
<1>4. SvCounts'
  BY CountsStay, Zenon DEF SvInd
<1>5. SvAsleep'
  BY <1>1, Zenon DEF SvAsleep, SvSleeps
<1> QED BY <1>2, <1>3, <1>4, <1>5, Zenon DEF SvInd

\* SETVAL and SETALL of a set at rest.
LEMMA SemctlKeeps ==
    ASSUME SvInd, ~SvBusyCtl, NEW p \in SvProcs, NEW n \in SvNums, SemSetVal(p, n, 0) \/ SemSetAll(p, n, 0)
    PROVE  SvInd'
<1>1. /\ SvQuiet /\ svAdj' = [svAdj EXCEPT ![p][n] = 0]
      /\ UNCHANGED <<svMade, svId, svKey, svLock, semncnt, semzcnt, svPc, svOps, svWait>>
  BY Zenon DEF SemSetVal, SemSetAll
<1>2. semval' \in [SvNums -> Nat]
  <2>1. semval \in [SvNums -> Nat]
    BY Zenon DEF SvInd, SvTypes
  <2>2. semval' = [semval EXCEPT ![n] = 0] \/ semval' = [m \in SvNums |-> 0]
    BY Zenon DEF SemSetVal, SemSetAll
  <2> QED BY <2>1, <2>2
<1>3. svAdj' \in [SvProcs -> [SvNums -> Int]]
  BY <1>1 DEF SvInd, SvTypes
<1> QED BY <1>1, <1>2, <1>3, SetValuesKeeps, Zenon

\* IPC_RMID wakes all who sleep.
LEMMA SemRemoveKeeps == ASSUME SvInd, ~SvBusyCtl, NEW p \in SvProcs, SemRemove(p) PROVE SvInd'
<1>1. /\ svKey = "none" /\ svLock = "none" /\ svId' = FALSE
      /\ \A q \in DestroyWakes : svPc[q] = "asleep"
      /\ svPc' = [q \in SvProcs |-> IF q \in DestroyWakes THEN "lookup" ELSE svPc[q]]
      /\ UNCHANGED <<svMade, svKey, svLock, semval, semncnt, semzcnt, svAdj, svOps, svWait>>
  BY Zenon DEF SemRemove, WakeList
<1>2. svId
  BY Zenon DEF SemRemove
<1>3. \A q \in SvProcs : svPc[q] # "check" /\ svPc[q] # "apply"
  BY <1>1, SvAssumption, Zenon DEF SvInd, SvHolds
<1>4. \A q \in SvProcs : SvSleeps(q) => q \in DestroyWakes
  <2> SUFFICES ASSUME NEW q \in SvProcs, SvSleeps(q) PROVE svWait[q] # NoWait
    BY Zenon DEF DestroyWakes, SvSleeps
  <2>1. PICK i \in 1..Len(svOps[q]) : WaitFor(svOps[q][i]) = svWait[q]
    BY Zenon DEF SvInd, SvAsleep, SvBlocked
  <2>2. svOps[q][i].num \in SvNums
    <3>1. svOps[q] \in SvVectors[q]
      BY Zenon DEF SvInd, SvHolds, SvSleeps
    <3> QED BY <2>1, <3>1, VectorIs, Zenon
  <2> QED BY <2>1, <2>2, NoWaitApart DEF WaitFor
<1>5. \A q \in SvProcs : svPc'[q] \in {"out", "lookup"} /\ (svPc'[q] = "out" <=> svPc[q] = "out")
  BY <1>1, <1>3, <1>4, Zenon DEF SvInd, SvTypes, SvSleeps
<1>6. SvTypes'
  BY <1>1, <1>5, Zenon DEF SvInd, SvTypes
<1>7. SvHolds'
  <2>1. svMade' # 0
    BY <1>1, <1>2, Zenon DEF SvInd, SvHolds
  <2>2. \A q \in SvProcs : svKey' # q /\ svLock' # q
    BY <1>1, SvAssumption, Zenon
  <2> QED BY <1>1, <1>5, <2>1, <2>2, Zenon DEF SvInd, SvHolds
<1>8. SvCounts'
  BY <1>1, Zenon DEF SvCounts
<1>9. SvAsleep'
  BY <1>5, Zenon DEF SvAsleep, SvSleeps
<1> QED BY <1>6, <1>7, <1>8, <1>9, Zenon DEF SvInd

\* A process ends.
LEMMA ProcessExitKeeps == ASSUME SvInd, NEW p \in SvProcs, ProcessExit(p) PROVE SvInd'
<1>1. /\ svAdj' = [svAdj EXCEPT ![p] = [n \in SvNums |-> 0]]
      /\ UNCHANGED <<svMade, svId, svKey, svLock, semval, semncnt, semzcnt, svPc, svOps, svWait>>
  BY Zenon DEF ProcessExit
<1>2. SvTypes'
  BY <1>1 DEF SvInd, SvTypes
<1>3. SvHolds' /\ SvAsleep'
  BY <1>1, Zenon DEF SvInd, SvHolds, SvAsleep, SvSleeps, SvBlocked, Blocks
<1>4. SvCounts'
  BY <1>1, Zenon DEF SvInd, SvCounts, CountedFor
<1> QED BY <1>2, <1>3, <1>4, Zenon DEF SvInd

\* No set yet.
LEMMA SvInitInd == SvInit => SvInd
<1> SUFFICES ASSUME SvInit PROVE SvInd
  BY Zenon
<1>1. \A p \in SvProcs : svPc[p] = "out" /\ svOps[p] = <<>>
  BY Zenon DEF SvInit
<1>2. SvTypes
  <2>1. <<>> \in Seq(SvOp)
    OBVIOUS
  <2>2. svOps \in [SvProcs -> Seq(SvOp)]
    BY <2>1, Zenon DEF SvInit
  <2>3. /\ svMade \in 0..SvMaxSets /\ svId \in BOOLEAN
        /\ svKey \in SvProcs \cup {"none"} /\ svLock \in SvProcs \cup {"none"}
    <3>1. svMade = 0 /\ svId = FALSE /\ svKey = "none" /\ svLock = "none"
      BY Zenon DEF SvInit
    <3>2. svMade \in 0..SvMaxSets
      BY <3>1, SvAssumption
    <3> QED BY <3>1, <3>2, Zenon
  <2>4. semval \in [SvNums -> Nat] /\ semncnt \in [SvNums -> Nat] /\ semzcnt \in [SvNums -> Nat]
    BY Zenon DEF SvInit
  <2>5. svAdj \in [SvProcs -> [SvNums -> Int]]
    <3>1. [n \in SvNums |-> 0] \in [SvNums -> Int]
      OBVIOUS
    <3> QED BY <3>1, Zenon DEF SvInit
  <2>6. svPc \in [SvProcs -> {"out", "lookup", "check", "apply", "suspending", "asleep"}]
    BY Zenon DEF SvInit
  <2>7. svWait \in [SvProcs -> SvWaits]
    BY Zenon DEF SvInit, SvWaits
  <2> QED BY <2>2, <2>3, <2>4, <2>5, <2>6, <2>7, Zenon DEF SvTypes
<1>3. SvHolds
  BY <1>1, SvAssumption, Zenon DEF SvInit, SvHolds
<1>4. SvCounts /\ SvAsleep
  BY <1>1, Zenon DEF SvInit, SvCounts, SvAsleep, SvSleeps
<1> QED BY <1>2, <1>3, <1>4, Zenon DEF SvInd

\* Every step of a set.
LEMMA SvNextInd ==
    ASSUME ~SvBusyCtl, OneOpEach, OneSet
    PROVE  SvInd /\ [SvNext]_svVars => SvInd'
<1> SUFFICES ASSUME SvInd, [SvNext]_svVars PROVE SvInd'
  BY Zenon
<1>1. ASSUME NEW p \in SvProcs, SemGet(p) \/ SemRemove(p) \/ ProcessExit(p) PROVE SvInd'
  BY <1>1, SemGetKeeps, SemRemoveKeeps, ProcessExitKeeps, Zenon
<1>2. ASSUME NEW p \in SvProcs, SemopStep(p) PROVE SvInd'
  BY <1>2, SemopLookupKeeps, SemopCheckKeeps, SemopApplyKeeps, SemopSuspendKeeps, Zenon DEF SemopStep
<1>3. ASSUME NEW p \in SvProcs, NEW vec \in SvVectors[p], SemopCall(p, vec) PROVE SvInd'
  BY <1>3, SemopCallKeeps, Zenon
<1>4. ASSUME NEW p \in SvProcs, NEW n \in SvNums, SemSetVal(p, n, 0) \/ SemSetAll(p, n, 0) PROVE SvInd'
  BY <1>4, SemctlKeeps, Zenon
<1>5. CASE UNCHANGED svVars
  <2>1. SvTypes'
    BY <1>5, Zenon DEF svVars, SvInd, SvTypes
  <2>2. SvHolds'
    BY <1>5, Zenon DEF svVars, SvInd, SvHolds, Blocks
  <2>3. SvCounts'
    BY <1>5, Zenon DEF svVars, SvInd, SvCounts, CountedFor
  <2>4. SvAsleep'
    BY <1>5, Zenon DEF svVars, SvInd, SvAsleep, SvSleeps, SvBlocked, Blocks
  <2> QED BY <2>1, <2>2, <2>3, <2>4, Zenon DEF SvInd
<1> QED BY <1>1, <1>2, <1>3, <1>4, <1>5, Zenon DEF SvNext

\* The invariant has all of SvSound.
LEMMA SvIndSound == SvInd => SvSound
<1> SUFFICES ASSUME SvInd PROVE SvSound
  BY Zenon
<1>1. SvTypeOK
  <2>1. \A p \in SvProcs : svOps[p] \in SvVectors[p] \cup {<<>>}
    BY Zenon DEF SvInd, SvHolds
  <2> QED BY <2>1 DEF SvInd, SvTypes, SvTypeOK, SvWaits
<1>2. SvNonNegative
  BY DEF SvInd, SvTypes, SvNonNegative
<1>3. SvCountsExact
  BY Zenon DEF SvInd, SvCounts, SvCountsExact, CountedFor
<1>4. SvSleepersBlocked
  <2> SUFFICES ASSUME NEW p \in SvProcs, SvSleeps(p)
               PROVE  \E o \in Range(svOps[p]) : WaitFor(o) = svWait[p] /\ Blocks(o)
    BY Zenon DEF SvSleepersBlocked, SvSleeps
  <2>1. PICK i \in 1..Len(svOps[p]) : WaitFor(svOps[p][i]) = svWait[p] /\ Blocks(svOps[p][i])
    BY Zenon DEF SvInd, SvAsleep, SvBlocked
  <2>2. svOps[p][i] \in Range(svOps[p])
    <3>1. svOps[p] \in Seq(SvOp)
      BY Zenon DEF SvInd, SvTypes
    <3> QED BY <2>1, <3>1 DEF Range
  <2> QED BY <2>1, <2>2, Zenon
<1> QED BY <1>1, <1>2, <1>3, <1>4, Zenon DEF SvSound

\* semop: values never fall below zero, GETNCNT and GETZCNT count exactly those
\* who wait, and whoever sleeps has an operation that cannot proceed: no wake-up
\* is lost between RequestWakeup, which is under si->Lock, and WaitList, which
\* is not.
THEOREM SemaphoreSetsAreSound ==
    ASSUME ~SvBusyCtl, OneOpEach, OneSet
    PROVE  SvSpec => []SvSound
BY SvInitInd, SvNextInd, SvIndSound, PTL DEF SvSpec

-----------------------------------------------------------------------------
\* What semop takes with SEM_UNDO, it owes.

\* The processes and the values have the types that the sums need.
SvBasic ==
  /\ semval \in [SvNums -> Int]
  /\ svAdj \in [SvProcs -> [SvNums -> Int]]
  /\ svPc \in [SvProcs -> {"out", "lookup", "check", "apply", "suspending", "asleep"}]
  /\ svOps \in [SvProcs -> Seq(SvOp)]
  /\ \A p \in SvProcs : svPc[p] # "out" => svOps[p] \in SvVectors[p]

\* The operations on one semaphore.
LEMMA OpsOnFinite ==
    ASSUME NEW p \in SvProcs, NEW vec \in SvVectors[p], NEW i \in 0..Len(vec), NEW n
    PROVE  IsFiniteSet(OpsOn(vec, i, n)) /\ \A j \in OpsOn(vec, i, n) : j \in 1..Len(vec) /\ vec[j].op \in Int
<1>1. Len(vec) \in Nat /\ \A j \in 1..Len(vec) : vec[j].op \in Int
  BY VectorIs, Zenon
<1>2. 1..i \subseteq 1..Len(vec) /\ OpsOn(vec, i, n) \subseteq 1..i /\ IsFiniteSet(1..i)
  <2>1. 1..i \subseteq 1..Len(vec) /\ 1 \in Int /\ i \in Int
    BY <1>1
  <2>2. IsFiniteSet(1..i)
    BY <2>1, FS_Interval, Zenon
  <2> QED BY <2>1, <2>2, Zenon DEF OpsOn
<1> QED BY <1>1, <1>2, FS_Subset, Zenon

\* The values on the way through the second loop.
LEMMA ValueAfterInt ==
    ASSUME NEW p \in SvProcs, NEW vec \in SvVectors[p], NEW i \in 0..Len(vec), NEW n, semval[n] \in Int
    PROVE  ValueAfter(vec, i, n) \in Int
<1> DEFINE S == OpsOn(vec, i, n)
           h == [j \in S |-> vec[j].op]
<1>1. ValueAfter(vec, i, n) = semval[n] + SumOf(h, S)
  BY SumFunctionIs, Zenon DEF ValueAfter
<1>2. IsFiniteSet(S) /\ \A j \in S : h[j] \in Int
  BY OpsOnFinite, Zenon
<1> HIDE DEF h, S
<1>3. SumOf(h, S) \in Int
  BY <1>2, SumInt, Zenon
<1> QED BY <1>1, <1>3

\* The second loop records what it takes from a semaphore only changed with
\* SEM_UNDO.
LEMMA RecordedIs ==
    ASSUME NEW p \in SvProcs, NEW vec \in SvVectors[p], NEW n \in SvUndoNums, semval[n] \in Int
    PROVE  ValueAfter(vec, Len(vec), n) = semval[n] + Recorded(vec, n)
<1> DEFINE S == OpsOn(vec, Len(vec), n)
           h == [j \in S |-> vec[j].op]
           k == [j \in S |-> IF vec[j].undo THEN vec[j].op ELSE 0]
<1>0. Len(vec) \in 0..Len(vec)
  BY VectorIs
<1>1. ValueAfter(vec, Len(vec), n) = semval[n] + SumOf(h, S) /\ Recorded(vec, n) = SumOf(k, S)
  BY SumFunctionIs, Zenon DEF ValueAfter, Recorded
<1>2. IsFiniteSet(S) /\ \A j \in S : j \in 1..Len(vec)
  BY <1>0, OpsOnFinite, Zenon
<1>3. vec \in UNION Range(SvVectors)
  BY SvAssumption, Zenon DEF Range
<1>4. \A j \in 1..Len(vec) : vec[j] \in Range(vec)
  BY VectorIs, SMTT(30) DEF Range
<1>5. \A j \in S : vec[j].undo \/ vec[j].op = 0
  BY <1>2, <1>3, <1>4, Zenon DEF SvUndoNums, OpsOn
<1>6. \A j \in S : h[j] = k[j]
  BY <1>5, Zenon
<1> HIDE DEF h, k, S
<1> QED BY <1>1, <1>2, <1>6, SumSame, Zenon

\* What is added to a value with SEM_UNDO is taken from the adjustment.
LEMMA SettledKept ==
    ASSUME SvBasic, NEW p \in SvProcs, NEW vec \in SvVectors[p], NEW n \in SvUndoNums,
           semval'[n] = ValueAfter(vec, Len(vec), n),
           svAdj' = [svAdj EXCEPT ![p] = [m \in SvNums |-> @[m] - Recorded(vec, m)]]
    PROVE  SvSettled(n)' = SvSettled(n)
<1> DEFINE h == [q \in SvProcs |-> svAdj[q][n]]
           k == [q \in SvProcs |-> svAdj'[q][n]]
<1>0. n \in SvNums
  BY Zenon DEF SvUndoNums
<1>1. SvSettled(n) = semval[n] + SumOf(h, SvProcs) /\ SvSettled(n)' = semval'[n] + SumOf(k, SvProcs)
  <2>1. SumFunction(h) = SumOf(h, SvProcs) /\ SumFunction(k) = SumOf(k, SvProcs)
    BY SumFunctionIs, Zenon
  <2> QED BY <2>1, Zenon DEF SvSettled
<1>2. Recorded(vec, n) \in Int /\ semval[n] \in Int /\ IsFiniteSet(SvProcs)
  BY <1>0, RecordedInt, SvAssumption, Zenon DEF SvBasic
<1>3. \A q \in SvProcs : h[q] \in Int
  BY <1>0, Zenon DEF SvBasic
<1>4. k[p] = h[p] - Recorded(vec, n) /\ \A q \in SvProcs \ {p} : h[q] = k[q]
  BY <1>0, Zenon DEF SvBasic
<1>5. semval'[n] = semval[n] + Recorded(vec, n)
  BY <1>2, RecordedIs, Zenon
<1> HIDE DEF h, k
<1>6. \A q \in SvProcs : h[q] \in Int /\ k[q] \in Int
  BY <1>2, <1>3, <1>4, SMTT(30)
<1>7. SumOf(k, SvProcs) = SumOf(h, SvProcs) + k[p] - h[p]
  BY <1>2, <1>4, <1>6, SumChange, SMTT(30)
<1>8. SumOf(h, SvProcs) \in Int
  BY <1>2, <1>3, SumInt, Zenon
<1>9. PICK v \in Int, a \in Int, b \in Int, c \in Int :
        v = semval[n] /\ a = SumOf(h, SvProcs) /\ b = h[p] /\ c = Recorded(vec, n)
  BY <1>2, <1>3, <1>8, Zenon
<1>10. SumOf(k, SvProcs) = a - c
  BY <1>4, <1>7, <1>9, SMTT(30)
<1> QED BY <1>1, <1>5, <1>9, <1>10, SMTT(30)

\* No set yet, and nothing recorded.
LEMMA SvBasicInit == SvInit => SvBasic
<1> SUFFICES ASSUME SvInit PROVE SvBasic
  BY Zenon
<1>1. semval \in [SvNums -> Int]
  BY DEF SvInit
<1>2. svAdj \in [SvProcs -> [SvNums -> Int]]
  <2>1. [n \in SvNums |-> 0] \in [SvNums -> Int]
    OBVIOUS
  <2> QED BY <2>1, Zenon DEF SvInit
<1>3. svPc \in [SvProcs -> {"out", "lookup", "check", "apply", "suspending", "asleep"}]
  BY Zenon DEF SvInit
<1>4. svOps \in [SvProcs -> Seq(SvOp)]
  <2>1. <<>> \in Seq(SvOp)
    OBVIOUS
  <2> QED BY <2>1, Zenon DEF SvInit
<1>5. \A p \in SvProcs : svPc[p] = "out"
  BY Zenon DEF SvInit
<1> QED BY <1>1, <1>2, <1>3, <1>4, <1>5, Zenon DEF SvBasic

\* Only the end of the first loop and of the second are returns.
LEMMA PcBasic ==
    ASSUME SvBasic, NEW p \in SvProcs, NEW x \in {"out", "lookup", "check", "apply", "suspending", "asleep"},
           svPc' = [svPc EXCEPT ![p] = x],
           IF x = "out" THEN svOps' = [svOps EXCEPT ![p] = <<>>] ELSE svPc[p] # "out" /\ svOps' = svOps,
           semval' = semval, svAdj' = svAdj
    PROVE  SvBasic'
<1>1. svOps' \in [SvProcs -> Seq(SvOp)]
  <2>1. svOps \in [SvProcs -> Seq(SvOp)] /\ <<>> \in Seq(SvOp)
    BY DEF SvBasic
  <2> QED BY <2>1, Zenon
<1>2. svPc' \in [SvProcs -> {"out", "lookup", "check", "apply", "suspending", "asleep"}]
  BY Zenon DEF SvBasic
<1>3. \A q \in SvProcs : svPc'[q] # "out" => svPc[q] # "out" /\ svOps'[q] = svOps[q]
  BY Zenon DEF SvBasic
<1> QED BY <1>1, <1>2, <1>3, Zenon DEF SvBasic

\* Every step keeps the types, without conditions on clients.
LEMMA SvBasicNext == SvBasic /\ [SvNext]_svVars => SvBasic'
<1> SUFFICES ASSUME SvBasic, [SvNext]_svVars PROVE SvBasic'
  BY Zenon
<1>1. ASSUME NEW p \in SvProcs, SemGet(p) PROVE SvBasic'
  BY <1>1, SMTT(30) DEF SvBasic, SemGet
<1>2. ASSUME NEW p \in SvProcs, NEW vec \in SvVectors[p], SemopCall(p, vec) PROVE SvBasic'
  <2>1. vec \in Seq(SvOp)
    BY VectorIs, Zenon
  <2>2. /\ UNCHANGED <<semval, svAdj>>
        /\ svPc' = [svPc EXCEPT ![p] = "lookup"] /\ svOps' = [svOps EXCEPT ![p] = vec]
    BY <1>2, Zenon DEF SemopCall, svSet
  <2> QED BY <2>1, <2>2, Zenon DEF SvBasic
<1>3. ASSUME NEW p \in SvProcs, SemopLookup(p) PROVE SvBasic'
  <2>1. UNCHANGED <<semval, svAdj>> /\ svPc[p] = "lookup"
    BY <1>3, Zenon DEF SemopLookup, svSet
  <2>2. \/ svPc' = [svPc EXCEPT ![p] = "check"] /\ svOps' = svOps
        \/ svPc' = [svPc EXCEPT ![p] = "out"] /\ svOps' = [svOps EXCEPT ![p] = <<>>]
    BY <1>3, Zenon DEF SemopLookup, SemopReturn
  <2> QED BY <2>1, <2>2, PcBasic, Zenon
<1>4. ASSUME NEW p \in SvProcs, SemopCheck(p) PROVE SvBasic'
  <2>1. UNCHANGED <<semval, svAdj>> /\ svPc[p] = "check"
    BY <1>4, Zenon DEF SemopCheck
  <2>2. \/ \E x \in {"apply", "suspending"} : svPc' = [svPc EXCEPT ![p] = x] /\ svOps' = svOps
        \/ svPc' = [svPc EXCEPT ![p] = "out"] /\ svOps' = [svOps EXCEPT ![p] = <<>>]
    BY <1>4, Zenon DEF SemopCheck, SemopReturn
  <2> QED BY <2>1, <2>2, PcBasic, Zenon
<1>5. ASSUME NEW p \in SvProcs, SemopApply(p) PROVE SvBasic'
  <2>1. PICK vec \in SvVectors[p] : vec = svOps[p]
    BY <1>5, Zenon DEF SvBasic, SemopApply
  <2>2. /\ semval' = [n \in SvNums |-> ValueAfter(vec, Len(vec), n)]
        /\ svAdj' = [svAdj EXCEPT ![p] = [n \in SvNums |-> @[n] - Recorded(vec, n)]]
        /\ svOps' = [svOps EXCEPT ![p] = <<>>]
    BY <1>5, <2>1, Zenon DEF SemopApply
  <2>3. /\ svPc' \in [SvProcs -> {"out", "lookup", "check", "apply", "suspending", "asleep"}]
        /\ \A q \in SvProcs : svPc'[q] # "out" => q # p /\ svPc[q] # "out"
    <3>1. PICK woken : /\ \A q \in woken : svPc[q] = "asleep"
                       /\ svPc' = [q \in SvProcs |-> IF q \in woken THEN "lookup" ELSE [svPc EXCEPT ![p] = "out"][q]]
      BY <1>5, Zenon DEF SemopApply, WakeList
    <3>2. p \notin woken
      BY <1>5, <3>1, Zenon DEF SemopApply
    <3> QED BY <3>1, <3>2, Zenon DEF SvBasic
  <2>4. semval' \in [SvNums -> Int]
    <3>1. Len(vec) \in 0..Len(vec)
      BY VectorIs, SMTT(30)
    <3>2. \A n \in SvNums : semval[n] \in Int
      BY Zenon DEF SvBasic
    <3> QED BY <2>2, <3>1, <3>2, ValueAfterInt, Zenon
  <2>5. svAdj' \in [SvProcs -> [SvNums -> Int]]
    <3>1. [n \in SvNums |-> svAdj[p][n] - Recorded(vec, n)] \in [SvNums -> Int]
      BY RecordedInt DEF SvBasic
    <3> QED BY <2>2, <3>1, Zenon DEF SvBasic
  <2>6. svOps' \in [SvProcs -> Seq(SvOp)]
    <3>1. svOps \in [SvProcs -> Seq(SvOp)] /\ <<>> \in Seq(SvOp)
      BY DEF SvBasic
    <3> QED BY <2>2, <3>1, Zenon
  <2>7. \A q \in SvProcs : svPc'[q] # "out" => svOps'[q] \in SvVectors[q]
    BY <2>2, <2>3, Zenon DEF SvBasic
  <2> QED BY <2>3, <2>4, <2>5, <2>6, <2>7, Zenon DEF SvBasic
<1>6. ASSUME NEW p \in SvProcs, SemopSuspend(p) PROVE SvBasic'
  BY <1>6, PcBasic, Zenon DEF SemopSuspend, svSet
<1>7. ASSUME NEW p \in SvProcs, NEW n \in SvNums, SemSetVal(p, n, 0) \/ SemSetAll(p, n, 0) PROVE SvBasic'
  <2>1. semval' = [semval EXCEPT ![n] = 0] \/ semval' = [m \in SvNums |-> 0]
    BY <1>7, Zenon DEF SemSetVal, SemSetAll
  <2>2. svAdj' = [svAdj EXCEPT ![p][n] = 0] /\ UNCHANGED <<svPc, svOps>>
    BY <1>7, Zenon DEF SemSetVal, SemSetAll
  <2>3. semval' \in [SvNums -> Int]
    BY <2>1 DEF SvBasic
  <2> QED BY <2>2, <2>3, SMTT(30) DEF SvBasic
<1>8. ASSUME NEW p \in SvProcs, SemRemove(p) PROVE SvBasic'
  <2>1. /\ \A q \in DestroyWakes : svPc[q] = "asleep"
        /\ svPc' = [q \in SvProcs |-> IF q \in DestroyWakes THEN "lookup" ELSE svPc[q]]
        /\ UNCHANGED <<semval, svAdj, svOps>>
    BY <1>8, Zenon DEF SemRemove, WakeList
  <2> QED BY <2>1, Zenon DEF SvBasic
<1>9. ASSUME NEW p \in SvProcs, ProcessExit(p) PROVE SvBasic'
  BY <1>9, SMTT(30) DEF SvBasic, ProcessExit
<1>10. CASE UNCHANGED svVars
  BY <1>10, Zenon DEF svVars, SvBasic
<1> QED BY <1>1, <1>2, <1>3, <1>4, <1>5, <1>6, <1>7, <1>8, <1>9, <1>10, Zenon DEF SvNext, SemopStep

\* semop, and the end of a process that has nothing to undo, leave what the value
\* of a semaphore and all the recorded adjustments add up to, if all who change
\* it do so with SEM_UNDO.
THEOREM UndoIsBalanced == ASSUME ~SvDirtyExit PROVE SvSpec => SvUndoBalanced
<1>1. ASSUME SvBasic, NEW p \in SvProcs, SemopStep(p) \/ ProcessExit(p), NEW n \in SvUndoNums
      PROVE  SvSettled(n)' = SvSettled(n)
  <2>1. CASE SemopApply(p)
    <3>1. PICK vec \in SvVectors[p] : vec = svOps[p]
      BY <1>1, <2>1, Zenon DEF SvBasic, SemopApply
    <3>2. n \in SvNums
      BY Zenon DEF SvUndoNums
    <3>3. /\ semval'[n] = ValueAfter(vec, Len(vec), n)
          /\ svAdj' = [svAdj EXCEPT ![p] = [m \in SvNums |-> @[m] - Recorded(vec, m)]]
      BY <2>1, <3>1, <3>2, Zenon DEF SemopApply
    <3> QED BY <1>1, <3>3, SettledKept, Zenon
  <2>2. CASE UNCHANGED <<semval, svAdj>>
    BY <2>2, Zenon DEF SvSettled
  <2>3. ProcessExit(p) => UNCHANGED <<semval, svAdj>>
    <3> SUFFICES ASSUME ProcessExit(p) PROVE UNCHANGED <<semval, svAdj>>
      BY Zenon
    <3>1. svAdj[p] = [m \in SvNums |-> 0]
      BY <1>1, Zenon DEF ProcessExit, SvBasic
    <3> QED BY <1>1, <3>1, Zenon DEF ProcessExit, SvBasic
  <2> QED BY <1>1, <2>1, <2>2, <2>3, Zenon DEF SemopStep, SemopLookup, SemopCheck, SemopSuspend, svSet
<1>2. SvBasic /\ [SvNext]_svVars =>
        [(\E p \in SvProcs : SemopStep(p) \/ ProcessExit(p)) =>
           \A n \in SvUndoNums : SvSettled(n)' = SvSettled(n)]_svVars
  BY <1>1, Zenon
<1> QED BY <1>2, SvBasicInit, SvBasicNext, PTL DEF SvSpec, SvUndoBalanced

-----------------------------------------------------------------------------
\* semop is atomic.

\* One turn of the second loop.
LEMMA ValueAfterStep ==
    ASSUME NEW p \in SvProcs, NEW vec \in SvVectors[p], NEW i \in 1..Len(vec), NEW n, semval[n] \in Int
    PROVE  ValueAfter(vec, i, n) = ValueAfter(vec, i - 1, n) + (IF vec[i].num = n THEN vec[i].op ELSE 0)
<1> DEFINE S == OpsOn(vec, i, n)
           R == OpsOn(vec, i - 1, n)
           h == [j \in S |-> vec[j].op]
           k == [j \in R |-> vec[j].op]
<1>0. Len(vec) \in Nat /\ i \in 0..Len(vec) /\ (i - 1) \in 0..Len(vec) /\ vec[i].op \in Int
  BY VectorIs
<1>1. ValueAfter(vec, i, n) = semval[n] + SumOf(h, S) /\ ValueAfter(vec, i - 1, n) = semval[n] + SumOf(k, R)
  BY SumFunctionIs, Zenon DEF ValueAfter
<1>2. IsFiniteSet(S) /\ IsFiniteSet(R) /\ \A j \in S : vec[j].op \in Int
  BY <1>0, OpsOnFinite, Zenon
<1>3. R = S \ {i} /\ (i \in S <=> vec[i].num = n)
  BY <1>0 DEF OpsOn
<1>4. /\ \A j \in S : h[j] \in Int
      /\ \A j \in R : h[j] = k[j]
      /\ i \in S => h[i] = vec[i].op
  BY <1>2, <1>3, Zenon
<1> HIDE DEF h, k, S, R
<1>5. SumOf(h, R) = SumOf(k, R)
  BY <1>2, <1>4, SumSame, Zenon
<1>6. SumOf(h, R) \in Int
  BY <1>2, <1>3, <1>4, SumInt, Zenon
<1>7. CASE i \in S
  <2>1. SumOf(h, S) = h[i] + SumOf(h, R)
    <3>1. SumOf(h, S) = h[i] + SumOf(h, S \ {i})
      BY <1>2, <1>4, <1>7, SumWithout, SMTT(30)
    <3> QED BY <1>3, <3>1, Zenon
  <2> QED BY <1>0, <1>1, <1>3, <1>4, <1>5, <1>6, <1>7, <2>1, SMTT(30)
<1>8. CASE i \notin S
  <2>1. S = R
    BY <1>3, <1>8, Zenon
  <2>2. ValueAfter(vec, i, n) = ValueAfter(vec, i - 1, n) /\ ValueAfter(vec, i - 1, n) \in Int
    BY <1>1, <1>5, <1>6, <2>1, SMTT(30)
  <2>3. vec[i].num # n
    BY <1>3, <1>8, Zenon
  <2> QED BY <2>2, <2>3
<1> QED BY <1>7, <1>8, Zenon

\* The recursive definition of the abstract set is the closed form.
LEMMA AbsAfterIs ==
    ASSUME NEW p \in SvProcs, NEW vec \in SvVectors[p], NEW i \in 0..Len(vec), semval \in [SvNums -> Int]
    PROVE  SvAbstract!AbsAfter(vec, i) = [n \in SvNums |-> ValueAfter(vec, i, n)]
<1> DEFINE Turn(f, k) == IF k = 0 THEN semval ELSE [f[k - 1] EXCEPT ![vec[k].num] = @ + vec[k].op]
           g == [k \in 0..i |-> [n \in SvNums |-> ValueAfter(vec, k, n)]]
           after == CHOOSE f : f = [k \in 0..i |-> Turn(f, k)]
<1>0. /\ Len(vec) \in Nat /\ i \in Nat
      /\ \A k \in 1..i : k \in 1..Len(vec) /\ k - 1 \in 0..i /\ vec[k].num \in SvNums /\ vec[k].op \in Int
  BY VectorIs
<1>1. SvAbstract!AbsAfter(vec, i) = after[i]
  BY Zenon DEF SvAbstract!AbsAfter
<1>2. g = [k \in 0..i |-> Turn(g, k)]
  <2> SUFFICES ASSUME NEW k \in 0..i PROVE g[k] = Turn(g, k)
    BY Zenon
  <2>1. CASE k = 0
    <3>1. \A n \in SvNums : ValueAfter(vec, 0, n) = semval[n]
      <4> SUFFICES ASSUME NEW n \in SvNums PROVE ValueAfter(vec, 0, n) = semval[n]
        BY Zenon
      <4>1. OpsOn(vec, 0, n) = {}
        BY SMTT(30) DEF OpsOn
      <4>2. ValueAfter(vec, 0, n) = semval[n] + SumOf([j \in OpsOn(vec, 0, n) |-> vec[j].op], {})
        BY <4>1, SumFunctionIs, Zenon DEF ValueAfter
      <4>3. SumOf([j \in OpsOn(vec, 0, n) |-> vec[j].op], {}) = 0
        BY FS_EmptySet, SumFirst, Zenon
      <4> QED BY <4>2, <4>3, SMTT(30)
    <3> QED BY <2>1, <3>1, Zenon
  <2>2. CASE k # 0
    <3>1. k \in 1..i /\ k \in 1..Len(vec) /\ k - 1 \in 0..i /\ vec[k].num \in SvNums
      BY <1>0, <2>2
    <3>2. \A n \in SvNums : ValueAfter(vec, k, n) = ValueAfter(vec, k - 1, n) + (IF vec[k].num = n THEN vec[k].op ELSE 0)
      BY <3>1, ValueAfterStep, Zenon
    <3>3. \A n \in SvNums : ValueAfter(vec, k - 1, n) \in Int
      <4>1. k - 1 \in 0..Len(vec)
        BY <1>0, <3>1
      <4> QED BY <4>1, ValueAfterInt, Zenon
    <3>4. g[k - 1] = [n \in SvNums |-> ValueAfter(vec, k - 1, n)] /\ g[k] = [n \in SvNums |-> ValueAfter(vec, k, n)]
      BY <3>1, Zenon
    <3> HIDE DEF g
    <3> QED BY <2>2, <3>1, <3>2, <3>3, <3>4, SMTT(30)
  <2> QED BY <2>1, <2>2, Zenon
<1>3. after = [k \in 0..i |-> Turn(after, k)]
  BY <1>2, Zenon
<1> HIDE DEF g, after
<1>4. g[i] = after[i]
  <2> DEFINE T == {k \in 0..i : g[k] # after[k]}
  <2> SUFFICES ASSUME T # {} PROVE FALSE
    BY <1>0
  <2>1. T \subseteq Nat
    BY <1>0
  <2>2. PICK m \in T : \A k \in T : m <= k
    BY <2>1, LeastNat, Zenon
  <2>3. m \in 0..i /\ g[m] # after[m]
    BY Zenon
  <2>4. g[m] = Turn(g, m) /\ after[m] = Turn(after, m)
    BY <1>2, <1>3, <2>3, Zenon
  <2>5. m # 0
    BY <2>3, <2>4, Zenon
  <2>6. m - 1 \in 0..i /\ ~(m <= m - 1)
    BY <1>0, <2>3, <2>5
  <2>7. g[m - 1] = after[m - 1]
    BY <2>2, <2>6, Zenon
  <2> QED BY <2>3, <2>4, <2>5, <2>7, Zenon
<1>5. g[i] = [n \in SvNums |-> ValueAfter(vec, i, n)]
  BY <1>0 DEF g
<1> QED BY <1>1, <1>4, <1>5, Zenon

\* A vector that the first loop let pass takes effect as the abstract set says.
LEMMA ApplyIsAtomic ==
    ASSUME OneOpEach, SvInd, NEW p \in SvProcs, SemopApply(p)
    PROVE  SvAbstract!AbsNext
<1>1. PICK vec \in SvVectors[p] : vec = svOps[p] /\ \A i \in 1..Len(vec) : ~Blocks(vec[i])
  BY Zenon DEF SvInd, SvHolds, SemopApply
<1>2. semval' = [n \in SvNums |-> ValueAfter(vec, Len(vec), n)]
  BY <1>1, Zenon DEF SemopApply
<1>3. semval \in [SvNums -> Int] /\ \A n \in SvNums : semval[n] \in Nat
  BY SMTT(30) DEF SvInd, SvTypes
<1>4. /\ Len(vec) \in 0..Len(vec)
      /\ \A i \in 1..Len(vec) : i \in 0..Len(vec) /\ vec[i].num \in SvNums /\ vec[i].op \in Int
  BY VectorIs
<1>5. semval' = SvAbstract!AbsAfter(vec, Len(vec))
  BY <1>2, <1>3, <1>4, AbsAfterIs, Zenon
<1>6. ASSUME NEW i \in 1..Len(vec)
      PROVE  /\ SvAbstract!AbsAfter(vec, i)[vec[i].num] >= 0
             /\ vec[i].op = 0 => SvAbstract!AbsAfter(vec, i)[vec[i].num] = 0
  <2>1. PICK n \in SvNums : n = vec[i].num
    BY <1>4, Zenon
  <2>2. SvAbstract!AbsAfter(vec, i)[n] = ValueAfter(vec, i, n)
    BY <1>3, <1>4, AbsAfterIs, Zenon
  <2>3. ValueAfter(vec, i, n) = semval[n] + vec[i].op
    BY <1>1, <1>3, <2>1, AppliedIs, Zenon
  <2>4. ~Blocks(vec[i]) /\ vec[i].op \in Int /\ semval[n] \in Nat
    BY <1>1, <1>3, <1>4, Zenon
  <2> QED BY <2>1, <2>2, <2>3, <2>4, SMTT(30) DEF Blocks
<1>7. SvAbstract!AbsOp(vec)
  BY <1>5, <1>6, Zenon DEF SvAbstract!AbsOp
<1>8. vec \in UNION Range(SvVectors)
  BY SvAssumption, Zenon DEF Range
<1> QED BY <1>7, <1>8, Zenon DEF SvAbstract!AbsNext

\* The two loops of semop implement AbstractSemSet, in which a vector takes
\* effect in one step, in its order and without a value ever going below zero.
THEOREM SemopIsAtomic == ASSUME ~SvBusyCtl, OneOpEach, OneSet PROVE SvSpec => SvAtomic
<1>1. SvInit => SvAbstract!AbsInit
  BY Zenon DEF SvInit, SvAbstract!AbsInit
<1>2. SvInd /\ [SvNext]_svVars => [SvAbstract!AbsNext]_semval
  <2> SUFFICES ASSUME SvInd, [SvNext]_svVars PROVE [SvAbstract!AbsNext]_semval
    BY Zenon
  <2>1. ASSUME NEW p \in SvProcs, SemGet(p) PROVE SvAbstract!AbsNext
    BY <2>1, Zenon DEF SemGet, SvAbstract!AbsNext, SvAbstract!AbsCreate
  <2>2. ASSUME NEW p \in SvProcs, SemopApply(p) PROVE SvAbstract!AbsNext
    BY <2>2, ApplyIsAtomic, Zenon
  <2>3. ASSUME NEW p \in SvProcs, SemRemove(p) \/ ProcessExit(p) \/ SemopLookup(p) \/ SemopCheck(p) \/ SemopSuspend(p)
        PROVE  semval' = semval
    BY <2>3, Zenon DEF SemRemove, ProcessExit, SemopLookup, SemopCheck, SemopSuspend, svSet
  <2>4. ASSUME NEW p \in SvProcs, NEW vec \in SvVectors[p], SemopCall(p, vec) PROVE semval' = semval
    BY <2>4, Zenon DEF SemopCall, svSet
  <2>5. ASSUME NEW p \in SvProcs, NEW n \in SvNums, SemSetVal(p, n, 0) \/ SemSetAll(p, n, 0) PROVE SvAbstract!AbsNext
    <3>1. semval' = [semval EXCEPT ![n] = 0] \/ semval' = [m \in SvNums |-> 0]
      BY <2>5, Zenon DEF SemSetVal, SemSetAll
    <3> QED BY <3>1, Zenon DEF SvAbstract!AbsNext, SvAbstract!AbsSet, SvAbstract!AbsSetAll
  <2>6. CASE UNCHANGED svVars
    BY <2>6, Zenon DEF svVars
  <2> QED BY <2>1, <2>2, <2>3, <2>4, <2>5, <2>6, Zenon DEF SvNext, SemopStep
<1> QED BY <1>1, <1>2, SvInitInd, SvNextInd, PTL DEF SvSpec, SvAtomic, SvAbstract!AbsSpec

\* semop does all of a vector or nothing, and records adjustments that give back
\* exactly what was taken with SEM_UNDO.
THEOREM SemopEffects ==
    ASSUME ~SvBusyCtl, ~SvDirtyExit, OneOpEach, OneSet
    PROVE  SvSpec => SvEffects
BY UndoIsBalanced, SemopIsAtomic, Zenon DEF SvEffects

==============================================================================
