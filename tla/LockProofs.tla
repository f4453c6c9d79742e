----------------------------- MODULE LockProofs -----------------------------
EXTENDS Mutex, Once, TlsKeys, TLAPS

(***************************************************************************)
(* Proofs about module Mutex, for any number of threads, kinds and exec    *)
(* mutexes, for clients that do not race the first use or the destruction  *)
(* of a mutex with other calls, nor begin with pthread_mutex_timedlock on  *)
(* a static one (MxCareful).  The sections of the                          *)
(* code that leave mutex->mutex in an intermediate state (first use and    *)
(* destruction) are then alone, and all the threads in a call agree on the *)
(* object they use.                                                        *)
(***************************************************************************)

MxCareful == ~MxRaces /\ "static" \notin MxTimedUses

MxPcs == {"out", "lockinit", "tryinit", "lock", "attempted", "obtain", "blocked", "try",
          "timed", "incond", "free"}

MxTypes ==
    /\ mxPtr \in Nat /\ mxMade \in Nat /\ mxRecursive \subseteq Nat
    /\ mxKind \in {"NORMAL", "RECURSIVE", "ERRORCHECK"}
    /\ mxOwner \in [MxIds -> MxThreads \cup {MxNone}]
    /\ mxNest \in [MxIds -> Nat]
    /\ mxPc \in [MxThreads -> MxPcs]
    /\ mxArg \in [MxThreads -> Nat]
    /\ mxHeld \in [MxThreads -> Nat]

\* The exec mutexes: the pthread_mutex_t has the last one created, if any, and
\* the ones to come are free.
MxObjectsSound ==
    /\ mxMade <= MxObjects
    /\ mxPtr # 0 => mxPtr = mxMade /\ mxPtr \in mxLive
    /\ mxPtr # 0 => (mxPtr \in mxRecursive <=> mxKind = "RECURSIVE")
    /\ \A i \in mxRecursive : i <= mxMade
    /\ \A i \in MxIds : mxOwner[i] = MxNone <=> mxNest[i] = 0
    /\ \A i \in MxIds : i > mxMade => mxOwner[i] = MxNone

\* Without an exec mutex nobody is past the first use or has locked anything.
MxUnused ==
    \A t \in MxThreads :
      /\ mxPtr = 0 => mxHeld[t] = 0 /\ mxPc[t] \in {"out", "lockinit", "tryinit"}
      /\ mxPc[t] \in {"lockinit", "tryinit"} => mxPtr = 0
      /\ mxArg[t] = (IF mxPc[t] \in {"blocked", "timed"} THEN mxPtr ELSE 0)

\* A first use, and a destruction, runs alone and while nobody holds the mutex.
MxAlone ==
    \A t \in MxThreads :
      mxPc[t] \in {"lockinit", "tryinit", "incond", "free"} =>
        \A u \in MxThreads : mxHeld[u] = 0 /\ (u # t => mxPc[u] = "out")

\* What pthread_mutex_lock knows about the mutex on its way to MutexObtain.
MxLocking ==
    \A t \in MxThreads : mxHeld[t] > 0 =>
      /\ mxPc[t] \notin {"attempted", "obtain"}
      /\ mxPc[t] = "lock" => mxKind # "NORMAL"
      /\ mxPc[t] = "blocked" => mxPtr \in mxRecursive

MxInv ==
    /\ MxTypes /\ MxObjectsSound /\ MxUnused /\ MxAlone /\ MxLocking /\ MxBalanced

-----------------------------------------------------------------------------
\* The invariant holds for a new mutex, static or not.
LEMMA MxInvInit == MxInit => MxInv
  BY MxAssumption DEF MxInit, MxInv, MxTypes, MxObjectsSound, MxUnused, MxAlone, MxLocking,
     MxBalanced, MxIds, MxPcs

\* The object a thread holds, or has been given, is one of the exec mutexes.
LEMMA MxPtrIsId == MxInv /\ mxPtr # 0 => mxPtr \in MxIds
  BY MxAssumption DEF MxInv, MxTypes, MxObjectsSound, MxIds

\* What MutexObtain and MutexRelease by the owner do to the exec mutexes.
MxChanged(i, owner, nest) ==
    /\ mxOwner' \in [MxIds -> MxThreads \cup {MxNone}] /\ mxNest' \in [MxIds -> Nat]
    /\ mxOwner'[i] = owner /\ mxNest'[i] = nest
    /\ \A j \in MxIds : j # i => mxOwner'[j] = mxOwner[j] /\ mxNest'[j] = mxNest[j]

\* Changing owner and depth of one exec mutex keeps the types.
LEMMA ChangedTypes ==
  ASSUME MxTypes, NEW i, NEW owner, NEW nest, MxChanged(i, owner, nest),
         UNCHANGED <<mxPtr, mxKind, mxMade, mxRecursive>>,
         mxPc' \in [MxThreads -> MxPcs],
         mxArg' \in [MxThreads -> Nat], mxHeld' \in [MxThreads -> Nat]
  PROVE  MxTypes'
  BY Zenon DEF MxTypes, MxChanged

\* What MutexObtain changes.
LEMMA ObtainedResult ==
  ASSUME NEW t \in MxThreads, NEW i \in MxIds, MxTypes, Obtained(t, i)
  PROVE  MxChanged(i, t, mxNest[i] + 1)
  BY DEF MxTypes, Obtained, MxChanged

\* What MutexRelease by the owner changes.
LEMMA ReleasedResult ==
  ASSUME NEW t \in MxThreads, NEW i \in MxIds, MxTypes, MutexRelease(t, i),
         mxOwner[i] = t, mxNest[i] # 0
  PROVE  MxChanged(i, IF mxNest[i] = 1 THEN MxNone ELSE t, mxNest[i] - 1)
  BY DEF MxTypes, MutexRelease, MxChanged

\* An exec mutex that is obtained has an owner and a depth.
LEMMA ObtainedSound ==
  ASSUME MxInv, NEW t \in MxThreads, mxPtr # 0, MxChanged(mxPtr, t, mxNest[mxPtr] + 1),
         UNCHANGED <<mxPtr, mxKind, mxMade, mxLive, mxRecursive>>
  PROVE  MxObjectsSound'
<1>1. mxPtr \in MxIds BY MxPtrIsId, Zenon
<1>2. ASSUME NEW i \in MxIds PROVE mxOwner'[i] = MxNone <=> mxNest'[i] = 0
  BY <1>1, MxAssumption DEF MxInv, MxTypes, MxPcs, MxObjectsSound, MxChanged
<1>3. ASSUME NEW i \in MxIds, i > mxMade PROVE mxOwner'[i] = MxNone
  BY <1>1, <1>3 DEF MxInv, MxTypes, MxPcs, MxObjectsSound, MxChanged, MxIds
<1>. QED BY <1>2, <1>3, Zenon DEF MxInv, MxObjectsSound

\* One that is released for the last time has neither.
LEMMA ReleasedSound ==
  ASSUME MxInv, NEW t \in MxThreads, mxPtr # 0, mxOwner[mxPtr] = t, mxNest[mxPtr] # 0,
         MxChanged(mxPtr, IF mxNest[mxPtr] = 1 THEN MxNone ELSE t, mxNest[mxPtr] - 1),
         UNCHANGED <<mxPtr, mxKind, mxMade, mxLive, mxRecursive>>
  PROVE  MxObjectsSound'
<1>1. mxPtr \in MxIds /\ mxNest[mxPtr] \in Nat BY MxPtrIsId, Zenon DEF MxInv, MxTypes
<1>2. ASSUME NEW i \in MxIds PROVE mxOwner'[i] = MxNone <=> mxNest'[i] = 0
  <2>1. CASE i = mxPtr BY <1>1, <2>1, MxAssumption DEF MxChanged
  <2>2. CASE i # mxPtr BY <2>2, Zenon DEF MxInv, MxObjectsSound, MxChanged
  <2>. QED BY <2>1, <2>2, Zenon
<1>3. ASSUME NEW i \in MxIds, i > mxMade PROVE mxOwner'[i] = MxNone
  BY <1>1, <1>3, Zenon DEF MxInv, MxTypes, MxPcs, MxObjectsSound, MxChanged, MxIds
<1>. QED BY <1>2, <1>3, Zenon DEF MxInv, MxObjectsSound

\* How deep a thread is in the mutex, before and after.
MxDeep(t) == IF mxOwner[mxPtr] = t THEN mxNest[mxPtr] ELSE 0

\* Obtaining adds one to the depth of the thread and nobody else's.
LEMMA ObtainedDeep ==
  ASSUME MxInv, NEW t \in MxThreads, mxPtr # 0, mxPtr' = mxPtr,
         mxOwner[mxPtr] \in {MxNone, t}, MxChanged(mxPtr, t, mxNest[mxPtr] + 1)
  PROVE  \A u \in MxThreads : MxDeep(u)' = MxDeep(u) + (IF u = t THEN 1 ELSE 0)
<1>1. mxPtr \in MxIds /\ mxNest[mxPtr] \in Nat BY MxPtrIsId, Zenon DEF MxInv, MxTypes
<1>2. mxOwner[mxPtr] = MxNone => mxNest[mxPtr] = 0 BY <1>1, Zenon DEF MxInv, MxObjectsSound
<1>. QED BY <1>1, <1>2, MxAssumption DEF MxDeep, MxChanged

\* Releasing takes one off.
LEMMA ReleasedDeep ==
  ASSUME MxInv, NEW t \in MxThreads, mxPtr # 0, mxPtr' = mxPtr,
         mxOwner[mxPtr] = t, mxNest[mxPtr] # 0,
         MxChanged(mxPtr, IF mxNest[mxPtr] = 1 THEN MxNone ELSE t, mxNest[mxPtr] - 1)
  PROVE  \A u \in MxThreads : MxDeep(u)' = MxDeep(u) - (IF u = t THEN 1 ELSE 0)
<1>1. mxPtr \in MxIds /\ mxNest[mxPtr] \in Nat BY MxPtrIsId, Zenon DEF MxInv, MxTypes
<1>. QED BY <1>1, MxAssumption DEF MxDeep, MxChanged

-----------------------------------------------------------------------------
\* Every step of every thread keeps the invariant, if clients do not race the
\* first use or the destruction of the mutex.
LEMMA MxInvNext == ASSUME MxCareful, MxInv, [MxNext]_mxVars PROVE MxInv'
<1>0. ~MxRaces BY Zenon DEF MxCareful
<1> USE MxAssumption, MxPtrIsId
<1>1. ASSUME NEW t \in MxThreads, LazyInit(t) PROVE MxInv'
  <2> USE <1>1 DEF LazyInit, NewMutex, Recursive, MxInv, MxTypes, MxPcs, MxIds,
             mxObject, mxClock, MxGoto
  <2>1. MxTypes' BY DEF MxObjectsSound, MxUnused
  <2>2. MxObjectsSound' BY DEF MxObjectsSound, MxUnused, MxBalanced
  <2>3. MxUnused' BY DEF MxObjectsSound, MxUnused, MxAlone
  <2>4. MxAlone' BY SMTT(30) DEF MxUnused, MxAlone, MxBalanced
  <2>5. MxLocking' BY DEF MxObjectsSound, MxUnused, MxLocking, MxBalanced
  <2>6. MxBalanced' BY SMTT(30) DEF MxObjectsSound, MxUnused, MxAlone, MxBalanced
  <2>. QED BY <2>1, <2>2, <2>3, <2>4, <2>5, <2>6, Zenon
<1>2. ASSUME NEW t \in MxThreads, LockAttempt(t) PROVE MxInv'
  <2>0. mxPtr # 0 /\ mxPtr \in MxIds BY <1>2, Zenon DEF LockAttempt
  <2>1. CASE Obtainable(t, mxPtr)
    <3>0. mxOwner[mxPtr] = MxNone \/ (mxOwner[mxPtr] = t /\ mxPtr \in mxRecursive)
      BY <2>1, Zenon DEF Obtainable
    <3>1. MxChanged(mxPtr, t, mxNest[mxPtr] + 1)
      BY <1>2, <2>0, <2>1, ObtainedResult, Zenon DEF LockAttempt, MxInv
    <3>2. /\ mxPc[t] = "lock" /\ mxPc' = [mxPc EXCEPT ![t] = "attempted"] /\ mxKind = "ERRORCHECK"
         /\ mxHeld' = mxHeld
         /\ UNCHANGED <<mxPtr, mxKind, mxMade, mxLive, mxRecursive, mxArg>>
      BY <1>2, <2>0, <3>0, <3>1, <2>1, Zenon DEF LockAttempt, ErrorChecked, MxGoto, mxObject
    <3>11. \A u \in MxThreads : MxDeep(u)' = MxDeep(u) + (IF u = t THEN 1 ELSE 0)
      BY <2>0, <3>0, <3>1, <3>2, ObtainedDeep, Zenon
    <3>12. mxOwner[mxPtr] # t
      BY <2>0, <3>0, <3>2, MxAssumption, Zenon DEF MxInv, MxObjectsSound
    <3>10. mxHeld[t] = 0
      BY <2>0, <3>2, <3>12 DEF MxInv, MxTypes, MxBalanced
    <3>3. mxHeld' \in [MxThreads -> Nat] /\ mxArg' \in [MxThreads -> Nat]
      BY <3>2, Zenon DEF MxInv, MxTypes
    <3>13. mxPc' \in [MxThreads -> MxPcs]
      BY <3>2, Zenon DEF MxInv, MxTypes, MxPcs
    <3>4. MxTypes'
      BY <3>1, <3>2, <3>3, <3>13, ChangedTypes, Zenon DEF MxInv
    <3> USE <2>0, <3>0, <3>1, <3>2 DEF MxInv, MxTypes, MxPcs, MxIds, mxObject
    <3>5. MxObjectsSound' BY ObtainedSound, Zenon
    <3>6. MxUnused' BY SMTT(30) DEF MxObjectsSound, MxUnused, MxAlone
    <3>7. MxAlone' BY SMTT(30) DEF MxUnused, MxAlone, MxBalanced
    <3>8. MxLocking' BY <3>10 DEF MxUnused, MxLocking
    <3>9. MxBalanced' BY <3>11, SMTT(30) DEF MxBalanced, MxDeep
    <3>. QED BY <3>4, <3>5, <3>6, <3>7, <3>8, <3>9, Zenon DEF MxInv
  <2>2. CASE ~Obtainable(t, mxPtr)
    <3>2. /\ mxPc[t] = "lock" /\ mxPc' = [mxPc EXCEPT ![t] = "out"]
         /\ mxHeld' = mxHeld
         /\ UNCHANGED <<mxPtr, mxKind, mxMade, mxLive, mxRecursive, mxArg, mxOwner, mxNest>>
      BY <1>2, <2>0, <2>2, Zenon DEF LockAttempt, ErrorChecked, MxGoto, mxObject
    <3> USE <2>0, <2>2, <3>2 DEF MxInv, MxTypes, MxPcs, MxIds, mxObject
    <3>3. mxHeld' \in [MxThreads -> Nat] BY Zenon DEF MxTypes
    <3>4. MxTypes' BY <3>3, Zenon
    <3>5. MxObjectsSound' BY Zenon DEF MxObjectsSound, MxUnused, MxBalanced
    <3>6. MxUnused' BY SMTT(30) DEF MxObjectsSound, MxUnused, MxAlone
    <3>7. MxAlone' BY SMTT(30) DEF MxUnused, MxAlone, MxBalanced
    <3>8. MxLocking' BY Zenon DEF MxObjectsSound, MxUnused, MxLocking, MxBalanced
    <3>9. MxBalanced' BY SMTT(30) DEF MxObjectsSound, MxUnused, MxAlone, MxBalanced
    <3>. QED BY <3>4, <3>5, <3>6, <3>7, <3>8, <3>9, Zenon DEF MxInv
  <2>. QED BY <2>1, <2>2, Zenon
<1>3. ASSUME NEW t \in MxThreads, LockUnattempt(t) PROVE MxInv'
  <2>0. /\ mxPtr # 0 /\ mxPtr \in MxIds
        /\ mxOwner[mxPtr] = t /\ mxNest[mxPtr] # 0
    BY <1>3 DEF LockUnattempt, MxInv, MxTypes, MxUnused, MxBalanced
  <2>1. MxChanged(mxPtr, IF mxNest[mxPtr] = 1 THEN MxNone ELSE t, mxNest[mxPtr] - 1)
    BY <1>3, <2>0, ReleasedResult, Zenon DEF LockUnattempt, MxInv
  <2>2. mxArg' \in [MxThreads -> Nat] /\ mxHeld' \in [MxThreads -> Nat]
    BY <1>3, <2>0, <2>1, Zenon DEF LockUnattempt, MxInv, MxTypes
  <2>11. mxPc' \in [MxThreads -> MxPcs] /\ UNCHANGED <<mxPtr, mxKind, mxMade, mxRecursive>>
    BY <1>3, Zenon DEF LockUnattempt, MxGoto, mxObject, MxInv, MxTypes, MxPcs
  <2>3. MxTypes'
    BY <2>1, <2>2, <2>11, ChangedTypes, Zenon DEF MxInv
  <2>9. \A u \in MxThreads : MxDeep(u)' = MxDeep(u) - (IF u = t THEN 1 ELSE 0)
    BY <1>3, <2>0, <2>1, ReleasedDeep, Zenon DEF LockUnattempt, mxObject
  <2> USE <1>3, <2>0, <2>1, <2>2 DEF LockUnattempt, MxInv, MxTypes, MxPcs, MxIds, mxObject, mxClock, MxGoto
  <2>4. MxObjectsSound' BY ReleasedSound, Zenon
  <2>5. MxUnused' BY ZenonT(30) DEF MxObjectsSound, MxUnused, MxAlone
  <2>6. MxAlone' BY SMTT(30) DEF MxUnused, MxAlone, MxBalanced
  <2>7. MxLocking' BY Zenon DEF MxObjectsSound, MxUnused, MxLocking, MxBalanced
  <2>8. MxBalanced' BY <2>9, SMTT(30) DEF MxBalanced, MxDeep
  <2>. QED BY <2>3, <2>4, <2>5, <2>6, <2>7, <2>8, Zenon DEF MxInv
<1>4. ASSUME NEW t \in MxThreads, LockObtain(t) PROVE MxInv'
  <2> USE <1>4 DEF LockObtain, ErrorChecked, MxInv, MxTypes, MxPcs, MxIds,
             mxObject, mxClock, MxGoto
  <2>0. mxPtr # 0 /\ mxPtr \in MxIds BY Zenon DEF MxUnused
  <2>1. MxTypes' BY <2>0, Zenon DEF MxObjectsSound, MxUnused
  <2>2. MxObjectsSound' BY <2>0, Zenon DEF MxObjectsSound, MxUnused, MxBalanced
  <2>3. MxUnused' BY <2>0, SMTT(30) DEF MxObjectsSound, MxUnused, MxAlone
  <2>4. MxAlone' BY <2>0, ZenonT(30) DEF MxUnused, MxAlone, MxBalanced
  <2>5. MxLocking' BY <2>0, Zenon DEF MxObjectsSound, MxUnused, MxLocking, MxBalanced
  <2>6. MxBalanced' BY <2>0, SMTT(30) DEF MxObjectsSound, MxUnused, MxAlone, MxBalanced
  <2>. QED BY <2>1, <2>2, <2>3, <2>4, <2>5, <2>6, Zenon
<1>5. ASSUME NEW t \in MxThreads, LockReturn(t) PROVE MxInv'
  <2>0. /\ mxPtr # 0 /\ mxPtr \in MxIds
        /\ mxOwner[mxPtr] = MxNone \/ (mxOwner[mxPtr] = t /\ mxPtr \in mxRecursive)
    BY <1>5, Zenon DEF LockReturn, MxInv, MxUnused, Obtainable
  <2>1. MxChanged(mxPtr, t, mxNest[mxPtr] + 1)
    BY <1>5, <2>0, ObtainedResult, Zenon DEF LockReturn, MxInv, MxUnused
  <2>2. mxArg' \in [MxThreads -> Nat] /\ mxHeld' \in [MxThreads -> Nat]
    BY <1>5, <2>0, <2>1 DEF LockReturn, Locked, MxInv, MxTypes
  <2>11. mxPc' \in [MxThreads -> MxPcs] /\ UNCHANGED <<mxPtr, mxKind, mxMade, mxRecursive>>
    BY <1>5, Zenon DEF LockReturn, MxGoto, mxObject, MxInv, MxTypes, MxPcs
  <2>3. MxTypes'
    BY <2>1, <2>2, <2>11, ChangedTypes, Zenon DEF MxInv
  <2>9. \A u \in MxThreads : MxDeep(u)' = MxDeep(u) + (IF u = t THEN 1 ELSE 0)
    BY <1>5, <2>0, <2>1, ObtainedDeep, Zenon DEF LockReturn, mxObject
  <2> USE <1>5, <2>0, <2>1, <2>2 DEF LockReturn, Locked, MxInv, MxTypes, MxPcs, MxIds, mxObject, mxClock, MxGoto
  <2>4. MxObjectsSound' BY ObtainedSound, Zenon
  <2>5. MxUnused' BY SMTT(30) DEF MxObjectsSound, MxUnused, MxAlone
  <2>6. MxAlone' BY SMTT(30) DEF MxUnused, MxAlone, MxBalanced
  <2>7. MxLocking' BY Zenon DEF MxObjectsSound, MxUnused, MxLocking, MxBalanced
  <2>8. MxBalanced' BY <2>9, SMTT(30) DEF MxBalanced, MxDeep
  <2>. QED BY <2>3, <2>4, <2>5, <2>6, <2>7, <2>8, Zenon DEF MxInv
<1>6. ASSUME NEW t \in MxThreads, TryReturn(t) PROVE MxInv'
  <2>0. mxPtr # 0 /\ mxPtr \in MxIds BY <1>6, Zenon DEF TryReturn
  <2>1. CASE Obtainable(t, mxPtr)
    <3>0. mxOwner[mxPtr] = MxNone \/ (mxOwner[mxPtr] = t /\ mxPtr \in mxRecursive)
      BY <2>1, Zenon DEF Obtainable
    <3>1. MxChanged(mxPtr, t, mxNest[mxPtr] + 1)
      BY <1>6, <2>0, <2>1, ObtainedResult, Zenon DEF TryReturn, MxInv
    <3>2. /\ mxPc[t] = "try" /\ mxPc' = [mxPc EXCEPT ![t] = "out"]
         /\ mxHeld' = [mxHeld EXCEPT ![t] = @ + 1]
         /\ UNCHANGED <<mxPtr, mxKind, mxMade, mxLive, mxRecursive, mxArg>>
      BY <1>6, <2>0, <3>0, <3>1, <2>1, Zenon DEF TryReturn, Locked, MxGoto, mxObject
    <3>11. \A u \in MxThreads : MxDeep(u)' = MxDeep(u) + (IF u = t THEN 1 ELSE 0)
      BY <2>0, <3>0, <3>1, <3>2, ObtainedDeep, Zenon
    <3>3. mxHeld' \in [MxThreads -> Nat] /\ mxArg' \in [MxThreads -> Nat]
      BY <3>2 DEF MxInv, MxTypes
    <3>13. mxPc' \in [MxThreads -> MxPcs]
      BY <3>2, Zenon DEF MxInv, MxTypes, MxPcs
    <3>4. MxTypes'
      BY <3>1, <3>2, <3>3, <3>13, ChangedTypes, Zenon DEF MxInv
    <3> USE <2>0, <3>0, <3>1, <3>2 DEF MxInv, MxTypes, MxPcs, MxIds, mxObject
    <3>5. MxObjectsSound' BY ObtainedSound, Zenon
    <3>6. MxUnused' BY SMTT(30) DEF MxObjectsSound, MxUnused, MxAlone
    <3>7. MxAlone' BY SMTT(30) DEF MxUnused, MxAlone, MxBalanced
    <3>8. MxLocking' BY Zenon DEF MxObjectsSound, MxUnused, MxLocking, MxBalanced
    <3>9. MxBalanced' BY <3>11, SMTT(30) DEF MxBalanced, MxDeep
    <3>. QED BY <3>4, <3>5, <3>6, <3>7, <3>8, <3>9, Zenon DEF MxInv
  <2>2. CASE ~Obtainable(t, mxPtr)
    <3>2. /\ mxPc[t] = "try" /\ mxPc' = [mxPc EXCEPT ![t] = "out"]
         /\ mxHeld' = mxHeld
         /\ UNCHANGED <<mxPtr, mxKind, mxMade, mxLive, mxRecursive, mxArg, mxOwner, mxNest>>
      BY <1>6, <2>0, <2>2, Zenon DEF TryReturn, Locked, MxGoto, mxObject
    <3> USE <2>0, <2>2, <3>2 DEF MxInv, MxTypes, MxPcs, MxIds, mxObject
    <3>3. mxHeld' \in [MxThreads -> Nat] BY Zenon DEF MxTypes
    <3>4. MxTypes' BY <3>3, Zenon
    <3>5. MxObjectsSound' BY Zenon DEF MxObjectsSound, MxUnused, MxBalanced
    <3>6. MxUnused' BY SMTT(30) DEF MxObjectsSound, MxUnused, MxAlone
    <3>7. MxAlone' BY SMTT(30) DEF MxUnused, MxAlone, MxBalanced
    <3>8. MxLocking' BY Zenon DEF MxObjectsSound, MxUnused, MxLocking, MxBalanced
    <3>9. MxBalanced' BY SMTT(30) DEF MxObjectsSound, MxUnused, MxAlone, MxBalanced
    <3>. QED BY <3>4, <3>5, <3>6, <3>7, <3>8, <3>9, Zenon DEF MxInv
  <2>. QED BY <2>1, <2>2, Zenon
<1>7. ASSUME NEW t \in MxThreads, TimedReturn(t) PROVE MxInv'
  <2>0. /\ mxPtr # 0 /\ mxPtr \in MxIds
        /\ mxOwner[mxPtr] = MxNone \/ (mxOwner[mxPtr] = t /\ mxPtr \in mxRecursive)
    BY <1>7, Zenon DEF TimedReturn, MxInv, MxUnused, Obtainable
  <2>1. MxChanged(mxPtr, t, mxNest[mxPtr] + 1)
    BY <1>7, <2>0, ObtainedResult, Zenon DEF TimedReturn, MxInv, MxUnused
  <2>2. mxArg' \in [MxThreads -> Nat] /\ mxHeld' \in [MxThreads -> Nat]
    BY <1>7, <2>0, <2>1 DEF TimedReturn, Locked, MxInv, MxTypes
  <2>11. mxPc' \in [MxThreads -> MxPcs] /\ UNCHANGED <<mxPtr, mxKind, mxMade, mxRecursive>>
    BY <1>7, Zenon DEF TimedReturn, MxGoto, mxObject, MxInv, MxTypes, MxPcs
  <2>3. MxTypes'
    BY <2>1, <2>2, <2>11, ChangedTypes, Zenon DEF MxInv
  <2>9. \A u \in MxThreads : MxDeep(u)' = MxDeep(u) + (IF u = t THEN 1 ELSE 0)
    BY <1>7, <2>0, <2>1, ObtainedDeep, Zenon DEF TimedReturn, mxObject
  <2> USE <1>7, <2>0, <2>1, <2>2 DEF TimedReturn, Locked, MxInv, MxTypes, MxPcs, MxIds, mxObject, mxClock, MxGoto
  <2>4. MxObjectsSound' BY ObtainedSound, Zenon
  <2>5. MxUnused' BY SMTT(30) DEF MxObjectsSound, MxUnused, MxAlone
  <2>6. MxAlone' BY SMTT(30) DEF MxUnused, MxAlone, MxBalanced
  <2>7. MxLocking' BY Zenon DEF MxObjectsSound, MxUnused, MxLocking, MxBalanced
  <2>8. MxBalanced' BY <2>9, SMTT(30) DEF MxBalanced, MxDeep
  <2>. QED BY <2>3, <2>4, <2>5, <2>6, <2>7, <2>8, Zenon DEF MxInv
<1>8. ASSUME NEW t \in MxThreads, MxTimedOut(t) PROVE MxInv'
  BY <1>8, SMTT(30) DEF MxTimedOut,
         MxInv, MxTypes, MxPcs, MxObjectsSound, MxUnused, MxAlone, MxLocking, MxBalanced, MxIds,
         mxObject, mxClock, MxGoto
<1>9. ASSUME NEW t \in MxThreads, DestroyRelease(t) PROVE MxInv'
  <2>0. /\ mxPtr # 0 /\ mxPtr \in MxIds
        /\ mxOwner[mxPtr] = t /\ mxNest[mxPtr] # 0
    BY <1>9 DEF DestroyRelease, MxInv, MxTypes, MxUnused, MxBalanced
  <2>1. MxChanged(mxPtr, IF mxNest[mxPtr] = 1 THEN MxNone ELSE t, mxNest[mxPtr] - 1)
    BY <1>9, <2>0, ReleasedResult, Zenon DEF DestroyRelease, MxInv
  <2>2. /\ mxPc[t] = "incond" /\ mxPc' = [mxPc EXCEPT ![t] = "free"]
       /\ mxHeld' = mxHeld
       /\ UNCHANGED <<mxPtr, mxKind, mxMade, mxLive, mxRecursive, mxArg>>
    BY <1>9, <2>0, <2>1, Zenon DEF DestroyRelease, MxGoto, mxObject
  <2>3. mxHeld' \in [MxThreads -> Nat] /\ mxArg' \in [MxThreads -> Nat]
    BY <2>2, Zenon DEF MxInv, MxTypes
  <2>13. mxPc' \in [MxThreads -> MxPcs]
    BY <2>2, Zenon DEF MxInv, MxTypes, MxPcs
  <2>4. MxTypes'
    BY <2>1, <2>2, <2>3, <2>13, ChangedTypes, Zenon DEF MxInv
  <2>11. \A u \in MxThreads : mxHeld[u] = 0 /\ (u # t => mxPc[u] = "out")
    BY <2>2, Zenon DEF MxInv, MxAlone
  <2>7. MxAlone'
    <3>1. mxHeld' = mxHeld /\ \A u \in MxThreads : u # t => mxPc'[u] = "out"
      BY <2>2, <2>11, Zenon DEF MxInv, MxTypes
    <3>. QED BY <2>11, <3>1, Zenon DEF MxAlone
  <2> USE <2>0, <2>1, <2>2 DEF MxInv, MxTypes, MxPcs, MxIds, mxObject
  <2>10. mxNest[mxPtr] = 1 /\ \A u \in MxThreads : mxHeld[u] = 0 /\ (u # t => mxPc[u] = "out")
    BY <2>11, SMTT(30) DEF MxBalanced
  <2>5. MxObjectsSound' BY <2>10, SMTT(30) DEF MxObjectsSound, MxChanged
  <2>6. MxUnused' BY <2>10, Zenon DEF MxUnused
  <2>8. MxLocking' BY ZenonT(30) DEF MxObjectsSound, MxUnused, MxLocking, MxBalanced
  <2>9. MxBalanced' BY <2>10, SMTT(30) DEF MxBalanced, MxChanged
  <2>. QED BY <2>4, <2>5, <2>6, <2>7, <2>8, <2>9, Zenon DEF MxInv
<1>10. ASSUME NEW t \in MxThreads, DestroyFree(t) PROVE MxInv'
  <2>0. /\ mxPc[t] = "free" /\ mxPtr' = 0 /\ mxKind' = "NORMAL" /\ mxPc' = [mxPc EXCEPT ![t] = "out"]
        /\ UNCHANGED <<mxMade, mxRecursive, mxOwner, mxNest, mxArg, mxHeld>>
    BY <1>10, Zenon DEF DestroyFree, MxGoto
  <2>10. \A u \in MxThreads : mxHeld[u] = 0 /\ (u # t => mxPc[u] = "out")
    BY <2>0, Zenon DEF MxInv, MxAlone
  <2> USE <2>0 DEF MxInv, MxTypes, MxPcs, MxIds
  <2>1. MxTypes' OBVIOUS
  <2>2. MxObjectsSound' BY Zenon DEF MxObjectsSound
  <2>3. MxUnused' BY <2>10, Zenon DEF MxUnused
  <2>4. MxAlone' BY <2>10, Zenon DEF MxAlone
  <2>5. MxLocking' BY <2>10 DEF MxLocking
  <2>6. MxBalanced' BY Zenon DEF MxBalanced
  <2>. QED BY <2>1, <2>2, <2>3, <2>4, <2>5, <2>6, Zenon
<1>11. ASSUME NEW t \in MxThreads, MutexLock(t) PROVE MxInv'
  BY <1>0, <1>11, SMTT(30) DEF MutexLock, MxCall, Quiet, FirstUse,
         MxInv, MxTypes, MxPcs, MxObjectsSound, MxUnused, MxAlone, MxLocking, MxBalanced, MxIds,
         mxObject, mxClock, MxGoto
<1>12. ASSUME NEW t \in MxThreads, MutexTrylock(t) PROVE MxInv'
  BY <1>0, <1>12, SMTT(30) DEF MutexTrylock, MxCall, Quiet, FirstUse,
         MxInv, MxTypes, MxPcs, MxObjectsSound, MxUnused, MxAlone, MxLocking, MxBalanced, MxIds,
         mxObject, mxClock, MxGoto
<1>13. ASSUME NEW t \in MxThreads, MutexUnlock(t) PROVE MxInv'
  <2>0. /\ mxPtr # 0 /\ mxPtr \in MxIds
        /\ mxOwner[mxPtr] = t /\ mxNest[mxPtr] # 0
    BY <1>13, SMTT(30) DEF MutexUnlock, MxInv, MxTypes, MxUnused, MxBalanced
  <2>1. MxChanged(mxPtr, IF mxNest[mxPtr] = 1 THEN MxNone ELSE t, mxNest[mxPtr] - 1)
    BY <1>13, <2>0, ReleasedResult, Zenon DEF MutexUnlock, MxInv
  <2>2. mxArg' \in [MxThreads -> Nat] /\ mxHeld' \in [MxThreads -> Nat]
    BY <1>13, <2>0, <2>1 DEF MutexUnlock, MxInv, MxTypes
  <2>11. mxPc' \in [MxThreads -> MxPcs] /\ UNCHANGED <<mxPtr, mxKind, mxMade, mxRecursive>>
    BY <1>13, Zenon DEF MutexUnlock, MxGoto, mxObject, MxInv, MxTypes, MxPcs
  <2>3. MxTypes'
    BY <2>1, <2>2, <2>11, ChangedTypes, Zenon DEF MxInv
  <2>9. \A u \in MxThreads : MxDeep(u)' = MxDeep(u) - (IF u = t THEN 1 ELSE 0)
    BY <1>13, <2>0, <2>1, ReleasedDeep, Zenon DEF MutexUnlock, mxObject
  <2> USE <1>13, <2>0, <2>1, <2>2 DEF MutexUnlock, MxInv, MxTypes, MxPcs, MxIds, mxObject, mxClock, MxGoto
  <2>4. MxObjectsSound' BY ReleasedSound, Zenon
  <2>5. MxUnused' BY Zenon DEF MxObjectsSound, MxUnused, MxAlone
  <2>6. MxAlone' BY SMTT(30) DEF MxUnused, MxAlone, MxBalanced
  <2>7. MxLocking' BY Zenon DEF MxObjectsSound, MxUnused, MxLocking, MxBalanced
  <2>8. MxBalanced' BY <2>9, SMTT(30) DEF MxBalanced, MxDeep
  <2>. QED BY <2>3, <2>4, <2>5, <2>6, <2>7, <2>8, Zenon DEF MxInv
<1>14. ASSUME NEW t \in MxThreads, MutexDestroy(t) PROVE MxInv'
  <2>0. mxPtr # 0 /\ mxPtr \in MxIds BY <1>14, Zenon DEF MutexDestroy
  <2>1. CASE Obtainable(t, mxPtr)
    <3>0. mxOwner[mxPtr] = MxNone \/ (mxOwner[mxPtr] = t /\ mxPtr \in mxRecursive)
      BY <2>1, Zenon DEF Obtainable
    <3>1. MxChanged(mxPtr, t, mxNest[mxPtr] + 1)
      <4>1. Obtained(t, mxPtr) BY <1>14, <2>1, Zenon DEF MutexDestroy, DestroyBusy
      <4>2. MxTypes BY Zenon DEF MxInv
      <4>. QED BY <2>0, <4>1, <4>2, ObtainedResult, Zenon
    <3>2. /\ mxPc[t] = "out" /\ mxPc' = [mxPc EXCEPT ![t] = "incond"] /\ mxHeld[t] = 0
         /\ \A u \in MxThreads : mxPc[u] = "out"
         /\ mxHeld' = mxHeld
         /\ UNCHANGED <<mxPtr, mxKind, mxMade, mxLive, mxRecursive, mxArg>>
      BY <1>0, <1>14, <2>0, <3>0, <3>1, <2>1, Zenon DEF MutexDestroy, DestroyBusy, MxGoto, mxObject
    <3>11. \A u \in MxThreads : MxDeep(u)' = MxDeep(u) + (IF u = t THEN 1 ELSE 0)
      BY <2>0, <3>0, <3>1, <3>2, ObtainedDeep, Zenon
    <3>3. mxHeld' \in [MxThreads -> Nat] /\ mxArg' \in [MxThreads -> Nat]
      BY <3>2, Zenon DEF MxInv, MxTypes
    <3>13. mxPc' \in [MxThreads -> MxPcs]
      BY <3>2, Zenon DEF MxInv, MxTypes, MxPcs
    <3>4. MxTypes'
      BY <3>1, <3>2, <3>3, <3>13, ChangedTypes, Zenon DEF MxInv
    <3> USE <2>0, <3>0, <3>1, <3>2 DEF MxInv, MxTypes, MxPcs, MxIds, mxObject
    <3>5. MxObjectsSound' BY ObtainedSound, Zenon
    <3>6. MxUnused' BY SMTT(30) DEF MxObjectsSound, MxUnused, MxAlone
    <3>10. \A u \in MxThreads : mxHeld[u] = 0 BY SMTT(30) DEF MxBalanced
    <3>7. MxAlone' BY <3>10, SMTT(30) DEF MxAlone
    <3>8. MxLocking' BY SMTT(30) DEF MxObjectsSound, MxUnused, MxLocking, MxBalanced
    <3>9. MxBalanced' BY <3>11, SMTT(30) DEF MxBalanced, MxDeep
    <3>. QED BY <3>4, <3>5, <3>6, <3>7, <3>8, <3>9, Zenon DEF MxInv
  <2>2. CASE ~Obtainable(t, mxPtr)
    <3>2. /\ mxPc[t] = "out" /\ mxPc' = mxPc
         /\ mxHeld' = mxHeld
         /\ UNCHANGED <<mxPtr, mxKind, mxMade, mxLive, mxRecursive, mxArg, mxOwner, mxNest>>
      BY <1>14, <2>0, <2>2, Zenon DEF MutexDestroy, DestroyBusy, MxGoto, mxObject
    <3> USE <2>0, <2>2, <3>2 DEF MxInv, MxTypes, MxPcs, MxIds, mxObject
    <3>3. mxHeld' \in [MxThreads -> Nat] BY Zenon DEF MxTypes
    <3>4. MxTypes' BY <3>3, Zenon
    <3>5. MxObjectsSound' BY Zenon DEF MxObjectsSound, MxUnused, MxBalanced
    <3>6. MxUnused' BY Zenon DEF MxObjectsSound, MxUnused, MxAlone
    <3>7. MxAlone' BY Zenon DEF MxUnused, MxAlone, MxBalanced
    <3>8. MxLocking' BY Zenon DEF MxObjectsSound, MxUnused, MxLocking, MxBalanced
    <3>9. MxBalanced' BY Zenon DEF MxObjectsSound, MxUnused, MxAlone, MxBalanced
    <3>. QED BY <3>4, <3>5, <3>6, <3>7, <3>8, <3>9, Zenon DEF MxInv
  <2>. QED BY <2>1, <2>2, Zenon
<1>15. ASSUME NEW t \in MxThreads, NEW d \in MxDeadlines, MutexTimedlock(t, d) PROVE MxInv'
  <2>0. /\ mxPc[t] = "out" /\ Quiet /\ mxPtr # 0
        /\ mxHeld[t] = 0 \/ (mxKind = "RECURSIVE" /\ mxHeld[t] <= MxDepth)
        /\ mxArg' = [mxArg EXCEPT ![t] = mxPtr] /\ mxPc' = [mxPc EXCEPT ![t] = "timed"]
        /\ UNCHANGED <<mxObject, mxOwner, mxNest, mxHeld>>
    BY <1>15, Zenon DEF MutexTimedlock, MxGoto, MxCareful
  <2> USE <1>0 DEF Quiet, MxInv, MxTypes, MxPcs, MxIds, mxObject
  <2>1. MxTypes' BY <2>0, Zenon
  <2>2. MxObjectsSound' BY <2>0, Zenon DEF MxObjectsSound
  <2>3. MxUnused' BY <2>0, ZenonT(30) DEF MxUnused, MxAlone
  <2>4. MxAlone' BY <2>0, ZenonT(30) DEF MxUnused, MxAlone
  <2>5. MxLocking' BY <2>0, Zenon DEF MxUnused, MxLocking
  <2>6. MxBalanced' BY <2>0, Zenon DEF MxBalanced
  <2>. QED BY <2>1, <2>2, <2>3, <2>4, <2>5, <2>6, Zenon DEF MxInv
<1>16. ASSUME NEW t \in MxThreads, NEW k \in MxKinds, MutexInit(t, k) PROVE MxInv'
  <2> USE <1>16 DEF MutexInit, NewMutex, Recursive, MxInv, MxTypes, MxPcs, MxIds,
             mxObject, mxClock, MxGoto
  <2>1. MxTypes' BY SMTT(30) DEF MxObjectsSound, MxUnused
  <2>2. MxObjectsSound' BY SMTT(30) DEF MxObjectsSound, MxUnused, MxBalanced
  <2>3. MxUnused' BY Zenon DEF MxObjectsSound, MxUnused, MxAlone
  <2>4. MxAlone' BY Zenon DEF MxUnused, MxAlone, MxBalanced
  <2>5. MxLocking' BY Zenon DEF MxObjectsSound, MxUnused, MxLocking, MxBalanced
  <2>6. MxBalanced' BY SMTT(30) DEF MxObjectsSound, MxUnused, MxAlone, MxBalanced
  <2>. QED BY <2>1, <2>2, <2>3, <2>4, <2>5, <2>6, Zenon
<1>17. CASE MxTimerFires
  BY <1>17, ZenonT(30) DEF MxTimerFires,
         MxInv, MxTypes, MxPcs, MxObjectsSound, MxUnused, MxAlone, MxLocking, MxBalanced, MxIds,
         mxObject, mxClock, MxGoto
<1>18. CASE UNCHANGED mxVars
  <2> USE <1>18 DEF mxVars, MxInv, MxTypes
  <2>1. MxTypes' BY Zenon
  <2>2. MxObjectsSound' BY Zenon DEF MxObjectsSound
  <2>3. MxUnused' BY Zenon DEF MxUnused
  <2>4. MxAlone' BY Zenon DEF MxAlone
  <2>5. MxLocking' BY Zenon DEF MxLocking
  <2>6. MxBalanced' BY Zenon DEF MxBalanced
  <2>. QED BY <2>1, <2>2, <2>3, <2>4, <2>5, <2>6, Zenon DEF MxInv
<1>. QED
  BY <1>1, <1>2, <1>3, <1>4, <1>5, <1>6, <1>7, <1>8, <1>9, <1>10, <1>11, <1>12, <1>13, <1>14,
     <1>15, <1>16, <1>17, <1>18, Zenon DEF MxNext, MxStep

\* The invariant holds throughout if first uses and destructions are not raced.
LEMMA MxInvariant == ASSUME MxCareful PROVE MxSpec => []MxInv
<1>1. MxInit => MxInv BY MxInvInit, Zenon
<1>2. MxInv /\ [MxNext]_mxVars => MxInv' BY MxInvNext, Zenon
<1>. QED BY <1>1, <1>2, PTL DEF MxSpec

\* Of any number of threads that lock, try, wait with a deadline, unlock and
\* destroy, at most one holds the mutex (pthread_mutex_lock.c, trylock, timedlock).
THEOREM MxExclusiveHolds == ASSUME MxCareful PROVE MxSpec => []MxExclusive
<1>1. MxInv => MxExclusive
  BY MxPtrIsId, SMTT(30) DEF MxInv, MxTypes, MxUnused, MxBalanced, MxExclusive
<1>. QED BY <1>1, MxInvariant, PTL

\* The depth of the exec mutex is the number of locks its owner has not undone.
THEOREM MxBalancedHolds == ASSUME MxCareful PROVE MxSpec => []MxBalanced
<1>1. MxInv => MxBalanced BY Zenon DEF MxInv
<1>. QED BY <1>1, MxInvariant, PTL

\* A thread that locks a recursive or error-checking mutex again does not wait
\* for itself.
THEOREM MxNoSelfWaitHolds == ASSUME MxCareful PROVE MxSpec => []MxNoSelfWait
<1>1. MxInv => MxNoSelfWait
  BY SMTT(30) DEF MxInv, MxTypes, MxUnused, MxLocking, MxNoSelfWait
<1>. QED BY <1>1, MxInvariant, PTL

\* pthread_mutex_destroy leaves every exec mutex that is held or waited for.
THEOREM MxNoFreedInUseHolds == ASSUME MxCareful PROVE MxSpec => []MxNoFreedInUse
<1>1. MxInv => MxNoFreedInUse
  <2> SUFFICES ASSUME MxInv PROVE MxNoFreedInUse OBVIOUS
  <2>1. mxPtr # 0 => mxPtr \in mxLive BY Zenon DEF MxInv, MxObjectsSound
  <2>2. ASSUME NEW t \in MxThreads PROVE mxHeld[t] > 0 => mxPtr # 0
    BY MxAssumption, SMT DEF MxInv, MxUnused
  <2>3. ASSUME NEW t \in MxThreads PROVE mxArg[t] # 0 => mxArg[t] \in mxLive
    BY <2>1, Zenon DEF MxInv, MxUnused
  <2>4. ASSUME NEW t \in MxThreads PROVE mxPc[t] # "crashed"
    BY SMT DEF MxInv, MxTypes, MxPcs
  <2>. QED BY <2>1, <2>2, <2>3, <2>4, Zenon DEF MxNoFreedInUse
<1>. QED BY <1>1, MxInvariant, PTL

\* What the four theorems say together: the mutex of pthread_mutex_lock.c and
\* its siblings excludes, counts, detects its owner and is not freed in use.
THEOREM MxSoundHolds == ASSUME MxCareful PROVE MxSpec => []MxSound
BY MxExclusiveHolds, MxBalancedHolds, MxNoSelfWaitHolds, MxNoFreedInUseHolds, PTL DEF MxSound

-----------------------------------------------------------------------------
(***************************************************************************)
(* pthread_once, for any number of threads: the init routine completes at  *)
(* most once, no two threads are between the lock and the unlock, and who  *)
(* returns finds the routine completed.                                    *)
(***************************************************************************)

OncePCs == {"out", "spin", "locked", "routine", "done", "unlock", "returned", "dead"}

OnceTypes ==
    /\ started = -1
    /\ onceDone \in BOOLEAN
    /\ onceLock \in {0, 1}
    /\ oncePc \in [OnceThreads -> OncePCs]
    /\ onceRuns \in {0, 1}

\* The lock is held by the one thread inside.
OnceMutex ==
    \A t \in OnceThreads : Inside(t) =>
        onceLock = 1 /\ \A u \in OnceThreads : Inside(u) => u = t

\* onceDone lags behind the routine's end only while a thread is at "done", and
\* a thread behind the test of onceDone has its answer still hold.
OnceProgress ==
    /\ onceDone => onceRuns = 1
    /\ onceRuns = 1 => onceDone \/ \E t \in OnceThreads : oncePc[t] = "done"
    /\ \A t \in OnceThreads :
         /\ oncePc[t] = "routine" => onceRuns = 0
         /\ oncePc[t] \in {"done", "unlock", "returned"} => onceRuns = 1
         /\ oncePc[t] = "unlock" => onceDone

\* The inductive invariant.
OnceInv == OnceTypes /\ OnceMutex /\ OnceProgress

\* The state OnceInit describes satisfies the inductive invariant.
LEMMA OnceInvInit == OnceInit => OnceInv
<1> SUFFICES ASSUME OnceInit PROVE OnceInv
  BY Zenon
<1>1. OnceTypes
  BY Zenon DEF OnceInit, OnceTypes, OncePCs, PTHREAD_ONCE_INIT
<1>2. \A t \in OnceThreads : oncePc[t] = "out"
  BY Zenon DEF OnceInit
<1>3. OnceMutex
  BY <1>2, Zenon DEF OnceMutex, Inside
<1>4. OnceProgress
  BY <1>2 DEF OnceInit, OnceProgress
<1> QED
  BY <1>1, <1>3, <1>4, Zenon DEF OnceInv

\* Every step of every thread preserves it.
LEMMA OnceInvNext == OnceInv /\ [OnceNext]_onceVars => OnceInv'
<1> SUFFICES ASSUME OnceInv, [OnceNext]_onceVars PROVE OnceInv'
  BY Zenon
<1> USE DEF OnceInv, OnceTypes, OnceMutex, OnceProgress, Inside, OncePCs, OnceGoto
<1>1. CASE UNCHANGED onceVars
  BY <1>1, Zenon DEF onceVars
<1>2. ASSUME NEW t \in OnceThreads, OnceCall(t) PROVE OnceInv'
  BY <1>2, SMTT(30) DEF OnceCall
<1>3. ASSUME NEW t \in OnceThreads, OnceSpin(t) PROVE OnceInv'
  BY <1>3, SMTT(30) DEF OnceSpin
<1>4. ASSUME NEW t \in OnceThreads, OnceTest(t) PROVE OnceInv'
  BY <1>4, Zenon DEF OnceTest, OnceSkips
<1>5. ASSUME NEW t \in OnceThreads, OnceRoutine(t) PROVE OnceInv'
  BY <1>5, SMTT(30) DEF OnceRoutine
<1>6. ASSUME NEW t \in OnceThreads, OnceCancel(t) PROVE OnceInv'
  BY <1>6, Zenon DEF OnceCancel, OnceCleanup
<1>7. ASSUME NEW t \in OnceThreads, OnceDone(t) PROVE OnceInv'
  BY <1>7, Zenon DEF OnceDone
<1>8. ASSUME NEW t \in OnceThreads, OnceUnlock(t) PROVE OnceInv'
  BY <1>8, Zenon DEF OnceUnlock
<1> QED
  BY <1>1, <1>2, <1>3, <1>4, <1>5, <1>6, <1>7, <1>8, Zenon DEF OnceNext, OnceStep

\* The invariant of pthread_once holds throughout.
LEMMA OnceInvariant == OnceSpec => []OnceInv
BY OnceInvInit, OnceInvNext, PTL DEF OnceSpec

\* pthread_once runs the init routine to its end at most once, and never in two
\* threads at a time, cancellations of the routine included.
THEOREM OnceOnlyHolds == OnceSpec => []OnceOnly
<1>1. OnceInv => OnceOnly
  BY DEF OnceInv, OnceTypes, OnceMutex, OnceOnly
<1> QED
  BY <1>1, OnceInvariant, PTL

\* No call of pthread_once returns before the init routine has completed.
THEOREM OnceReadyHolds == OnceSpec => []OnceReady
<1>1. OnceInv => OnceReady
  BY Zenon DEF OnceInv, OnceProgress, OnceReady
<1> QED
  BY <1>1, OnceInvariant, PTL

\* pthread_once: the routine runs once, and before any call returns.
THEOREM OnceSafeHolds == OnceSpec => []OnceSafe
BY OnceOnlyHolds, OnceReadyHolds, PTL DEF OnceSafe

-----------------------------------------------------------------------------
(***************************************************************************)
(* Proofs about module TlsKeys, for any number of threads, keys and        *)
(* iterations: no thread or destructor sees a value set for another key    *)
(* (if clients reset the values of the keys they delete), and a thread     *)
(* that ends within its iterations leaves no value to destroy.             *)
(***************************************************************************)

TkTypes ==
    /\ tlskeys \in [Keys -> [used : BOOLEAN, destructor : BOOLEAN, made : Nat]]
    /\ tkMade \in Nat
    /\ tlsvalues \in [TkThreads -> [Keys -> Nat]]
    /\ tkPc \in [TkThreads -> {"run", "scan", "dtor", "ended"}]
    /\ tkScan \in [TkThreads -> [j : Nat, i : Nat, keyFound : BOOLEAN]]

\* A free key has no values: the place can be given to another key.
TkFreeEmpty ==
    \A t \in TkThreads, k \in Keys : ~tlskeys[k].used => tlsvalues[t][k] = 0

TkValues == KeyOwnValues /\ TkFreeEmpty

\* The destructor loop is inside tls_sem, which keeps other threads from
\* creating or deleting keys behind it.
TkOwned == \A t \in TkThreads : tkPc[t] \in {"scan", "dtor"} => tls_sem = t

\* As long as a pass has found nothing, the keys behind it have no value that
\* their destructor should see.
TkScanned ==
    \A t \in TkThreads :
      /\ tkScan[t].i >= 1 /\ tkScan[t].j < PTHREAD_DESTRUCTOR_ITERATIONS
      /\ tkPc[t] = "run" => tkScan[t].i = 1
      /\ tkPc[t] = "dtor" => tkScan[t].keyFound
      /\ tkPc[t] = "scan" /\ ~tkScan[t].keyFound =>
           \A k \in Keys : k < tkScan[t].i => ~Destroys(t, k)

TkInv == TkTypes /\ TkOwned /\ TkScanned

-----------------------------------------------------------------------------
\* What is below the next number.
LEMMA NatBelowNext == \A a, b \in Nat : a < b + 1 => a < b \/ a = b
  OBVIOUS

\* Keys, values and places have their types throughout.
LEMMA TkTypesHold == TkSpec => []TkTypes
<1> USE TkAssumption
<1>1. TkInit => TkTypes BY SMTT(30) DEF TkInit, TkTypes, Start, Keys
<1>2. TkTypes /\ [TkNext]_tkVars => TkTypes'
  <2> SUFFICES ASSUME TkTypes, [TkNext]_tkVars PROVE TkTypes' BY Zenon
  <2> USE DEF TkTypes
  <2>1. ASSUME NEW t \in TkThreads, ExitLock(t) PROVE TkTypes' BY <2>1, Zenon DEF ExitLock
  <2>2. ASSUME NEW t \in TkThreads, ExitKey(t) PROVE TkTypes'
    <3>0. tkScan[t].i \in Keys /\ tkScan[t].i + 1 \in Nat BY <2>2 DEF ExitKey
    <3>1. CASE Destroys(t, tkScan[t].i)
      <4>1. /\ tlsvalues' = [tlsvalues EXCEPT ![t][tkScan[t].i] = 0]
            /\ tkPc' = [tkPc EXCEPT ![t] = "dtor"]
            /\ tkScan' = [tkScan EXCEPT ![t].keyFound = TRUE]
            /\ UNCHANGED <<tlskeys, tkMade>>
        BY <2>2, <3>1, Zenon DEF ExitKey
      <4>. QED BY <4>1, Zenon
    <3>2. CASE ~Destroys(t, tkScan[t].i)
      <4>1. /\ tkScan' = [tkScan EXCEPT ![t].i = tkScan[t].i + 1]
            /\ UNCHANGED <<tlskeys, tkMade, tlsvalues, tkPc>>
        BY <2>2, <3>2, Zenon DEF ExitKey
      <4>. QED BY <3>0, <4>1, Zenon
    <3>. QED BY <3>1, <3>2, Zenon
  <2>3. ASSUME NEW t \in TkThreads, DestructorReturns(t) PROVE TkTypes'
    <3>1. tkScan' \in [TkThreads -> [j : Nat, i : Nat, keyFound : BOOLEAN]]
      BY <2>3, SMTT(30) DEF DestructorReturns, NextKey
    <3>2. tkPc' \in [TkThreads -> {"run", "scan", "dtor", "ended"}]
      BY <2>3, Zenon DEF DestructorReturns
    <3>. QED BY <2>3, <3>1, <3>2, Zenon DEF DestructorReturns
  <2>4. ASSUME NEW t \in TkThreads, ExitScanned(t) PROVE TkTypes'
    <3>1. tkScan' \in [TkThreads -> [j : Nat, i : Nat, keyFound : BOOLEAN]]
    <4>1. \/ tkScan' = [tkScan EXCEPT ![t] = [j |-> tkScan[t].j + 1, i |-> 1, keyFound |-> FALSE]]
          \/ tkScan' = tkScan
      BY <2>4, Zenon DEF ExitScanned, Start
    <4>2. [j |-> tkScan[t].j + 1, i |-> 1, keyFound |-> FALSE]
             \in [j : Nat, i : Nat, keyFound : BOOLEAN]
      OBVIOUS
    <4>. QED BY <4>1, <4>2, Zenon
    <3>2. tkPc' \in [TkThreads -> {"run", "scan", "dtor", "ended"}]
      BY <2>4, Zenon DEF ExitScanned
    <3>. QED BY <2>4, <3>1, <3>2, Zenon DEF ExitScanned
  <2>5. ASSUME NEW t \in TkThreads, NEW d \in BOOLEAN, KeyCreate(t, d) PROVE TkTypes'
    BY <2>5, SMTT(30) DEF KeyCreate, FreeKeys
  <2>6. ASSUME NEW t \in TkThreads, NEW k \in Keys, KeyDelete(t, k) PROVE TkTypes'
    <3>1. tlskeys' = [[tlskeys EXCEPT ![k].used = FALSE] EXCEPT ![k].destructor = FALSE]
      BY <2>6, Zenon DEF KeyDelete
    <3>2. [tlskeys EXCEPT ![k].used = FALSE] \in [Keys -> [used : BOOLEAN, destructor : BOOLEAN, made : Nat]]
      BY ZenonT(30)
    <3>3. tlskeys' \in [Keys -> [used : BOOLEAN, destructor : BOOLEAN, made : Nat]]
      BY <3>1, <3>2, ZenonT(30)
    <3>. QED BY <2>6, <3>3, Zenon DEF KeyDelete
  <2>7. ASSUME NEW t \in TkThreads, NEW k \in Keys, NEW null \in BOOLEAN, SetSpecific(t, k, null)
        PROVE TkTypes'
    BY <2>7, Zenon DEF SetSpecific
  <2>8. CASE UNCHANGED tkVars BY <2>8, Zenon DEF tkVars
  <2>. QED BY <2>1, <2>2, <2>3, <2>4, <2>5, <2>6, <2>7, <2>8, SMTT(30) DEF TkNext, TkExit
<1>. QED BY <1>1, <1>2, PTL DEF TkSpec

\* pthread_key_create takes only free keys, which have no values, and
\* pthread_setspecific marks a value with the key it finds.
LEMMA TkValuesNext ==
  ASSUME ~TkStaleDelete, TkTypes, TkTypes', TkValues, [TkNext]_tkVars PROVE TkValues'
<1> USE DEF TkValues, KeyOwnValues, TkFreeEmpty, TkTypes
<1>1. ASSUME NEW t \in TkThreads, ExitLock(t) PROVE TkValues' BY <1>1, Zenon DEF ExitLock
<1>2. ASSUME NEW t \in TkThreads, ExitKey(t) PROVE TkValues'
  <2>1. tlskeys' = tlskeys BY <1>2, Zenon DEF ExitKey
  <2>2. \A u \in TkThreads, k \in Keys : tlsvalues'[u][k] \in {0, tlsvalues[u][k]}
    BY <1>2, SMTT(30) DEF ExitKey
  <2>. QED BY <2>1, <2>2, SMTT(30)
<1>3. ASSUME NEW t \in TkThreads, DestructorReturns(t) PROVE TkValues'
  BY <1>3, Zenon DEF DestructorReturns
<1>4. ASSUME NEW t \in TkThreads, ExitScanned(t) PROVE TkValues' BY <1>4, Zenon DEF ExitScanned
<1>5. ASSUME NEW t \in TkThreads, NEW d \in BOOLEAN, KeyCreate(t, d) PROVE TkValues'
  BY <1>5, SMTT(30) DEF KeyCreate, FreeKeys
<1>6. ASSUME NEW t \in TkThreads, NEW k \in Keys, KeyDelete(t, k) PROVE TkValues'
  BY <1>6, ZenonT(30) DEF KeyDelete
<1>7. ASSUME NEW t \in TkThreads, NEW k \in Keys, NEW null \in BOOLEAN, SetSpecific(t, k, null)
      PROVE TkValues'
  BY <1>7, ZenonT(30) DEF SetSpecific
<1>8. CASE UNCHANGED tkVars BY <1>8, Zenon DEF tkVars
<1> HIDE DEF TkValues, KeyOwnValues, TkFreeEmpty, TkTypes
<1>. QED BY <1>1, <1>2, <1>3, <1>4, <1>5, <1>6, <1>7, <1>8, Zenon DEF TkNext, TkExit

\* A value a thread reads or a destructor gets was set for that very key.
THEOREM KeyOwnValuesHolds == ASSUME ~TkStaleDelete PROVE TkSpec => []KeyOwnValues
<1>1. TkInit => TkValues BY DEF TkInit, TkValues, KeyOwnValues, TkFreeEmpty
<1>2. TkTypes /\ TkTypes' /\ TkValues /\ [TkNext]_tkVars => TkValues' BY TkValuesNext, Zenon
<1>3. TkValues => KeyOwnValues BY Zenon DEF TkValues
<1>. QED BY <1>1, <1>2, <1>3, TkTypesHold, PTL DEF TkSpec

-----------------------------------------------------------------------------
\* One pass of the loop loses nothing: what a destructor sets behind the pass
\* makes for another pass, and no other thread changes the keys meanwhile.
LEMMA TkInvNext == ASSUME TkTypes', TkInv, [TkNext]_tkVars PROVE TkInv'
<1> USE TkAssumption DEF TkInv, TkTypes, TkOwned, TkScanned, Destroys
<1>0. \A k \in Keys : k \in Nat /\ k >= 1 BY SMTT(30) DEF Keys
<1>1. ASSUME NEW t \in TkThreads, ExitLock(t) PROVE TkInv'
  <2>1. /\ tls_sem = TkNone /\ tls_sem' = t /\ tkPc[t] = "run"
        /\ tkPc' = [tkPc EXCEPT ![t] = "scan"]
        /\ UNCHANGED <<tlskeys, tkMade, tlsvalues, tkScan>>
    BY <1>1, Zenon DEF ExitLock
  <2>2. TkOwned' BY <2>1, Zenon
  <2>3. TkScanned' BY <1>0, <2>1, SMTT(30)
  <2>. QED BY <2>2, <2>3, Zenon
<1>2. ASSUME NEW t \in TkThreads, ExitKey(t) PROVE TkInv'
  <2>0. tkPc[t] = "scan" /\ tkScan[t].i \in Keys /\ UNCHANGED <<tlskeys, tls_sem>>
    BY <1>2, Zenon DEF ExitKey
  <2>1. CASE Destroys(t, tkScan[t].i)
    <3>1. /\ tlsvalues' = [tlsvalues EXCEPT ![t][tkScan[t].i] = 0]
          /\ tkPc' = [tkPc EXCEPT ![t] = "dtor"]
          /\ tkScan' = [tkScan EXCEPT ![t].keyFound = TRUE]
      BY <1>2, <2>1, Zenon DEF ExitKey
    <3>2. TkOwned' BY <2>0, <3>1, Zenon
    <3>3. TkScanned' BY <1>0, <2>0, <3>1
    <3>. QED BY <3>2, <3>3, Zenon
  <2>2. CASE ~Destroys(t, tkScan[t].i)
    <3>1. /\ tkScan' = [tkScan EXCEPT ![t].i = tkScan[t].i + 1]
          /\ UNCHANGED <<tlsvalues, tkPc>>
      BY <1>2, <2>2, Zenon DEF ExitKey
    <3>2. TkOwned' BY <2>0, <3>1, Zenon
    <3>4. ASSUME ~tkScan[t].keyFound, NEW k \in Keys, k < tkScan[t].i + 1 PROVE ~Destroys(t, k)
      <4>0. k \in Nat /\ tkScan[t].i \in Nat BY <1>0, <2>0, Zenon
      <4>1. k < tkScan[t].i \/ k = tkScan[t].i BY <3>4, <4>0, NatBelowNext, Zenon
      <4>. QED BY <2>0, <2>2, <3>4, <4>1, Zenon
    <3>5. \A u \in TkThreads : tkScan'[u].keyFound = tkScan[u].keyFound /\ tkScan'[u].j = tkScan[u].j
      BY <3>1
    <3>6. tkScan'[t].i = tkScan[t].i + 1 /\ \A u \in TkThreads \ {t} : tkScan'[u] = tkScan[u]
      BY <3>1
    <3>3. TkScanned'
      <4> SUFFICES ASSUME NEW u \in TkThreads PROVE TkScanned!(u)'
        BY Zenon
      <4>1. CASE u = t BY <1>0, <2>0, <3>1, <3>4, <3>5, <3>6, <4>1
      <4>2. CASE u # t BY <2>0, <3>1, <3>6, <4>2, ZenonT(30)
      <4>. QED BY <4>1, <4>2, Zenon
    <3>. QED BY <3>2, <3>3, Zenon
  <2>. QED BY <2>1, <2>2, Zenon
<1>3. ASSUME NEW t \in TkThreads, DestructorReturns(t) PROVE TkInv'
  BY <1>3 DEF DestructorReturns, NextKey
<1>4. ASSUME NEW t \in TkThreads, ExitScanned(t) PROVE TkInv'
  <2>0. tkPc[t] = "scan" /\ UNCHANGED <<tlskeys, tlsvalues>> BY <1>4, Zenon DEF ExitScanned
  <2>1. CASE ScansAgain(tkScan[t])
    <3>1. /\ tkScan' = [tkScan EXCEPT ![t] = [j |-> tkScan[t].j + 1, i |-> 1, keyFound |-> FALSE]]
          /\ UNCHANGED <<tls_sem, tkPc>>
      BY <1>4, <2>1, Zenon DEF ExitScanned, Start
    <3>2. tkScan[t].j + 1 < PTHREAD_DESTRUCTOR_ITERATIONS BY <2>1, Zenon DEF ScansAgain
    <3>3. TkOwned' BY <3>1, Zenon
    <3>4. TkScanned' BY <1>0, <2>0, <3>1, <3>2, SMTT(30)
    <3>. QED BY <3>3, <3>4, Zenon
  <2>2. CASE ~ScansAgain(tkScan[t])
    <3>1. /\ tls_sem' = TkNone /\ tkPc' = [tkPc EXCEPT ![t] = "ended"] /\ tkScan' = tkScan
      BY <1>4, <2>2, Zenon DEF ExitScanned
    <3>2. TkOwned' BY <2>0, <3>1, Zenon
    <3>3. TkScanned' BY <2>0, <3>1, Zenon
    <3>. QED BY <3>2, <3>3, Zenon
  <2>. QED BY <2>1, <2>2, Zenon
<1>5. ASSUME NEW t \in TkThreads, NEW d \in BOOLEAN, KeyCreate(t, d) PROVE TkInv'
  BY <1>5, SMTT(30) DEF KeyCreate, FreeKeys, MayLock, Runs
<1>6. ASSUME NEW t \in TkThreads, NEW k \in Keys, KeyDelete(t, k) PROVE TkInv'
  BY <1>6 DEF KeyDelete, MayLock, Runs
<1>7. ASSUME NEW t \in TkThreads, NEW k \in Keys, NEW null \in BOOLEAN, SetSpecific(t, k, null)
      PROVE TkInv'
  BY <1>7, Zenon DEF SetSpecific, Runs
<1>8. CASE UNCHANGED tkVars
  <2>1. UNCHANGED <<tlskeys, tls_sem, tlsvalues, tkPc, tkScan, tkMade>> BY <1>8, Zenon DEF tkVars
  <2>2. TkOwned' BY <2>1, Zenon
  <2>3. TkScanned' BY <2>1, Zenon
  <2>. QED BY <2>2, <2>3, Zenon
<1> HIDE DEF TkInv, TkTypes, TkOwned, TkScanned, Destroys
<1>. QED BY <1>1, <1>2, <1>3, <1>4, <1>5, <1>6, <1>7, <1>8, Zenon DEF TkNext, TkExit

\* A thread that ends before its last iteration leaves no value that a
\* destructor should have seen.
THEOREM KeysDestroyedHolds == TkSpec => KeysDestroyed
<1> USE TkAssumption
<1>1. TkInit => TkInv
  <2>1. TkInit => TkTypes BY SMTT(30) DEF TkInit, TkTypes, Start, Keys
  <2>2. TkInit => TkOwned /\ TkScanned
    BY SMTT(30) DEF TkInit, TkOwned, TkScanned, Start
  <2>. QED BY <2>1, <2>2, Zenon DEF TkInv
<1>2. TkTypes' /\ TkInv /\ [TkNext]_tkVars => TkInv' BY TkInvNext, Zenon
<1>3. TkInv /\ [TkNext]_tkVars =>
        [\A t \in TkThreads :
           tkPc[t] = "scan" /\ tkPc'[t] = "ended" =>
             \/ tkScan[t].j = PTHREAD_DESTRUCTOR_ITERATIONS - 1
             \/ \A k \in Keys : ~Destroys(t, k)]_tkVars
  <2> SUFFICES ASSUME TkInv, TkNext, NEW t \in TkThreads,
                      tkPc[t] = "scan", tkPc'[t] = "ended",
                      tkScan[t].j # PTHREAD_DESTRUCTOR_ITERATIONS - 1,
                      NEW k \in Keys
               PROVE  ~Destroys(t, k)
    BY Zenon
  <2>1. ExitScanned(t) /\ ~ScansAgain(tkScan[t])
    BY Zenon DEF TkInv, TkTypes, TkNext, TkExit, ExitLock, ExitKey, DestructorReturns, ExitScanned,
           KeyCreate, KeyDelete, SetSpecific
  <2>2. ~tkScan[t].keyFound
    BY <2>1, SMTT(30) DEF ScansAgain, TkInv, TkTypes, TkScanned
  <2>3. tkScan[t].i \notin Keys BY <2>1, Zenon DEF ExitScanned
  <2>4. k < tkScan[t].i BY <2>3, SMTT(30) DEF Keys, TkInv, TkTypes, TkScanned
  <2>. QED BY <2>2, <2>4, Zenon DEF TkInv, TkScanned
<1>. QED BY <1>1, <1>2, <1>3, TkTypesHold, PTL DEF TkSpec, KeysDestroyed
=============================================================================
