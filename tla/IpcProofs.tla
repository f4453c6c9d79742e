------------------------------ MODULE IpcProofs ------------------------------
EXTENDS SysVShm, SysVMsg, Sums

(***************************************************************************)
(* Proofs about shared memory segments, for any number of processes, keys, *)
(* sizes and attachments, if a process detaches what it has attached, and  *)
(* outlives the segments it has made, before it ends (ShmExits = {}).      *)
(***************************************************************************)

ShmObj == [amp : 1..ShmMaxSegs, key : ShmKeys, segsz : ShmSizes, nattach : Nat,
           deleteMe : BOOLEAN, clear : BOOLEAN, data : {"junk", "zero", "user"}]

\* The live slots of a table of segments, their bytes, and how often an address
\* is attached.
LiveOf(tab) == {i \in 1..Len(tab) : tab[i] # NoObj}
BytesOf(tab) == SumOf([i \in LiveOf(tab) |-> tab[i].segsz], LiveOf(tab))
UsersOf(held, a) == SumOf([p \in ShmProcs |-> held[p][a]], ShmProcs)

Holdings == [ShmProcs -> [1..ShmMaxSegs -> Nat]]

\* An empty place in the map is no segment.
LEMMA NoObjApart == NoObj \notin ShmObj
BY DEF NoObj, ShmObj

\* Segments have a size.
LEMMA ObjSize ==
    ASSUME NEW o \in ShmObj
    PROVE  o.segsz \in Nat
<1>1. o.segsz \in ShmSizes
  BY Zenon DEF ShmObj
<1>2. ShmSizes \subseteq Nat
  BY ShmAssumption, Zenon
<1> QED BY <1>1, <1>2, Zenon

\* There are finitely many segments.
LEMMA LiveFinite ==
    ASSUME NEW tab \in Seq(ShmObj \cup {NoObj})
    PROVE  /\ IsFiniteSet(LiveOf(tab))
           /\ \A i \in LiveOf(tab) : tab[i] \in ShmObj /\ i \in DOMAIN tab
<1>1. IsFiniteSet(1..Len(tab)) /\ LiveOf(tab) \subseteq 1..Len(tab)
  BY FS_Interval DEF LiveOf
<1>2. IsFiniteSet(LiveOf(tab))
  BY <1>1, FS_Subset, Zenon
<1> QED BY <1>2 DEF LiveOf

\* The bytes of all segments.
LEMMA BytesInt ==
    ASSUME NEW tab \in Seq(ShmObj \cup {NoObj})
    PROVE  BytesOf(tab) \in Int /\ BytesOf(tab) >= 0
<1> DEFINE h == [i \in LiveOf(tab) |-> tab[i].segsz]
<1>1. \A i \in LiveOf(tab) : h[i] \in Nat
  BY LiveFinite, ObjSize, Zenon
<1>2. IsFiniteSet(LiveOf(tab))
  BY LiveFinite, Zenon
<1> HIDE DEF h
<1>3. SumOf(h, LiveOf(tab)) \in Int /\ SumOf(h, LiveOf(tab)) >= 0
  BY <1>1, <1>2, SumInt
<1> QED BY <1>3, Zenon DEF h, BytesOf

\* Two tables that differ in one more segment.
LEMMA OneMore ==
    ASSUME NEW tab \in Seq(ShmObj \cup {NoObj}), NEW tab2 \in Seq(ShmObj \cup {NoObj}),
           NEW n, n \notin LiveOf(tab), LiveOf(tab2) = LiveOf(tab) \cup {n},
           \A i \in LiveOf(tab) : tab2[i] = tab[i]
    PROVE  /\ Cardinality(LiveOf(tab2)) = Cardinality(LiveOf(tab)) + 1
           /\ Cardinality(LiveOf(tab)) \in Nat
           /\ BytesOf(tab2) = BytesOf(tab) + tab2[n].segsz
<1> DEFINE L == LiveOf(tab)
           M == LiveOf(tab2)
           h == [i \in L |-> tab[i].segsz]
           k == [i \in M |-> tab2[i].segsz]
<1>1. IsFiniteSet(L) /\ IsFiniteSet(M)
  BY LiveFinite, Zenon
<1>2. n \in M /\ M \ {n} = L
  BY Zenon
<1>3. \A i \in M : k[i] \in Nat
  BY LiveFinite, ObjSize, Zenon
<1>4. k[n] = tab2[n].segsz /\ \A i \in L : k[i] = h[i]
  BY <1>2, Zenon
<1>5. BytesOf(tab) = SumOf(h, L) /\ BytesOf(tab2) = SumOf(k, M)
  BY Zenon DEF BytesOf
<1>6. Cardinality(M) = Cardinality(L) + 1 /\ Cardinality(L) \in Nat
  BY <1>1, FS_AddElement, FS_CardinalityType, Zenon
<1> HIDE DEF h, k, L, M
<1>7. SumOf(k, M) = k[n] + SumOf(k, L)
  <2>1. \A i \in M : k[i] \in Int
    BY <1>3
  <2>2. SumOf(k, M) = k[n] + SumOf(k, M \ {n})
    BY <1>1, <1>2, <2>1, SumWithout
  <2> QED BY <1>2, <2>2, Zenon
<1>8. SumOf(k, L) = SumOf(h, L)
  BY <1>1, <1>4, SumSame, Zenon
<1>9. BytesOf(tab2) = BytesOf(tab) + k[n]
  <2>1. BytesOf(tab) \in Int /\ k[n] \in Nat
    BY <1>2, <1>3, BytesInt, Zenon
  <2> QED BY <1>5, <1>7, <1>8, <2>1
<1> QED BY <1>4, <1>6, <1>9, Zenon DEF L, M

\* A segment goes, or changes.
LEMMA SlotFreed ==
    ASSUME NEW tab \in Seq(ShmObj \cup {NoObj}), NEW n \in LiveOf(tab), NEW tab2,
           tab2 = [tab EXCEPT ![n] = NoObj]
    PROVE  /\ tab2 \in Seq(ShmObj \cup {NoObj})
           /\ LiveOf(tab2) = LiveOf(tab) \ {n}
           /\ \A i \in LiveOf(tab2) : tab2[i] = tab[i]
BY DEF LiveOf

\* They depend on the sizes only.
LEMMA SameBytes ==
    ASSUME NEW tab \in Seq(ShmObj \cup {NoObj}), NEW tab2 \in Seq(ShmObj \cup {NoObj}),
           LiveOf(tab2) = LiveOf(tab), \A i \in LiveOf(tab) : tab2[i].segsz = tab[i].segsz
    PROVE  BytesOf(tab2) = BytesOf(tab)
<1> [i \in LiveOf(tab2) |-> tab2[i].segsz] = [i \in LiveOf(tab) |-> tab[i].segsz]
  BY Zenon
<1> QED BY Zenon DEF BytesOf

\* One process attaches or detaches an address.
Moves(held, held2, p, a, d) ==
  /\ held \in Holdings /\ held2 \in Holdings
  /\ p \in ShmProcs /\ a \in 1..ShmMaxSegs /\ d \in Int /\ held2[p][a] = held[p][a] + d
  /\ \A q \in ShmProcs, b \in 1..ShmMaxSegs : (q # p \/ b # a) => held2[q][b] = held[q][b]

\* Attaching or detaching changes the count of one segment by one.
LEMMA UsersMove ==
    ASSUME NEW held, NEW held2, NEW p, NEW a, NEW d, Moves(held, held2, p, a, d)
    PROVE  \A b \in 1..ShmMaxSegs : UsersOf(held2, b) = UsersOf(held, b) + (IF b = a THEN d ELSE 0)
<1> USE DEF Moves
<1> SUFFICES ASSUME NEW b \in 1..ShmMaxSegs
             PROVE  UsersOf(held2, b) = UsersOf(held, b) + (IF b = a THEN d ELSE 0)
  BY Zenon
<1> DEFINE h == [q \in ShmProcs |-> held[q][b]]
           k == [q \in ShmProcs |-> held2[q][b]]
<1>1. \A q \in ShmProcs : h[q] \in Int /\ k[q] \in Int
  <2>1. \A q \in ShmProcs : held[q][b] \in Nat /\ held2[q][b] \in Nat
    BY Zenon DEF Holdings
  <2>2. \A q \in ShmProcs : h[q] \in Nat /\ k[q] \in Nat
    BY <2>1, Zenon
  <2> HIDE DEF h, k
  <2> QED BY <2>2
<1>2. \A q \in ShmProcs \ {p} : h[q] = k[q]
  BY Zenon
<1>3. k[p] - h[p] = IF b = a THEN d ELSE 0
  BY <1>1 DEF Holdings
<1>4. IsFiniteSet(ShmProcs)
  BY ShmAssumption, Zenon
<1>5. UsersOf(held, b) = SumOf(h, ShmProcs) /\ UsersOf(held2, b) = SumOf(k, ShmProcs)
  BY Zenon DEF UsersOf
<1> HIDE DEF h, k
<1>6. SumOf(k, ShmProcs) = SumOf(h, ShmProcs) + k[p] - h[p] /\ SumOf(h, ShmProcs) \in Int
  BY <1>1, <1>2, <1>4, SumChange, SumInt
<1> QED BY <1>1, <1>3, <1>5, <1>6, Zenon

\* An address is in use when a process has it attached.
LEMMA UsersHold ==
    ASSUME NEW held \in Holdings, NEW a \in 1..ShmMaxSegs
    PROVE  /\ UsersOf(held, a) \in Nat
           /\ UsersOf(held, a) > 0 <=> \E p \in ShmProcs : held[p][a] > 0
<1> DEFINE h == [q \in ShmProcs |-> held[q][a]]
<1>1. \A q \in ShmProcs : h[q] = held[q][a] /\ h[q] \in Nat
  BY Zenon DEF Holdings
<1>2. IsFiniteSet(ShmProcs)
  BY ShmAssumption, Zenon
<1>3. UsersOf(held, a) = SumOf(h, ShmProcs)
  BY Zenon DEF UsersOf
<1> HIDE DEF h
<1>4. \A S \in SUBSET ShmProcs : SumOf(h, S) \in Nat
  <2> SUFFICES ASSUME NEW S \in SUBSET ShmProcs PROVE SumOf(h, S) \in Nat
    BY Zenon
  <2>1. IsFiniteSet(S) /\ \A q \in S : h[q] \in Int /\ h[q] >= 0
    BY <1>1, <1>2, FS_Subset
  <2>2. SumOf(h, S) \in Int /\ SumOf(h, S) >= 0
    BY <2>1, SumInt, Zenon
  <2> QED BY <2>2
<1>5. ASSUME NEW p \in ShmProcs, held[p][a] > 0 PROVE UsersOf(held, a) > 0
  <2>1. SumOf(h, ShmProcs) = h[p] + SumOf(h, ShmProcs \ {p})
    <3>1. \A q \in ShmProcs : h[q] \in Int
      BY <1>1
    <3> QED BY <1>2, <3>1, SumWithout
  <2>2. h[p] \in Nat /\ h[p] > 0 /\ SumOf(h, ShmProcs \ {p}) \in Nat
    BY <1>1, <1>4, <1>5, Zenon
  <2> QED BY <1>3, <2>1, <2>2
<1>6. ASSUME ~ \E p \in ShmProcs : held[p][a] > 0 PROVE UsersOf(held, a) = 0
  <2>1. \A q \in ShmProcs : h[q] = 0
    BY <1>1, <1>6
  <2> QED BY <1>2, <1>3, <2>1, SumZero, Zenon
<1> QED BY <1>3, <1>4, <1>5, <1>6

-----------------------------------------------------------------------------

\* The inductive invariant.  A segment that is attached has been cleared, so no
\* later attachment clears it again; totshm stays below shmmax since the first
\* segment, although it is not lowered when IPC_RMID removes one.
ShmInd ==
  /\ shmObjv \in Seq(ShmObj \cup {NoObj})
  /\ shmMade \in 0..ShmMaxSegs
  /\ shmHeld \in [ShmProcs -> [1..ShmMaxSegs -> 0..ShmMaxAttach]]
  /\ shmUsed = Cardinality(LiveOf(shmObjv))
  /\ shmTot \in Int /\ BytesOf(shmObjv) <= shmTot
  /\ shmMade > 0 => shmTot < ShmMax
  /\ \A i \in LiveOf(shmObjv) : LET o == shmObjv[i] IN
       /\ o.amp <= shmMade
       /\ o.nattach = UsersOf(shmHeld, o.amp)
       /\ o.deleteMe => o.nattach > 0
       /\ o.clear => o.nattach = 0 /\ o.data # "user"
       /\ \A j \in LiveOf(shmObjv) \ {i} :
            /\ shmObjv[j].amp # o.amp
            /\ shmObjv[j].key = o.key => o.key = IpcPrivate
  /\ \A p \in ShmProcs, a \in 1..ShmMaxSegs :
       shmHeld[p][a] > 0 => \E i \in LiveOf(shmObjv) : shmObjv[i].amp = a

\* An empty map.
LEMMA ShmIndInit == ShmInit => ShmInd
<1> SUFFICES ASSUME ShmInit PROVE ShmInd
  BY Zenon
<1>1. LiveOf(shmObjv) = {} /\ shmObjv \in Seq(ShmObj \cup {NoObj})
  BY DEF ShmInit, LiveOf
<1>2. Cardinality(LiveOf(shmObjv)) = 0
  BY <1>1, FS_EmptySet, Zenon
<1>3. BytesOf(shmObjv) = 0
  BY <1>1, FS_EmptySet, SumFirst, Zenon DEF BytesOf
<1>4. shmMade \in 0..ShmMaxSegs /\ shmMade = 0 /\ shmTot = 0 /\ shmUsed = 0
  BY ShmAssumption DEF ShmInit
<1>5. /\ shmHeld \in [ShmProcs -> [1..ShmMaxSegs -> 0..ShmMaxAttach]]
      /\ \A p \in ShmProcs, a \in 1..ShmMaxSegs : shmHeld[p][a] = 0
  BY ShmAssumption DEF ShmInit, NoneHeld
<1> QED BY <1>1, <1>2, <1>3, <1>4, <1>5 DEF ShmInd

\* Who has what attached, how often.
LEMMA ShmHoldings == ShmInd => shmHeld \in Holdings
<1>1. 0..ShmMaxAttach \subseteq Nat
  OBVIOUS
<1> QED BY <1>1 DEF ShmInd, Holdings

\* shmget puts the segment where no other is.
LEMMA NewSlotFree ==
    ASSUME ShmInd, NEW key \in ShmKeys
    PROVE  NewSlot(key) \in 1..(Len(shmObjv) + 1) /\ NewSlot(key) \notin LiveOf(shmObjv)
<1> DEFINE free == {i \in 1..Len(shmObjv) : key # IpcPrivate /\ shmObjv[i] = NoObj}
<1>1. NewSlot(key) = IF free = {} THEN Len(shmObjv) + 1 ELSE Min(free)
  BY Zenon DEF NewSlot
<1>2. Len(shmObjv) \in Nat
  BY DEF ShmInd
<1>3. free # {} => Min(free) \in free
  BY LeastNat
<1>4. \A i \in free : i \in 1..Len(shmObjv) /\ i \notin LiveOf(shmObjv)
  BY Zenon DEF LiveOf
<1>5. Len(shmObjv) + 1 \notin LiveOf(shmObjv)
  BY <1>2 DEF LiveOf
<1> HIDE DEF free
<1> QED BY <1>1, <1>2, <1>3, <1>4, <1>5

\* shmget finds the key or makes a segment within shmmax.
LEMMA ShmGetKeeps ==
    ASSUME ShmInd, NEW r, NEW key \in ShmKeys, NEW size \in ShmSizes, ShmGet(r, key, size)
    PROVE  ShmInd'
<1>1. PICK n \in 1..(Len(shmObjv) + 1) : n = NewSlot(key) /\ n \notin LiveOf(shmObjv)
  BY NewSlotFree, Zenon
<1>2. PICK o : o = [amp |-> shmMade + 1, key |-> key, segsz |-> size, nattach |-> 0,
                    deleteMe |-> FALSE, clear |-> TRUE, data |-> "junk"]
  BY Zenon
<1>3. /\ o.amp = shmMade + 1 /\ o.key = key /\ o.segsz = size /\ o.nattach = 0
      /\ o.deleteMe = FALSE /\ o.clear = TRUE /\ o.data = "junk"
  BY <1>2, Zenon
<1>4. shmMade \in Nat /\ shmMade' = shmMade + 1 /\ shmMade + 1 \in 1..ShmMaxSegs
  BY ShmAssumption, SMTT(30) DEF ShmInd, ShmGet
<1>5. o \in ShmObj
  BY <1>2, <1>4, Zenon DEF ShmObj
<1>6. shmObjv' = IF n > Len(shmObjv) THEN Append(shmObjv, o) ELSE [shmObjv EXCEPT ![n] = o]
  BY <1>1, <1>2, Zenon DEF ShmGet, PutObj
<1>7. shmObjv \in Seq(ShmObj \cup {NoObj})
  BY Zenon DEF ShmInd
<1> DEFINE L == LiveOf(shmObjv)
           K == LiveOf(shmObjv')
<1>8. /\ shmObjv' \in Seq(ShmObj \cup {NoObj})
      /\ K = L \cup {n}
      /\ shmObjv'[n] = o
      /\ \A i \in L : shmObjv'[i] = shmObjv[i]
  <2>1. n \notin LiveOf(shmObjv)
    BY <1>1, Zenon
  <2>2. CASE n > Len(shmObjv)
    BY <1>5, <1>6, <1>7, <2>1, <2>2, NoObjApart DEF LiveOf
  <2>3. CASE ~(n > Len(shmObjv))
    BY <1>5, <1>6, <1>7, <2>1, <2>3, NoObjApart DEF LiveOf
  <2> QED BY <2>2, <2>3, Zenon
<1>9. /\ Cardinality(K) = Cardinality(L) + 1
      /\ BytesOf(shmObjv') = BytesOf(shmObjv) + size
  <2>1. ASSUME NEW tab2 \in Seq(ShmObj \cup {NoObj}),
               LiveOf(tab2) = LiveOf(shmObjv) \cup {n},
               \A i \in LiveOf(shmObjv) : tab2[i] = shmObjv[i]
        PROVE  /\ Cardinality(LiveOf(tab2)) = Cardinality(LiveOf(shmObjv)) + 1
               /\ BytesOf(tab2) = BytesOf(shmObjv) + tab2[n].segsz
    BY <1>1, <1>7, <2>1, OneMore, Zenon
  <2> QED BY <1>3, <1>8, <2>1, Zenon
<1>10. shmUsed' = Cardinality(K)
  BY <1>9, Zenon DEF ShmInd, ShmGet
<1>11. shmTot' \in Int /\ BytesOf(shmObjv') <= shmTot' /\ shmTot' < ShmMax
  <2>1. size \in Nat /\ ShmMax \in Nat
    BY ShmAssumption, Zenon
  <2>2. BytesOf(shmObjv) \in Int /\ shmTot \in Int /\ BytesOf(shmObjv) <= shmTot
    BY <1>7, BytesInt, Zenon DEF ShmInd
  <2> QED BY <1>9, <2>1, <2>2 DEF ShmGet, WithinQuota
<1>12. shmHeld' = shmHeld /\ shmHeld \in Holdings
  BY ShmHoldings, Zenon DEF ShmGet
<1>13. \A i \in L : shmObjv[i] \in ShmObj /\ shmObjv[i].amp <= shmMade /\ shmObjv[i].amp # o.amp
  <2>1. \A i \in L : shmObjv[i].amp \in 1..ShmMaxSegs
    BY <1>7, LiveFinite, Zenon DEF ShmObj
  <2>2. \A i \in L : shmObjv[i].amp <= shmMade
    BY Zenon DEF ShmInd
  <2> QED BY <1>3, <1>4, <1>7, <2>1, <2>2, LiveFinite
<1>14. UsersOf(shmHeld, o.amp) = 0
  <2>1. \A p \in ShmProcs : ~(shmHeld[p][o.amp] > 0)
    BY <1>3, <1>4, <1>13 DEF ShmInd
  <2>2. UsersOf(shmHeld, o.amp) \in Nat /\ ~(UsersOf(shmHeld, o.amp) > 0)
    BY <1>3, <1>4, <1>12, <2>1, UsersHold, Zenon
  <2> QED BY <2>2
<1>15. \A i \in L : shmObjv[i].key = key => key = IpcPrivate
  BY Zenon DEF ShmGet, KeySlots, Live, LiveOf
<1> HIDE DEF L, K
<1>16. \A i \in K : /\ shmObjv'[i].amp <= shmMade'
                    /\ shmObjv'[i].nattach = UsersOf(shmHeld', shmObjv'[i].amp)
                    /\ shmObjv'[i].deleteMe => shmObjv'[i].nattach > 0
                    /\ shmObjv'[i].clear => shmObjv'[i].nattach = 0 /\ shmObjv'[i].data # "user"
  <2> SUFFICES ASSUME NEW i \in K
               PROVE  /\ shmObjv'[i].amp <= shmMade'
                      /\ shmObjv'[i].nattach = UsersOf(shmHeld', shmObjv'[i].amp)
                      /\ shmObjv'[i].deleteMe => shmObjv'[i].nattach > 0
                      /\ shmObjv'[i].clear => shmObjv'[i].nattach = 0 /\ shmObjv'[i].data # "user"
    BY Zenon
  <2>1. CASE i = n
    BY <1>3, <1>4, <1>8, <1>12, <1>14, <2>1
  <2>2. CASE i \in L
    <3>1. /\ shmObjv[i].amp <= shmMade
          /\ shmObjv[i].nattach = UsersOf(shmHeld, shmObjv[i].amp)
          /\ shmObjv[i].deleteMe => shmObjv[i].nattach > 0
          /\ shmObjv[i].clear => shmObjv[i].nattach = 0 /\ shmObjv[i].data # "user"
      BY <2>2, Zenon DEF ShmInd, L
    <3>2. shmObjv[i].amp \in Int
      BY <1>13, <2>2 DEF ShmObj
    <3> QED BY <1>4, <1>8, <1>12, <2>2, <3>1, <3>2
  <2> QED BY <1>8, <2>1, <2>2, Zenon
<1>17. \A i \in K : \A j \in K \ {i} :
         /\ shmObjv'[j].amp # shmObjv'[i].amp
         /\ shmObjv'[j].key = shmObjv'[i].key => shmObjv'[i].key = IpcPrivate
  <2>1. \A i \in L : \A j \in L \ {i} :
          /\ shmObjv[j].amp # shmObjv[i].amp
          /\ shmObjv[j].key = shmObjv[i].key => shmObjv[i].key = IpcPrivate
    BY Zenon DEF ShmInd, L
  <2>2. ASSUME NEW i \in L
        PROVE  /\ shmObjv'[n].amp # shmObjv'[i].amp
               /\ shmObjv'[n].key = shmObjv'[i].key => shmObjv'[i].key = IpcPrivate
    BY <1>3, <1>8, <1>13, <1>15, Zenon
  <2>3. ASSUME NEW i \in L, NEW j \in L \ {i}
        PROVE  /\ shmObjv'[j].amp # shmObjv'[i].amp
               /\ shmObjv'[j].key = shmObjv'[i].key => shmObjv'[i].key = IpcPrivate
    BY <1>8, <2>1, Zenon
  <2> QED BY <1>8, <2>2, <2>3, Zenon
<1>18. \A p \in ShmProcs, a \in 1..ShmMaxSegs :
         shmHeld'[p][a] > 0 => \E i \in K : shmObjv'[i].amp = a
  BY <1>8, <1>12, Zenon DEF ShmInd, L
<1>19. /\ shmMade' \in 0..ShmMaxSegs
       /\ shmHeld' \in [ShmProcs -> [1..ShmMaxSegs -> 0..ShmMaxAttach]]
  BY <1>4, <1>12 DEF ShmInd
<1> QED BY <1>8, <1>10, <1>11, <1>16, <1>17, <1>18, <1>19, Zenon DEF ShmInd, K

\* A step that changes one segment but not its address, key or size.
Changes(id, a, o) ==
  /\ id \in LiveOf(shmObjv) /\ a = shmObjv[id].amp
  /\ o \in ShmObj /\ o.amp = a /\ o.key = shmObjv[id].key /\ o.segsz = shmObjv[id].segsz
  /\ shmObjv' = [shmObjv EXCEPT ![id] = o]
  /\ shmHeld' \in [ShmProcs -> [1..ShmMaxSegs -> 0..ShmMaxAttach]]
  /\ \A q \in ShmProcs, b \in 1..ShmMaxSegs : b # a => shmHeld'[q][b] = shmHeld[q][b]
  /\ \A b \in 1..ShmMaxSegs : b # a => UsersOf(shmHeld', b) = UsersOf(shmHeld, b)
  /\ o.nattach = UsersOf(shmHeld', a) /\ (o.deleteMe => o.nattach > 0)
  /\ o.clear => o.nattach = 0 /\ o.data # "user"
  /\ UNCHANGED <<shmUsed, shmTot, shmMade>>

\* A segment changes and keeps its place, key and size.
LEMMA ObjChanged ==
    ASSUME ShmInd, NEW id, NEW a, NEW o, Changes(id, a, o)
    PROVE  ShmInd'
<1> USE DEF Changes
<1> DEFINE L == LiveOf(shmObjv)
<1>1. shmObjv \in Seq(ShmObj \cup {NoObj})
  BY Zenon DEF ShmInd
<1>2. /\ shmObjv' \in Seq(ShmObj \cup {NoObj}) /\ LiveOf(shmObjv') = L
      /\ shmObjv'[id] = o /\ \A i \in L \ {id} : shmObjv'[i] = shmObjv[i]
  BY <1>1, NoObjApart DEF LiveOf
<1>3. BytesOf(shmObjv') = BytesOf(shmObjv)
  <2>1. \A i \in L : shmObjv'[i].segsz = shmObjv[i].segsz
    BY <1>2, Zenon
  <2>2. ASSUME NEW tab2 \in Seq(ShmObj \cup {NoObj}), LiveOf(tab2) = LiveOf(shmObjv),
               \A i \in LiveOf(shmObjv) : tab2[i].segsz = shmObjv[i].segsz
        PROVE  BytesOf(tab2) = BytesOf(shmObjv)
    BY <1>1, <2>2, SameBytes, Zenon
  <2> QED BY <1>2, <2>1, <2>2, Zenon
<1>4. \A i \in L : shmObjv[i].amp \in 1..ShmMaxSegs
  BY <1>1, LiveFinite, Zenon DEF ShmObj
<1> HIDE DEF L
<1>5. \A i \in L : /\ shmObjv'[i].amp <= shmMade'
                   /\ shmObjv'[i].nattach = UsersOf(shmHeld', shmObjv'[i].amp)
                   /\ shmObjv'[i].deleteMe => shmObjv'[i].nattach > 0
                   /\ shmObjv'[i].clear => shmObjv'[i].nattach = 0 /\ shmObjv'[i].data # "user"
  <2> SUFFICES ASSUME NEW i \in L
               PROVE  /\ shmObjv'[i].amp <= shmMade'
                      /\ shmObjv'[i].nattach = UsersOf(shmHeld', shmObjv'[i].amp)
                      /\ shmObjv'[i].deleteMe => shmObjv'[i].nattach > 0
                      /\ shmObjv'[i].clear => shmObjv'[i].nattach = 0 /\ shmObjv'[i].data # "user"
    BY Zenon
  <2>1. /\ shmObjv[i].amp <= shmMade
        /\ shmObjv[i].nattach = UsersOf(shmHeld, shmObjv[i].amp)
        /\ shmObjv[i].deleteMe => shmObjv[i].nattach > 0
        /\ shmObjv[i].clear => shmObjv[i].nattach = 0 /\ shmObjv[i].data # "user"
    BY Zenon DEF ShmInd, L
  <2>2. CASE i = id
    BY <1>2, <2>1, <2>2, Zenon
  <2>3. CASE i # id
    <3>1. shmObjv'[i] = shmObjv[i] /\ shmObjv[i].amp \in 1..ShmMaxSegs
      BY <1>2, <1>4, <2>3, Zenon
    <3>2. shmObjv[i].amp # a
      BY <2>3 DEF ShmInd, L
    <3>3. UsersOf(shmHeld', shmObjv[i].amp) = UsersOf(shmHeld, shmObjv[i].amp)
      BY <3>1, <3>2, Zenon
    <3> QED BY <2>1, <3>1, <3>3, Zenon
  <2> QED BY <2>2, <2>3, Zenon
<1>6. \A i \in L : \A j \in L \ {i} :
         /\ shmObjv'[j].amp # shmObjv'[i].amp
         /\ shmObjv'[j].key = shmObjv'[i].key => shmObjv'[i].key = IpcPrivate
  <2>1. \A i \in L : shmObjv'[i].amp = shmObjv[i].amp /\ shmObjv'[i].key = shmObjv[i].key
    BY <1>2, Zenon
  <2> QED BY <2>1, SMTT(30) DEF ShmInd, L
<1>7. \A p \in ShmProcs, b \in 1..ShmMaxSegs :
         shmHeld'[p][b] > 0 => \E i \in L : shmObjv'[i].amp = b
  <2> SUFFICES ASSUME NEW p \in ShmProcs, NEW b \in 1..ShmMaxSegs, shmHeld'[p][b] > 0
               PROVE  \E i \in L : shmObjv'[i].amp = b
    BY Zenon
  <2>1. CASE b = a
    BY <1>2, <2>1, Zenon DEF L
  <2>2. CASE b # a
    <3>1. PICK i \in L : shmObjv[i].amp = b
      BY <2>2, ZenonT(30) DEF ShmInd, L
    <3> QED BY <1>2, <2>2, <3>1, Zenon
  <2> QED BY <2>1, <2>2, Zenon
<1>8. /\ shmMade' \in 0..ShmMaxSegs /\ shmUsed' = Cardinality(L)
      /\ shmTot' \in Int /\ BytesOf(shmObjv) <= shmTot' /\ (shmMade' > 0 => shmTot' < ShmMax)
  BY Zenon DEF ShmInd, L
<1> DEFINE K == LiveOf(shmObjv')
<1>9. K = L /\ shmObjv' \in Seq(ShmObj \cup {NoObj})
  BY <1>2, Zenon
<1> HIDE DEF K
<1>10. /\ shmUsed' = Cardinality(K) /\ BytesOf(shmObjv') <= shmTot'
       /\ \A i \in K : /\ shmObjv'[i].amp <= shmMade'
                       /\ shmObjv'[i].nattach = UsersOf(shmHeld', shmObjv'[i].amp)
                       /\ shmObjv'[i].deleteMe => shmObjv'[i].nattach > 0
                       /\ shmObjv'[i].clear => shmObjv'[i].nattach = 0 /\ shmObjv'[i].data # "user"
  BY <1>3, <1>5, <1>8, <1>9, Zenon
<1>11. /\ \A i \in K : \A j \in K \ {i} :
            /\ shmObjv'[j].amp # shmObjv'[i].amp
            /\ shmObjv'[j].key = shmObjv'[i].key => shmObjv'[i].key = IpcPrivate
       /\ \A p \in ShmProcs, b \in 1..ShmMaxSegs :
            shmHeld'[p][b] > 0 => \E i \in K : shmObjv'[i].amp = b
  BY <1>6, <1>7, <1>9, Zenon
<1> QED BY <1>8, <1>9, <1>10, <1>11, ZenonT(30) DEF ShmInd, K

\* A process has an address attached x times from now on.
Attaches(held, held2, p, a, x) ==
  /\ held \in [ShmProcs -> [1..ShmMaxSegs -> 0..ShmMaxAttach]]
  /\ p \in ShmProcs /\ a \in 1..ShmMaxSegs /\ x \in 0..ShmMaxAttach
  /\ held2 = [held EXCEPT ![p][a] = x]

\* One process attaches or detaches one segment.
LEMMA HoldingMoves ==
    ASSUME NEW held, NEW held2, NEW p, NEW a, NEW x, Attaches(held, held2, p, a, x)
    PROVE  /\ held2 \in [ShmProcs -> [1..ShmMaxSegs -> 0..ShmMaxAttach]]
           /\ \A q \in ShmProcs, b \in 1..ShmMaxSegs : b # a => held2[q][b] = held[q][b]
           /\ \A b \in 1..ShmMaxSegs : b # a => UsersOf(held2, b) = UsersOf(held, b)
           /\ UsersOf(held2, a) = UsersOf(held, a) + (x - held[p][a])
           /\ UsersOf(held2, a) \in Nat /\ UsersOf(held, a) \in Nat
<1> USE DEF Attaches
<1>1. held[p][a] \in 0..ShmMaxAttach
  BY Zenon
<1>2. held[p][a] \in Nat /\ x \in Nat
  BY <1>1
<1>3. held2 \in [ShmProcs -> [1..ShmMaxSegs -> 0..ShmMaxAttach]]
  <2>1. [held[p] EXCEPT ![a] = x] \in [1..ShmMaxSegs -> 0..ShmMaxAttach]
    BY Zenon
  <2>2. held2 = [held EXCEPT ![p] = [held[p] EXCEPT ![a] = x]]
    BY Zenon
  <2> QED BY <2>1, <2>2, Zenon
<1>4. held \in Holdings /\ held2 \in Holdings
  <2>1. 0..ShmMaxAttach \subseteq Nat
    OBVIOUS
  <2> QED BY <1>3, <2>1 DEF Holdings
<1>5. /\ held2[p][a] = x
      /\ \A q \in ShmProcs, b \in 1..ShmMaxSegs : (q # p \/ b # a) => held2[q][b] = held[q][b]
  BY Zenon
<1>6. PICK d \in Int : d = x - held[p][a] /\ held2[p][a] = held[p][a] + d
  BY <1>2, <1>5
<1>7. \A b \in 1..ShmMaxSegs : UsersOf(held2, b) = UsersOf(held, b) + (IF b = a THEN d ELSE 0)
  <2>1. Moves(held, held2, p, a, d)
    BY <1>4, <1>5, <1>6, Zenon DEF Moves
  <2> QED BY <2>1, UsersMove
<1>8. \A b \in 1..ShmMaxSegs : UsersOf(held2, b) \in Nat /\ UsersOf(held, b) \in Nat
  BY <1>4, UsersHold, ZenonT(30)
<1>9. \A b \in 1..ShmMaxSegs : b # a => UsersOf(held2, b) = UsersOf(held, b)
  <2> SUFFICES ASSUME NEW b \in 1..ShmMaxSegs, b # a PROVE UsersOf(held2, b) = UsersOf(held, b)
    BY Zenon
  <2>1. UsersOf(held2, b) = UsersOf(held, b) + 0
    BY <1>7, Zenon
  <2>2. UsersOf(held, b) \in Nat
    BY <1>8, Zenon
  <2> QED BY <2>1, <2>2
<1>10. UsersOf(held2, a) = UsersOf(held, a) + (x - held[p][a])
  BY <1>6, <1>7, Zenon
<1>11. \A q \in ShmProcs, b \in 1..ShmMaxSegs : b # a => held2[q][b] = held[q][b]
  BY <1>5, Zenon
<1> QED BY <1>3, <1>8, <1>9, <1>10, <1>11, Zenon

\* shmat and a write change one segment, which keeps its address, key and size.
LEMMA ShmAtKeeps ==
    ASSUME ShmInd, NEW p \in ShmProcs, NEW id, ShmAt(p, id)
    PROVE  ShmInd'
<1> DEFINE L == LiveOf(shmObjv)
<1>1. id \in L /\ shmObjv \in Seq(ShmObj \cup {NoObj}) /\ shmObjv[id] \in ShmObj
  BY LiveFinite, Zenon DEF ShmAt, ShmInd, Live, LiveOf
<1>2. PICK a : a = shmObjv[id].amp
  BY Zenon
<1>3. a \in 1..ShmMaxSegs /\ shmObjv[id].nattach \in Nat
  BY <1>1, <1>2, Zenon DEF ShmObj
<1>4. PICK o : o = Attached(shmObjv[id])
  BY Zenon
<1>5. /\ o \in ShmObj /\ o.amp = a /\ o.key = shmObjv[id].key /\ o.segsz = shmObjv[id].segsz
      /\ o.nattach = shmObjv[id].nattach + 1 /\ o.deleteMe = shmObjv[id].deleteMe
      /\ o.clear = FALSE
  <2>1. o = [shmObjv[id] EXCEPT !.nattach = shmObjv[id].nattach + 1, !.clear = FALSE,
                                !.data = IF shmObjv[id].clear THEN "zero" ELSE shmObjv[id].data]
    BY <1>4, Zenon DEF Attached
  <2>2. shmObjv[id].nattach + 1 \in Nat
    BY <1>3
  <2> QED BY <1>1, <1>2, <2>1, <2>2, Zenon DEF ShmObj
<1>6. shmObjv' = [shmObjv EXCEPT ![id] = o]
  BY <1>4, Zenon DEF ShmAt
<1>7. /\ shmHeld' = [shmHeld EXCEPT ![p][a] = shmHeld[p][a] + 1]
      /\ shmHeld[p][a] + 1 \in 0..ShmMaxAttach /\ shmHeld[p][a] \in Nat
  <2>1. shmHeld[p][a] \in 0..ShmMaxAttach
    <3>1. shmHeld \in [ShmProcs -> [1..ShmMaxSegs -> 0..ShmMaxAttach]]
      BY Zenon DEF ShmInd
    <3> QED BY <1>3, <3>1, Zenon
  <2>2. /\ shmHeld' = [shmHeld EXCEPT ![p][a] = @ + 1]
        /\ shmHeld[p][a] < ShmMaxAttach /\ ShmMaxAttach \in Nat
    BY <1>2, ShmAssumption, Zenon DEF ShmAt
  <2> QED BY <2>1, <2>2
<1>8. /\ shmHeld' \in [ShmProcs -> [1..ShmMaxSegs -> 0..ShmMaxAttach]]
      /\ \A q \in ShmProcs, b \in 1..ShmMaxSegs : b # a => shmHeld'[q][b] = shmHeld[q][b]
      /\ \A b \in 1..ShmMaxSegs : b # a => UsersOf(shmHeld', b) = UsersOf(shmHeld, b)
      /\ UsersOf(shmHeld', a) = UsersOf(shmHeld, a) + 1 /\ UsersOf(shmHeld, a) \in Nat
  <2>1. PICK x : x = shmHeld[p][a] + 1
    BY Zenon
  <2>2. Attaches(shmHeld, shmHeld', p, a, x)
    BY <1>3, <1>7, <2>1, Zenon DEF Attaches, ShmInd
  <2>3. x - shmHeld[p][a] = 1
    BY <1>7, <2>1
  <2> QED BY <2>2, <2>3, HoldingMoves
<1>9. shmObjv[id].nattach = UsersOf(shmHeld, a)
  BY <1>1, <1>2, Zenon DEF ShmInd
<1>10. Changes(id, a, o)
  <2>1. UNCHANGED <<shmUsed, shmTot, shmMade>>
    BY Zenon DEF ShmAt
  <2>2. o.nattach = UsersOf(shmHeld', a) /\ o.nattach > 0
    BY <1>5, <1>8, <1>9
  <2> QED BY <1>1, <1>2, <1>5, <1>6, <1>8, <2>1, <2>2, Zenon DEF Changes
<1> QED BY <1>10, ObjChanged, Zenon

\* A process writes to memory it has attached.
LEMMA ShmWriteKeeps ==
    ASSUME ShmInd, NEW p \in ShmProcs, NEW id, ShmWrite(p, id)
    PROVE  ShmInd'
<1>1. /\ id \in LiveOf(shmObjv) /\ shmObjv[id] \in ShmObj
      /\ shmObjv' = [shmObjv EXCEPT ![id].data = "user"]
      /\ shmHeld[p][shmObjv[id].amp] > 0 /\ UNCHANGED <<shmUsed, shmTot, shmMade, shmHeld>>
  BY LiveFinite, Zenon DEF ShmWrite, ShmInd, Live, LiveOf
<1>2. PICK a : a = shmObjv[id].amp
  BY Zenon
<1>3. PICK o : o = [shmObjv[id] EXCEPT !.data = "user"]
  BY Zenon
<1>4. /\ o \in ShmObj /\ o.amp = a /\ o.key = shmObjv[id].key /\ o.segsz = shmObjv[id].segsz
      /\ o.nattach = shmObjv[id].nattach /\ o.deleteMe = shmObjv[id].deleteMe
      /\ o.clear = shmObjv[id].clear /\ a \in 1..ShmMaxSegs
  BY <1>1, <1>2, <1>3, Zenon DEF ShmObj
<1>5. /\ shmObjv[id].nattach = UsersOf(shmHeld, a)
      /\ shmObjv[id].deleteMe => shmObjv[id].nattach > 0
      /\ shmObjv[id].clear => shmObjv[id].nattach = 0
  BY <1>1, <1>2, Zenon DEF ShmInd
<1>6. UsersOf(shmHeld, a) > 0
  BY <1>1, <1>2, <1>4, ShmHoldings, UsersHold, Zenon
<1>7. Changes(id, a, o)
  <2>1. shmObjv' = [shmObjv EXCEPT ![id] = o]
    BY <1>1, <1>3, Zenon
  <2>2. ~o.clear
    BY <1>4, <1>5, <1>6
  <2>3. shmHeld' = shmHeld /\ shmHeld \in [ShmProcs -> [1..ShmMaxSegs -> 0..ShmMaxAttach]]
    BY <1>1, Zenon DEF ShmInd
  <2> QED BY <1>1, <1>2, <1>4, <1>5, <2>1, <2>2, <2>3, Zenon DEF Changes
<1> QED BY <1>7, ObjChanged, Zenon

\* A segment that nobody has attached goes away; totshm may keep counting it.
Goes(id, a) ==
  /\ id \in LiveOf(shmObjv) /\ a = shmObjv[id].amp
  /\ shmObjv' = [shmObjv EXCEPT ![id] = NoObj]
  /\ shmHeld' \in [ShmProcs -> [1..ShmMaxSegs -> 0..ShmMaxAttach]]
  /\ \A q \in ShmProcs, b \in 1..ShmMaxSegs : b # a => shmHeld'[q][b] = shmHeld[q][b]
  /\ \A b \in 1..ShmMaxSegs : b # a => UsersOf(shmHeld', b) = UsersOf(shmHeld, b)
  /\ \A q \in ShmProcs : ~(shmHeld'[q][a] > 0)
  /\ shmUsed' = shmUsed - 1 /\ shmTot' \in {shmTot, shmTot - shmObjv[id].segsz}
  /\ shmMade' = shmMade

\* A segment without users leaves the map.
LEMMA ObjGone ==
    ASSUME ShmInd, NEW id, NEW a, Goes(id, a)
    PROVE  ShmInd'
<1> USE DEF Goes
<1> DEFINE L == LiveOf(shmObjv)
           K == LiveOf(shmObjv')
<1>1. shmObjv \in Seq(ShmObj \cup {NoObj})
  BY Zenon DEF ShmInd
<1>2. /\ shmObjv' \in Seq(ShmObj \cup {NoObj}) /\ K = L \ {id}
      /\ \A i \in K : shmObjv'[i] = shmObjv[i]
  BY <1>1 DEF LiveOf
<1>3. \A i \in L : shmObjv[i].amp \in 1..ShmMaxSegs /\ shmObjv[i] \in ShmObj
  BY <1>1, LiveFinite, Zenon DEF ShmObj
<1>4. /\ Cardinality(L) = Cardinality(K) + 1 /\ Cardinality(K) \in Nat
      /\ BytesOf(shmObjv) = BytesOf(shmObjv') + shmObjv[id].segsz
      /\ BytesOf(shmObjv') \in Int
  <2>1. ASSUME NEW tab \in Seq(ShmObj \cup {NoObj}), id \notin LiveOf(tab),
               LiveOf(shmObjv) = LiveOf(tab) \cup {id}, \A i \in LiveOf(tab) : shmObjv[i] = tab[i]
        PROVE  /\ Cardinality(LiveOf(shmObjv)) = Cardinality(LiveOf(tab)) + 1
               /\ Cardinality(LiveOf(tab)) \in Nat
               /\ BytesOf(shmObjv) = BytesOf(tab) + shmObjv[id].segsz
               /\ BytesOf(tab) \in Int
    BY <1>1, <2>1, OneMore, BytesInt, ZenonT(30)
  <2>2. id \notin K /\ L = K \cup {id} /\ \A i \in K : shmObjv[i] = shmObjv'[i]
    BY <1>2, Zenon
  <2> QED BY <1>2, <2>1, <2>2, Zenon
<1>5. shmObjv[id].segsz \in Nat
  BY <1>3, ObjSize, Zenon
<1> HIDE DEF L, K
<1>6. \A i \in K : /\ shmObjv[i].amp <= shmMade
                   /\ shmObjv[i].nattach = UsersOf(shmHeld, shmObjv[i].amp)
                   /\ shmObjv[i].deleteMe => shmObjv[i].nattach > 0
                   /\ shmObjv[i].clear => shmObjv[i].nattach = 0 /\ shmObjv[i].data # "user"
                   /\ UsersOf(shmHeld', shmObjv[i].amp) = UsersOf(shmHeld, shmObjv[i].amp)
  <2> SUFFICES ASSUME NEW i \in K
               PROVE  /\ shmObjv[i].amp <= shmMade
                      /\ shmObjv[i].nattach = UsersOf(shmHeld, shmObjv[i].amp)
                      /\ shmObjv[i].deleteMe => shmObjv[i].nattach > 0
                      /\ shmObjv[i].clear => shmObjv[i].nattach = 0 /\ shmObjv[i].data # "user"
                      /\ UsersOf(shmHeld', shmObjv[i].amp) = UsersOf(shmHeld, shmObjv[i].amp)
    BY Zenon
  <2>1. i \in L /\ i # id /\ id \in L
    BY <1>2, Zenon DEF L
  <2>2. shmObjv[i].amp # a
    BY <2>1, Zenon DEF ShmInd, L
  <2>3. UsersOf(shmHeld', shmObjv[i].amp) = UsersOf(shmHeld, shmObjv[i].amp)
    BY <1>3, <2>1, <2>2, Zenon
  <2> QED BY <2>1, <2>3, Zenon DEF ShmInd, L
<1>7. \A i \in K : \A j \in K \ {i} :
         /\ shmObjv[j].amp # shmObjv[i].amp
         /\ shmObjv[j].key = shmObjv[i].key => shmObjv[i].key = IpcPrivate
  BY <1>2, Zenon DEF ShmInd, L
<1>8. \A p \in ShmProcs, b \in 1..ShmMaxSegs :
         shmHeld'[p][b] > 0 => \E i \in K : shmObjv[i].amp = b
  <2> SUFFICES ASSUME NEW p \in ShmProcs, NEW b \in 1..ShmMaxSegs, shmHeld'[p][b] > 0
               PROVE  \E i \in K : shmObjv[i].amp = b
    BY Zenon
  <2>1. b # a
    BY Zenon
  <2>2. PICK i \in L : shmObjv[i].amp = b
    BY <2>1, ZenonT(30) DEF ShmInd, L
  <2> QED BY <1>2, <2>1, <2>2, Zenon
<1>9. /\ shmUsed = Cardinality(L) /\ shmTot \in Int /\ BytesOf(shmObjv) <= shmTot
      /\ shmMade \in 0..ShmMaxSegs /\ (shmMade > 0 => shmTot < ShmMax)
      /\ ShmMax \in Nat
  BY ShmAssumption, Zenon DEF ShmInd, L
<1>10. /\ shmMade' \in 0..ShmMaxSegs /\ shmUsed' = Cardinality(K)
       /\ shmTot' \in Int /\ BytesOf(shmObjv') <= shmTot' /\ (shmMade' > 0 => shmTot' < ShmMax)
  <2>1. shmUsed' = Cardinality(K) /\ shmMade' = shmMade
    BY <1>4, <1>9
  <2>2. CASE shmTot' = shmTot
    BY <1>4, <1>5, <1>9, <2>1, <2>2, SMTT(30)
  <2>3. CASE shmTot' = shmTot - shmObjv[id].segsz
    BY <1>4, <1>5, <1>9, <2>1, <2>3, SMTT(30)
  <2> QED BY <2>1, <2>2, <2>3, Zenon
<1>11. /\ \A i \in K : /\ shmObjv'[i].amp <= shmMade'
                       /\ shmObjv'[i].nattach = UsersOf(shmHeld', shmObjv'[i].amp)
                       /\ shmObjv'[i].deleteMe => shmObjv'[i].nattach > 0
                       /\ shmObjv'[i].clear => shmObjv'[i].nattach = 0 /\ shmObjv'[i].data # "user"
       /\ \A i \in K : \A j \in K \ {i} :
            /\ shmObjv'[j].amp # shmObjv'[i].amp
            /\ shmObjv'[j].key = shmObjv'[i].key => shmObjv'[i].key = IpcPrivate
       /\ \A p \in ShmProcs, b \in 1..ShmMaxSegs :
            shmHeld'[p][b] > 0 => \E i \in K : shmObjv'[i].amp = b
  <2>1. \A i \in K : shmObjv'[i] = shmObjv[i] /\ shmMade' = shmMade
    BY <1>2, Zenon
  <2> QED BY <1>6, <1>7, <1>8, <2>1, SMTT(30)
<1> QED BY <1>2, <1>10, <1>11, Zenon DEF ShmInd, K

\* The last shmdt of a segment that is marked takes it away, any other counts.
LEMMA ShmDtKeeps ==
    ASSUME ShmInd, NEW p \in ShmProcs, NEW a \in 1..ShmMaxSegs, ShmDt(p, a)
    PROVE  ShmInd'
<1>1. PICK id \in LiveOf(shmObjv) :
        /\ shmObjv[id].amp = a
        /\ IF GoesOnDetach(shmObjv[id])
             THEN /\ shmObjv' = [shmObjv EXCEPT ![id] = NoObj]
                  /\ shmUsed' = shmUsed - 1
                  /\ shmTot' = shmTot - shmObjv[id].segsz
             ELSE /\ shmObjv' = [shmObjv EXCEPT ![id].nattach = @ - 1]
                  /\ UNCHANGED <<shmUsed, shmTot>>
  BY Zenon DEF ShmDt, Live, LiveOf
<1>2. shmObjv[id] \in ShmObj /\ shmObjv[id].nattach \in Nat
  <2>1. shmObjv[id] \in ShmObj
    BY LiveFinite, Zenon DEF ShmInd
  <2> QED BY <2>1, Zenon DEF ShmObj
<1>3. shmMade' = shmMade /\ shmHeld[p][a] > 0 /\ shmHeld' = [shmHeld EXCEPT ![p][a] = @ - 1]
  BY Zenon DEF ShmDt
<1>4. PICK x : x = shmHeld[p][a] - 1
  BY Zenon
<1>5. x \in 0..ShmMaxAttach /\ x - shmHeld[p][a] = -1 /\ shmHeld' = [shmHeld EXCEPT ![p][a] = x]
  <2>0. shmHeld \in [ShmProcs -> [1..ShmMaxSegs -> 0..ShmMaxAttach]]
    BY Zenon DEF ShmInd
  <2>1. shmHeld[p][a] \in 0..ShmMaxAttach
    BY <2>0, Zenon
  <2> QED BY <1>3, <1>4, <2>1, ShmAssumption
<1>6. Attaches(shmHeld, shmHeld', p, a, x)
  BY <1>5, Zenon DEF Attaches, ShmInd
<1>7. /\ shmHeld' \in [ShmProcs -> [1..ShmMaxSegs -> 0..ShmMaxAttach]]
      /\ \A q \in ShmProcs, b \in 1..ShmMaxSegs : b # a => shmHeld'[q][b] = shmHeld[q][b]
      /\ \A b \in 1..ShmMaxSegs : b # a => UsersOf(shmHeld', b) = UsersOf(shmHeld, b)
      /\ UsersOf(shmHeld', a) = UsersOf(shmHeld, a) + (x - shmHeld[p][a])
      /\ UsersOf(shmHeld', a) \in Nat /\ UsersOf(shmHeld, a) \in Nat
  BY <1>6, HoldingMoves, Zenon
<1>8. /\ shmObjv[id].nattach = UsersOf(shmHeld, a)
      /\ shmObjv[id].deleteMe => shmObjv[id].nattach > 0
      /\ shmObjv[id].clear => shmObjv[id].nattach = 0
  BY <1>1, Zenon DEF ShmInd
<1>9. UsersOf(shmHeld', a) = shmObjv[id].nattach - 1 /\ shmObjv[id].nattach > 0
  BY <1>2, <1>5, <1>7, <1>8
<1>10. CASE GoesOnDetach(shmObjv[id])
  <2>1. UsersOf(shmHeld', a) = 0
    BY <1>9, <1>10 DEF GoesOnDetach
  <2>2. \A q \in ShmProcs : ~(shmHeld'[q][a] > 0)
    <3>1. ASSUME NEW held2 \in [ShmProcs -> [1..ShmMaxSegs -> 0..ShmMaxAttach]],
                 UsersOf(held2, a) = 0
          PROVE  \A q \in ShmProcs : ~(held2[q][a] > 0)
      <4>1. 0..ShmMaxAttach \subseteq Nat
        OBVIOUS
      <4>2. held2 \in Holdings
        BY <4>1, Zenon DEF Holdings
      <4>3. ~(UsersOf(held2, a) > 0)
        BY <3>1
      <4> QED BY <4>2, <4>3, UsersHold, Zenon
    <3> QED BY <1>7, <2>1, <3>1, Zenon
  <2>3. Goes(id, a)
    BY <1>1, <1>3, <1>7, <1>10, <2>2, Zenon DEF Goes
  <2> QED BY <2>3, ObjGone, Zenon
<1>11. CASE ~GoesOnDetach(shmObjv[id])
  <2>1. PICK o : o = [shmObjv[id] EXCEPT !.nattach = @ - 1]
    BY Zenon
  <2>2. shmObjv' = [shmObjv EXCEPT ![id] = o] /\ UNCHANGED <<shmUsed, shmTot, shmMade>>
    BY <1>1, <1>3, <1>11, <2>1, Zenon
  <2>3. shmObjv[id].nattach - 1 \in Nat
    BY <1>2, <1>9
  <2>4. /\ o \in ShmObj /\ o.amp = a /\ o.key = shmObjv[id].key /\ o.segsz = shmObjv[id].segsz
        /\ o.nattach = shmObjv[id].nattach - 1 /\ o.deleteMe = shmObjv[id].deleteMe
        /\ o.clear = shmObjv[id].clear
    BY <1>1, <1>2, <2>1, <2>3, Zenon DEF ShmObj
  <2>5. o.deleteMe => o.nattach > 0
    BY <1>2, <1>9, <1>11, <2>4 DEF GoesOnDetach
  <2>6. ~o.clear
    BY <1>8, <1>9, <2>4
  <2>7. o.nattach = UsersOf(shmHeld', a)
    BY <1>9, <2>4, Zenon
  <2>8. Changes(id, a, o)
    BY <1>1, <1>7, <2>2, <2>4, <2>5, <2>6, <2>7, Zenon DEF Changes
  <2> QED BY <2>8, ObjChanged, Zenon
<1> QED BY <1>10, <1>11, Zenon

\* IPC_RMID takes a segment away that nobody has attached, and marks any other.
LEMMA ShmRemoveKeeps ==
    ASSUME ShmInd, NEW id, ShmRemove(id)
    PROVE  ShmInd'
<1>1. /\ id \in LiveOf(shmObjv) /\ UNCHANGED <<shmTot, shmMade, shmHeld>>
      /\ shmObjv[id] \in ShmObj
  BY LiveFinite, Zenon DEF ShmRemove, Live, LiveOf, ShmInd
<1>2. PICK a : a = shmObjv[id].amp
  BY Zenon
<1>3. a \in 1..ShmMaxSegs /\ shmObjv[id].nattach \in Nat
  BY <1>1, <1>2, Zenon DEF ShmObj
<1>4. /\ shmObjv[id].nattach = UsersOf(shmHeld, a)
      /\ shmObjv[id].clear => shmObjv[id].nattach = 0 /\ shmObjv[id].data # "user"
  BY <1>1, <1>2, Zenon DEF ShmInd
<1>5. shmHeld' = shmHeld /\ shmHeld \in [ShmProcs -> [1..ShmMaxSegs -> 0..ShmMaxAttach]]
  BY <1>1, Zenon DEF ShmInd
<1>6. CASE shmObjv[id].nattach = 0
  <2>1. shmObjv' = [shmObjv EXCEPT ![id] = NoObj] /\ shmUsed' = shmUsed - 1
    BY <1>6, Zenon DEF ShmRemove
  <2>2. \A q \in ShmProcs : ~(shmHeld[q][a] > 0)
    <3>1. ~(UsersOf(shmHeld, a) > 0)
      BY <1>4, <1>6
    <3> QED BY <1>3, <3>1, ShmHoldings, UsersHold, Zenon
  <2>3. Goes(id, a)
    BY <1>1, <1>2, <1>5, <2>1, <2>2, Zenon DEF Goes
  <2> QED BY <2>3, ObjGone, Zenon
<1>7. CASE shmObjv[id].nattach # 0
  <2>1. PICK o : o = [shmObjv[id] EXCEPT !.deleteMe = TRUE]
    BY Zenon
  <2>2. shmObjv' = [shmObjv EXCEPT ![id] = o] /\ UNCHANGED <<shmUsed, shmTot, shmMade>>
    BY <1>1, <1>7, <2>1, Zenon DEF ShmRemove
  <2>3. /\ o \in ShmObj /\ o.amp = a /\ o.key = shmObjv[id].key /\ o.segsz = shmObjv[id].segsz
        /\ o.nattach = shmObjv[id].nattach /\ o.clear = shmObjv[id].clear
    BY <1>1, <1>2, <2>1, Zenon DEF ShmObj
  <2>4. o.nattach > 0 /\ ~o.clear /\ o.nattach = UsersOf(shmHeld, a)
    BY <1>3, <1>4, <1>7, <2>3
  <2>5. Changes(id, a, o)
    BY <1>1, <1>2, <1>5, <2>2, <2>3, <2>4, Zenon DEF Changes
  <2> QED BY <2>5, ObjChanged, Zenon
<1> QED BY <1>6, <1>7, Zenon

\* A process that has nothing attached ends.
LEMMA ShmExitKeeps == ASSUME ShmInd, ShmExits = {}, NEW p \in ShmProcs, ShmExit(p) PROVE ShmInd'
<1>1. shmHeld[p] = NoneHeld /\ shmHeld' = [shmHeld EXCEPT ![p] = NoneHeld]
  BY Zenon DEF ShmExit
<1>2. shmHeld' = shmHeld
  BY <1>1 DEF ShmInd
<1>3. UNCHANGED <<shmObjv, shmUsed, shmTot, shmMade>>
  BY Zenon DEF ShmExit
<1> QED BY <1>2, <1>3, Zenon DEF ShmInd

\* Every step of shared memory.
LEMMA ShmIndNext == ASSUME ShmInd, ShmExits = {}, [ShmNext]_shmVars PROVE ShmInd'
<1>1. ASSUME NEW p, NEW key \in ShmKeys, NEW size \in ShmSizes, ShmGet(p, key, size) PROVE ShmInd'
  BY <1>1, ShmGetKeeps, Zenon
<1>2. ASSUME NEW id \in 1..ShmMaxSegs, ShmRemove(id) PROVE ShmInd'
  BY <1>2, ShmRemoveKeeps, Zenon
<1>3. ASSUME NEW p \in ShmProcs, NEW i \in 1..ShmMaxSegs, ShmAt(p, i) PROVE ShmInd'
  BY <1>3, ShmAtKeeps, Zenon
<1>4. ASSUME NEW p \in ShmProcs, NEW i \in 1..ShmMaxSegs, ShmWrite(p, i) PROVE ShmInd'
  BY <1>4, ShmWriteKeeps, Zenon
<1>5. ASSUME NEW p \in ShmProcs, NEW i \in 1..ShmMaxSegs, ShmDt(p, i) PROVE ShmInd'
  BY <1>5, ShmDtKeeps, Zenon
<1>6. ASSUME NEW p \in ShmProcs, ShmExit(p) PROVE ShmInd'
  BY <1>6, ShmExitKeeps, Zenon
<1>7. CASE UNCHANGED shmVars
  <2>1. UNCHANGED <<shmObjv, shmUsed, shmTot, shmMade, shmHeld>>
    BY <1>7, Zenon DEF shmVars
  <2> QED BY <2>1, Zenon DEF ShmInd
<1> QED BY <1>1, <1>2, <1>3, <1>4, <1>5, <1>6, <1>7, Zenon DEF ShmNext

\* The process that made a segment of the map has not ended.
ShmKept ==
  /\ shmOwner \in Seq(ShmProcs) /\ shmGone \subseteq ShmProcs
  /\ Len(shmOwner) = shmMade
  /\ \A i \in LiveOf(shmObjv) : shmOwner[shmObjv[i].amp] \notin shmGone

\* A segment that stays in the map stays where it is.
LEMMA KeptStays ==
    ASSUME ShmInd, ShmKept, UNCHANGED <<shmMade, shmOwner, shmGone>>,
           \A i \in LiveOf(shmObjv') : i \in LiveOf(shmObjv) /\ shmObjv'[i].amp = shmObjv[i].amp
    PROVE  ShmKept'
BY Zenon DEF ShmKept

\* What a step does to one slot of the map.
LEMMA SlotSet ==
    ASSUME ShmInd, NEW id \in LiveOf(shmObjv), NEW o, shmObjv' = [shmObjv EXCEPT ![id] = o],
           o = NoObj \/ o.amp = shmObjv[id].amp
    PROVE  \A i \in LiveOf(shmObjv') : i \in LiveOf(shmObjv) /\ shmObjv'[i].amp = shmObjv[i].amp
<1>1. shmObjv \in Seq(ShmObj \cup {NoObj})
  BY Zenon DEF ShmInd
<1>2. /\ Len(shmObjv') = Len(shmObjv) /\ Len(shmObjv) \in Nat
      /\ \A i \in 1..Len(shmObjv) : shmObjv'[i] = IF i = id THEN o ELSE shmObjv[i]
  BY <1>1
<1> QED BY <1>2, Zenon DEF LiveOf

\* A process that has made no segment of the map may end; what shmget makes is
\* in the heap of a process that has not.
LEMMA ShmKeptNext == ASSUME ShmInd, ShmKept, ShmExits = {}, [ShmNext]_shmVars PROVE ShmKept'
<1>0. /\ shmObjv \in Seq(ShmObj \cup {NoObj}) /\ Live = LiveOf(shmObjv)
      /\ \A i \in Live : shmObjv[i] \in ShmObj
  BY LiveFinite, Zenon DEF ShmInd, Live, LiveOf
<1>1. ASSUME NEW p \in ShmProcs \ shmGone, NEW key \in ShmKeys, NEW size \in ShmSizes, ShmGet(p, key, size)
      PROVE  ShmKept'
  <2> DEFINE n == NewSlot(key)
             o == [amp |-> shmMade + 1, key |-> key, segsz |-> size, nattach |-> 0,
                   deleteMe |-> FALSE, clear |-> TRUE, data |-> "junk"]
  <2>1. shmObjv' = PutObj(n, o) /\ o.amp = shmMade + 1
    BY <1>1, Zenon DEF ShmGet
  <2>2. n \in 1..(Len(shmObjv) + 1)
    BY <2>1, NewSlotFree, Zenon
  <2> HIDE DEF n, o
  <2>3. \A i \in LiveOf(shmObjv') : IF i = n THEN shmObjv'[i] = o ELSE i \in Live /\ shmObjv'[i] = shmObjv[i]
    <3>1. CASE n > Len(shmObjv)
      BY <1>0, <2>1, <2>2, <3>1 DEF PutObj, LiveOf
    <3>2. CASE ~(n > Len(shmObjv))
      BY <1>0, <2>1, <2>2, <3>2 DEF PutObj, LiveOf
    <3> QED BY <3>1, <3>2, Zenon
  <2>4. /\ shmOwner \in Seq(ShmProcs) /\ Len(shmOwner) = shmMade /\ shmOwner' = Append(shmOwner, p)
        /\ shmMade' = shmMade + 1 /\ shmGone' = shmGone /\ shmGone \subseteq ShmProcs
    BY <1>1, Zenon DEF ShmKept, ShmGet
  <2>5. /\ shmOwner' \in Seq(ShmProcs) /\ Len(shmOwner') = shmMade'
        /\ shmOwner'[shmMade + 1] = p /\ \A a \in 1..shmMade : shmOwner'[a] = shmOwner[a]
    BY <2>4
  <2>6. \A i \in Live : shmObjv[i].amp \in 1..shmMade
    <3>1. \A i \in Live : shmObjv[i].amp \in 1..ShmMaxSegs
      BY <1>0, Zenon DEF ShmObj
    <3>2. \A i \in Live : shmObjv[i].amp <= shmMade /\ shmMade \in 0..ShmMaxSegs
      BY <1>0, Zenon DEF ShmInd
    <3> QED BY <3>1, <3>2
  <2>7. \A i \in Live : shmOwner[shmObjv[i].amp] \notin shmGone
    BY <1>0, Zenon DEF ShmKept
  <2>8. \A i \in LiveOf(shmObjv') : shmOwner'[shmObjv'[i].amp] \notin shmGone'
    <3> SUFFICES ASSUME NEW i \in LiveOf(shmObjv') PROVE shmOwner'[shmObjv'[i].amp] \notin shmGone
      BY <2>4, Zenon
    <3>1. CASE i = n
      <4>1. shmObjv'[i].amp = shmMade + 1
        BY <2>1, <2>3, <3>1, Zenon
      <4> QED BY <2>5, <4>1, Zenon
    <3>2. CASE i # n
      <4>1. i \in Live /\ shmObjv'[i] = shmObjv[i]
        BY <2>3, <3>2, Zenon
      <4> QED BY <2>5, <2>6, <2>7, <4>1, Zenon
    <3> QED BY <3>1, <3>2, Zenon
  <2> QED BY <2>4, <2>5, <2>8, Zenon DEF ShmKept
<1>2. ASSUME NEW id, ShmRemove(id) PROVE ShmKept'
  <2>1. PICK o : shmObjv' = [shmObjv EXCEPT ![id] = o] /\ (o = NoObj \/ o.amp = shmObjv[id].amp)
    <3>1. shmObjv[id] \in ShmObj
      BY <1>0, <1>2, Zenon DEF ShmRemove
    <3>2. [shmObjv[id] EXCEPT !.deleteMe = TRUE].amp = shmObjv[id].amp
      BY <3>1, Zenon DEF ShmObj
    <3> QED BY <1>2, <3>2, Zenon DEF ShmRemove
  <2>2. id \in LiveOf(shmObjv) /\ UNCHANGED <<shmMade, shmOwner, shmGone>>
    BY <1>0, <1>2, Zenon DEF ShmRemove, shmHeaps
  <2> QED BY <2>1, <2>2, SlotSet, KeptStays, Zenon
<1>3. ASSUME NEW p, NEW id, ShmAt(p, id) \/ ShmWrite(p, id) PROVE ShmKept'
  <2>1. id \in LiveOf(shmObjv) /\ shmObjv[id] \in ShmObj
    BY <1>0, <1>3, Zenon DEF ShmAt, ShmWrite
  <2>2. /\ Attached(shmObjv[id]).amp = shmObjv[id].amp
        /\ [shmObjv[id] EXCEPT !.data = "user"].amp = shmObjv[id].amp
    BY <2>1, Zenon DEF ShmObj, Attached
  <2>3. PICK o : shmObjv' = [shmObjv EXCEPT ![id] = o] /\ (o = NoObj \/ o.amp = shmObjv[id].amp)
    BY <1>3, <2>2, Zenon DEF ShmAt, ShmWrite
  <2>4. UNCHANGED <<shmMade, shmOwner, shmGone>>
    BY <1>3, Zenon DEF ShmAt, ShmWrite, shmHeaps
  <2> QED BY <2>1, <2>3, <2>4, SlotSet, KeptStays, Zenon
<1>4. ASSUME NEW p, NEW a, ShmDt(p, a) PROVE ShmKept'
  <2>1. PICK id \in Live : \/ shmObjv' = [shmObjv EXCEPT ![id] = NoObj]
                          \/ shmObjv' = [shmObjv EXCEPT ![id].nattach = @ - 1]
    BY <1>4, Zenon DEF ShmDt
  <2>2. [shmObjv[id] EXCEPT !.nattach = @ - 1].amp = shmObjv[id].amp
    BY <1>0, Zenon DEF ShmObj
  <2>3. PICK o : shmObjv' = [shmObjv EXCEPT ![id] = o] /\ (o = NoObj \/ o.amp = shmObjv[id].amp)
    BY <2>1, <2>2, Zenon
  <2>4. id \in LiveOf(shmObjv) /\ UNCHANGED <<shmMade, shmOwner, shmGone>>
    BY <1>0, <1>4, Zenon DEF ShmDt, shmHeaps
  <2> QED BY <2>3, <2>4, SlotSet, KeptStays, Zenon
<1>5. ASSUME NEW p \in ShmProcs, ShmExit(p) PROVE ShmKept'
  BY <1>0, <1>5, Zenon DEF ShmExit, ShmKept
<1>6. CASE UNCHANGED shmVars
  BY <1>6, Zenon DEF shmVars, shmHeaps, ShmKept
<1> QED BY <1>1, <1>2, <1>3, <1>4, <1>5, <1>6, Zenon DEF ShmNext

\* The four state properties follow from the invariant.
LEMMA ShmIndSound ==
    ShmInd /\ ShmKept => ShmTypeOK /\ ShmAttachedKept /\ ShmMapConsistent /\ ShmWithinMax
<1> SUFFICES ASSUME ShmInd, ShmKept PROVE ShmTypeOK /\ ShmAttachedKept /\ ShmMapConsistent /\ ShmWithinMax
  BY Zenon
<1>1. Live = LiveOf(shmObjv) /\ IsFiniteSet(Live) /\ shmObjv \in Seq(ShmObj \cup {NoObj})
  BY LiveFinite, Zenon DEF Live, LiveOf, ShmInd
<1>2. \A i \in Live : shmObjv[i] \in ShmObj
  BY <1>1, LiveFinite, Zenon
<1>3. ShmTypeOK
  <2>1. shmUsed \in Int
    BY <1>1, FS_CardinalityType DEF ShmInd
  <2>2. shmTot \in Int /\ shmMade \in 0..ShmMaxSegs
        /\ shmHeld \in [ShmProcs -> [1..ShmMaxSegs -> 0..ShmMaxAttach]]
        /\ shmOwner \in Seq(ShmProcs) /\ shmGone \subseteq ShmProcs
    BY Zenon DEF ShmInd, ShmKept
  <2> QED BY <1>2, <2>1, <2>2, Zenon DEF ShmTypeOK, ShmObj
<1>4. ShmAttachedKept
  <2> SUFFICES ASSUME NEW a \in 1..ShmMaxSegs
               PROVE  LET users == SumFunction([p \in ShmProcs |-> shmHeld[p][a]])
                      IN  /\ users > 0 => \E i \in Live : shmObjv[i].amp = a
                          /\ \A i \in Live : shmObjv[i].amp = a =>
                               Backed(i) /\ shmObjv[i].nattach = users /\ (shmObjv[i].deleteMe => users > 0)
    BY Zenon DEF ShmAttachedKept
  <2> DEFINE h == [p \in ShmProcs |-> shmHeld[p][a]]
  <2>1. DOMAIN h = ShmProcs /\ UsersOf(shmHeld, a) = SumOf(h, ShmProcs)
    BY Zenon DEF UsersOf
  <2> HIDE DEF h
  <2>2. SumFunction(h) = UsersOf(shmHeld, a)
    BY <2>1, SumFunctionIs, Zenon
  <2>3. UsersOf(shmHeld, a) > 0 => \E p \in ShmProcs : shmHeld[p][a] > 0
    BY ShmHoldings, UsersHold, Zenon
  <2>4. \A p \in ShmProcs : shmHeld[p][a] > 0 => \E i \in Live : shmObjv[i].amp = a
    BY <1>1, Zenon DEF ShmInd
  <2>5. \A i \in Live : shmObjv[i].amp = a =>
          shmObjv[i].nattach = UsersOf(shmHeld, a) /\ (shmObjv[i].deleteMe => UsersOf(shmHeld, a) > 0)
    BY <1>1 DEF ShmInd
  <2>7. \A i \in Live : Backed(i)
    BY <1>1, Zenon DEF ShmKept, Backed
  <2>6. /\ SumFunction(h) > 0 => \E i \in Live : shmObjv[i].amp = a
        /\ \A i \in Live : shmObjv[i].amp = a =>
             Backed(i) /\ shmObjv[i].nattach = SumFunction(h) /\ (shmObjv[i].deleteMe => SumFunction(h) > 0)
    BY <2>2, <2>3, <2>4, <2>5, <2>7, Zenon
  <2> QED BY <2>6, Zenon DEF h
<1>5. ShmMapConsistent
  <2>1. shmUsed = Cardinality(Live)
    BY <1>1, Zenon DEF ShmInd
  <2>2. \A i, j \in Live : i # j => /\ shmObjv[i].amp # shmObjv[j].amp
                                    /\ shmObjv[i].key = shmObjv[j].key => shmObjv[i].key = IpcPrivate
    BY <1>1, Zenon DEF ShmInd
  <2> QED BY <2>1, <2>2, Zenon DEF ShmMapConsistent
<1>6. ShmWithinMax
  <2> DEFINE h == [i \in Live |-> shmObjv[i].segsz]
  <2>1. DOMAIN h = Live /\ BytesOf(shmObjv) = SumOf(h, Live)
    BY <1>1, Zenon DEF BytesOf
  <2> HIDE DEF h
  <2>2. SumFunction(h) = BytesOf(shmObjv)
    BY <2>1, SumFunctionIs, Zenon
  <2>3. BytesOf(shmObjv) <= shmTot /\ BytesOf(shmObjv) \in Int /\ shmTot \in Int
    BY <1>1, BytesInt, Zenon DEF ShmInd
  <2>4. Live # {} => shmTot < ShmMax
    <3> SUFFICES ASSUME NEW i \in Live PROVE shmTot < ShmMax
      BY Zenon
    <3>1. shmObjv[i].amp \in 1..ShmMaxSegs /\ shmObjv[i].amp <= shmMade /\ shmMade \in 0..ShmMaxSegs
      BY <1>1, <1>2, Zenon DEF ShmInd, ShmObj
    <3>2. shmMade > 0
      BY <3>1
    <3> QED BY <3>2, Zenon DEF ShmInd
  <2>5. SumFunction(h) <= shmTot /\ (Live # {} => SumFunction(h) < ShmMax)
    BY <2>2, <2>3, <2>4, ShmAssumption
  <2> QED BY <2>5, Zenon DEF ShmWithinMax, h
<1> QED BY <1>3, <1>4, <1>5, <1>6, Zenon

\* No step clears a segment that a user has written.
LEMMA ShmStepKeepsData ==
    ASSUME ShmInd, ShmNext, NEW s \in Live, shmObjv[s].data = "user", shmObjv'[s] # NoObj
    PROVE  shmObjv'[s].data = "user"
<1>0. /\ shmObjv \in Seq(ShmObj \cup {NoObj}) /\ s \in LiveOf(shmObjv) /\ s \in 1..Len(shmObjv)
      /\ \A i \in Live : i \in LiveOf(shmObjv) /\ shmObjv[i] \in ShmObj
  BY LiveFinite, Zenon DEF ShmInd, Live, LiveOf
<1>1. ASSUME NEW p, NEW key \in ShmKeys, NEW size \in ShmSizes, ShmGet(p, key, size)
      PROVE  shmObjv'[s].data = "user"
  <2>1. NewSlot(key) # s /\ NewSlot(key) \in 1..(Len(shmObjv) + 1)
    BY <1>0, NewSlotFree, Zenon
  <2>2. shmObjv'[s] = shmObjv[s]
    <3>1. PICK o, n : shmObjv' = PutObj(n, o) /\ n = NewSlot(key)
      BY <1>1, Zenon DEF ShmGet
    <3>2. n # s /\ n \in 1..(Len(shmObjv) + 1)
      BY <2>1, <3>1, Zenon
    <3>3. PutObj(n, o)[s] = shmObjv[s]
      BY <1>0, <3>2 DEF PutObj
    <3> QED BY <3>1, <3>3, Zenon
  <2> QED BY <2>2, Zenon
<1>2. ASSUME NEW id \in 1..ShmMaxSegs, ShmRemove(id) PROVE shmObjv'[s].data = "user"
  BY <1>0, <1>2 DEF ShmRemove, ShmObj
<1>3. ASSUME NEW p \in ShmProcs, NEW i \in 1..ShmMaxSegs, ShmAt(p, i)
      PROVE  shmObjv'[s].data = "user"
  <2>1. ~shmObjv[s].clear
    BY <1>0, Zenon DEF ShmInd
  <2>2. i \in Live /\ shmObjv' = [shmObjv EXCEPT ![i] = Attached(shmObjv[i])]
    BY <1>3, Zenon DEF ShmAt
  <2>3. Attached(shmObjv[s]).data = "user"
    BY <1>0, <2>1, Zenon DEF Attached, ShmObj
  <2> QED BY <1>0, <2>2, <2>3
<1>4. ASSUME NEW p \in ShmProcs, NEW i \in 1..ShmMaxSegs, ShmWrite(p, i)
      PROVE  shmObjv'[s].data = "user"
  BY <1>0, <1>4 DEF ShmWrite, ShmObj
<1>5. ASSUME NEW p \in ShmProcs, NEW i \in 1..ShmMaxSegs, ShmDt(p, i)
      PROVE  shmObjv'[s].data = "user"
  BY <1>0, <1>5, SMTT(30) DEF ShmDt, ShmObj
<1>6. ASSUME NEW p, ShmExit(p) PROVE shmObjv'[s].data = "user"
  BY <1>6, Zenon DEF ShmExit
<1> QED BY <1>1, <1>2, <1>3, <1>4, <1>5, <1>6, Zenon DEF ShmNext

\* Shared memory: memory that is attached belongs to a segment whose count is
\* exact and whose heap exists, the map of keys is consistent, shmmax bounds the
\* segments, and what a user has written stays.  Processes detach before they
\* end and outlive their segments: nothing in the code does that for them.
THEOREM SegmentsAreSound == ASSUME ShmExits = {} PROVE ShmSpec => ShmSound
<1>1. ShmInit => ShmInd /\ ShmKept
  <2>1. ShmInit => ShmKept
    BY DEF ShmInit, ShmKept, LiveOf
  <2> QED BY <2>1, ShmIndInit, Zenon
<1>2. ShmInd /\ ShmKept /\ [ShmNext]_shmVars => ShmInd' /\ ShmKept'
  BY ShmIndNext, ShmKeptNext, Zenon
<1>3. ShmInd /\ ShmKept => ShmTypeOK /\ ShmAttachedKept /\ ShmMapConsistent /\ ShmWithinMax
  BY ShmIndSound, Zenon
<1>4. ShmInd /\ [ShmNext]_shmVars =>
        [\A i \in Live : shmObjv[i].data = "user" /\ shmObjv'[i] # NoObj =>
           shmObjv'[i].data = "user"]_shmVars
  BY ShmStepKeepsData, Zenon
<1> QED BY <1>1, <1>2, <1>3, <1>4, PTL DEF ShmSpec, ShmSound, ShmDataKept

-----------------------------------------------------------------------------
(***************************************************************************)
(* Proofs about module SysVMsg, for any number of processes, calls, sizes  *)
(* and limits.                                                             *)
(***************************************************************************)

Message == [type : Nat \ {0}, size : 0..(MqSizeMod - 1)]
BytesIn(msgs) == SumOf([i \in DOMAIN msgs |-> msgs[i].size], DOMAIN msgs)
Without(msgs, i) == SubSeq(msgs, 1, i - 1) \o SubSeq(msgs, i + 1, Len(msgs))

\* Sums of the first terms of a sequence of numbers.
LEMMA SumToNext ==
    ASSUME NEW h, NEW n \in Nat, \A i \in 1..(n + 1) : h[i] \in Int
    PROVE  /\ SumOf(h, 1..(n + 1)) = SumOf(h, 1..n) + h[n + 1]
           /\ SumOf(h, 1..n) \in Int /\ h[n + 1] \in Int
<1>1. IsFiniteSet(1..(n + 1)) /\ IsFiniteSet(1..n)
  BY FS_Interval
<1>2. (1..(n + 1)) \ {n + 1} = 1..n /\ n + 1 \in 1..(n + 1) /\ \A i \in 1..n : i \in 1..(n + 1)
  OBVIOUS
<1>3. SumOf(h, 1..(n + 1)) = h[n + 1] + SumOf(h, 1..n)
  BY <1>1, <1>2, SumWithout, SMTT(30)
<1>4. SumOf(h, 1..n) \in Int /\ h[n + 1] \in Int
  BY <1>1, <1>2, SumInt, Zenon
<1> QED BY <1>3, <1>4

\* k has the terms of h without the i-th.
Skips(k, h, n, i) ==
  /\ n \in Nat /\ i \in 1..n /\ \A j \in 1..n : h[j] \in Int
  /\ \A j \in 1..(i - 1) : k[j] = h[j]
  /\ \A j \in i..(n - 1) : k[j] = h[j + 1]

\* The sum of a sequence without its i-th value.
LEMMA SumSkips ==
    ASSUME NEW n, NEW i, NEW h, NEW k, Skips(k, h, n, i)
    PROVE  SumOf(h, 1..n) = SumOf(k, 1..(n - 1)) + h[i] /\ SumOf(k, 1..(n - 1)) \in Int
<1> USE DEF Skips
<1> DEFINE Ok(j) == IF j < i THEN SumOf(k, 1..j) = SumOf(h, 1..j)
                             ELSE SumOf(h, 1..(j + 1)) = SumOf(k, 1..j) + h[i]
           Bad == {j \in 0..(n - 1) : ~Ok(j)}
<1>1. \A j \in 1..(n - 1) : k[j] \in Int
  OBVIOUS
<1>2. ASSUME NEW j \in 0..(n - 1), j + 1 \in 0..(n - 1)
      PROVE  /\ SumOf(h, 1..(j + 1)) = SumOf(h, 1..j) + h[j + 1]
             /\ SumOf(k, 1..(j + 1)) = SumOf(k, 1..j) + k[j + 1]
             /\ SumOf(h, 1..j) \in Int /\ SumOf(k, 1..j) \in Int
             /\ h[j + 1] \in Int /\ k[j + 1] \in Int
  <2>1. j \in Nat /\ (\A y \in 1..(j + 1) : h[y] \in Int) /\ (\A y \in 1..(j + 1) : k[y] \in Int)
    BY <1>1, <1>2
  <2> QED BY <2>1, SumToNext, Zenon
<1>3. ASSUME NEW j \in 0..(n - 1)
      PROVE  /\ SumOf(h, 1..(j + 1)) = SumOf(h, 1..j) + h[j + 1]
             /\ SumOf(h, 1..j) \in Int /\ h[j + 1] \in Int
  <2>1. j \in Nat /\ (\A y \in 1..(j + 1) : h[y] \in Int)
    OBVIOUS
  <2> QED BY <2>1, SumToNext, Zenon
<1>4. \A j \in 0..(n - 1) : Ok(j)
  <2> SUFFICES ASSUME Bad # {} PROVE FALSE
    BY Zenon
  <2>1. Bad \subseteq Nat
    OBVIOUS
  <2> HIDE DEF Bad
  <2>2. PICK b : b \in Bad /\ \A c \in Bad : b <= c
    BY <2>1, LeastNat, Zenon
  <2>3. b \in 0..(n - 1) /\ ~Ok(b)
    BY <2>2, Zenon DEF Bad
  <2> HIDE DEF Ok
  <2>4. b # 0
    <3>1. Ok(0)
      <4>1. 1..0 = {} /\ IsFiniteSet({}) /\ 0 < i
        BY FS_EmptySet
      <4>2. SumOf(k, 1..0) = 0 /\ SumOf(h, 1..0) = 0
        BY <4>1, SumFirst, Zenon
      <4> QED BY <4>1, <4>2, Zenon DEF Ok
    <3> QED BY <2>3, <3>1, Zenon
  <2>5. PICK j : j = b - 1
    BY Zenon
  <2>6. j \in 0..(n - 1) /\ b = j + 1 /\ j + 1 \in 0..(n - 1) /\ ~(b <= j)
    BY <2>3, <2>4, <2>5
  <2>7. Ok(j)
    BY <2>2, <2>6, Zenon DEF Bad
  <2>8. Ok(j + 1)
    <3>1. CASE j + 1 < i
      <4>1. k[j + 1] = h[j + 1] /\ j < i
        BY <2>6, <3>1
      <4> QED BY <1>2, <2>6, <2>7, <3>1, <4>1, Zenon DEF Ok
    <3>2. CASE j + 1 = i
      <4>1. k[j + 1] = h[(j + 1) + 1] /\ j < i /\ ~(j + 1 < i)
        BY <2>6, <3>2
      <4>2. SumOf(h, 1..((j + 1) + 1)) = SumOf(h, 1..(j + 1)) + h[(j + 1) + 1]
        BY <1>3, <2>6, Zenon
      <4>3. h[(j + 1) + 1] \in Int
        BY <1>3, <2>6, Zenon
      <4> QED BY <1>2, <2>6, <2>7, <3>2, <4>1, <4>2, <4>3, SMTT(30) DEF Ok
    <3>3. CASE j + 1 > i
      <4>1. k[j + 1] = h[(j + 1) + 1] /\ ~(j < i) /\ ~(j + 1 < i) /\ h[i] \in Int
        BY <2>6, <3>3
      <4>2. SumOf(h, 1..((j + 1) + 1)) = SumOf(h, 1..(j + 1)) + h[(j + 1) + 1]
        BY <1>3, <2>6, Zenon
      <4>3. h[(j + 1) + 1] \in Int
        BY <1>3, <2>6, Zenon
      <4> QED BY <1>2, <2>6, <2>7, <4>1, <4>2, <4>3 DEF Ok
    <3> QED BY <2>6, <3>1, <3>2, <3>3
  <2> QED BY <2>3, <2>6, <2>8, Zenon
<1>5. n - 1 \in 0..(n - 1) /\ (n - 1) + 1 = n /\ h[i] \in Int /\ IsFiniteSet(1..(n - 1))
  BY FS_Interval
<1>6. SumOf(h, 1..n) = SumOf(h, 1..(n - 1)) + h[n] /\ SumOf(h, 1..(n - 1)) \in Int
  BY <1>3, <1>5, Zenon
<1>7. Ok(n - 1)
  BY <1>4, <1>5, Zenon
<1>8. SumOf(k, 1..(n - 1)) \in Int
  BY <1>1, <1>5, SumInt, Zenon
<1>9. CASE n - 1 < i
  <2>1. i = n
    BY <1>9
  <2> QED BY <1>6, <1>7, <1>8, <1>9, <2>1, Zenon
<1>10. CASE ~(n - 1 < i)
  BY <1>5, <1>7, <1>8, <1>10, Zenon
<1> QED BY <1>9, <1>10, Zenon

\* A queue with a message more, and with one less.
LEMMA BytesAppended ==
    ASSUME NEW msgs \in Seq(Message), NEW m \in Message
    PROVE  /\ BytesIn(Append(msgs, m)) = BytesIn(msgs) + m.size
           /\ BytesIn(msgs) \in Nat
<1> DEFINE h == [i \in DOMAIN msgs |-> msgs[i].size]
           k == [i \in DOMAIN Append(msgs, m) |-> Append(msgs, m)[i].size]
           n == Len(msgs)
<1>1. n \in Nat /\ DOMAIN msgs = 1..n /\ DOMAIN Append(msgs, m) = 1..(n + 1)
  OBVIOUS
<1>2. \A i \in 1..n : h[i] = msgs[i].size /\ k[i] = h[i] /\ msgs[i] \in Message
  BY <1>1
<1>3. k[n + 1] = m.size
  BY <1>1
<1>4. \A x \in Message : x.size \in Nat
  BY DEF Message
<1>5. BytesIn(msgs) = SumOf(h, 1..n) /\ BytesIn(Append(msgs, m)) = SumOf(k, 1..(n + 1))
  BY <1>1, Zenon DEF BytesIn
<1> HIDE DEF h, k, n
<1>6. \A i \in 1..n : h[i] \in Nat
  BY <1>2, <1>4, Zenon
<1>7. \A i \in 1..(n + 1) : k[i] \in Nat
  <2>1. \A i \in 1..(n + 1) : i = n + 1 \/ i \in 1..n
    BY <1>1
  <2> QED BY <1>2, <1>3, <1>4, <1>6, <2>1, Zenon
<1>8. IsFiniteSet(1..n)
  BY <1>1, FS_Interval
<1>9. SumOf(h, 1..n) = SumOf(k, 1..n)
  BY <1>2, <1>8, SumSame, Zenon
<1>10. SumOf(k, 1..(n + 1)) = SumOf(k, 1..n) + k[n + 1]
  <2>1. \A i \in 1..(n + 1) : k[i] \in Int
    BY <1>7
  <2> QED BY <1>1, <2>1, SumToNext, Zenon
<1>11. SumOf(h, 1..n) \in Nat
  <2>1. \A i \in 1..n : h[i] \in Int /\ h[i] >= 0
    BY <1>6
  <2>2. SumOf(h, 1..n) \in Int /\ SumOf(h, 1..n) >= 0
    BY <1>8, <2>1, SumInt, Zenon
  <2> QED BY <2>2
<1> QED BY <1>3, <1>5, <1>9, <1>10, <1>11, Zenon

\* The bytes of a list of messages.
LEMMA BytesNat ==
    ASSUME NEW msgs \in Seq(Message)
    PROVE  BytesIn(msgs) \in Nat
<1>1. [type |-> 1, size |-> 0] \in Message
  BY MqAssumption DEF Message
<1> QED BY <1>1, BytesAppended, Zenon

\* What a list is without its i-th message.
LEMMA WithoutIs ==
    ASSUME NEW msgs \in Seq(Message), NEW i \in 1..Len(msgs)
    PROVE  /\ Without(msgs, i) \in Seq(Message)
           /\ Len(Without(msgs, i)) = Len(msgs) - 1
           /\ \A j \in 1..(Len(msgs) - 1) : Without(msgs, i)[j] = IF j < i THEN msgs[j] ELSE msgs[j + 1]
           /\ BytesIn(msgs) = BytesIn(Without(msgs, i)) + msgs[i].size
           /\ msgs[i].size \in Nat
<1> DEFINE n == Len(msgs)
           w == Without(msgs, i)
<1>1. n \in Nat /\ i \in 1..n /\ DOMAIN msgs = 1..n
  OBVIOUS
<1>2. PICK a : a = SubSeq(msgs, 1, i - 1)
  BY Zenon
<1>3. PICK b : b = SubSeq(msgs, i + 1, n)
  BY Zenon
<1>a. a \in Seq(Message) /\ Len(a) = i - 1 /\ \A j \in 1..(i - 1) : a[j] = msgs[j]
  BY <1>2
<1>b. b \in Seq(Message) /\ Len(b) = n - i /\ \A j \in 1..(n - i) : b[j] = msgs[i + j]
  BY <1>3
<1>c. w = a \o b
  BY <1>2, <1>3, Zenon DEF Without
<1> HIDE DEF n, w
<1>4. w \in Seq(Message) /\ Len(w) = n - 1
  <2>1. w \in Seq(Message)
    BY <1>a, <1>b, <1>c
  <2>0. a \in Seq(Message) /\ b \in Seq(Message)
    BY <1>a, <1>b, Zenon
  <2>3. Len(a \o b) = Len(a) + Len(b)
    BY <2>0
  <2>2. Len(w) = Len(a) + Len(b)
    BY <1>c, <2>3, Zenon
  <2> QED BY <1>1, <1>a, <1>b, <2>1, <2>2
<1>5. \A j \in 1..(n - 1) : w[j] = IF j < i THEN msgs[j] ELSE msgs[j + 1]
  <2> SUFFICES ASSUME NEW j \in 1..(n - 1) PROVE w[j] = IF j < i THEN msgs[j] ELSE msgs[j + 1]
    BY Zenon
  <2>1. CASE j < i
    <3>1. j \in 1..(i - 1) /\ w[j] = a[j]
      BY <1>1, <1>a, <1>b, <1>c, <2>1
    <3> QED BY <1>a, <2>1, <3>1, Zenon
  <2>2. CASE ~(j < i)
    <3>1. j - (i - 1) \in 1..(n - i) /\ w[j] = b[j - (i - 1)] /\ i + (j - (i - 1)) = j + 1
      BY <1>1, <1>a, <1>b, <1>c, <2>2
    <3> QED BY <1>b, <2>2, <3>1, Zenon
  <2> QED BY <2>1, <2>2, Zenon
<1> DEFINE h == [j \in DOMAIN msgs |-> msgs[j].size]
           k == [j \in DOMAIN w |-> w[j].size]
<1>6. DOMAIN w = 1..(n - 1)
  BY <1>1, <1>4
<1>7. BytesIn(msgs) = SumOf(h, 1..n) /\ BytesIn(w) = SumOf(k, 1..(n - 1))
  BY <1>1, <1>6, Zenon DEF BytesIn
<1>8. \A j \in 1..n : h[j] = msgs[j].size /\ msgs[j] \in Message
  BY <1>1
<1>9. \A j \in 1..(n - 1) : k[j] = w[j].size
  BY <1>6, Zenon
<1>10. \A x \in Message : x.size \in Nat
  BY DEF Message
<1> HIDE DEF h, k
<1>11. \A j \in 1..n : h[j] \in Int
  BY <1>8, <1>10
<1>12. (\A j \in 1..(i - 1) : k[j] = h[j]) /\ (\A j \in i..(n - 1) : k[j] = h[j + 1])
  BY <1>1, <1>5, <1>8, <1>9
<1>13. SumOf(h, 1..n) = SumOf(k, 1..(n - 1)) + h[i]
  <2>1. Skips(k, h, n, i)
    BY <1>1, <1>11, <1>12, Zenon DEF Skips
  <2> QED BY <2>1, SumSkips, Zenon
<1>14. h[i] = msgs[i].size /\ msgs[i].size \in Nat
  BY <1>1, <1>8, <1>10, Zenon
<1> QED BY <1>4, <1>5, <1>7, <1>13, <1>14, Zenon DEF w, n

-----------------------------------------------------------------------------

\* What holds whatever the calls are: a queue that is gone has no messages and
\* nobody waits for it, since IPC_RMID wakes both lists.
MqShape ==
  /\ mqMade \in 0..MqMaxQueues /\ mqId \in BOOLEAN /\ mqStuck \in MqProcs \cup {"none"}
  /\ mqMsgs \in Seq(Message)
  /\ mqPc \in [MqProcs -> {"out", "try", "suspending", "asleep"}]
  /\ mqReq \in [MqProcs -> MqRequest \cup {NoReq}]
  /\ \A p \in MqProcs : /\ mqReq[p] \in MqRequests[p] \cup {NoReq}
                        /\ (mqReq[p] = NoReq) <=> (mqPc[p] = "out")
  /\ mqType \in [MqProcs -> Int]
  /\ ~mqId => mqMsgs = <<>> /\ \A p \in MqProcs : mqPc[p] \in {"out", "try"}

\* No call is not a call.
LEMMA NoReqApart == NoReq \notin MqRequest
BY Zenon DEF NoReq, MqRequest

\* What msgsnd adds is a message.
LEMMA SentMessage ==
    ASSUME NEW r \in MqRequest, r.call = "snd"
    PROVE  [type |-> r.type, size |-> r.size] \in Message /\ r.size \in 0..(MqSizeMod - 1)
BY Zenon DEF MqRequest, Message

\* A call goes to another place, and those it wakes go on.
LEMMA ShapeMoves ==
    ASSUME MqShape, NEW p \in MqProcs, mqPc[p] = "try", mqId' = mqId,
           mqMsgs' \in Seq(Message), ~mqId => mqMsgs' = mqMsgs,
           UNCHANGED <<mqMade, mqStuck>>,
           \/ /\ MsgReset(p)
              /\ mqPc' = MsgReturned(p) \/ \E woken : MqWake(woken, MsgReturned(p))
           \/ /\ mqReq' = mqReq /\ mqType' \in [MqProcs -> Int] /\ mqId
              /\ mqPc' = [mqPc EXCEPT ![p] = "suspending"]
    PROVE  MqShape'
<1>1. CASE MsgReset(p) /\ mqPc' = MsgReturned(p)
  BY <1>1 DEF MqShape, MsgReset, MsgReturned
<1>2. ASSUME MsgReset(p), NEW woken, MqWake(woken, MsgReturned(p)) PROVE MqShape'
  <2>1. /\ mqPc' \in [MqProcs -> {"out", "try", "suspending", "asleep"}]
        /\ \A q \in MqProcs : /\ mqPc'[q] = "out" <=> q = p \/ mqPc[q] = "out"
                              /\ q \in woken => mqPc[q] = "asleep"
                              /\ mqPc[q] \in {"out", "try"} => mqPc'[q] \in {"out", "try"}
    BY <1>2, Zenon DEF MqWake, MsgReturned, MqShape
  <2>2. /\ mqReq' \in [MqProcs -> MqRequest \cup {NoReq}] /\ mqType' \in [MqProcs -> Int]
        /\ mqReq'[p] = NoReq /\ \A q \in MqProcs \ {p} : mqReq'[q] = mqReq[q]
    BY <1>2 DEF MqShape, MsgReset
  <2>3. \A q \in MqProcs : /\ mqReq'[q] \in MqRequests[q] \cup {NoReq}
                           /\ (mqReq'[q] = NoReq) <=> (mqPc'[q] = "out")
    BY <2>1, <2>2, ZenonT(30) DEF MqShape
  <2>4. ~mqId' => mqMsgs' = <<>> /\ \A q \in MqProcs : mqPc'[q] \in {"out", "try"}
    BY <2>1, Zenon DEF MqShape
  <2>5. mqMade' \in 0..MqMaxQueues /\ mqId' \in BOOLEAN /\ mqStuck' \in MqProcs \cup {"none"}
    BY Zenon DEF MqShape
  <2> QED BY <2>1, <2>2, <2>3, <2>4, <2>5, Zenon DEF MqShape
<1>3. CASE /\ mqReq' = mqReq /\ mqType' \in [MqProcs -> Int] /\ mqId
           /\ mqPc' = [mqPc EXCEPT ![p] = "suspending"]
  BY <1>3, Zenon DEF MqShape
<1> QED BY <1>1, <1>2, <1>3, Zenon
\* No queue yet.
LEMMA ShapeInit == MqInit => MqShape
<1> SUFFICES ASSUME MqInit PROVE MqShape
  BY Zenon
<1>1. mqMade \in 0..MqMaxQueues /\ mqMsgs \in Seq(Message) /\ mqType \in [MqProcs -> Int]
  BY MqAssumption DEF MqInit
<1>2. /\ mqPc \in [MqProcs -> {"out", "try", "suspending", "asleep"}]
      /\ mqReq \in [MqProcs -> MqRequest \cup {NoReq}]
      /\ \A p \in MqProcs : mqReq[p] = NoReq /\ mqPc[p] = "out"
  BY Zenon DEF MqInit
<1> QED BY <1>1, <1>2, Zenon DEF MqInit, MqShape

\* The search finds a message that matches, and none before it does.
LEMMA FirstMatchIs ==
    ASSUME NEW mtype, FirstMatch(mtype) # {}
    PROVE  LET i == CHOOSE k \in FirstMatch(mtype) : TRUE
           IN  /\ i \in FirstMatch(mtype) /\ i \in 1..Len(mqMsgs)
               /\ \A j \in 1..(i - 1) : ~Matches(mqMsgs[j].type, mtype)
               /\ Matches(mqMsgs[i].type, mtype)
BY Zenon DEF FirstMatch

\* msgsnd.
LEMMA ShapeSend == ASSUME MqShape, NEW p \in MqProcs, MsgSend(p) PROVE MqShape'
<1>1. mqPc[p] = "try" /\ mqId /\ mqReq[p].call = "snd" /\ UNCHANGED <<mqMade, mqId, mqStuck>>
  BY Zenon DEF MsgSend
<1>2. mqReq[p] \in MqRequest
  BY <1>1, Zenon DEF MqShape, NoReq
<1>3. mqMsgs' \in Seq(Message)
  <2>1. mqMsgs \in Seq(Message)
    BY Zenon DEF MqShape
  <2>2. mqMsgs' = mqMsgs \/ mqMsgs' = Append(mqMsgs, [type |-> mqReq[p].type, size |-> mqReq[p].size])
    BY Zenon DEF MsgSend
  <2> QED BY <1>1, <1>2, <2>1, <2>2, SentMessage
<1>4. \/ /\ MsgReset(p)
         /\ mqPc' = MsgReturned(p) \/ \E woken : MqWake(woken, MsgReturned(p))
      \/ mqReq' = mqReq /\ mqType' = mqType /\ mqPc' = [mqPc EXCEPT ![p] = "suspending"]
  BY Zenon DEF MsgSend
<1>5. mqType \in [MqProcs -> Int]
  BY Zenon DEF MqShape
<1> QED BY <1>1, <1>3, <1>4, <1>5, ShapeMoves, Zenon

\* What a step of msgrcv does to the list and to the type it looks for.
LEMMA ReceiveTakes ==
    ASSUME MqShape, NEW p \in MqProcs, MsgReceive(p)
    PROVE  /\ mqPc[p] = "try" /\ mqId /\ mqReq[p] \in MqRequest /\ mqReq[p].call = "rcv"
           /\ UNCHANGED <<mqMade, mqId, mqStuck, msg_qbytes>>
           /\ \/ /\ FirstMatch(mqType[p]) # {}
                 /\ \E i \in FirstMatch(mqType[p]) :
                      /\ i \in 1..Len(mqMsgs) /\ mqMsgs' = Without(mqMsgs, i)
                      /\ MsgReset(p)
                      /\ IF mqMsgs[i].size <= mqReq[p].size \/ mqReq[p].noerror
                           THEN /\ msg_cbytes' = (msg_cbytes - mqMsgs[i].size) % MqSizeMod
                                /\ msg_qnum' = msg_qnum - 1
                                /\ MqWake(MqList("snd"), MsgReturned(p))
                           ELSE mqPc' = MsgReturned(p)
              \/ /\ FirstMatch(mqType[p]) = {}
                 /\ UNCHANGED <<mqMsgs, msg_cbytes, msg_qnum>>
                 /\ \/ MsgReset(p) /\ mqPc' = MsgReturned(p)
                    \/ /\ mqReq' = mqReq /\ mqPc' = [mqPc EXCEPT ![p] = "suspending"]
                       /\ mqType' = [mqType EXCEPT ![p] = IF @ < 0 THEN -@ ELSE @]
<1>1. mqPc[p] = "try" /\ mqId /\ mqReq[p].call = "rcv" /\ UNCHANGED <<mqMade, mqId, mqStuck, msg_qbytes>>
  BY Zenon DEF MsgReceive
<1>2. mqReq[p] \in MqRequest
  BY <1>1, Zenon DEF MqShape, NoReq
<1>3. CASE FirstMatch(mqType[p]) # {}
  <2>1. PICK i : i = CHOOSE k \in FirstMatch(mqType[p]) : TRUE
    BY Zenon
  <2>2. i \in FirstMatch(mqType[p]) /\ i \in 1..Len(mqMsgs)
    BY <1>3, <2>1, FirstMatchIs, Zenon
  <2>3. /\ mqMsgs' = Unchained(i) /\ MsgReset(p)
        /\ IF mqMsgs[i].size <= mqReq[p].size \/ mqReq[p].noerror
             THEN /\ msg_cbytes' = (msg_cbytes - mqMsgs[i].size) % MqSizeMod
                  /\ msg_qnum' = msg_qnum - 1
                  /\ MqWake(MqList("snd"), MsgReturned(p))
             ELSE mqPc' = MsgReturned(p)
    BY <1>3, <2>1, Zenon DEF MsgReceive, RecvWakes
  <2>4. mqMsgs' = Without(mqMsgs, i)
    BY <2>3, Zenon DEF Unchained, Without
  <2> QED BY <1>1, <1>2, <1>3, <2>2, <2>3, <2>4, Zenon
<1>4. CASE FirstMatch(mqType[p]) = {}
  BY <1>1, <1>2, <1>4, Zenon DEF MsgReceive
<1> QED BY <1>3, <1>4, Zenon

\* msgrcv.
LEMMA ShapeReceive == ASSUME MqShape, NEW p \in MqProcs, MsgReceive(p) PROVE MqShape'
<1>1. mqPc[p] = "try" /\ mqId /\ UNCHANGED <<mqMade, mqId, mqStuck>>
  BY ReceiveTakes, Zenon
<1>2. mqMsgs \in Seq(Message) /\ mqType \in [MqProcs -> Int]
  BY Zenon DEF MqShape
<1>3. mqMsgs' \in Seq(Message)
  BY <1>2, ReceiveTakes, WithoutIs, Zenon
<1>4. \/ /\ MsgReset(p)
         /\ mqPc' = MsgReturned(p) \/ \E woken : MqWake(woken, MsgReturned(p))
      \/ /\ mqReq' = mqReq /\ mqPc' = [mqPc EXCEPT ![p] = "suspending"]
         /\ mqType' = [mqType EXCEPT ![p] = IF @ < 0 THEN -@ ELSE @]
  BY ReceiveTakes, Zenon
<1>5. [mqType EXCEPT ![p] = IF @ < 0 THEN -@ ELSE @] \in [MqProcs -> Int]
  BY <1>2
<1> QED BY <1>1, <1>3, <1>4, <1>5, ShapeMoves, Zenon

\* Every step of a queue.
LEMMA ShapeNext == ASSUME MqShape, [MqNext]_mqVars PROVE MqShape'
<1>1. ASSUME NEW p \in MqProcs, MsgGet(p) PROVE MqShape'
  <2>1. mqMade + 1 \in 0..MqMaxQueues
    BY <1>1, MqAssumption DEF MqShape, MsgGet
  <2>2. mqMsgs' \in Seq(Message) /\ mqId' = TRUE /\ mqMade' = mqMade + 1
    BY <1>1 DEF MsgGet
  <2>3. UNCHANGED <<mqStuck, mqPc, mqReq, mqType>>
    BY <1>1, Zenon DEF MsgGet
  <2> QED BY <2>1, <2>2, <2>3, Zenon DEF MqShape
<1>2. ASSUME NEW p \in MqProcs, MsgGone(p) PROVE MqShape'
  <2>1. mqPc[p] = "try" /\ mqPc' = MsgReturned(p) /\ MsgReset(p) /\ UNCHANGED <<mqMade, mqId, mqStuck, mqMsgs>>
    BY <1>2, Zenon DEF MsgGone, mqQueue
  <2>2. mqMsgs \in Seq(Message)
    BY Zenon DEF MqShape
  <2> QED BY <2>1, <2>2, ShapeMoves, Zenon
<1>3. ASSUME NEW p \in MqProcs, MsgSend(p) PROVE MqShape'
  BY <1>3, ShapeSend, Zenon
<1>4. ASSUME NEW p \in MqProcs, MsgReceive(p) PROVE MqShape'
  BY <1>4, ShapeReceive, Zenon
<1>5. ASSUME NEW p \in MqProcs, MsgSuspend(p) PROVE MqShape'
  BY <1>5, Zenon DEF MqShape, MsgSuspend, mqQueue
<1>6. ASSUME NEW p \in MqProcs, MsgRemove(p) PROVE MqShape'
  <2>1. /\ mqPc' \in [MqProcs -> {"out", "try", "suspending", "asleep"}]
        /\ \A q \in MqProcs : (mqPc'[q] = "out" <=> mqPc[q] = "out") /\ mqPc'[q] \in {"out", "try"}
    <3> SUFFICES ASSUME NEW q \in MqProcs
                 PROVE  mqPc'[q] \in {"out", "try"} /\ (mqPc'[q] = "out" <=> mqPc[q] = "out")
      BY <1>6, Zenon DEF MsgRemove, MqWake
    <3>1. mqPc[q] \in {"suspending", "asleep"} => mqReq[q] \in MqRequest
      BY Zenon DEF MqShape
    <3>2. mqPc[q] \in {"suspending", "asleep"} => mqReq[q].call \in {"snd", "rcv"}
      BY <3>1, Zenon DEF MqRequest
    <3>3. mqPc[q] \in {"suspending", "asleep"} => q \in MqList("snd") \cup MqList("rcv")
      BY <3>2, Zenon DEF MqList
    <3> QED BY <1>6, <3>3, Zenon DEF MsgRemove, MqWake, MqShape, MqList
  <2>2. /\ mqMsgs' \in Seq(Message) /\ mqMsgs' = <<>> /\ mqId' = FALSE
        /\ mqStuck' \in MqProcs \cup {"none"} /\ UNCHANGED <<mqMade, mqReq, mqType>>
    BY <1>6 DEF MsgRemove
  <2> QED BY <2>1, <2>2, Zenon DEF MqShape
<1>7. ASSUME NEW p \in MqProcs, NEW req \in MqRequests[p], MsgCall(p, req) PROVE MqShape'
  <2>1. req \in MqRequest /\ req # NoReq
    BY MqAssumption, NoReqApart, Zenon
  <2>2. mqType' \in [MqProcs -> Int]
    <3>1. req.call = "rcv" => req.type \in Int
      BY <2>1, Zenon DEF MqRequest
    <3>2. mqType \in [MqProcs -> Int]
      BY Zenon DEF MqShape
    <3> QED BY <1>7, <3>1, <3>2 DEF MsgCall
  <2>3. UNCHANGED <<mqMade, mqId, mqStuck, mqMsgs>>
    BY <1>7, Zenon DEF MsgCall, mqQueue
  <2>4. mqPc' = [mqPc EXCEPT ![p] = "try"] /\ mqReq' = [mqReq EXCEPT ![p] = req]
    BY <1>7, Zenon DEF MsgCall
  <2> QED BY <2>1, <2>2, <2>3, <2>4, Zenon DEF MqShape
<1>8. ASSUME NEW p \in MqProcs, NEW limit \in MqLimits, MsgSet(p, limit) PROVE MqShape'
  BY <1>8, Zenon DEF MsgSet, MqShape
<1>9. CASE UNCHANGED mqVars
  BY <1>9, Zenon DEF mqVars, MqShape
<1> QED BY <1>1, <1>2, <1>3, <1>4, <1>5, <1>6, <1>7, <1>8, <1>9, Zenon DEF MqNext, MsgStep

\* The action of MqFifo.
FifoStep ==
  mqId' /\ mqMsgs' # mqMsgs /\ mqMsgs # <<>> =>
    \/ Len(mqMsgs') = Len(mqMsgs) + 1 /\ SubSeq(mqMsgs', 1, Len(mqMsgs)) = mqMsgs
    \/ \E i \in 1..Len(mqMsgs) :
         /\ mqMsgs' = Unchained(i)
         /\ \A j \in 1..(i - 1) : mqMsgs[j].type # mqMsgs[i].type

\* Every step keeps the order within a type.
LEMMA FifoHolds == ASSUME MqShape, [MqNext]_mqVars PROVE FifoStep
<1>0. mqMsgs \in Seq(Message)
  BY Zenon DEF MqShape
<1>1. ASSUME NEW p \in MqProcs, MsgGet(p) PROVE FifoStep
  BY <1>1, Zenon DEF MqShape, MsgGet, FifoStep
<1>2. ASSUME NEW p \in MqProcs, MsgSend(p) PROVE FifoStep
  <2>1. \/ mqMsgs' = mqMsgs
        \/ mqMsgs' = Append(mqMsgs, [type |-> mqReq[p].type, size |-> mqReq[p].size])
    BY <1>2, Zenon DEF MsgSend
  <2>2. mqReq[p] \in MqRequest /\ mqReq[p].call = "snd"
    BY <1>2, Zenon DEF MqShape, NoReq, MsgSend
  <2>3. ASSUME NEW m \in Message
        PROVE  Len(Append(mqMsgs, m)) = Len(mqMsgs) + 1 /\ SubSeq(Append(mqMsgs, m), 1, Len(mqMsgs)) = mqMsgs
    BY <1>0
  <2> QED BY <2>1, <2>2, <2>3, SentMessage, Zenon DEF FifoStep
<1>3. ASSUME NEW p \in MqProcs, MsgReceive(p) PROVE FifoStep
  <2>1. CASE mqMsgs' = mqMsgs
    BY <2>1, Zenon DEF FifoStep
  <2>2. CASE mqMsgs' # mqMsgs
    <3>1. PICK i \in FirstMatch(mqType[p]) : i \in 1..Len(mqMsgs) /\ mqMsgs' = Without(mqMsgs, i)
      BY <1>3, <2>2, ReceiveTakes, Zenon
    <3>2. \A j \in 1..(i - 1) : mqMsgs[j].type # mqMsgs[i].type
      BY <3>1, Zenon DEF FirstMatch
    <3> QED BY <3>1, <3>2, Zenon DEF FifoStep, Without, Unchained
  <2> QED BY <2>1, <2>2, Zenon
<1>4. ASSUME NEW p \in MqProcs, MsgRemove(p) PROVE FifoStep
  BY <1>4, Zenon DEF MsgRemove, FifoStep
<1>5. CASE mqMsgs' = mqMsgs
  BY <1>5, Zenon DEF FifoStep
<1>6. ASSUME NEW p \in MqProcs,
             \/ MsgGone(p) \/ MsgSuspend(p)
             \/ \E req \in MqRequests[p] : MsgCall(p, req)
             \/ \E limit \in MqLimits : MsgSet(p, limit)
      PROVE  mqMsgs' = mqMsgs
  BY <1>6, Zenon DEF MsgGone, MsgSuspend, MsgCall, MsgSet, mqQueue
<1>7. UNCHANGED mqVars => mqMsgs' = mqMsgs
  BY Zenon DEF mqVars
<1> QED BY <1>1, <1>2, <1>3, <1>4, <1>5, <1>6, <1>7, Zenon DEF MqNext, MsgStep

\* Messages of one type leave a queue in the order they came, whatever types
\* msgrcv is called with and whoever waits.
THEOREM MessagesKeepTheirOrder == MqSpec => MqFifo
<1>1. MqInit => MqShape
  BY ShapeInit, Zenon
<1>2. MqShape /\ [MqNext]_mqVars => MqShape'
  BY ShapeNext, Zenon
<1>3. MqShape /\ [MqNext]_mqVars => [FifoStep]_mqVars
  BY FifoHolds, Zenon
<1> QED BY <1>1, <1>2, <1>3, PTL DEF MqSpec, MqFifo, FifoStep

-----------------------------------------------------------------------------

\* The buffer of every msgrcv is long enough for what msgsnd puts in the queue:
\* a message that is too long leaves it uncounted.
BuffersSuffice ==
  \A p, q \in MqProcs : \A s \in MqRequests[p], r \in MqRequests[q] :
    s.call = "snd" /\ r.call = "rcv" =>
      s.size <= r.size \/ r.noerror \/ \A limit \in MqLimits \cup {MqDefault} : s.size > limit

\* No msgrcv asks for the types up to one: its search forgets the range when it
\* sleeps.  (Of -1, only the type 1 is in the range.)
NoTypeRange ==
  \A q \in MqProcs : \A r \in MqRequests[q] : r.call = "rcv" => r.type >= -1

Fits(m) == \A q \in MqProcs : \A r \in MqRequests[q] :
             r.call = "rcv" => m.size <= r.size \/ r.noerror

Sleeps(p) == mqPc[p] \in {"suspending", "asleep"}

\* What p waits for is not there.
Blocked(p) ==
  IF mqReq[p].call = "rcv"
    THEN \A i \in 1..Len(mqMsgs) : ~Matches(mqMsgs[i].type, mqReq[p].type)
    ELSE msg_qbytes - msg_cbytes < mqReq[p].size

\* The search of p is still for the type it was called with.
SearchKept(p) ==
  mqReq[p].call = "rcv" => mqType[p] = mqReq[p].type \/ (mqReq[p].type = -1 /\ mqType[p] = 1)

MqCounts ==
  /\ msg_qnum = Len(mqMsgs) /\ msg_cbytes = BytesIn(mqMsgs)
  /\ msg_cbytes <= msg_qbytes /\ msg_qbytes \in MqLimits \cup {MqDefault}
  /\ \A i \in 1..Len(mqMsgs) : Fits(mqMsgs[i])

MqWaits ==
  /\ \A p \in MqProcs : SearchKept(p)
  /\ mqId => \A p \in MqProcs : Sleeps(p) => Blocked(p)

\* An empty list has no bytes.
LEMMA BytesEmpty == BytesIn(<<>>) = 0
<1>1. DOMAIN <<>> = {} /\ IsFiniteSet({})
  BY FS_EmptySet
<1> QED BY <1>1, SumFirst, Zenon DEF BytesIn

\* Arithmetic in size_t of a number that fits.
LEMMA Remainder == ASSUME NEW x \in 0..(MqSizeMod - 1) PROVE x % MqSizeMod = x
<1>1. MqSizeMod \in Nat \ {0}
  BY MqAssumption, Zenon
<1> QED BY <1>1

\* The counts are within size_t, so the room left is the real one.
LEMMA CountTypes ==
    ASSUME MqShape, MqCounts
    PROVE  /\ msg_qnum \in Nat /\ msg_cbytes \in 0..(MqSizeMod - 1) /\ msg_qbytes \in 0..(MqSizeMod - 1)
           /\ RoomLeft = msg_qbytes - msg_cbytes
<1>1. mqMsgs \in Seq(Message) /\ MqSizeMod \in Nat
  BY MqAssumption, Zenon DEF MqShape
<1>2. msg_cbytes \in Nat /\ msg_qnum \in Nat
  BY <1>1, BytesNat DEF MqCounts
<1>3. msg_qbytes \in 0..(MqSizeMod - 1)
  BY MqAssumption DEF MqCounts
<1>4. msg_cbytes <= msg_qbytes
  BY Zenon DEF MqCounts
<1>5. msg_cbytes \in 0..(MqSizeMod - 1) /\ msg_qbytes - msg_cbytes \in 0..(MqSizeMod - 1)
  BY <1>1, <1>2, <1>3, <1>4
<1> QED BY <1>2, <1>3, <1>5, Remainder, Zenon DEF RoomLeft

\* msgsnd counts what it adds.
LEMMA CountsSend ==
    ASSUME MqShape, MqCounts, BuffersSuffice, NEW p \in MqProcs, MsgSend(p)
    PROVE  MqCounts' /\ msg_cbytes' >= msg_cbytes
<1>1. /\ mqReq[p] \in MqRequest /\ mqReq[p] \in MqRequests[p] /\ mqReq[p].call = "snd"
      /\ msg_qbytes' = msg_qbytes
  BY Zenon DEF MqShape, NoReq, MsgSend
<1>2. mqReq[p].size \in 0..(MqSizeMod - 1)
  BY <1>1, SentMessage, Zenon
<1>3. CASE UNCHANGED <<mqMsgs, msg_qnum, msg_cbytes>>
  BY <1>1, <1>3, CountTypes DEF MqCounts
<1>4. CASE /\ RoomLeft >= mqReq[p].size
           /\ mqMsgs' = Append(mqMsgs, [type |-> mqReq[p].type, size |-> mqReq[p].size])
           /\ msg_qnum' = msg_qnum + 1 /\ msg_cbytes' = AddedBytes(mqReq[p].size)
  <2>1. PICK m : m = [type |-> mqReq[p].type, size |-> mqReq[p].size]
    BY Zenon
  <2>2. m \in Message /\ m.size = mqReq[p].size /\ mqMsgs' = Append(mqMsgs, m) /\ mqMsgs \in Seq(Message)
    BY <1>1, <1>4, <2>1, SentMessage, Zenon DEF MqShape
  <2>3. msg_cbytes + m.size <= msg_qbytes /\ msg_cbytes + m.size \in 0..(MqSizeMod - 1)
    <3>1. MqSizeMod \in Nat /\ msg_qbytes - msg_cbytes >= m.size
      BY <1>4, <2>2, CountTypes, MqAssumption, Zenon
    <3>2. msg_cbytes \in 0..(MqSizeMod - 1) /\ msg_qbytes \in 0..(MqSizeMod - 1) /\ m.size \in 0..(MqSizeMod - 1)
      BY <1>2, <2>2, CountTypes, Zenon
    <3> QED BY <3>1, <3>2
  <2>4. msg_cbytes' = msg_cbytes + m.size
    BY <1>4, <2>2, <2>3, Remainder, Zenon DEF AddedBytes
  <2>5. BytesIn(mqMsgs') = BytesIn(mqMsgs) + m.size
    BY <2>2, BytesAppended, Zenon
  <2>6. Len(mqMsgs') = Len(mqMsgs) + 1 /\ Len(mqMsgs) \in Nat
        /\ mqMsgs'[Len(mqMsgs) + 1] = m /\ \A i \in 1..Len(mqMsgs) : mqMsgs'[i] = mqMsgs[i]
    BY <2>2
  <2>7. Fits(m)
    <3>1. m.size <= msg_qbytes /\ msg_qbytes \in MqLimits \cup {MqDefault} /\ ~(m.size > msg_qbytes)
      BY <1>2, <2>2, <2>3, CountTypes, SMTT(30) DEF MqCounts
    <3> QED BY <1>1, <2>2, <3>1, Zenon DEF BuffersSuffice, Fits
  <2>8. \A i \in 1..Len(mqMsgs') : Fits(mqMsgs'[i])
    <3>1. \A i \in 1..Len(mqMsgs') : i = Len(mqMsgs) + 1 \/ i \in 1..Len(mqMsgs)
      BY <2>6
    <3> QED BY <2>6, <2>7, <3>1, Zenon DEF MqCounts
  <2>9. msg_cbytes + m.size >= msg_cbytes
    BY <1>2, <2>2, CountTypes
  <2>10. msg_qnum' = Len(mqMsgs') /\ msg_cbytes' = BytesIn(mqMsgs')
    BY <1>4, <2>4, <2>5, <2>6, Zenon DEF MqCounts
  <2>11. msg_cbytes' <= msg_qbytes' /\ msg_qbytes' \in MqLimits \cup {MqDefault}
    BY <1>1, <2>3, <2>4, Zenon DEF MqCounts
  <2>12. msg_cbytes' >= msg_cbytes
    BY <2>4, <2>9, Zenon
  <2> HIDE DEF Fits
  <2> QED BY <2>8, <2>10, <2>11, <2>12, Zenon DEF MqCounts, Fits
<1> QED BY <1>3, <1>4, Zenon DEF MsgSend

\* msgrcv counts out what it takes, if it fits the buffer.
LEMMA CountsReceive ==
    ASSUME MqShape, MqCounts, NEW p \in MqProcs, MsgReceive(p)
    PROVE  MqCounts'
<1>1. CASE FirstMatch(mqType[p]) = {}
  <2>1. UNCHANGED <<mqMsgs, msg_cbytes, msg_qnum, msg_qbytes>>
    BY <1>1, ReceiveTakes, Zenon
  <2> QED BY <2>1, Zenon DEF MqCounts
<1>2. CASE FirstMatch(mqType[p]) # {}
  <2>1. PICK i \in 1..Len(mqMsgs) :
          /\ mqMsgs' = Without(mqMsgs, i)
          /\ IF mqMsgs[i].size <= mqReq[p].size \/ mqReq[p].noerror
               THEN /\ msg_cbytes' = (msg_cbytes - mqMsgs[i].size) % MqSizeMod
                    /\ msg_qnum' = msg_qnum - 1
               ELSE TRUE
    BY <1>2, ReceiveTakes, Zenon
  <2>2. mqMsgs[i].size <= mqReq[p].size \/ mqReq[p].noerror
    <3>1. Fits(mqMsgs[i])
      BY Zenon DEF MqCounts
    <3>2. mqReq[p] \in MqRequests[p] /\ mqReq[p].call = "rcv"
      BY ReceiveTakes, NoReqApart, Zenon DEF MqShape
    <3> QED BY <3>1, <3>2, Zenon DEF Fits
  <2>3. mqMsgs \in Seq(Message)
    BY Zenon DEF MqShape
  <2>4. PICK w : w = Without(mqMsgs, i)
    BY Zenon
  <2>5. /\ w \in Seq(Message) /\ Len(w) = Len(mqMsgs) - 1 /\ Len(mqMsgs) \in Nat
        /\ \A j \in 1..(Len(mqMsgs) - 1) : w[j] = IF j < i THEN mqMsgs[j] ELSE mqMsgs[j + 1]
        /\ BytesIn(mqMsgs) = BytesIn(w) + mqMsgs[i].size /\ mqMsgs[i].size \in Nat
        /\ BytesIn(w) \in Nat
    <3>1. Without(mqMsgs, i) \in Seq(Message)
      BY <2>3, WithoutIs, Zenon
    <3>2. BytesIn(Without(mqMsgs, i)) \in Nat
      BY <3>1, BytesNat, Zenon
    <3>3. Len(mqMsgs) \in Nat
      BY <2>3
    <3> QED BY <2>3, <2>4, <3>2, <3>3, WithoutIs, Zenon
  <2>6. msg_cbytes - mqMsgs[i].size = BytesIn(w) /\ BytesIn(w) \in 0..(MqSizeMod - 1) /\ BytesIn(w) <= msg_qbytes
    <3>1. msg_cbytes = BytesIn(w) + mqMsgs[i].size
      BY <2>5, Zenon DEF MqCounts
    <3>2. MqSizeMod \in Nat /\ msg_cbytes \in 0..(MqSizeMod - 1) /\ msg_qbytes \in 0..(MqSizeMod - 1)
      BY CountTypes, MqAssumption, Zenon
    <3>3. msg_cbytes <= msg_qbytes
      BY Zenon DEF MqCounts
    <3>4. BytesIn(w) \in Nat /\ mqMsgs[i].size \in Nat
      BY <2>5, Zenon
    <3>5. PICK rest \in Nat, part \in Nat : rest = BytesIn(w) /\ part = mqMsgs[i].size
      BY <3>4, Zenon
    <3>6. msg_cbytes = rest + part
      BY <3>1, <3>5, Zenon
    <3>7. msg_cbytes - part = rest /\ rest \in 0..(MqSizeMod - 1) /\ rest <= msg_qbytes
      BY <3>2, <3>3, <3>6
    <3> QED BY <3>5, <3>7, Zenon
  <2>7. msg_cbytes' = BytesIn(w) /\ msg_qnum' = Len(w)
    BY <2>1, <2>2, <2>5, <2>6, Remainder, Zenon DEF MqCounts
  <2>8. \A j \in 1..Len(w) : Fits(w[j])
    <3>1. \A j \in 1..Len(w) : j \in 1..Len(mqMsgs) /\ j + 1 \in 1..Len(mqMsgs) /\ j \in 1..(Len(mqMsgs) - 1)
      BY <2>5
    <3>2. \A j \in 1..Len(mqMsgs) : Fits(mqMsgs[j])
      BY Zenon DEF MqCounts
    <3> QED BY <2>5, <3>1, <3>2, Zenon
  <2>9. msg_qbytes' = msg_qbytes /\ mqMsgs' = w
    BY <2>1, <2>4, ReceiveTakes, Zenon
  <2> QED BY <2>6, <2>7, <2>8, <2>9, Zenon DEF MqCounts, Fits
<1> QED BY <1>1, <1>2, Zenon

\* Every step keeps the counts.
LEMMA CountsNext ==
    ASSUME MqShape, MqCounts, BuffersSuffice, ~MqBusyCtl, [MqNext]_mqVars
    PROVE  MqCounts'
<1>1. ASSUME NEW p \in MqProcs, MsgGet(p) \/ MsgRemove(p) PROVE MqCounts'
  <2>1. /\ mqMsgs' = <<>> /\ msg_qnum' = 0 /\ msg_cbytes' = 0
        /\ msg_qbytes' \in {msg_qbytes, MqDefault}
    BY <1>1, Zenon DEF MsgGet, MsgRemove
  <2>2. 0 <= msg_qbytes' /\ msg_qbytes' \in MqLimits \cup {MqDefault}
    BY <2>1, MqAssumption, CountTypes DEF MqCounts
  <2> QED BY <2>1, <2>2, BytesEmpty DEF MqCounts
<1>2. ASSUME NEW p \in MqProcs, NEW limit \in MqLimits, MsgSet(p, limit) PROVE MqCounts'
  <2>1. mqMsgs = <<>> /\ msg_qbytes' = limit /\ UNCHANGED <<mqMsgs, msg_qnum, msg_cbytes>>
    BY <1>2, Zenon DEF MsgSet
  <2>2. 0 <= limit
    BY MqAssumption
  <2> QED BY <2>1, <2>2, BytesEmpty, Zenon DEF MqCounts
<1>3. CASE UNCHANGED <<mqMsgs, msg_qnum, msg_cbytes, msg_qbytes>>
  BY <1>3, Zenon DEF MqCounts
<1>4. ASSUME NEW p \in MqProcs,
             MsgGone(p) \/ MsgSuspend(p) \/ \E req \in MqRequests[p] : MsgCall(p, req)
      PROVE  UNCHANGED <<mqMsgs, msg_qnum, msg_cbytes, msg_qbytes>>
  BY <1>4, Zenon DEF MsgGone, MsgSuspend, MsgCall, mqQueue
<1>5. UNCHANGED mqVars => UNCHANGED <<mqMsgs, msg_qnum, msg_cbytes, msg_qbytes>>
  BY Zenon DEF mqVars
<1> QED BY <1>1, <1>2, <1>3, <1>4, <1>5, CountsSend, CountsReceive, Zenon DEF MqNext, MsgStep

\* Nothing that p looks for is in the list: also nothing of what it was called
\* for.
LEMMA NothingThere ==
    ASSUME MqShape, NoTypeRange, NEW p \in MqProcs, mqReq[p] \in MqRequests[p],
           mqReq[p].call = "rcv", SearchKept(p), FirstMatch(mqType[p]) = {}
    PROVE  \A i \in 1..Len(mqMsgs) : ~Matches(mqMsgs[i].type, mqReq[p].type)
<1> DEFINE T == {i \in 1..Len(mqMsgs) : Matches(mqMsgs[i].type, mqType[p])}
<1>1. \A i \in 1..Len(mqMsgs) : mqMsgs[i] \in Message
  BY DEF MqShape
<1>2. T = {}
  <2> SUFFICES ASSUME T # {} PROVE FALSE
    BY Zenon
  <2>1. T \subseteq Nat
    OBVIOUS
  <2> HIDE DEF T
  <2>2. PICK b : b \in T /\ \A c \in T : b <= c
    BY <2>1, LeastNat, Zenon
  <2>3. b \in 1..Len(mqMsgs) /\ Matches(mqMsgs[b].type, mqType[p])
    BY <2>2, Zenon DEF T
  <2>4. \A j \in 1..(b - 1) : j \in 1..Len(mqMsgs) /\ ~(b <= j)
    BY <2>3 DEF MqShape
  <2>5. \A j \in 1..(b - 1) : ~Matches(mqMsgs[j].type, mqType[p])
    BY <2>2, <2>4, Zenon DEF T
  <2> QED BY <2>3, <2>5, Zenon DEF FirstMatch
<1>3. \A m \in Message : m.type \in Nat \ {0}
  BY Zenon DEF Message
<1>4. ASSUME NEW i \in 1..Len(mqMsgs) PROVE ~Matches(mqMsgs[i].type, mqReq[p].type)
  <2>1. mqMsgs[i].type \in Nat \ {0} /\ ~Matches(mqMsgs[i].type, mqType[p])
    BY <1>1, <1>2, <1>3, Zenon
  <2> QED BY <2>1 DEF SearchKept, Matches
<1> QED BY <1>4, Zenon

\* Who sleeps after a step slept before it, and what is there has not grown.
StillBlocked ==
  \A q \in MqProcs : Sleeps(q)' =>
    /\ Sleeps(q) /\ mqReq'[q] = mqReq[q]
    /\ mqReq[q].call = "rcv" =>
         \A i \in 1..Len(mqMsgs') : \E j \in 1..Len(mqMsgs) : mqMsgs'[i] = mqMsgs[j]
    /\ mqReq[q].call # "rcv" => msg_qbytes' - msg_cbytes' <= msg_qbytes - msg_cbytes

\* Arithmetic of room that shrinks.
LEMMA Smaller ==
    ASSUME NEW a \in Int, NEW b \in Int, NEW c \in Int, NEW d \in Int, NEW n \in Nat,
           a - b <= c - d, c - d < n
    PROVE  a - b < n
OBVIOUS

\* More bytes leave less room.
LEMMA LessLeft ==
    ASSUME NEW a \in Int, NEW b \in Int, NEW c \in Int, c >= b
    PROVE  a - c <= a - b
OBVIOUS

\* Who sleeps on has still nothing to go on with.
LEMMA SleepersStay ==
    ASSUME MqShape, MqCounts, MqCounts', MqShape', MqWaits, mqId, StillBlocked
    PROVE  \A q \in MqProcs : Sleeps(q)' => Blocked(q)'
<1> SUFFICES ASSUME NEW q \in MqProcs, Sleeps(q)' PROVE Blocked(q)'
  BY Zenon
<1>1. Sleeps(q) /\ mqReq'[q] = mqReq[q] /\ Blocked(q)
  BY Zenon DEF StillBlocked, MqWaits
<1>2. CASE mqReq[q].call = "rcv"
  BY <1>1, <1>2, Zenon DEF StillBlocked, Blocked
<1>3. CASE mqReq[q].call # "rcv"
  <2>1. mqReq[q] \in MqRequest /\ mqReq[q].call = "snd"
    BY <1>1, <1>3, Zenon DEF MqShape, Sleeps, MqRequest
  <2>2. mqReq[q].size \in Nat
    <3>1. mqReq[q].size \in 0..(MqSizeMod - 1)
      BY <2>1, SentMessage, Zenon
    <3> QED BY <3>1, MqAssumption
  <2>3. /\ msg_qbytes' - msg_cbytes' <= msg_qbytes - msg_cbytes
        /\ msg_qbytes - msg_cbytes < mqReq[q].size
    BY <1>1, <1>3, Zenon DEF StillBlocked, Blocked
  <2>4. msg_qbytes \in Int /\ msg_cbytes \in Int
    BY CountTypes
  <2>5. msg_qbytes' \in Int /\ msg_cbytes' \in Int
    <3>1. msg_qbytes' \in Int
      BY MqAssumption DEF MqCounts
    <3>2. mqMsgs' \in Seq(Message)
      BY Zenon DEF MqShape
    <3> QED BY <3>1, <3>2, BytesNat DEF MqCounts
  <2>6. msg_qbytes' - msg_cbytes' < mqReq[q].size
    BY <2>2, <2>3, <2>4, <2>5, Smaller, Zenon
  <2> QED BY <1>1, <1>3, <2>6, Zenon DEF Blocked
<1> QED BY <1>2, <1>3, Zenon

\* A call that returns forgets its search.
LEMMA SearchReset ==
    ASSUME MqShape, MqWaits, NEW p \in MqProcs, MsgReset(p)
    PROVE  \A q \in MqProcs : SearchKept(q)'
<1>1. mqReq'[p].call = "none" /\ \A q \in MqProcs \ {p} : mqReq'[q] = mqReq[q] /\ mqType'[q] = mqType[q]
  BY Zenon DEF MsgReset, MqShape, NoReq
<1> QED BY <1>1, Zenon DEF MqWaits, SearchKept

\* msgsnd wakes all readers, and leaves writers less room.
LEMMA WaitsSend ==
    ASSUME MqShape, MqShape', MqCounts, MqCounts', MqWaits, BuffersSuffice, NEW p \in MqProcs, MsgSend(p)
    PROVE  MqWaits'
<1>1. /\ mqPc[p] = "try" /\ mqId /\ mqReq[p].call = "snd" /\ msg_qbytes' = msg_qbytes
      /\ mqReq[p] \in MqRequest
  BY SMTT(30) DEF MsgSend, MqShape, NoReq
<1>2. CASE /\ mqMsgs' = Append(mqMsgs, [type |-> mqReq[p].type, size |-> mqReq[p].size])
           /\ MqWake(MqList("rcv"), MsgReturned(p)) /\ MsgReset(p)
  <2>1. StillBlocked
    <3> SUFFICES ASSUME NEW q \in MqProcs, Sleeps(q)'
                 PROVE  /\ Sleeps(q) /\ mqReq'[q] = mqReq[q] /\ mqReq[q].call # "rcv"
                        /\ msg_qbytes' - msg_cbytes' <= msg_qbytes - msg_cbytes
      BY Zenon DEF StillBlocked
    <3>1. q # p /\ Sleeps(q) /\ q \notin MqList("rcv")
      BY <1>2, Zenon DEF MqWake, MsgReturned, MqShape, Sleeps
    <3>2. mqReq'[q] = mqReq[q] /\ mqReq[q].call # "rcv"
      BY <1>2, <3>1, Zenon DEF MsgReset, MqShape, MqList, Sleeps
    <3>3. msg_cbytes' >= msg_cbytes /\ msg_cbytes \in Int /\ msg_qbytes \in Int
      BY CountsSend, CountTypes
    <3>4. msg_cbytes' \in Int
      <4>1. mqMsgs' \in Seq(Message)
        BY Zenon DEF MqShape
      <4> QED BY <4>1, BytesNat DEF MqCounts
    <3>5. msg_qbytes - msg_cbytes' <= msg_qbytes - msg_cbytes
      BY <3>3, <3>4, LessLeft, Zenon
    <3> QED BY <1>1, <3>1, <3>2, <3>5, Zenon
  <2>2. \A q \in MqProcs : SearchKept(q)'
    BY <1>2, SearchReset, Zenon
  <2> QED BY <1>1, <2>1, <2>2, SleepersStay, Zenon DEF MqWaits
<1>3. CASE mqPc' = MsgReturned(p) /\ MsgReset(p) /\ UNCHANGED <<mqMsgs, msg_qnum, msg_cbytes>>
  <2>1. StillBlocked
    <3>1. \A q \in MqProcs : Sleeps(q)' => q # p /\ Sleeps(q) /\ mqReq'[q] = mqReq[q]
      BY <1>3, Zenon DEF MsgReturned, MsgReset, MqShape, Sleeps
    <3>2. msg_qbytes' - msg_cbytes' <= msg_qbytes - msg_cbytes
      BY <1>1, <1>3, CountTypes
    <3> QED BY <1>3, <3>1, <3>2, Zenon DEF StillBlocked
  <2>2. \A q \in MqProcs : SearchKept(q)'
    BY <1>3, SearchReset, Zenon
  <2> QED BY <1>1, <2>1, <2>2, SleepersStay, Zenon DEF MqWaits
<1>4. CASE /\ RoomLeft < mqReq[p].size /\ mqPc' = [mqPc EXCEPT ![p] = "suspending"]
           /\ UNCHANGED <<mqMsgs, msg_qnum, msg_cbytes, mqReq, mqType>>
  <2>1. Blocked(p)
    BY <1>1, <1>4, CountTypes, Zenon DEF Blocked
  <2>2. \A q \in MqProcs : Blocked(q)' = Blocked(q) /\ SearchKept(q)' = SearchKept(q)
    BY <1>1, <1>4, Zenon DEF Blocked, SearchKept
  <2>3. \A q \in MqProcs : Sleeps(q)' => q = p \/ Sleeps(q)
    BY <1>4, Zenon DEF Sleeps, MqShape
  <2> QED BY <1>1, <2>1, <2>2, <2>3, Zenon DEF MqWaits
<1> QED BY <1>2, <1>3, <1>4, Zenon DEF MsgSend, SendWakes

\* msgrcv wakes all writers, and leaves readers fewer messages.
LEMMA WaitsReceive ==
    ASSUME MqShape, MqShape', MqCounts, MqCounts', MqWaits, NoTypeRange, NEW p \in MqProcs, MsgReceive(p)
    PROVE  MqWaits'
<1>1. /\ mqPc[p] = "try" /\ mqId /\ mqId' = mqId /\ mqReq[p].call = "rcv" /\ msg_qbytes' = msg_qbytes
      /\ mqReq[p] \in MqRequest
  BY ReceiveTakes, Zenon
<1>2. mqReq[p] \in MqRequests[p]
  BY <1>1, NoReqApart, Zenon DEF MqShape
<1>3. CASE FirstMatch(mqType[p]) # {}
  <2>1. PICK i \in 1..Len(mqMsgs) :
          /\ mqMsgs' = Without(mqMsgs, i) /\ MsgReset(p)
          /\ IF mqMsgs[i].size <= mqReq[p].size \/ mqReq[p].noerror
               THEN MqWake(MqList("snd"), MsgReturned(p))
               ELSE mqPc' = MsgReturned(p)
    BY <1>3, ReceiveTakes, Zenon
  <2>2. MqWake(MqList("snd"), MsgReturned(p))
    <3>1. Fits(mqMsgs[i])
      BY Zenon DEF MqCounts
    <3> QED BY <1>1, <1>2, <2>1, <3>1, Zenon DEF Fits
  <2>3. mqMsgs \in Seq(Message)
    BY Zenon DEF MqShape
  <2>4. \A k \in 1..Len(mqMsgs') : \E j \in 1..Len(mqMsgs) : mqMsgs'[k] = mqMsgs[j]
    <3>1. PICK w : w = Without(mqMsgs, i)
      BY Zenon
    <3>2. /\ Len(w) = Len(mqMsgs) - 1 /\ Len(mqMsgs) \in Nat
          /\ \A j \in 1..(Len(mqMsgs) - 1) : w[j] = IF j < i THEN mqMsgs[j] ELSE mqMsgs[j + 1]
      BY <2>3, <3>1, WithoutIs, SMTT(30)
    <3>3. \A j \in 1..(Len(mqMsgs) - 1) : j \in 1..Len(mqMsgs) /\ j + 1 \in 1..Len(mqMsgs)
      BY <3>2
    <3>4. \A k \in 1..Len(w) : \E j \in 1..Len(mqMsgs) : w[k] = mqMsgs[j]
      BY <3>2, <3>3, Zenon
    <3> QED BY <2>1, <3>1, <3>4, Zenon
  <2>5. StillBlocked
    <3> SUFFICES ASSUME NEW q \in MqProcs, Sleeps(q)'
                 PROVE  Sleeps(q) /\ mqReq'[q] = mqReq[q] /\ mqReq[q].call = "rcv"
      BY <2>4, Zenon DEF StillBlocked
    <3>1. q # p /\ Sleeps(q) /\ q \notin MqList("snd")
      BY <2>2, Zenon DEF MqWake, MsgReturned, MqShape, Sleeps
    <3>2. mqReq[q] \in MqRequest /\ mqReq'[q] = mqReq[q]
      BY <2>1, <3>1, Zenon DEF MsgReset, MqShape, Sleeps
    <3>3. mqReq[q].call # "snd"
      BY <3>1, Zenon DEF MqList, Sleeps
    <3> QED BY <3>1, <3>2, <3>3, Zenon DEF MqRequest
  <2>6. \A q \in MqProcs : SearchKept(q)'
    BY <2>1, SearchReset, Zenon
  <2> QED BY <1>1, <2>5, <2>6, SleepersStay, Zenon DEF MqWaits
<1>4. CASE /\ FirstMatch(mqType[p]) = {} /\ UNCHANGED <<mqMsgs, msg_cbytes, msg_qnum>>
           /\ MsgReset(p) /\ mqPc' = MsgReturned(p)
  <2>1. StillBlocked
    <3>1. \A q \in MqProcs : Sleeps(q)' => q # p /\ Sleeps(q) /\ mqReq'[q] = mqReq[q]
      BY <1>4, Zenon DEF MsgReturned, MsgReset, MqShape, Sleeps
    <3>2. msg_qbytes' - msg_cbytes' <= msg_qbytes - msg_cbytes
      BY <1>1, <1>4, CountTypes, SMTT(30)
    <3> QED BY <1>4, <3>1, <3>2, Zenon DEF StillBlocked
  <2>2. \A q \in MqProcs : SearchKept(q)'
    BY <1>4, SearchReset, Zenon
  <2> QED BY <1>1, <2>1, <2>2, SleepersStay, Zenon DEF MqWaits
<1>5. CASE /\ FirstMatch(mqType[p]) = {} /\ UNCHANGED <<mqMsgs, msg_cbytes, msg_qnum>>
           /\ mqReq' = mqReq /\ mqPc' = [mqPc EXCEPT ![p] = "suspending"]
           /\ mqType' = [mqType EXCEPT ![p] = IF @ < 0 THEN -@ ELSE @]
  <2>0. SearchKept(p)
    BY Zenon DEF MqWaits
  <2>1. Blocked(p)
    BY <1>1, <1>2, <1>5, <2>0, NothingThere, Zenon DEF Blocked
  <2>2. \A q \in MqProcs : Blocked(q)' = Blocked(q)
    BY <1>1, <1>5, Zenon DEF Blocked
  <2>3. \A q \in MqProcs : Sleeps(q)' => q = p \/ Sleeps(q)
    BY <1>5, Zenon DEF Sleeps, MqShape
  <2>4. mqType[p] \in Int /\ mqType'[p] = (IF mqType[p] < 0 THEN -mqType[p] ELSE mqType[p])
        /\ \A q \in MqProcs \ {p} : mqType'[q] = mqType[q]
    BY <1>5, Zenon DEF MqShape
  <2>5. mqReq[p].type \in Int /\ mqReq[p].type >= -1
    BY <1>1, <1>2, Zenon DEF MqRequest, NoTypeRange
  <2>6. SearchKept(p)'
    BY <1>1, <1>5, <2>0, <2>4, <2>5, SMTT(30) DEF SearchKept
  <2>7. \A q \in MqProcs : SearchKept(q)'
    BY <1>5, <2>4, <2>6, Zenon DEF SearchKept, MqWaits
  <2> QED BY <1>1, <2>1, <2>2, <2>3, <2>7, Zenon DEF MqWaits
<1> QED BY <1>3, <1>4, <1>5, ReceiveTakes, Zenon

\* Every step leaves only those asleep who cannot proceed.
LEMMA WaitsNext ==
    ASSUME MqShape, MqShape', MqCounts, MqCounts', MqWaits, BuffersSuffice, NoTypeRange, ~MqBusyCtl,
           [MqNext]_mqVars
    PROVE  MqWaits'
<1>1. ASSUME NEW p \in MqProcs, MsgGet(p) PROVE MqWaits'
  <2>1. ~mqId /\ UNCHANGED <<mqPc, mqReq, mqType>>
    BY <1>1, Zenon DEF MsgGet
  <2>2. \A q \in MqProcs : ~Sleeps(q)' /\ SearchKept(q)' = SearchKept(q)
    BY <2>1, Zenon DEF MqShape, Sleeps, SearchKept
  <2> QED BY <2>2, Zenon DEF MqWaits
<1>2. ASSUME NEW p \in MqProcs, MsgRemove(p) PROVE MqWaits'
  <2>1. ~mqId' /\ UNCHANGED <<mqReq, mqType>>
    BY <1>2, Zenon DEF MsgRemove
  <2> QED BY <2>1, Zenon DEF MqWaits, SearchKept
<1>3. ASSUME NEW p \in MqProcs, MsgGone(p) PROVE MqWaits'
  <2>1. ~mqId' /\ MsgReset(p)
    BY <1>3, Zenon DEF MsgGone, mqQueue
  <2> QED BY <2>1, SearchReset, Zenon DEF MqWaits
<1>4. ASSUME NEW p \in MqProcs, MsgSuspend(p) PROVE MqWaits'
  <2>1. /\ UNCHANGED <<mqId, mqMsgs, msg_cbytes, msg_qbytes, mqReq, mqType>>
        /\ \A q \in MqProcs : Sleeps(q)' = Sleeps(q)
    BY <1>4 DEF MsgSuspend, mqQueue, MqShape, Sleeps
  <2> QED BY <2>1, Zenon DEF MqWaits, SearchKept, Blocked
<1>5. ASSUME NEW p \in MqProcs, NEW limit \in MqLimits, MsgSet(p, limit) PROVE MqWaits'
  <2>1. (\A q \in MqProcs : mqPc[q] = "out") /\ UNCHANGED <<mqPc, mqReq, mqType>>
    BY <1>5, Zenon DEF MsgSet
  <2> QED BY <2>1, Zenon DEF MqWaits, SearchKept, Sleeps
<1>6. ASSUME NEW p \in MqProcs, NEW req \in MqRequests[p], MsgCall(p, req) PROVE MqWaits'
  <2>1. /\ UNCHANGED <<mqId, mqMsgs, msg_cbytes, msg_qbytes>>
        /\ mqReq'[p] = req /\ (req.call = "rcv" => mqType'[p] = req.type)
        /\ \A q \in MqProcs \ {p} : mqReq'[q] = mqReq[q] /\ mqType'[q] = mqType[q] /\ mqPc'[q] = mqPc[q]
        /\ mqPc'[p] = "try"
    BY <1>6, ZenonT(30) DEF MsgCall, mqQueue, MqShape
  <2>2. \A q \in MqProcs : SearchKept(q)'
    BY <2>1, Zenon DEF MqWaits, SearchKept
  <2>3. \A q \in MqProcs : Sleeps(q)' => q # p /\ Sleeps(q)
    BY <2>1, Zenon DEF Sleeps
  <2>4. \A q \in MqProcs \ {p} : Blocked(q)' = Blocked(q)
    BY <2>1, Zenon DEF Blocked
  <2> QED BY <2>1, <2>2, <2>3, <2>4, Zenon DEF MqWaits
<1>7. CASE UNCHANGED mqVars
  BY <1>7, Zenon DEF mqVars, MqWaits, SearchKept, Sleeps, Blocked
<1> QED BY <1>1, <1>2, <1>3, <1>4, <1>5, <1>6, <1>7, WaitsSend, WaitsReceive, Zenon DEF MqNext, MsgStep

\* The invariants together are MqSound.
LEMMA MqSoundFollows == ASSUME MqShape, MqCounts, MqWaits PROVE MqSound
<1>1. mqMsgs \in Seq(Message)
  BY Zenon DEF MqShape
<1>2. \A m \in Range(mqMsgs) : \E i \in 1..Len(mqMsgs) : m = mqMsgs[i] /\ m \in Message
  BY <1>1 DEF Range
<1>3. MqTypeOK
  BY <1>2, CountTypes, Zenon DEF MqShape, MqTypeOK, Message
<1>4. BytesHeld = msg_cbytes
  BY SumFunctionIs, Zenon DEF BytesHeld, BytesIn, MqCounts
<1>5. MqCountsExact /\ MqWithinLimit
  BY <1>4, Zenon DEF MqCountsExact, MqWithinLimit, MqCounts
<1>6. MqSleepersBlocked
  BY <1>2, Zenon DEF MqSleepersBlocked, MqWaits, Sleeps, Blocked
<1> QED BY <1>3, <1>5, <1>6, Zenon DEF MqSound

\* msgsnd and msgrcv: a queue counts what it holds, holds no more than
\* msg_qbytes, and no process sleeps while what it waits for is there, whichever
\* processes make which calls.
THEOREM QueuesAreSound ==
    ASSUME ~MqBusyCtl, BuffersSuffice, NoTypeRange
    PROVE  MqSpec => []MqSound
<1> DEFINE Ind == MqShape /\ MqCounts /\ MqWaits
<1>1. MqInit => Ind
  <2> SUFFICES ASSUME MqInit PROVE MqCounts /\ MqWaits
    BY ShapeInit, Zenon
  <2>1. MqCounts
    BY BytesEmpty, MqAssumption, SMTT(30) DEF MqInit, MqCounts
  <2>2. MqWaits
    BY Zenon DEF MqInit, MqWaits, SearchKept, NoReq
  <2> QED BY <2>1, <2>2, Zenon
<1>2. Ind /\ [MqNext]_mqVars => Ind'
  <2> SUFFICES ASSUME MqShape, MqCounts, MqWaits, [MqNext]_mqVars PROVE MqShape' /\ MqCounts' /\ MqWaits'
    BY Zenon
  <2>1. MqShape'
    BY ShapeNext, Zenon
  <2>2. MqCounts'
    BY CountsNext, Zenon
  <2> QED BY <2>1, <2>2, WaitsNext, Zenon
<1>3. Ind => MqSound
  BY MqSoundFollows, Zenon
<1> QED BY <1>1, <1>2, <1>3, PTL DEF MqSpec
===============================================================================
