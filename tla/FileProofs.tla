----------------------------- MODULE FileProofs -------------------------------
(* Proofs about modules RecordLock and FdTable, for any number of processes,  *)
(* descriptors, requests and files.                                           *)
EXTENDS RecordLock, FdTableProofs

(* Requests and regions; a process polls through a descriptor it has open.    *)
RlTypes ==
  /\ \A lrn \in rlRegions : lrn.owner \in RlProcs
  /\ rlWait \in [RlProcs -> RlReqs \cup {RlNone}]
  /\ \A p \in RlProcs : rlWait[p] # RlNone => <<p, rlWait[p].fd>> \in rlOpen

RlInv == RlTypes /\ RlExclusive /\ RlNodeExact /\ RlReclaimable

(* A region is added only if it collides with none, through an open           *)
(* descriptor that is then marked.                                            *)
LEMMA RegionAddedKeeps ==
  ASSUME RlInv, NEW p \in RlProcs, NEW r \in RlReqs,
         ~Collides(p, r), <<p, r.fd>> \in rlOpen, RegionAdded(p, r), rlOpen' = rlOpen
  PROVE  RlExclusive' /\ RlNodeExact' /\ RlReclaimable'
<1> DEFINE new == Region(p, r)
<1>1. new.owner = p /\ new.shared = r.shared
      /\ new.start = Extent(r).start /\ new.stop = Extent(r).stop
  BY Zenon DEF Region
<1>2. rlRegions' = rlRegions \cup {new}
  BY Zenon DEF RegionAdded
<1>3. ASSUME NEW a \in rlRegions, a.owner # p, Overlap(a, new) \/ Overlap(new, a)
      PROVE  a.shared /\ new.shared
  <2>1. Overlap(a, Extent(r))
    BY <1>1, <1>3, Zenon DEF Overlap
  <2> QED
    BY <1>1, <1>3, <2>1, Zenon DEF Collides
<1>4. RlExclusive'
  BY <1>1, <1>2, <1>3, Zenon DEF RlInv, RlExclusive, Overlap
<1>5. RlNodeExact'
  BY <1>2, RlAssumption, Zenon DEF RlInv, RlNodeExact, RegionAdded
<1>6. RlReclaimable'
  <2>1. r.fd \in RlFds
    BY RlAssumption, Zenon
  <2> QED
    BY <1>1, <1>2, <2>1, Zenon DEF RlInv, RlReclaimable, RegionAdded
<1> QED
  BY <1>4, <1>5, <1>6, Zenon

(* Regions of p go, and with the last one the node.                           *)
LEMMA CleanupKeeps ==
  ASSUME RlInv, NEW p \in RlProcs, NEW fds \in SUBSET ({p} \X RlFds), Cleanup(p, fds)
  PROVE  RlExclusive' /\ RlNodeExact' /\ RlReclaimable'
<1>1. rlRegions' \subseteq rlRegions
  BY Zenon DEF Cleanup
<1>2. RlExclusive'
  BY <1>1, Zenon DEF RlInv, RlExclusive
<1>3. RlNodeExact'
  BY Zenon DEF RlInv, RlNodeExact, Cleanup, KeptNode
<1>4. ASSUME NEW lrn \in rlRegions'
      PROVE  \E f \in RlFds : <<lrn.owner, f>> \in rlOpen' \cap rlLocked'
  <2>1. PICK f \in RlFds : <<lrn.owner, f>> \in rlOpen \cap rlLocked
    BY <1>1, Zenon DEF RlInv, RlReclaimable
  <2>2. <<lrn.owner, f>> \notin fds
    <3>1. CASE lrn.owner = p
      BY <2>1, <3>1, Zenon DEF Cleanup
    <3>2. CASE lrn.owner # p
      BY <3>2, Zenon
    <3> QED
      BY <3>1, <3>2, Zenon
  <2> QED
    BY <2>1, <2>2, Zenon DEF Cleanup
<1>5. RlReclaimable'
  BY <1>4, Zenon DEF RlReclaimable
<1> QED
  BY <1>2, <1>3, <1>5, Zenon

(* F_UNLCK shrinks, splits and removes regions of the caller only.            *)
LEMMA UnlockKeeps ==
  ASSUME RlInv, NEW p \in RlProcs, NEW r \in RlReqs, Unlock(p, r)
  PROVE  RlExclusive' /\ RlNodeExact' /\ RlReclaimable'
<1>1. rlRegions' \subseteq rlRegions
  BY Zenon DEF Unlock, Others
<1>2. RlExclusive'
  BY <1>1, Zenon DEF RlInv, RlExclusive
<1>3. RlNodeExact'
  BY Zenon DEF RlInv, RlNodeExact, Unlock, KeptNode
<1>4. rlRegions' # {} => rlLocked' = rlLocked /\ rlOpen' = rlOpen
  BY Zenon DEF Unlock, UnmarkedAfter
<1>5. RlReclaimable'
  BY <1>1, <1>4, Zenon DEF RlInv, RlReclaimable
<1> QED
  BY <1>2, <1>3, <1>5, Zenon

(* No regions, no node.                                                       *)
LEMMA RlInitial == RlInit => RlInv
  BY Zenon DEF RlInit, RlInv, RlTypes, RlExclusive, RlNodeExact, RlReclaimable

(* Every step of record locks.                                                *)
LEMMA RlNextKeeps ==
  ASSUME RlInv, [RlNext]_rlVars
  PROVE  RlInv'
<1> USE RlAssumption
<1>1. ASSUME NEW p \in RlProcs, NEW r \in RlReqs, SetLk(p, r) PROVE RlInv'
  <2>1. RlTypes'
    BY <1>1 DEF RlInv, RlTypes, SetLk, RegionAdded, Region
  <2> QED
    BY <1>1, <2>1, RegionAddedKeeps, Zenon DEF SetLk, CanCall, RlInv
<1>2. ASSUME NEW p \in RlProcs, NEW r \in RlReqs, SetLkWait(p, r) PROVE RlInv'
  <2>1. RlTypes'
    BY <1>2, Zenon DEF RlInv, RlTypes, SetLkWait, CanCall
  <2> QED
    BY <1>2, <2>1, Zenon DEF RlInv, RlExclusive, RlNodeExact, RlReclaimable, SetLkWait
<1>3. ASSUME NEW p \in RlProcs, NEW r \in RlReqs, Unlock(p, r) PROVE RlInv'
  <2>1. RlTypes'
    BY <1>3, Zenon DEF RlInv, RlTypes, Unlock, Others
  <2> QED
    BY <1>3, <2>1, UnlockKeeps, Zenon DEF RlInv
<1>4. ASSUME NEW p \in RlProcs, Poll(p) PROVE RlInv'
  <2>1. rlWait[p] \in RlReqs /\ <<p, rlWait[p].fd>> \in rlOpen
    BY <1>4, Zenon DEF RlInv, RlTypes, Poll
  <2>2. RlTypes'
    BY <1>4 DEF RlInv, RlTypes, Poll, RegionAdded, Region
  <2> QED
    BY <1>4, <2>1, <2>2, RegionAddedKeeps, Zenon DEF Poll, RlInv
<1>5. ASSUME NEW p \in RlProcs, PollBroken(p) PROVE RlInv'
  BY <1>5, Zenon DEF RlInv, RlTypes, RlExclusive, RlNodeExact, RlReclaimable, PollBroken
<1>6. ASSUME NEW p \in RlProcs, RlExit(p) PROVE RlInv'
  <2>1. RlTypes'
    BY <1>6, Zenon DEF RlInv, RlTypes, RlExit, Cleanup
  <2> QED
    BY <1>6, <2>1, CleanupKeeps, Zenon DEF RlExit, RlInv
<1>7. ASSUME NEW p \in RlProcs, NEW f \in RlFds, CloseFd(p, f) PROVE RlInv'
  <2>1. RlTypes'
    BY <1>7, Zenon DEF RlInv, RlTypes, CloseFd, CanCall, Cleanup
  <2> QED
    BY <1>7, <2>1, CleanupKeeps DEF CloseFd, RlInv
<1>8. ASSUME NEW p \in RlProcs, NEW f \in RlFds, Reopen(p, f) PROVE RlInv'
  BY <1>8, Zenon DEF RlInv, RlTypes, RlExclusive, RlNodeExact, RlReclaimable, Reopen
<1>9. CASE UNCHANGED rlVars
  BY <1>9, Zenon DEF rlVars, RlInv, RlTypes, RlExclusive, RlNodeExact, RlReclaimable
<1> QED
  BY <1>1, <1>2, <1>3, <1>4, <1>5, <1>6, <1>7, <1>8, <1>9, Zenon DEF RlNext

(* A step of p changes the regions of no other process.                       *)
LEMMA RlStepIsOwn ==
  ASSUME RlInv, RlNext, NEW p \in RlProcs, ~(OfProc(p) \subseteq OfProc(p)'),
         NEW q \in RlProcs \ {p}
  PROVE  OfProc(q)' = OfProc(q)
<1>1. PICK lrn \in rlRegions : lrn.owner = p /\ lrn \notin rlRegions'
  BY Zenon DEF OfProc
<1>2. ASSUME NEW o \in RlProcs, \E r \in RlReqs : Unlock(o, r)
      PROVE  OfProc(q)' = OfProc(q)
  BY <1>1, <1>2, Zenon DEF Unlock, Others, OfProc
<1>3. ASSUME NEW o \in RlProcs, RlExit(o) \/ \E f \in RlFds : CloseFd(o, f)
      PROVE  OfProc(q)' = OfProc(q)
  BY <1>1, <1>3, Zenon DEF RlExit, CloseFd, Cleanup, OfProc
<1>4. ASSUME NEW o \in RlProcs,
             \/ \E r \in RlReqs : SetLk(o, r) \/ SetLkWait(o, r)
             \/ Poll(o) \/ PollBroken(o) \/ \E f \in RlFds : Reopen(o, f)
      PROVE  FALSE
  BY <1>1, <1>4, Zenon DEF SetLk, SetLkWait, Poll, PollBroken, Reopen, RegionAdded
<1> QED
  BY <1>2, <1>3, <1>4, Zenon DEF RlNext

(* record_locking.c: no byte is locked by two processes unless both locks are *)
(* shared; every region can be freed by closing what its owner has open; the  *)
(* file's node is there exactly while regions are; and no process frees the   *)
(* region of another.                                                         *)
THEOREM RecordLocksAreSound == RlSpec => RlSound
<1> DEFINE Sound == RlExclusive /\ RlNodeExact /\ RlReclaimable
           Own == \A p \in RlProcs : ~(OfProc(p) \subseteq OfProc(p)') =>
                    \A q \in RlProcs \ {p} : OfProc(q)' = OfProc(q)
<1>1. RlInv /\ [RlNext]_rlVars => RlInv'
  BY RlNextKeeps, Zenon
<1>2. RlInv => Sound
  BY Zenon DEF RlInv
<1>3. RlInv /\ [RlNext]_rlVars => [Own]_rlVars
  BY RlStepIsOwn, Zenon
<1>4. RlSpec => []Sound /\ [][Own]_rlVars
  <2> HIDE DEF Sound, Own
  <2> QED
    BY <1>1, <1>2, <1>3, RlInitial, PTL DEF RlSpec
<1> QED
  BY <1>4, Zenon DEF RlSound, RlOwnRegionsOnly

-------------------------------------------------------------------------------
(* Actions.  Two opens may choose the same entry, so the theorems are about a *)
(* process in which one thread uses descriptors; and about the uses of dup2   *)
(* and dup that keep the table in order.                                      *)

OneOpener == \A t, u \in FdThreads : t = u
PlainUses == FdUses = {}

(* A file is closed exactly with the last descriptor that names it, and its   *)
(* record locks are released with it.                                         *)
LEMMA ClosingFiles ==
  ASSUME NEW tab, TabOk(tab), NEW d \in UsedIn(tab), ~Stays(tab, d),
         NEW files, files \subseteq 1..FdMaxFiles, FilesNamed(tab, files),
         NEW held, HeldMarked(tab, files, held)
  PROVE  /\ \A e \in UsedIn(tab) \ {d} : tab[e].file \in files \ ClosedFiles(tab, d)
         /\ 1..FdStd \subseteq files \ ClosedFiles(tab, d)
         /\ \A f \in files \ ClosedFiles(tab, d) :
              f > FdStd => \E e \in UsedIn(tab) \ {d} : tab[e].file = f
         /\ held \ CleanedUp(tab, d) \subseteq files \ ClosedFiles(tab, d)
         /\ \A f \in files \cap ClosedFiles(tab, d) :
              f > FdStd /\ \A e \in UsedIn(tab) \ {d} : tab[e].file # f
<1>0. FdStd \in Nat /\ FdMaxFiles \in Nat /\ \A f \in FdDirs : f > FdStd
  BY FdAssumption
<1>1. files \subseteq Nat /\ tab[d].file \in files
  BY <1>0 DEF FilesNamed
<1>2. CASE IsAliased(tab, d)
  <2>1. /\ tab[d].file \notin FdDirs
        /\ \E e \in UsedIn(tab) \ {d} : tab[e].file = tab[d].file
    <3>1. CASE tab[d].orig # FdNil
      BY <3>1, Zenon DEF TabOk, TabAliases, Originals
    <3>2. CASE tab[d].orig = FdNil
      <4>1. d \in Originals(tab) /\ tab[d].next # FdNil
        BY <1>2, <3>2, Zenon DEF Originals, IsAliased
      <4>2. tab[d].next \in AliasesOf(tab, d) /\ d \notin AliasesOf(tab, d)
            /\ tab[d].file \notin FdDirs
        BY <4>1, FirstAlias, Zenon
      <4>3. d # FdNil
        BY FdAssumption DEF UsedIn, TabOk, TabTyped
      <4> QED
        BY <4>2, <4>3, ZenonT(30) DEF AliasesOf, TabOk, TabAliases
    <3> QED
      BY <3>1, <3>2, Zenon
  <2>2. ClosedFiles(tab, d) = {}
    BY <1>2, <2>1, Zenon DEF ClosedFiles
  <2>3. \A f \in files : f > FdStd => \E e \in UsedIn(tab) \ {d} : tab[e].file = f
    BY <2>1, Zenon DEF FilesNamed
  <2> QED
    BY <2>2, <2>3, Zenon DEF FilesNamed, HeldMarked
<1>3. CASE ~IsAliased(tab, d)
  <2>1. d \in Originals(tab) /\ AliasesOf(tab, d) = {}
    BY <1>3, NoAliases, Zenon
  <2>2. \A e \in UsedIn(tab) \ {d} : tab[e].file # tab[d].file
    <3> SUFFICES ASSUME NEW e \in UsedIn(tab), tab[e].file = tab[d].file PROVE e = d
      BY Zenon
    <3>1. CASE tab[e].orig = FdNil
      BY <2>1, <3>1, Zenon DEF TabOk, TabFiles, Originals
    <3>2. CASE tab[e].orig # FdNil
      BY <2>1, <3>2, ZenonT(30) DEF TabOk, TabFiles, TabAliases, AliasesOf
    <3> QED
      BY <3>1, <3>2, Zenon
  <2>3. ClosedFiles(tab, d) = IF tab[d].file > FdStd THEN {tab[d].file} ELSE {}
    BY <1>0, <1>3, Zenon DEF ClosedFiles
  <2>4. ASSUME NEW f \in held, f \in ClosedFiles(tab, d) PROVE f \in CleanedUp(tab, d)
    <3>1. f = tab[d].file
      BY <2>3, <2>4, Zenon
    <3>2. FileOf(tab, d) = f /\ Resolve(tab, d) = d
      BY <2>1, <3>1, Zenon DEF FileOf, Resolve, Originals
    <3>3. tab[d].locked /\ tab[d].cleanup
      BY <3>2, Zenon DEF HeldMarked, LockMarks
    <3> QED
      BY <1>3, <3>1, <3>3, Zenon DEF CleanedUp
  <2>5. \A f \in files \ ClosedFiles(tab, d) :
          f > FdStd => \E e \in UsedIn(tab) \ {d} : tab[e].file = f
    BY <2>3, Zenon DEF FilesNamed
  <2>6. 1..FdStd \subseteq files \ ClosedFiles(tab, d)
    BY <1>0, <1>1, <2>3 DEF FilesNamed
  <2>7. \A e \in UsedIn(tab) \ {d} : tab[e].file \in files \ ClosedFiles(tab, d)
    BY <2>2, <2>3, Zenon DEF FilesNamed
  <2>8. held \ CleanedUp(tab, d) \subseteq files \ ClosedFiles(tab, d)
    BY <2>4, Zenon DEF HeldMarked
  <2>9. \A f \in files \cap ClosedFiles(tab, d) :
          f > FdStd /\ \A e \in UsedIn(tab) \ {d} : tab[e].file # f
    BY <2>2, <2>3, Zenon
  <2> QED
    BY <2>5, <2>6, <2>7, <2>8, <2>9, Zenon
<1> QED
  BY <1>2, <1>3, Zenon

(* The refinement mapping, as a function of the table.                        *)
NamesOf(tab) == [d \in Slots |-> IF d \in UsedIn(tab) THEN FileOf(tab, d) ELSE FdNil]
AbsStep == [FdAbs!AbsNext]_(FdAbs!absVars)

(* The file a descriptor names is the one in its entry.                       *)
LEMMA NamesOfIs ==
  ASSUME NEW tab, TabOk(tab)
  PROVE  NamesOf(tab) = [d \in Slots |-> IF d \in UsedIn(tab) THEN tab[d].file ELSE FdNil]
  BY FileOfIs, Zenon DEF NamesOf

(* The refinement mapping before and after a step.                            *)
LEMMA RefersToIs == RefersTo = NamesOf(fdTab) /\ RefersTo' = NamesOf(fdTab')
  BY Zenon DEF RefersTo, NamesOf, Used, UsedIn

(* A step that makes d name v, and closes the file nobody names any more.     *)
LEMMA Refers ==
  ASSUME TabOk(fdTab), TabOk(fdTab'), NEW d \in Slots, NEW v,
         UsedIn(fdTab') \ {d} = UsedIn(fdTab) \ {d},
         \A e \in UsedIn(fdTab) \ {d} : fdTab'[e].file = fdTab[e].file,
         IF d \in UsedIn(fdTab') THEN v = fdTab'[d].file ELSE v = FdNil,
         FilesNamed(fdTab', fdFiles'), fdFiles' \subseteq fdFiles, fdFiles \subseteq 1..FdMaxFiles,
         \A f \in fdFiles \ fdFiles' : f > FdStd /\ \A e \in UsedIn(fdTab') : fdTab'[e].file # f
  PROVE  FdAbs!AbsRefer(d, v)
<1> DEFINE old == NamesOf(fdTab)
           new == NamesOf(fdTab')
<1>1. old = [e \in Slots |-> IF e \in UsedIn(fdTab) THEN fdTab[e].file ELSE FdNil]
  BY NamesOfIs, Zenon
<1>2. new = [e \in Slots |-> IF e \in UsedIn(fdTab') THEN fdTab'[e].file ELSE FdNil]
  BY NamesOfIs, Zenon
<1>3. new = [old EXCEPT ![d] = v]
  <2>1. ASSUME NEW e \in Slots PROVE new[e] = IF e = d THEN v ELSE old[e]
    <3> HIDE DEF old, new
    <3> QED
      BY <1>1, <1>2, Zenon
  <2>2. new = [e \in Slots |-> new[e]] /\ old = [e \in Slots |-> old[e]]
    BY <1>1, <1>2, Zenon
  <2> HIDE DEF old, new
  <2> QED
    BY <2>1, <2>2, Zenon
<1>4. FdStd \in Nat /\ fdFiles \subseteq Nat \ {0}
  BY FdAssumption
<1>5. fdFiles' = {f \in fdFiles : f \in 1..FdStd \/ \E e \in Slots : new[e] = f}
  <2>1. ASSUME NEW f \in fdFiles' PROVE f \in 1..FdStd \/ \E e \in Slots : new[e] = f
    <3>1. CASE f > FdStd
      <4>1. PICK e \in UsedIn(fdTab') : fdTab'[e].file = f
        BY <3>1, Zenon DEF FilesNamed
      <4>2. e \in Slots
        BY TabSlots, Zenon
      <4> QED
        BY <1>2, <4>1, <4>2, Zenon
    <3>2. CASE ~(f > FdStd)
      BY <1>4, <3>2
    <3> QED
      BY <3>1, <3>2, Zenon
  <2>2. ASSUME NEW f \in fdFiles, f \notin fdFiles'
        PROVE  f \notin 1..FdStd /\ \A e \in Slots : new[e] # f
    <3>1. f > FdStd /\ \A e \in UsedIn(fdTab') : fdTab'[e].file # f
      BY <2>2, Zenon
    <3>2. f # FdNil
      BY TabSlots, Zenon
    <3> QED
      BY <1>2, <1>4, <3>1, <3>2
  <2> DEFINE Kept(f) == f \in 1..FdStd \/ \E e \in Slots : new[e] = f
  <2>3. \A f \in fdFiles : f \in fdFiles' <=> Kept(f)
    BY <2>1, <2>2, Zenon
  <2>4. fdFiles' = {f \in fdFiles : Kept(f)}
    <3> HIDE DEF Kept
    <3> QED
      BY <2>3, Zenon
  <2> QED
    BY <2>4, Zenon
<1> QED
  BY <1>3, <1>5, RefersToIs, Zenon DEF FdAbs!AbsRefer, FdAbs!AbsStillOpen

-------------------------------------------------------------------------------
(* Every action keeps the invariant and is a step of AbstractFds or none.     *)

(* The assumptions on the constants.                                          *)
LEMMA FdNums ==
  /\ FdStd \in Nat \ {0} /\ FdMaxFiles \in Nat /\ FdMax \in Nat \ {0}
  /\ FdDirs \cap 1..FdStd = {} /\ FdNil \notin Slots
  BY FdAssumption DEF Slots

(* open chooses the lowest vacant entry, growing the table.                   *)
LEMMA OpenPickKeeps ==
  ASSUME FdInv, OneOpener, NEW t \in FdThreads, OpenPick(t)
  PROVE  FdInv' /\ AbsStep
<1>0. TabOk(fdTab) /\ FilesNamed(fdTab, fdFiles) /\ HeldMarked(fdTab, fdFiles, fdHeld)
  BY Zenon DEF FdInv
<1>1. HasVacant(fdTab, 0) /\ fdTab' = WithVacant(fdTab, 0)
  BY Zenon DEF OpenPick
<1>2. /\ TabOk(fdTab') /\ IsGrown(fdTab, fdTab')
      /\ FindVacant(fdTab', 0) \in DOMAIN fdTab' \ UsedIn(fdTab')
      /\ \A e \in DOMAIN fdTab' \ UsedIn(fdTab') : e >= 0 => FindVacant(fdTab', 0) <= e
  BY <1>0, <1>1, VacantFound, Zenon
<1>3. DOMAIN fdTab' \subseteq Slots /\ \A e \in Slots : e >= 0
  BY <1>2, TabSlots DEF Slots
<1>4. PicksLowest'
  BY <1>2, <1>3, Zenon DEF FdInv, PicksLowest, OpenPick, OneOpener
<1>5. \A e \in UsedIn(fdTab) : fdTab'[e] = fdTab[e]
  BY <1>2, Zenon DEF IsGrown, UsedIn
<1>6. FilesNamed(fdTab', fdFiles') /\ HeldMarked(fdTab', fdFiles', fdHeld')
  BY <1>0, <1>2, <1>5, ZenonT(30) DEF FilesNamed, HeldMarked, IsGrown, OpenPick
<1>7. FdInv'
  BY <1>2, <1>4, <1>6, Zenon DEF FdInv, OpenPick
<1>8. NamesOf(fdTab') = NamesOf(fdTab)
  BY <1>0, <1>2, <1>5, NamesOfIs, Zenon DEF IsGrown
<1>9. UNCHANGED <<RefersTo, fdFiles>>
  BY <1>8, RefersToIs, Zenon DEF OpenPick
<1> QED
  BY <1>7, <1>9, Zenon DEF AbsStep, FdAbs!absVars

(* The file system refuses: the table is as it was.                           *)
LEMMA OpenFailsKeeps ==
  ASSUME FdInv, NEW t \in FdThreads, OpenFails(t)
  PROVE  FdInv' /\ AbsStep
<1>1. PicksLowest'
  BY Zenon DEF FdInv, PicksLowest, OpenFails
<1>2. FdInv'
  BY <1>1, Zenon DEF FdInv, OpenFails
<1>3. UNCHANGED <<RefersTo, fdFiles>>
  BY RefersToIs, Zenon DEF OpenFails
<1> QED
  BY <1>2, <1>3, Zenon DEF AbsStep, FdAbs!absVars

(* open fills the entry it chose.                                             *)
LEMMA OpenDoneKeeps ==
  ASSUME FdInv, OneOpener, NEW t \in FdThreads, OpenDone(t)
  PROVE  FdInv' /\ AbsStep
<1>0. TabOk(fdTab) /\ FilesNamed(fdTab, fdFiles) /\ HeldMarked(fdTab, fdFiles, fdHeld) /\ PicksLowest
  BY Zenon DEF FdInv
<1> DEFINE d == fdPick[t]
           f == fdMade + 1
<1>1. /\ d # FdNil /\ d \in DOMAIN fdTab \ UsedIn(fdTab)
      /\ \A e \in DOMAIN fdTab \ UsedIn(fdTab) : d <= e
  BY <1>0, Zenon DEF PicksLowest, OpenDone
<1>2. f \in 1..FdMaxFiles /\ f \notin fdFiles /\ f > FdStd /\ fdMade' = f
      /\ fdMade' \in FdStd..FdMaxFiles /\ fdFiles \subseteq 1..fdMade'
  BY FdNums DEF FdInv, OpenDone
<1>3. fdTab' = [fdTab EXCEPT ![d] = Initialized(TRUE, f, FALSE)]
  BY Zenon DEF OpenDone
<1>f. fdFiles' = fdFiles \cup {f} /\ fdHeld' = fdHeld
  BY Zenon DEF OpenDone
<1> HIDE DEF d, f
<1>4. \A e \in UsedIn(fdTab) : fdTab[e].file # f
  BY <1>0, <1>2, Zenon DEF FilesNamed
<1>o. IsOpened(fdTab, fdTab', d, f)
  BY <1>1, <1>2, <1>3, OpenedIs, Zenon
<1>5. /\ TabOk(fdTab') /\ UsedIn(fdTab') = UsedIn(fdTab) \cup {d} /\ fdTab'[d].file = f
      /\ \A e \in UsedIn(fdTab) : fdTab'[e] = fdTab[e]
      /\ \A g : g # f /\ LockMarks(fdTab, g) => LockMarks(fdTab', g)
  BY <1>0, <1>1, <1>2, <1>4, <1>o, OpenedTable, Zenon
<1>6. FilesNamed(fdTab', fdFiles')
  <2>1. 1..FdStd \subseteq fdFiles' /\ \A e \in UsedIn(fdTab') : fdTab'[e].file \in fdFiles'
    <3>1. 1..FdStd \subseteq fdFiles'
      BY <1>0, <1>f, Zenon DEF FilesNamed
    <3>2. ASSUME NEW e \in UsedIn(fdTab') PROVE fdTab'[e].file \in fdFiles'
      <4>1. CASE e = d
        BY <1>f, <1>5, <4>1, Zenon
      <4>2. CASE e # d
        <5>1. e \in UsedIn(fdTab)
          BY <1>5, <4>2, Zenon
        <5>2. fdTab'[e].file = fdTab[e].file
          BY <1>5, <5>1, Zenon
        <5> QED
          BY <1>0, <1>f, <5>1, <5>2, Zenon DEF FilesNamed
      <4> QED
        BY <4>1, <4>2, Zenon
    <3> QED
      BY <3>1, <3>2, Zenon
  <2>2. ASSUME NEW g \in fdFiles', g > FdStd PROVE \E e \in UsedIn(fdTab') : fdTab'[e].file = g
    <3>1. CASE g = f
      BY <1>5, <3>1, Zenon
    <3>2. CASE g # f
      BY <1>0, <1>f, <1>5, <2>2, <3>2, Zenon DEF FilesNamed
    <3> QED
      BY <3>1, <3>2, Zenon
  <2> QED
    BY <2>1, <2>2, Zenon DEF FilesNamed
<1>7. HeldMarked(fdTab', fdFiles', fdHeld')
  BY <1>0, <1>2, <1>f, <1>5, Zenon DEF HeldMarked
<1>8. PicksLowest'
  BY <1>0, Zenon DEF PicksLowest, OpenDone, OneOpener
<1>9. FdInv'
  <2>1. fdFiles' \subseteq 1..fdMade'
    BY <1>2, <1>f
  <2> QED
    BY <1>2, <1>5, <1>6, <1>7, <1>8, <2>1, Zenon DEF FdInv
<1>10. UsedIn(fdTab) \subseteq DOMAIN fdTab /\ DOMAIN fdTab \subseteq Slots
       /\ FdNil \notin 1..FdMaxFiles /\ d \in Slots
       /\ \A e \in UsedIn(fdTab) : fdTab[e].file # FdNil
  BY <1>0, <1>1, TabSlots, Zenon DEF TabOk, TabFiles
<1>11. NamesOf(fdTab) = [e \in Slots |-> IF e \in UsedIn(fdTab) THEN fdTab[e].file ELSE FdNil]
       /\ NamesOf(fdTab') = [e \in Slots |-> IF e \in UsedIn(fdTab') THEN fdTab'[e].file ELSE FdNil]
  BY <1>0, <1>5, NamesOfIs, Zenon
<1>12. NamesOf(fdTab') = [NamesOf(fdTab) EXCEPT ![d] = f]
  BY <1>5, <1>10, <1>11
<1>13. ASSUME NEW e \in Slots, NamesOf(fdTab)[e] = FdNil PROVE d <= e
  <2>1. e \notin UsedIn(fdTab)
    BY <1>10, <1>11, <1>13, Zenon
  <2>2. CASE e \in DOMAIN fdTab
    BY <1>1, <2>1, <2>2, Zenon
  <2>3. CASE e \notin DOMAIN fdTab
    BY <1>0, <1>1, <1>13, <2>3 DEF TabOk, TabTyped, Slots
  <2> QED
    BY <2>2, <2>3, Zenon
<1>14. d >= 0 /\ NamesOf(fdTab)[d] = FdNil
  BY <1>1, <1>10, <1>11 DEF Slots
<1>15. FdAbs!AbsOpenFile(d, f)
  BY <1>2, <1>f, <1>10, <1>12, <1>13, <1>14, RefersToIs, Zenon
     DEF FdAbs!AbsOpenFile, FdAbs!AbsLowest, FdAbs!AbsFree
<1>16. FdAbs!AbsNext
  BY <1>2, <1>10, <1>15, Zenon DEF FdAbs!AbsNext
<1> QED
  BY <1>9, <1>16, Zenon DEF AbsStep

(* A call that changes what d names and at most closes a file.                *)
NoPick == \A t \in FdThreads : fdPick[t] = FdNil
OthersStay(tab, tab2, d) ==
  /\ UsedIn(tab2) \ {d} = UsedIn(tab) \ {d}
  /\ \A e \in UsedIn(tab) \ {d} : tab2[e].file = tab[e].file

(* A step that changes what one descriptor names is a step of AbstractFds.    *)
LEMMA NamingStep ==
  ASSUME FdInv, NoPick, TabOk(fdTab'), NEW d \in Slots, OthersStay(fdTab, fdTab', d),
         UNCHANGED <<fdMade, fdPick>>, fdFiles' \subseteq fdFiles,
         FilesNamed(fdTab', fdFiles'), HeldMarked(fdTab', fdFiles', fdHeld'),
         \A f \in fdFiles \ fdFiles' : f > FdStd /\ \A e \in UsedIn(fdTab') : fdTab'[e].file # f,
         \/ d \notin UsedIn(fdTab')
         \/ d \in UsedIn(fdTab') /\ \E e \in UsedIn(fdTab) : fdTab'[d].file = fdTab[e].file
  PROVE  FdInv' /\ AbsStep
<1>1. PicksLowest'
  BY Zenon DEF FdInv, PicksLowest, NoPick
<1>2. FdInv'
  BY <1>1, Zenon DEF FdInv
<1>3. fdFiles \subseteq 1..FdMaxFiles /\ TabOk(fdTab)
  BY FdNums DEF FdInv
<1> DEFINE v == IF d \in UsedIn(fdTab') THEN fdTab'[d].file ELSE FdNil
<1>4. FdAbs!AbsRefer(d, v)
  <2>1. IF d \in UsedIn(fdTab') THEN v = fdTab'[d].file ELSE v = FdNil
    BY Zenon
  <2> HIDE DEF v
  <2> QED
    BY <1>3, <2>1, Refers, Zenon DEF OthersStay
<1>5. FdAbs!AbsNext
  <2>1. CASE d \notin UsedIn(fdTab')
    BY <1>4, <2>1, Zenon DEF FdAbs!AbsNext
  <2>2. CASE d \in UsedIn(fdTab')
    <3>1. PICK e \in UsedIn(fdTab) : fdTab'[d].file = fdTab[e].file
      BY <2>2, Zenon
    <3>2. RefersTo = [x \in Slots |-> IF x \in UsedIn(fdTab) THEN fdTab[x].file ELSE FdNil]
      BY <1>3, NamesOfIs, RefersToIs, Zenon
    <3>3. e \in Slots /\ fdTab[e].file # FdNil
      BY <1>3, TabSlots, Zenon
    <3>4. RefersTo[e] = v /\ RefersTo[e] # FdNil
      BY <2>2, <3>1, <3>2, <3>3, Zenon
    <3> HIDE DEF v
    <3> QED
      BY <1>4, <3>3, <3>4, Zenon DEF FdAbs!AbsNext
  <2> QED
    BY <2>1, <2>2, Zenon
<1> QED
  BY <1>2, <1>5, Zenon DEF AbsStep

(* The descriptors in use.                                                    *)
LEMMA UsedIs == Used = UsedIn(fdTab)
  BY Zenon DEF Used, UsedIn

(* close, of an alias, an original with aliases, or the last descriptor.      *)
LEMMA FdCloseKeeps ==
  ASSUME FdInv, NoPick, NEW d \in Slots, FdClose(d)
  PROVE  FdInv' /\ AbsStep
<1>0. /\ TabOk(fdTab) /\ FilesNamed(fdTab, fdFiles) /\ HeldMarked(fdTab, fdFiles, fdHeld)
      /\ fdFiles \subseteq 1..FdMaxFiles /\ d \in UsedIn(fdTab)
  BY FdNums, UsedIs DEF FdInv, FdClose
<1>1. CASE Stays(fdTab, d)
  <2>1. fdTab' = fdTab
    BY <1>1, Zenon DEF FdClose, Closed
  <2>2. ClosedFiles(fdTab, d) = {}
    BY <1>1, FdAssumption, Zenon DEF Stays, ClosedFiles
  <2>3. fdHeld \cap CleanedUp(fdTab, d) = {}
    BY <1>0, <1>1, Zenon DEF HeldMarked, CleanedUp, Stays
  <2>4. fdFiles' = fdFiles /\ fdHeld' = fdHeld
    BY <2>2, <2>3, Zenon DEF FdClose
  <2>5. PicksLowest'
    BY <2>1, Zenon DEF FdInv, PicksLowest, FdClose
  <2>6. FdInv'
    BY <2>1, <2>4, <2>5, Zenon DEF FdInv, FdClose
  <2>7. UNCHANGED <<RefersTo, fdFiles>>
    BY <2>1, <2>4, RefersToIs, Zenon
  <2> QED
    BY <2>6, <2>7, Zenon DEF AbsStep, FdAbs!absVars
<1>2. CASE ~Stays(fdTab, d)
  <2>0. fdTab' = Closed(fdTab, d) /\ UNCHANGED <<fdMade, fdPick>>
    BY Zenon DEF FdClose
  <2>f. fdFiles' = fdFiles \ ClosedFiles(fdTab, d) /\ fdHeld' = fdHeld \ CleanedUp(fdTab, d)
    BY Zenon DEF FdClose
  <2>1. /\ TabOk(fdTab') /\ Without(fdTab, fdTab', d)
        /\ \A f : LockMarks(fdTab, f) => LockMarks(fdTab', f)
    BY <1>0, <1>2, <2>0, ClosedKeeps, Zenon
  <2>2. /\ UsedIn(fdTab') = UsedIn(fdTab) \ {d}
        /\ \A e \in UsedIn(fdTab') : fdTab'[e].file = fdTab[e].file
    BY <1>0, <2>1, WithoutNames, Zenon
  <2>3. /\ \A e \in UsedIn(fdTab) \ {d} : fdTab[e].file \in fdFiles'
        /\ 1..FdStd \subseteq fdFiles'
        /\ \A f \in fdFiles' : f > FdStd => \E e \in UsedIn(fdTab) \ {d} : fdTab[e].file = f
        /\ fdHeld' \subseteq fdFiles'
        /\ \A f \in fdFiles \ fdFiles' :
              f > FdStd /\ \A e \in UsedIn(fdTab) \ {d} : fdTab[e].file # f
    BY <1>0, <1>2, <2>f, ClosingFiles, ZenonT(30)
  <2>4. FilesNamed(fdTab', fdFiles')
    BY <2>2, <2>3, Zenon DEF FilesNamed
  <2>5. HeldMarked(fdTab', fdFiles', fdHeld')
    BY <1>0, <2>1, <2>3, <2>f, Zenon DEF HeldMarked
  <2>6. \A f \in fdFiles \ fdFiles' : f > FdStd /\ \A e \in UsedIn(fdTab') : fdTab'[e].file # f
    BY <2>2, <2>3, Zenon
  <2>7. OthersStay(fdTab, fdTab', d) /\ d \notin UsedIn(fdTab') /\ fdFiles' \subseteq fdFiles
    BY <2>2, <2>f, Zenon DEF OthersStay
  <2> QED
    BY <2>0, <2>1, <2>4, <2>5, <2>6, <2>7, NamingStep, Zenon
<1> QED
  BY <1>1, <1>2, Zenon

(* Duplicating an original into a vacant entry of a larger table.             *)
LEMMA DupStep ==
  ASSUME FdInv, NoPick, NEW tab, TabOk(tab), IsGrown(fdTab, tab),
         NEW d \in DOMAIN tab \ UsedIn(tab), NEW o \in Originals(fdTab),
         fdTab[o].file \notin FdDirs, fdTab' = Duplicated(tab, d, o),
         UNCHANGED <<fdFiles, fdMade, fdPick, fdHeld>>
  PROVE  FdInv' /\ AbsStep
<1>0. /\ TabOk(fdTab) /\ FilesNamed(fdTab, fdFiles) /\ HeldMarked(fdTab, fdFiles, fdHeld)
  BY Zenon DEF FdInv
<1>1. \A e \in UsedIn(fdTab) : tab[e] = fdTab[e]
  BY Zenon DEF IsGrown, UsedIn
<1>2. UsedIn(tab) = UsedIn(fdTab) /\ \A f : LockMarks(fdTab, f) => LockMarks(tab, f)
  BY Zenon DEF IsGrown
<1>3. o \in UsedIn(fdTab) /\ o \in Originals(tab) /\ tab[o].file = fdTab[o].file
  BY <1>1, <1>2, Zenon DEF Originals
<1>4. IsDuplicate(tab, fdTab', d, o)
  BY <1>3, DuplicatedIs, Zenon
<1>5. TabOk(fdTab')
  BY <1>3, <1>4, DuplicateKeeps, Zenon
<1>6. /\ UsedIn(fdTab') = UsedIn(tab) \cup {d}
      /\ \A e \in UsedIn(tab) : fdTab'[e].file = tab[e].file
      /\ fdTab'[d].file = tab[o].file
      /\ \A f : LockMarks(tab, f) => LockMarks(fdTab', f)
  <2>1. tab[o].file \notin FdDirs /\ o \in Originals(tab)
    BY <1>3, Zenon
  <2>2. ASSUME NEW tab2, IsDuplicate(tab, tab2, d, o)
        PROVE  /\ UsedIn(tab2) = UsedIn(tab) \cup {d}
               /\ \A e \in UsedIn(tab) : tab2[e].file = tab[e].file
               /\ tab2[d].file = tab[o].file
               /\ \A f : LockMarks(tab, f) => LockMarks(tab2, f)
    BY <2>1, <2>2, DuplicateNames
  <2> QED
    BY <1>4, <2>2, Zenon
<1>7. OthersStay(fdTab, fdTab', d) /\ fdFiles' \subseteq fdFiles /\ d \in UsedIn(fdTab')
  BY <1>1, <1>2, <1>6, Zenon DEF OthersStay
<1>8. \A e \in UsedIn(fdTab) : fdTab'[e].file = fdTab[e].file
  BY <1>1, <1>2, <1>6, Zenon
<1>9. FilesNamed(fdTab', fdFiles')
  <2>1. 1..FdStd \subseteq fdFiles
    BY <1>0, Zenon DEF FilesNamed
  <2>2. ASSUME NEW e \in UsedIn(fdTab') PROVE fdTab'[e].file \in fdFiles
    BY <1>0, <1>2, <1>3, <1>6, <1>8, Zenon DEF FilesNamed
  <2>3. ASSUME NEW f \in fdFiles, f > FdStd PROVE \E e \in UsedIn(fdTab') : fdTab'[e].file = f
    <3>1. PICK e \in UsedIn(fdTab) : fdTab[e].file = f
      BY <1>0, <2>3, Zenon DEF FilesNamed
    <3> QED
      BY <1>2, <1>6, <1>8, <3>1, Zenon
  <2> QED
    BY <2>1, <2>2, <2>3, Zenon DEF FilesNamed
<1>10. HeldMarked(fdTab', fdFiles', fdHeld')
  BY <1>0, <1>2, <1>6, Zenon DEF HeldMarked
<1>11. d \in Slots
  BY TabSlots, Zenon
<1>12. fdTab'[d].file = fdTab[o].file
  BY <1>3, <1>6, Zenon
<1>13. \A f \in fdFiles \ fdFiles' : f > FdStd /\ \A e \in UsedIn(fdTab') : fdTab'[e].file # f
  BY Zenon
<1>14. UNCHANGED <<fdMade, fdPick>> /\ o \in UsedIn(fdTab)
  BY <1>3, Zenon
<1> QED
  BY <1>3, <1>5, <1>7, <1>9, <1>10, <1>11, <1>12, <1>13, <1>14, NamingStep, Zenon

(* What is duplicated is not a directory.                                     *)
LEMMA MayDupIs ==
  ASSUME FdInv, PlainUses, NEW d, MayDup(d)
  PROVE  /\ d \in UsedIn(fdTab) /\ Resolve(fdTab, d) \in Originals(fdTab)
         /\ fdTab[Resolve(fdTab, d)].file \notin FdDirs
  BY UsedIs, ResolveIs, Zenon DEF FdInv, MayDup, PlainUses, FileOf

(* dup.                                                                       *)
LEMMA DupKeeps ==
  ASSUME FdInv, NoPick, PlainUses, NEW d \in Slots, Dup(d)
  PROVE  FdInv' /\ AbsStep
<1> DEFINE tab == WithVacant(fdTab, 0)
           x == FindVacant(tab, 0)
           o == Resolve(fdTab, d)
<1>1. o \in Originals(fdTab) /\ fdTab[o].file \notin FdDirs
  BY MayDupIs, Zenon DEF Dup
<1>2. TabOk(tab) /\ IsGrown(fdTab, tab) /\ x \in DOMAIN tab \ UsedIn(tab)
  BY VacantFound, Zenon DEF Dup, FdInv
<1>3. fdTab' = Duplicated(tab, x, o) /\ UNCHANGED <<fdFiles, fdMade, fdPick, fdHeld>>
  BY Zenon DEF Dup
<1> HIDE DEF tab, x, o
<1> QED
  BY <1>1, <1>2, <1>3, DupStep, Zenon

(* Growing again is growing.                                                  *)
LEMMA GrownTwice ==
  ASSUME NEW tab, NEW tab1, NEW tab2, TabOk(tab), TabOk(tab1), TabOk(tab2),
         IsGrown(tab, tab1), IsGrown(tab1, tab2)
  PROVE  IsGrown(tab, tab2)
  BY Zenon DEF IsGrown

(* fcntl(F_DUPFD).                                                            *)
LEMMA DupFdKeeps ==
  ASSUME FdInv, NoPick, PlainUses, NEW d \in Slots, NEW base \in Slots, DupFd(d, base)
  PROVE  FdInv' /\ AbsStep
<1> DEFINE grown == Grown(fdTab, base + 1)
           tab == WithVacant(grown, base)
           x == FindVacant(tab, base)
           o == Resolve(fdTab, d)
<1>0. TabOk(fdTab) /\ base \in Nat /\ base + 1 \in Nat
  BY DEF FdInv, Slots
<1>1. o \in Originals(fdTab) /\ fdTab[o].file \notin FdDirs
  BY MayDupIs, Zenon DEF DupFd
<1>2. /\ TabOk(grown) /\ IsGrown(fdTab, grown)
      /\ DOMAIN grown = DOMAIN fdTab \cup 0..NewSize(fdTab, base + 1) - 1
  BY <1>0, GrownKeeps, Zenon DEF DupFd
<1>3. base \in DOMAIN grown
  BY <1>0, <1>2, SMTT(30) DEF NewSize
<1>4. HasVacant(grown, base)
  BY Zenon DEF DupFd
<1>5. fdTab' = Duplicated(tab, x, o) /\ UNCHANGED <<fdFiles, fdMade, fdPick, fdHeld>>
  BY Zenon DEF DupFd
<1> HIDE DEF grown
<1>6. TabOk(tab) /\ IsGrown(grown, tab) /\ x \in DOMAIN tab \ UsedIn(tab)
  BY <1>0, <1>2, <1>3, <1>4, VacantFound, Zenon
<1> HIDE DEF tab, x, o
<1>7. IsGrown(fdTab, tab)
  BY <1>0, <1>2, <1>6, GrownTwice, Zenon
<1> QED
  BY <1>1, <1>5, <1>6, <1>7, DupStep, Zenon

(* dup2 over a vacant entry, and over one in use, which is closed before.     *)
LEMMA Dup2VacantKeeps ==
  ASSUME FdInv, NoPick, PlainUses, NEW d1 \in Slots, NEW d2 \in Slots, Dup2(d1, d2),
         d2 \notin UsedIn(fdTab)
  PROVE  FdInv' /\ AbsStep
<1> DEFINE tab == Grown(fdTab, d2 + 1)
           o == Resolve(fdTab, d1)
<1>0. TabOk(fdTab) /\ d2 \in Nat /\ d2 + 1 \in Nat
  BY DEF FdInv, Slots
<1>1. o \in Originals(fdTab) /\ fdTab[o].file \notin FdDirs
  BY MayDupIs, Zenon DEF Dup2
<1>2. /\ TabOk(tab) /\ IsGrown(fdTab, tab)
      /\ DOMAIN tab = DOMAIN fdTab \cup 0..NewSize(fdTab, d2 + 1) - 1
  BY <1>0, GrownKeeps, Zenon DEF Dup2
<1> HIDE DEF tab
<1>3. d2 \in DOMAIN tab
  BY <1>0, <1>2 DEF NewSize
<1>4. d2 \in DOMAIN tab \ UsedIn(tab) /\ ~tab[d2].used
  BY <1>2, <1>3, Zenon DEF IsGrown, UsedIn
<1>5. fdTab' = Duplicated(tab, d2, o)
  BY <1>4, Zenon DEF Dup2, Dup2Table, tab
<1>6. UNCHANGED <<fdFiles, fdMade, fdPick, fdHeld>>
  BY UsedIs, Zenon DEF Dup2
<1> HIDE DEF o
<1> QED
  BY <1>1, <1>2, <1>4, <1>5, <1>6, DupStep, Zenon

(* dup2 onto a descriptor in use, which is closed first.                      *)
LEMMA Dup2UsedKeeps ==
  ASSUME FdInv, NoPick, PlainUses, NEW d1 \in Slots, NEW d2 \in Slots, Dup2(d1, d2),
         d2 \in UsedIn(fdTab)
  PROVE  FdInv' /\ AbsStep
<1> DEFINE tab == Grown(fdTab, d2 + 1)
           tab2 == Closed(tab, d2)
           o == Resolve(fdTab, d1)
<1>0. /\ TabOk(fdTab) /\ FilesNamed(fdTab, fdFiles) /\ HeldMarked(fdTab, fdFiles, fdHeld)
      /\ fdFiles \subseteq 1..FdMaxFiles /\ d2 \in Nat /\ d2 + 1 \in Nat
  BY FdNums DEF FdInv, Slots
<1>1. /\ o \in Originals(fdTab) /\ fdTab[o].file \notin FdDirs
      /\ o # d2 /\ ~Stays(fdTab, d2)
  BY MayDupIs, UsedIs, Zenon DEF Dup2, PlainUses
<1>2. TabOk(tab) /\ IsGrown(fdTab, tab)
  BY <1>0, GrownKeeps, Zenon DEF Dup2
<1>3. /\ UsedIn(tab) = UsedIn(fdTab) /\ \A e \in UsedIn(fdTab) : tab[e] = fdTab[e]
      /\ \A f : LockMarks(fdTab, f) => LockMarks(tab, f)
  BY <1>2, Zenon DEF IsGrown, UsedIn
<1>4. d2 \in UsedIn(tab) /\ tab[d2].used /\ ~Stays(tab, d2)
      /\ o \in Originals(tab) \ {d2} /\ tab[o].file = fdTab[o].file
  BY <1>1, <1>3, Zenon DEF UsedIn, Originals, Stays, IsAliased
<1>5. fdTab' = Duplicated(tab2, d2, o)
  BY <1>4, Zenon DEF Dup2, Dup2Table
<1>f. /\ fdFiles' = fdFiles \ ClosedFiles(fdTab, d2) /\ fdHeld' = fdHeld \ CleanedUp(fdTab, d2)
      /\ UNCHANGED <<fdMade, fdPick>>
  BY UsedIs, Zenon DEF Dup2
<1> HIDE DEF tab
<1>6. /\ TabOk(tab2) /\ Without(tab, tab2, d2) /\ tab2[o].orig = FdNil
      /\ \A f : LockMarks(tab, f) => LockMarks(tab2, f)
  BY <1>2, <1>4, ClosedKeeps, Zenon
<1> HIDE DEF tab2, o
<1>7. /\ DOMAIN tab2 = DOMAIN tab /\ UsedIn(tab2) = UsedIn(tab) \ {d2}
      /\ \A e \in UsedIn(tab2) : tab2[e].file = tab[e].file
  BY <1>2, <1>4, <1>6, WithoutNames, Zenon
<1>8. /\ d2 \in DOMAIN tab2 \ UsedIn(tab2) /\ o \in Originals(tab2)
      /\ tab2[o].file = fdTab[o].file /\ tab2[o].file \notin FdDirs
  <2>1. o \in UsedIn(tab2) /\ d2 \in DOMAIN tab
    BY <1>4, <1>7, Zenon DEF Originals, UsedIn
  <2> QED
    BY <1>1, <1>4, <1>6, <1>7, <2>1, Zenon DEF Originals
<1>9. IsDuplicate(tab2, fdTab', d2, o)
  BY <1>5, <1>6, <1>8, DuplicatedIs, Zenon
<1>10. ASSUME NEW new, IsDuplicate(tab2, new, d2, o)
       PROVE  /\ TabOk(new) /\ UsedIn(new) = UsedIn(tab2) \cup {d2}
              /\ \A e \in UsedIn(tab2) : new[e].file = tab2[e].file
              /\ new[d2].file = tab2[o].file
              /\ \A f : LockMarks(tab2, f) => LockMarks(new, f)
  BY <1>6, <1>8, <1>10, DuplicateKeeps, DuplicateNames, SMTT(30)
<1>11. /\ TabOk(fdTab') /\ UsedIn(fdTab') = UsedIn(fdTab)
       /\ \A e \in UsedIn(fdTab) \ {d2} : fdTab'[e].file = fdTab[e].file
       /\ fdTab'[d2].file = fdTab[o].file
       /\ \A f : LockMarks(fdTab, f) => LockMarks(fdTab', f)
  <2>1. /\ TabOk(fdTab') /\ UsedIn(fdTab') = UsedIn(tab2) \cup {d2}
        /\ \A e \in UsedIn(tab2) : fdTab'[e].file = tab2[e].file
        /\ fdTab'[d2].file = tab2[o].file
        /\ \A f : LockMarks(tab2, f) => LockMarks(fdTab', f)
    BY <1>9, <1>10, Zenon
  <2> QED
    BY <1>3, <1>4, <1>6, <1>7, <1>8, <2>1, Zenon
<1>12. /\ \A e \in UsedIn(fdTab) \ {d2} : fdTab[e].file \in fdFiles'
       /\ 1..FdStd \subseteq fdFiles'
       /\ \A f \in fdFiles' : f > FdStd => \E e \in UsedIn(fdTab) \ {d2} : fdTab[e].file = f
       /\ fdHeld' \subseteq fdFiles'
       /\ \A f \in fdFiles \ fdFiles' :
            f > FdStd /\ \A e \in UsedIn(fdTab) \ {d2} : fdTab[e].file # f
  <2> DEFINE files == fdFiles \ ClosedFiles(fdTab, d2)
             held == fdHeld \ CleanedUp(fdTab, d2)
  <2>1. /\ \A e \in UsedIn(fdTab) \ {d2} : fdTab[e].file \in files
        /\ 1..FdStd \subseteq files
        /\ \A f \in files : f > FdStd => \E e \in UsedIn(fdTab) \ {d2} : fdTab[e].file = f
        /\ held \subseteq files
        /\ \A f \in fdFiles \cap ClosedFiles(fdTab, d2) :
             f > FdStd /\ \A e \in UsedIn(fdTab) \ {d2} : fdTab[e].file # f
    <3>1. ~Stays(fdTab, d2)
      BY <1>1, Zenon
    <3> QED
      BY <1>0, <3>1, ClosingFiles, Zenon
  <2>2. fdFiles' = files /\ fdHeld' = held
        /\ fdFiles \ files = fdFiles \cap ClosedFiles(fdTab, d2)
    BY <1>f, Zenon
  <2> HIDE DEF files, held
  <2> QED
    BY <2>1, <2>2, Zenon
<1>13. o \in UsedIn(fdTab) \ {d2}
  BY <1>1, Zenon DEF Originals
<1>14. FilesNamed(fdTab', fdFiles')
  <2>1. ASSUME NEW e \in UsedIn(fdTab') PROVE fdTab'[e].file \in fdFiles'
    BY <1>11, <1>12, <1>13, Zenon
  <2>2. ASSUME NEW f \in fdFiles', f > FdStd PROVE \E e \in UsedIn(fdTab') : fdTab'[e].file = f
    <3>1. PICK e \in UsedIn(fdTab) \ {d2} : fdTab[e].file = f
      BY <1>12, <2>2, Zenon
    <3> QED
      BY <1>11, <3>1, Zenon
  <2> QED
    BY <1>12, <2>1, <2>2, Zenon DEF FilesNamed
<1>15. HeldMarked(fdTab', fdFiles', fdHeld')
  BY <1>0, <1>11, <1>12, <1>f, Zenon DEF HeldMarked
<1>16. \A f \in fdFiles \ fdFiles' : f > FdStd /\ \A e \in UsedIn(fdTab') : fdTab'[e].file # f
  BY <1>11, <1>12, <1>13, Zenon
<1>17. /\ OthersStay(fdTab, fdTab', d2) /\ fdFiles' \subseteq fdFiles
       /\ d2 \in UsedIn(fdTab') /\ \E e \in UsedIn(fdTab) : fdTab'[d2].file = fdTab[e].file
  BY <1>11, <1>13, <1>f, Zenon DEF OthersStay
<1> QED
  BY <1>11, <1>14, <1>15, <1>16, <1>17, <1>f, NamingStep, Zenon

-------------------------------------------------------------------------------
(* The marks of record locks.                                                 *)

(* A step that changes marks only.                                            *)
LEMMA MarkStep ==
  ASSUME FdInv, NoPick, TabOk(fdTab'), UsedIn(fdTab') = UsedIn(fdTab),
         DOMAIN fdTab' = DOMAIN fdTab,
         \A e \in UsedIn(fdTab) : fdTab'[e].file = fdTab[e].file,
         UNCHANGED <<fdFiles, fdMade, fdPick>>,
         HeldMarked(fdTab', fdFiles', fdHeld')
  PROVE  FdInv' /\ AbsStep
<1>1. FilesNamed(fdTab', fdFiles')
  BY Zenon DEF FdInv, FilesNamed
<1>2. PicksLowest'
  BY Zenon DEF FdInv, PicksLowest, NoPick
<1>3. FdInv'
  BY <1>1, <1>2, Zenon DEF FdInv
<1>4. NamesOf(fdTab') = NamesOf(fdTab)
  <2>1. TabOk(fdTab)
    BY Zenon DEF FdInv
  <2> QED
    BY <2>1, NamesOfIs, ZenonT(30)
<1>5. UNCHANGED <<RefersTo, fdFiles>>
  BY <1>4, RefersToIs, Zenon
<1> QED
  BY <1>3, <1>5, Zenon DEF AbsStep, FdAbs!absVars

(* Setting and clearing record locks.                                         *)
LEMMA LockStep ==
  ASSUME FdInv, NoPick, NEW d \in Slots, FdSetLk(d) \/ FdUnLk(d)
  PROVE  FdInv' /\ AbsStep
<1> DEFINE o == Resolve(fdTab, d)
           f == FileOf(fdTab, d)
<1>0. TabOk(fdTab) /\ d \in UsedIn(fdTab) /\ HeldMarked(fdTab, fdFiles, fdHeld)
      /\ FilesNamed(fdTab, fdFiles) /\ UNCHANGED <<fdFiles, fdMade, fdPick>>
  BY UsedIs, Zenon DEF FdInv, FdSetLk, FdUnLk
<1>1. o \in Originals(fdTab) /\ fdTab[o].file = f /\ f \in fdFiles
  <2>1. o \in Originals(fdTab)
    BY <1>0, ResolveIs, Zenon
  <2>2. fdTab[o].file = f
    BY Zenon DEF FileOf
  <2>3. f = fdTab[d].file
    BY <1>0, FileOfIs, Zenon
  <2> QED
    BY <1>0, <2>1, <2>2, <2>3, Zenon DEF FilesNamed
<1>2. PICK on \in BOOLEAN :
        /\ fdTab' = Marked(d, on)
        /\ IF on THEN fdHeld' = fdHeld \cup {f} /\ f > FdStd /\ f \notin FdDirs \cup FdOrphans
           ELSE fdHeld' = fdHeld \ {f}
  BY Zenon DEF FdSetLk, FdUnLk
<1>3. IsMarked(fdTab, fdTab', o, on)
  BY <1>0, <1>2, MarkedIs, Zenon
<1> HIDE DEF o, f
<1>4. ASSUME NEW tab2, IsMarked(fdTab, tab2, o, on)
      PROVE  /\ TabOk(tab2) /\ UsedIn(tab2) = UsedIn(fdTab) /\ DOMAIN tab2 = DOMAIN fdTab
             /\ \A e \in UsedIn(fdTab) : tab2[e].file = fdTab[e].file
             /\ \A g : g # f /\ LockMarks(fdTab, g) => LockMarks(tab2, g)
             /\ on => LockMarks(tab2, f)
  BY <1>0, <1>1, <1>4, MarkedKeeps, SMTT(30)
<1>5. /\ TabOk(fdTab') /\ UsedIn(fdTab') = UsedIn(fdTab) /\ DOMAIN fdTab' = DOMAIN fdTab
      /\ \A e \in UsedIn(fdTab) : fdTab'[e].file = fdTab[e].file
  BY <1>3, <1>4, Zenon
<1>6. /\ \A g : g # f /\ LockMarks(fdTab, g) => LockMarks(fdTab', g)
      /\ on => LockMarks(fdTab', f)
  BY <1>3, <1>4, Zenon
<1>7. f \in fdHeld' => on
  BY <1>2, Zenon
<1>8. fdHeld' \subseteq fdFiles' \ (1..FdStd \cup FdDirs \cup FdOrphans)
  <2>1. f > FdStd => f \notin 1..FdStd
    BY FdNums
  <2> QED
    BY <1>0, <1>1, <1>2, <2>1, Zenon DEF HeldMarked
<1>9. \A g \in fdHeld' : LockMarks(fdTab', g)
  <2> SUFFICES ASSUME NEW g \in fdHeld' PROVE LockMarks(fdTab', g)
    BY Zenon
  <2>1. CASE g = f
    BY <1>6, <1>7, <2>1, Zenon
  <2>2. CASE g # f
    <3>1. g \in fdHeld
      BY <1>2, <2>2, Zenon
    <3> QED
      BY <1>0, <1>6, <2>2, <3>1, Zenon DEF HeldMarked
  <2> QED
    BY <2>1, <2>2, Zenon
<1>10. HeldMarked(fdTab', fdFiles', fdHeld')
  BY <1>8, <1>9, Zenon DEF HeldMarked
<1> QED
  BY <1>0, <1>5, <1>10, MarkStep, Zenon

-------------------------------------------------------------------------------
(* The table at the start.                                                    *)
LEMMA FdInitial ==
  ASSUME FdInit
  PROVE  FdInv /\ FdAbs!AbsInit
<1> DEFINE D == 0..FdStd - 1
<1>0. FdStd \in Nat \ {0} /\ FdMax \in Nat /\ FdStd <= FdMax /\ FdMaxFiles \in Nat /\ FdStd < FdMaxFiles
  BY FdAssumption, Zenon
<1>1. ASSUME NEW f \in 1..FdMaxFiles
      PROVE  /\ Initialized(TRUE, f, FALSE) \in FdEntry /\ Initialized(TRUE, f, FALSE).used
             /\ Initialized(TRUE, f, FALSE).orig = FdNil
             /\ Initialized(TRUE, f, FALSE).next = FdNil
             /\ Initialized(TRUE, f, FALSE).file = f
  BY Zenon DEF Initialized, Vacant, FdEntry
<1>2. \A d \in D : d + 1 \in 1..FdMaxFiles
  BY <1>0
<1>3. /\ DOMAIN fdTab = D /\ fdTab = [d \in D |-> fdTab[d]]
      /\ \A d \in D : /\ fdTab[d] \in FdEntry /\ fdTab[d].used /\ fdTab[d].orig = FdNil
                      /\ fdTab[d].next = FdNil /\ fdTab[d].file = d + 1
  BY <1>1, <1>2, Zenon DEF FdInit
<1>4. UsedIn(fdTab) = D /\ Originals(fdTab) = D
  BY <1>3, Zenon DEF UsedIn, Originals
<1>5. TabTyped(fdTab)
  <2>1. fdTab \in [0..FdStd - 1 -> FdEntry]
    BY <1>3, Zenon
  <2> QED
    BY <1>0, <2>1 DEF TabTyped
<1>n. FdNil \notin 1..FdMaxFiles /\ \A d \in D : d # FdNil
  BY FdAssumption
<1>6. TabCleared(fdTab) /\ TabAliases(fdTab) /\ TabNext(fdTab)
  BY <1>3, <1>4, Zenon DEF TabCleared, TabAliases, TabNext
<1>7. TabFiles(fdTab)
  <2>1. \A d, e \in D : fdTab[d].file = fdTab[e].file => d = e
    BY <1>0, <1>3
  <2>2. \A d \in D : fdTab[d].file # FdNil
    BY <1>2, <1>3, <1>n
  <2> QED
    BY <1>4, <2>1, <2>2, Zenon DEF TabFiles
<1>8. TabChains(fdTab)
  <2> SUFFICES ASSUME NEW o \in D PROVE Chain(fdTab, o) = {o} \cup AliasesOf(fdTab, o)
    BY <1>4, Zenon DEF TabChains
  <2>1. ClosedSet(fdTab, DOMAIN fdTab) /\ ClosedSet(fdTab, {o})
    BY <1>3, Zenon DEF ClosedSet
  <2>2. Chain(fdTab, o) = {o}
    <3>1. o \in Chain(fdTab, o)
      BY <1>3, <2>1, ChainClosed, Zenon
    <3>2. Chain(fdTab, o) \subseteq {o}
      BY <2>1, ChainLeast, Zenon
    <3> QED
      BY <3>1, <3>2, Zenon
  <2>3. AliasesOf(fdTab, o) = {}
    BY <1>3, <1>4, <1>n, Zenon DEF AliasesOf
  <2> QED
    BY <2>2, <2>3, Zenon
<1>9. TabOk(fdTab)
  BY <1>5, <1>6, <1>7, <1>8, Zenon DEF TabOk
<1>10. fdMade \in FdStd..FdMaxFiles /\ fdFiles \subseteq 1..fdMade
  BY <1>0 DEF FdInit
<1>11. FilesNamed(fdTab, fdFiles)
  <2>1. fdFiles = 1..FdStd /\ \A f \in 1..FdStd : ~(f > FdStd)
    BY <1>0 DEF FdInit
  <2>2. \A d \in D : fdTab[d].file \in 1..FdStd
    BY <1>0, <1>3
  <2> QED
    BY <1>4, <2>1, <2>2, Zenon DEF FilesNamed
<1>12. HeldMarked(fdTab, fdFiles, fdHeld) /\ PicksLowest
  BY Zenon DEF HeldMarked, PicksLowest, FdInit
<1>13. FdInv
  BY <1>9, <1>10, <1>11, <1>12, Zenon DEF FdInv
<1>14. RefersTo = [d \in Slots |-> IF d \in UsedIn(fdTab) THEN fdTab[d].file ELSE FdNil]
  BY <1>9, NamesOfIs, RefersToIs, Zenon
<1>15. RefersTo \in [Slots -> 1..FdStd \cup {FdNil}]
  <2>1. \A d \in D : fdTab[d].file \in 1..FdStd
    BY <1>0, <1>3
  <2> QED
    BY <1>4, <1>14, <2>1, Zenon
<1>16. FdAbs!AbsInit
  BY <1>15, Zenon DEF FdAbs!AbsInit, FdInit
<1> QED
  BY <1>13, <1>16, Zenon

(* Every step of the table, and what it is to AbstractFds.                    *)
LEMMA FdStep ==
  ASSUME OneOpener, PlainUses, FdInv, [FdNext]_fdVars
  PROVE  FdInv' /\ AbsStep
<1>1. CASE \E t \in FdThreads : OpenPick(t) \/ OpenFails(t) \/ OpenDone(t)
  BY <1>1, OpenPickKeeps, OpenFailsKeeps, OpenDoneKeeps, Zenon
<1>2. CASE (\E t \in FdThreads : fdPick[t] = FdNil) /\ Call
  <2>1. NoPick
    BY <1>2, Zenon DEF OneOpener, NoPick
  <2>2. CASE \E d \in Slots : FdClose(d) \/ Dup(d) \/ FdSetLk(d) \/ FdUnLk(d)
    BY <2>1, <2>2, FdCloseKeeps, DupKeeps, LockStep, Zenon
  <2>3. CASE \E d1, d2 \in Slots : Dup2(d1, d2) \/ DupFd(d1, d2)
    BY <2>1, <2>3, Dup2VacantKeeps, Dup2UsedKeeps, DupFdKeeps, Zenon
  <2> QED
    BY <1>2, <2>2, <2>3, Zenon DEF Call
<1>3. CASE UNCHANGED fdVars
  <2>1. FdInv'
    BY <1>3, Zenon DEF FdInv, PicksLowest, fdVars
  <2>2. UNCHANGED <<RefersTo, fdFiles>>
    BY <1>3, RefersToIs, Zenon DEF fdVars
  <2> QED
    BY <2>1, <2>2, Zenon DEF AbsStep, FdAbs!absVars
<1> QED
  BY <1>1, <1>2, <1>3, Zenon DEF FdNext

(* The inductive invariant says what FdSound asks for.                        *)
LEMMA FdInvSound ==
  ASSUME FdInv
  PROVE  FdSound
<1>0. /\ TabOk(fdTab) /\ Used = UsedIn(fdTab)
      /\ FilesNamed(fdTab, fdFiles) /\ HeldMarked(fdTab, fdFiles, fdHeld)
  BY UsedIs, Zenon DEF FdInv
<1>1. FdChainsSound
  <2>1. ASSUME NEW d \in Used, fdTab[d].orig # FdNil
        PROVE  fdTab[d].orig \in Used \ {d} /\ fdTab[fdTab[d].orig].orig = FdNil
    BY <1>0, <2>1, Zenon DEF TabOk, TabAliases, Originals
  <2>2. ASSUME NEW o \in Used, fdTab[o].orig = FdNil
        PROVE  Chain(fdTab, o) = {o} \cup {d \in Used : fdTab[d].orig = o}
    <3>1. o \in Originals(fdTab)
      BY <1>0, <2>2, Zenon DEF Originals
    <3>2. AliasesOf(fdTab, o) = {d \in Used : fdTab[d].orig = o}
      BY <1>0, Zenon DEF AliasesOf
    <3> QED
      BY <1>0, <3>1, <3>2, Zenon DEF TabOk, TabChains
  <2> QED
    BY <2>1, <2>2, Zenon DEF FdChainsSound
<1>2. FdLocksCleanedUp
  <2> SUFFICES ASSUME NEW f \in fdHeld
               PROVE  /\ f \in fdFiles
                      /\ \E d \in Used : FileOf(fdTab, d) = f
                      /\ \A d \in Used : FileOf(fdTab, d) = f =>
                           fdTab[d].locked /\ fdTab[Resolve(fdTab, d)].cleanup
    BY Zenon DEF FdLocksCleanedUp
  <2>1. f \in fdFiles /\ f \notin 1..FdStd /\ LockMarks(fdTab, f)
    BY <1>0, Zenon DEF HeldMarked
  <2>2. f > FdStd
    BY <2>1, FdNums DEF FdInv
  <2>3. PICK d \in UsedIn(fdTab) : fdTab[d].file = f
    BY <1>0, <2>1, <2>2, Zenon DEF FilesNamed
  <2> QED
    BY <1>0, <2>1, <2>3, FileOfIs, Zenon DEF LockMarks
<1> QED
  BY <1>1, <1>2, Zenon DEF FdSound

(* In a process where one thread uses descriptors, and dup2 is given neither  *)
(* the original of the descriptor it copies nor one whose close leaves the    *)
(* entry, the alias lists stay complete and every file with record locks is   *)
(* open with all its descriptors marked, whatever opens, closes,              *)
(* duplications and lock calls follow each other.                             *)
THEOREM DescriptorsAreSound ==
  ASSUME OneOpener, PlainUses
  PROVE  FdSpec => []FdSound
<1>1. FdInit => FdInv
  BY FdInitial, Zenon
<1>2. FdInv /\ [FdNext]_fdVars => FdInv'
  BY FdStep, Zenon
<1>3. FdInv => FdSound
  BY FdInvSound, Zenon
<1> QED
  BY <1>1, <1>2, <1>3, PTL DEF FdSpec

(* Under the same conditions the table implements AbstractFds: closing and    *)
(* duplicating descriptors never changes the file another one names, open     *)
(* takes the lowest free descriptor, and a file is closed with the last       *)
(* descriptor that names it.                                                  *)
THEOREM DescriptorsImplement ==
  ASSUME OneOpener, PlainUses
  PROVE  FdSpec => FdImplements
<1>1. FdInit => FdInv /\ FdAbs!AbsInit
  BY FdInitial, Zenon
<1>2. FdInv /\ [FdNext]_fdVars => FdInv' /\ AbsStep
  BY FdStep, Zenon
<1> QED
  BY <1>1, <1>2, PTL DEF FdSpec, FdImplements, FdAbs!AbsSpec, AbsStep

===============================================================================
