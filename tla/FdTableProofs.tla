--------------------------- MODULE FdTableProofs ------------------------------
(* Tables of file descriptors in general: when a table is in order, and that  *)
(* duplicating, closing and growing as FdTable does keep it so.               *)
EXTENDS FdTable, WellFoundedInduction, FiniteSetTheorems, TLAPS

(* Entries of a table, and what keeps a table in order: entries that are not  *)
(* in use are cleared; a successor is an alias of the same original; aliases  *)
(* lead to an original in use with the same file, never a directory; entries  *)
(* have one predecessor; lists are complete; and an open file has one         *)
(* original.                                                                  *)
FdEntry ==
  [used : BOOLEAN, orig : Slots \cup {FdNil}, next : Slots \cup {FdNil},
   file : 1..FdMaxFiles \cup {FdNil}, locked : BOOLEAN, cleanup : BOOLEAN]

UsedIn(tab) == {d \in DOMAIN tab : tab[d].used}
Originals(tab) == {d \in UsedIn(tab) : tab[d].orig = FdNil}

TabTyped(tab) == \E n \in 1..FdMax : tab \in [0..n - 1 -> FdEntry]
TabCleared(tab) == \A d \in DOMAIN tab \ UsedIn(tab) : tab[d] = Vacant
TabFiles(tab) ==
  /\ \A d \in UsedIn(tab) : tab[d].file # FdNil
  /\ \A d, e \in Originals(tab) : tab[d].file = tab[e].file => d = e
TabAliases(tab) ==
  \A d \in UsedIn(tab) : tab[d].orig # FdNil =>
    /\ tab[d].orig \in Originals(tab)
    /\ tab[tab[d].orig].file = tab[d].file /\ tab[d].file \notin FdDirs
TabNext(tab) ==
  /\ \A d \in UsedIn(tab) : tab[d].next # FdNil =>
       tab[d].next \in UsedIn(tab) /\ tab[tab[d].next].orig = Resolve(tab, d)
  /\ \A d, e \in UsedIn(tab) : tab[d].next = tab[e].next /\ tab[d].next # FdNil => d = e
AliasesOf(tab, o) == {d \in UsedIn(tab) : tab[d].orig = o}
TabChains(tab) ==
  \A o \in Originals(tab) : Chain(tab, o) = {o} \cup AliasesOf(tab, o)

TabOk(tab) ==
  TabTyped(tab) /\ TabCleared(tab) /\ TabFiles(tab) /\ TabAliases(tab) /\ TabNext(tab) /\ TabChains(tab)

(* What every table operation keeps of the locks on a file.                   *)
LockMarks(tab, f) ==
  \A d \in UsedIn(tab) : FileOf(tab, d) = f =>
    tab[d].locked /\ tab[Resolve(tab, d)].cleanup

(* Open files have descriptors and descriptors open files; the standard       *)
(* streams' files stay.                                                       *)
FilesNamed(tab, files) ==
  /\ 1..FdStd \subseteq files
  /\ \A d \in UsedIn(tab) : tab[d].file \in files
  /\ \A f \in files : f > FdStd => \E d \in UsedIn(tab) : tab[d].file = f

(* Files with record locks are open, and their descriptors are marked.        *)
HeldMarked(tab, files, held) ==
  /\ held \subseteq files \ (1..FdStd \cup FdDirs \cup FdOrphans)
  /\ \A f \in held : LockMarks(tab, f)

(* What an open has chosen is the lowest vacant entry.                        *)
PicksLowest ==
  /\ fdPick \in [FdThreads -> Slots \cup {FdNil}]
  /\ \A t \in FdThreads : fdPick[t] # FdNil =>
       /\ fdPick[t] \in DOMAIN fdTab \ UsedIn(fdTab)
       /\ \A e \in DOMAIN fdTab \ UsedIn(fdTab) : fdPick[t] <= e

FdInv ==
  /\ TabOk(fdTab)
  /\ fdMade \in FdStd..FdMaxFiles /\ fdFiles \subseteq 1..fdMade
  /\ FilesNamed(fdTab, fdFiles) /\ HeldMarked(fdTab, fdFiles, fdHeld) /\ PicksLowest

-------------------------------------------------------------------------------
(* Alias lists.                                                               *)

ClosedSet(tab, S) == S \subseteq DOMAIN tab /\ \A e \in S : tab[e].next \in S \cup {FdNil}

(* The chain of o is within every closed set that has o,                      *)
LEMMA ChainLeast ==
  ASSUME NEW tab, NEW o, NEW S, ClosedSet(tab, S), o \in S
  PROVE  Chain(tab, o) \subseteq S
  BY Zenon DEF Chain, ClosedSet

(* and has what all of them have.                                             *)
LEMMA ChainIn ==
  ASSUME NEW tab, NEW o \in DOMAIN tab, NEW d \in DOMAIN tab,
         \A S : ClosedSet(tab, S) /\ o \in S => d \in S
  PROVE  d \in Chain(tab, o)
  BY Zenon DEF Chain, ClosedSet

(* A list is the least set that holds its head and, with an entry, its        *)
(* successor.                                                                 *)
LEMMA ChainClosed ==
  ASSUME NEW tab, NEW o \in DOMAIN tab, ClosedSet(tab, DOMAIN tab)
  PROVE  o \in Chain(tab, o) /\ ClosedSet(tab, Chain(tab, o))
<1>1. o \in Chain(tab, o)
  BY Zenon DEF Chain
<1>2. ASSUME NEW e \in Chain(tab, o), tab[e].next # FdNil
      PROVE  tab[e].next \in Chain(tab, o)
  <2>1. e \in DOMAIN tab
    BY Zenon DEF Chain
  <2>2. tab[e].next \in DOMAIN tab
    BY <1>2, <2>1, Zenon DEF ClosedSet
  <2>3. ASSUME NEW S, ClosedSet(tab, S), o \in S PROVE tab[e].next \in S
    <3>1. e \in S
      BY <2>3, ChainLeast, Zenon
    <3> QED
      BY <1>2, <2>3, <3>1, Zenon DEF ClosedSet
  <2> QED
    BY <2>2, <2>3, ChainIn, Zenon
<1> QED
  BY <1>1, <1>2, Zenon DEF ClosedSet, Chain

(* A list depends on the entries that are in it only.                         *)
LEMMA ChainLocal ==
  ASSUME NEW tab, NEW tab2, NEW o \in DOMAIN tab, DOMAIN tab \subseteq DOMAIN tab2,
         ClosedSet(tab, DOMAIN tab), ClosedSet(tab2, DOMAIN tab2),
         \A e \in Chain(tab, o) : tab2[e].next = tab[e].next
  PROVE  Chain(tab2, o) = Chain(tab, o)
<1>1. o \in Chain(tab, o) /\ ClosedSet(tab, Chain(tab, o))
  BY ChainClosed, Zenon
<1>2. o \in Chain(tab2, o) /\ ClosedSet(tab2, Chain(tab2, o))
  BY ChainClosed, Zenon
<1>3. ClosedSet(tab2, Chain(tab, o))
  BY <1>1, Zenon DEF ClosedSet
<1>4. Chain(tab2, o) \subseteq Chain(tab, o)
  BY <1>1, <1>3, ChainLeast, Zenon
<1>5. ClosedSet(tab, Chain(tab2, o))
  BY <1>2, <1>4, <1>1, Zenon DEF ClosedSet
<1>6. Chain(tab, o) \subseteq Chain(tab2, o)
  BY <1>2, <1>5, ChainLeast, Zenon
<1> QED
  BY <1>4, <1>6, Zenon

(* In a table in order every successor is an entry of the table.              *)
LEMMA TabClosed ==
  ASSUME NEW tab, TabCleared(tab), TabNext(tab)
  PROVE  ClosedSet(tab, DOMAIN tab)
  BY DEF TabCleared, TabNext, ClosedSet, UsedIn, Vacant

(* No entry follows itself.                                                   *)
LEMMA NextIsOther ==
  ASSUME NEW tab, TabOk(tab), NEW d \in UsedIn(tab)
  PROVE  tab[d].next # d
<1> SUFFICES ASSUME tab[d].next = d PROVE FALSE
  BY Zenon
<1>0. TabNext(tab) /\ TabAliases(tab) /\ TabChains(tab) /\ TabCleared(tab)
  BY Zenon DEF TabOk
<1>1. d # FdNil => tab[d].orig = Resolve(tab, d)
  BY <1>0, Zenon DEF TabNext
<1>2. d \in Slots /\ d # FdNil
  BY FdAssumption DEF TabOk, TabTyped, UsedIn, Slots
<1>3. tab[d].orig # FdNil
  BY <1>1, <1>2, Zenon DEF Resolve, Originals, UsedIn, Slots
<1> DEFINE o == tab[d].orig
<1>4. o \in Originals(tab) /\ o # d
  BY <1>0, <1>3, Zenon DEF TabAliases, Originals
<1>5. d \in Chain(tab, o)
  BY <1>0, <1>4, Zenon DEF TabChains, AliasesOf
<1>6. o \in Chain(tab, o) /\ ClosedSet(tab, Chain(tab, o))
  BY <1>0, <1>4, TabClosed, ChainClosed, Zenon DEF Originals, UsedIn
<1>7. Chain(tab, o) \subseteq UsedIn(tab)
  BY <1>0, <1>4, Zenon DEF TabChains, AliasesOf, Originals
<1>8. ClosedSet(tab, Chain(tab, o) \ {d})
  BY <1>0, <1>2, <1>6, <1>7, Zenon DEF ClosedSet, TabNext
<1> QED
  BY <1>4, <1>5, <1>6, <1>8, ChainLeast

-------------------------------------------------------------------------------
(* __duplicate_fd on a vacant entry and an original in use.                   *)

(* The table after it, entry by entry.                                        *)
IsDuplicate(tab, tab2, dup, o) ==
  /\ tab2 = [e \in DOMAIN tab |-> tab2[e]]
  /\ tab2[dup] \in FdEntry /\ tab2[o] \in FdEntry
  /\ tab2[dup].used /\ tab2[dup].orig = o /\ tab2[dup].next = tab[o].next
  /\ tab2[dup].file = tab[o].file /\ tab2[dup].locked = tab[o].locked
  /\ tab2[o].used /\ tab2[o].orig = FdNil /\ tab2[o].next = dup
  /\ tab2[o].file = tab[o].file /\ tab2[o].locked = tab[o].locked
  /\ tab2[o].cleanup = tab[o].cleanup
  /\ \A e \in DOMAIN tab \ {dup, o} : tab2[e] = tab[e]

(* What dup makes of a table.                                                 *)
LEMMA DuplicatedIs ==
  ASSUME NEW tab, TabOk(tab), NEW dup \in DOMAIN tab \ UsedIn(tab), NEW o \in Originals(tab)
  PROVE  IsDuplicate(tab, Duplicated(tab, dup, o), dup, o)
<1> DEFINE first == Initialized(tab[o].used, tab[o].file, tab[o].locked)
           t1 == [tab EXCEPT ![dup] = first]
           t2 == [t1 EXCEPT ![dup].orig = o, ![dup].next = t1[o].next]
           t3 == [t2 EXCEPT ![o].next = dup]
<1>1. o \in DOMAIN tab /\ o # dup /\ tab[o].used /\ tab[o].orig = FdNil
  BY Zenon DEF Originals, UsedIn
<1>2. t1[o] = tab[o] /\ t1[dup] = first
  BY <1>1, Zenon
<1>3. Duplicated(tab, dup, o) = t3
  BY <1>1, <1>2, Zenon DEF Duplicated
<1>4. tab[o] \in FdEntry /\ dup \in Slots /\ o \in Slots
  BY <1>1, FdAssumption DEF TabOk, TabTyped, Slots
<1>5. /\ first \in FdEntry /\ first.used = tab[o].used
      /\ first.file = tab[o].file /\ first.locked = tab[o].locked
  BY <1>4, Zenon DEF Initialized, Vacant, FdEntry
<1> HIDE DEF first
<1>6. t2[dup] = [first EXCEPT !.orig = o, !.next = tab[o].next]
  BY <1>1, <1>2, Zenon
<1>7. /\ t2[dup] \in FdEntry /\ t2[dup].used = first.used /\ t2[dup].orig = o
      /\ t2[dup].next = tab[o].next /\ t2[dup].file = first.file
      /\ t2[dup].locked = first.locked
  <2> HIDE DEF t2
  <2> QED
    BY <1>4, <1>5, <1>6, Zenon DEF FdEntry
<1>8. t3[dup] = t2[dup] /\ t3[o] = [tab[o] EXCEPT !.next = dup]
  BY <1>1, <1>2, Zenon
<1>9. DOMAIN t2 = DOMAIN tab /\ \A e \in DOMAIN tab \ {dup, o} : t3[e] = tab[e]
  BY Zenon
<1>11. t3 = [e \in DOMAIN tab |-> t3[e]]
  <2> HIDE DEF t2
  <2>1. t3 = [e \in DOMAIN t2 |-> t3[e]]
    BY Zenon
  <2> HIDE DEF t3
  <2> QED
    BY <1>9, <2>1, Zenon
<1> HIDE DEF t3, t2, t1
<1>10. /\ t3[o] \in FdEntry /\ t3[o].used = tab[o].used /\ t3[o].orig = tab[o].orig
       /\ t3[o].next = dup /\ t3[o].file = tab[o].file /\ t3[o].locked = tab[o].locked
       /\ t3[o].cleanup = tab[o].cleanup
  BY <1>4, <1>8, Zenon DEF FdEntry
<1> QED
  BY <1>1, <1>3, <1>5, <1>7, <1>8, <1>9, <1>10, <1>11, ZenonT(30) DEF IsDuplicate

(* The table stays in order: the duplicate is the first alias of o.           *)
LEMMA DuplicateKeeps ==
  ASSUME NEW tab, NEW tab2, TabOk(tab), NEW dup \in DOMAIN tab \ UsedIn(tab),
         NEW o \in Originals(tab), tab[o].file \notin FdDirs,
         IsDuplicate(tab, tab2, dup, o)
  PROVE  TabOk(tab2)
<1>0. /\ TabTyped(tab) /\ TabCleared(tab) /\ TabFiles(tab) /\ TabAliases(tab)
      /\ TabNext(tab) /\ TabChains(tab)
  BY Zenon DEF TabOk
<1>1. o \in DOMAIN tab /\ o # dup /\ tab[o].used /\ tab[o].orig = FdNil
  BY Zenon DEF Originals, UsedIn
<1>2. UsedIn(tab2) = UsedIn(tab) \cup {dup} /\ dup \notin UsedIn(tab)
  BY <1>1 DEF UsedIn, IsDuplicate
<1>d. \A d \in DOMAIN tab : d # FdNil
  BY <1>0, FdAssumption DEF TabTyped
<1>3. Originals(tab2) = Originals(tab)
  BY <1>1, <1>2, <1>d DEF Originals, IsDuplicate, UsedIn
<1>4. TabTyped(tab2)
  <2>1. PICK n \in 1..FdMax : tab \in [0..n - 1 -> FdEntry]
    BY <1>0, Zenon DEF TabTyped
  <2>2. \A e \in 0..n - 1 : tab2[e] \in FdEntry
    BY <2>1, Zenon DEF IsDuplicate
  <2>3. tab2 = [e \in 0..n - 1 |-> tab2[e]]
    <3>1. DOMAIN tab = 0..n - 1
      BY <2>1, Zenon
    <3>2. tab2 = [e \in DOMAIN tab |-> tab2[e]]
      BY Zenon DEF IsDuplicate
    <3> QED
      BY <3>1, <3>2, Zenon
  <2> QED
    BY <2>2, <2>3, Zenon DEF TabTyped
<1>5. TabCleared(tab2)
  BY <1>0, <1>1, <1>2 DEF TabCleared, IsDuplicate, UsedIn
<1>6. TabFiles(tab2)
  BY <1>0, <1>1, <1>2, <1>3 DEF TabFiles, IsDuplicate, Originals, UsedIn
<1>7. TabAliases(tab2)
  BY <1>0, <1>1, <1>2, <1>3 DEF TabAliases, IsDuplicate, Originals, UsedIn
<1>8. \A d \in UsedIn(tab) : tab[d].next # dup /\ tab[d].next # o
  BY <1>0, <1>1, <1>2, <1>d DEF TabNext, Resolve, UsedIn
<1>9. TabNext(tab2)
  <2>1. \A d \in UsedIn(tab) : Resolve(tab2, d) = Resolve(tab, d) /\ Resolve(tab2, dup) = o
    BY <1>1, <1>d, Zenon DEF Resolve, IsDuplicate, UsedIn
  <2>2. ASSUME NEW d \in UsedIn(tab2), tab2[d].next # FdNil
        PROVE  tab2[d].next \in UsedIn(tab2) /\ tab2[tab2[d].next].orig = Resolve(tab2, d)
    <3>1. CASE d = dup
      BY <1>0, <1>1, <1>2, <1>8, <1>d, <2>1, <2>2, <3>1 DEF TabNext, IsDuplicate, UsedIn, Resolve
    <3>2. CASE d = o
      BY <1>1, <1>2, <2>1, <3>2, Zenon DEF IsDuplicate, Resolve
    <3>3. CASE d \notin {dup, o}
      BY <1>0, <1>1, <1>2, <1>8, <2>1, <2>2, <3>3 DEF TabNext, IsDuplicate, UsedIn
    <3> QED
      BY <3>1, <3>2, <3>3, Zenon
  <2>3. ASSUME NEW d \in UsedIn(tab2), NEW e \in UsedIn(tab2),
               tab2[d].next = tab2[e].next, tab2[d].next # FdNil
        PROVE  d = e
    BY <1>0, <1>1, <1>2, <1>8, <2>3 DEF TabNext, IsDuplicate, UsedIn
  <2> QED
    BY <2>2, <2>3, Zenon DEF TabNext
<1>10. ClosedSet(tab, DOMAIN tab) /\ ClosedSet(tab2, DOMAIN tab2)
  BY <1>0, <1>5, <1>9, TabClosed, Zenon
<1>11. ASSUME NEW p \in Originals(tab), p # o
       PROVE  Chain(tab2, p) = {p} \cup AliasesOf(tab2, p)
  <2>1. Chain(tab, p) = {p} \cup AliasesOf(tab, p)
    BY <1>0, Zenon DEF TabChains
  <2>2. Chain(tab2, p) = Chain(tab, p)
    <3>1. \A e \in Chain(tab, p) : e \in DOMAIN tab \ {dup, o}
      BY <1>1, <1>2, <1>11, <1>d, <2>1, Zenon DEF AliasesOf, Originals, UsedIn
    <3> QED
      BY <1>10, <3>1, ChainLocal DEF IsDuplicate, Originals, UsedIn
  <2>3. AliasesOf(tab2, p) = AliasesOf(tab, p)
    BY <1>1, <1>2, <1>11, <1>d DEF AliasesOf, IsDuplicate, Originals, UsedIn
  <2> QED
    BY <2>1, <2>2, <2>3, Zenon
<1>12. Chain(tab2, o) = {o} \cup AliasesOf(tab2, o)
  <2> DEFINE A == Chain(tab, o)
  <2>1. A = {o} \cup AliasesOf(tab, o) /\ A \subseteq UsedIn(tab)
    BY <1>0, Zenon DEF TabChains, AliasesOf, Originals
  <2>2. ClosedSet(tab, A) /\ o \in A
    BY <1>1, <1>10, ChainClosed, Zenon
  <2>3. {o} \cup AliasesOf(tab2, o) = A \cup {dup}
    BY <1>1, <1>2, <1>d, <2>1 DEF AliasesOf, IsDuplicate, UsedIn
  <2>4. ClosedSet(tab2, A \cup {dup})
    BY <1>1, <2>1, <2>2 DEF ClosedSet, IsDuplicate, UsedIn
  <2>5. Chain(tab2, o) \subseteq A \cup {dup}
    BY <2>2, <2>4, ChainLeast, Zenon
  <2> DEFINE C == Chain(tab2, o)
  <2>6. ClosedSet(tab2, C) /\ o \in C
    BY <1>1, <1>10, ChainClosed, Zenon DEF IsDuplicate
  <2>7. dup \in C
    BY <1>d, <2>6 DEF ClosedSet, IsDuplicate
  <2> HIDE DEF C, A
  <2>8. ClosedSet(tab, C \ {dup})
    <3>1. ASSUME NEW e \in C \ {dup} PROVE tab[e].next \in (C \ {dup}) \cup {FdNil}
      <4>1. tab[e].next # dup
        BY <1>8, <1>0, <1>d, <2>6, <3>1 DEF ClosedSet, IsDuplicate, TabCleared, Vacant
      <4>2. CASE e = o
        BY <2>6, <2>7, <4>1, <4>2, Zenon DEF ClosedSet, IsDuplicate
      <4>3. CASE e # o
        BY <2>6, <3>1, <4>1, <4>3, Zenon DEF ClosedSet, IsDuplicate
      <4> QED
        BY <4>2, <4>3, Zenon
    <3> QED
      BY <2>6, <3>1, Zenon DEF ClosedSet, IsDuplicate
  <2>9. A \subseteq C
    BY <1>1, <2>6, <2>8, ChainLeast, Zenon DEF A
  <2> QED
    BY <2>3, <2>5, <2>7, <2>9, Zenon DEF C
<1>13. TabChains(tab2)
  BY <1>3, <1>11, <1>12, Zenon DEF TabChains
<1> QED
  BY <1>4, <1>5, <1>6, <1>7, <1>9, <1>13, Zenon DEF TabOk

(* A descriptor names the file recorded in its own entry.                     *)
LEMMA FileOfIs ==
  ASSUME NEW tab, TabOk(tab), NEW d \in UsedIn(tab)
  PROVE  FileOf(tab, d) = tab[d].file
  BY Zenon DEF TabOk, TabAliases, FileOf, Resolve

(* What the others name, and the marks of locked files, stay.                 *)
LEMMA DuplicateNames ==
  ASSUME NEW tab, NEW tab2, TabOk(tab), NEW dup \in DOMAIN tab \ UsedIn(tab),
         NEW o \in Originals(tab), tab[o].file \notin FdDirs,
         IsDuplicate(tab, tab2, dup, o)
  PROVE  /\ UsedIn(tab2) = UsedIn(tab) \cup {dup} /\ DOMAIN tab2 = DOMAIN tab
         /\ \A e \in UsedIn(tab) : tab2[e].file = tab[e].file
         /\ tab2[dup].file = tab[o].file
         /\ \A f : LockMarks(tab, f) => LockMarks(tab2, f)
<1>1. o \in DOMAIN tab /\ o # dup /\ tab[o].used /\ tab[o].orig = FdNil
  BY Zenon DEF Originals, UsedIn
<1>2. UsedIn(tab2) = UsedIn(tab) \cup {dup} /\ DOMAIN tab2 = DOMAIN tab
  BY <1>1 DEF UsedIn, IsDuplicate
<1>3. /\ \A e \in UsedIn(tab) : tab2[e].file = tab[e].file
      /\ tab2[dup].file = tab[o].file
  BY <1>1, Zenon DEF IsDuplicate, UsedIn
<1>4. ASSUME NEW f, LockMarks(tab, f), NEW e \in UsedIn(tab2), FileOf(tab2, e) = f
      PROVE  tab2[e].locked /\ tab2[Resolve(tab2, e)].cleanup
  <2>0. TabOk(tab2) /\ \A d \in DOMAIN tab : d # FdNil
    <3>1. \A d \in DOMAIN tab : d # FdNil
      BY FdAssumption DEF TabOk, TabTyped
    <3> QED
      BY <3>1, DuplicateKeeps, Zenon
  <2>1. tab2[e].file = f
    BY <1>4, <2>0, FileOfIs, Zenon
  <2>2. CASE e = dup
    <3>1. FileOf(tab, o) = f /\ Resolve(tab, o) = o
      BY <1>1, <1>3, <2>1, <2>2, Zenon DEF FileOf, Resolve
    <3>2. tab[o].locked /\ tab[o].cleanup
      BY <1>1, <1>4, <3>1, Zenon DEF LockMarks, UsedIn
    <3>3. Resolve(tab2, e) = o
      BY <1>1, <2>0, <2>2, Zenon DEF Resolve, IsDuplicate
    <3> QED
      BY <2>2, <3>2, <3>3, Zenon DEF IsDuplicate
  <2>3. CASE e # dup
    <3>1. e \in UsedIn(tab) /\ FileOf(tab, e) = f
      BY <1>2, <1>3, <2>1, <2>3, FileOfIs, Zenon
    <3>2. tab[e].locked /\ tab[Resolve(tab, e)].cleanup
      BY <1>4, <3>1, Zenon DEF LockMarks
    <3>3. Resolve(tab2, e) = Resolve(tab, e) /\ Resolve(tab, e) \in UsedIn(tab)
      BY <1>1, <2>3, <3>1, ZenonT(30) DEF Resolve, IsDuplicate, UsedIn, TabOk, TabAliases, Originals
    <3>4. tab2[e].locked = tab[e].locked
      BY <2>3, <3>1, Zenon DEF IsDuplicate, UsedIn
    <3>5. tab2[Resolve(tab, e)].cleanup = tab[Resolve(tab, e)].cleanup
      BY <1>1, <3>3, Zenon DEF IsDuplicate, UsedIn
    <3> QED
      BY <3>2, <3>3, <3>4, <3>5, Zenon
  <2> QED
    BY <2>2, <2>3, Zenon
<1> QED
  BY <1>2, <1>3, <1>4, Zenon DEF LockMarks

-------------------------------------------------------------------------------
(* Closing a descriptor.                                                      *)

(* What a table without descriptor d has in common with the one before.       *)
Without(tab, tab2, d) ==
  /\ tab2 = [e \in DOMAIN tab |-> tab2[e]]
  /\ \A e \in DOMAIN tab : tab2[e] \in FdEntry
  /\ tab2[d] = Vacant
  /\ \A e \in DOMAIN tab \ {d} : tab2[e].used = tab[e].used /\ tab2[e].file = tab[e].file
  /\ \A e \in DOMAIN tab \ UsedIn(tab) : tab2[e] = tab[e]

(* Closing one descriptor leaves the files of the others.                     *)
LEMMA WithoutNames ==
  ASSUME NEW tab, NEW tab2, NEW d \in UsedIn(tab), TabOk(tab), Without(tab, tab2, d)
  PROVE  /\ DOMAIN tab2 = DOMAIN tab /\ UsedIn(tab2) = UsedIn(tab) \ {d}
         /\ \A e \in UsedIn(tab2) : tab2[e].file = tab[e].file
         /\ TabTyped(tab2) /\ TabCleared(tab2)
<1>1. DOMAIN tab2 = DOMAIN tab
  BY Zenon DEF Without
<1>2. UsedIn(tab2) = UsedIn(tab) \ {d}
  BY <1>1 DEF Without, UsedIn, Vacant
<1>3. \A e \in UsedIn(tab2) : tab2[e].file = tab[e].file
  BY <1>2, Zenon DEF Without, UsedIn
<1>4. TabTyped(tab2)
  <2>1. PICK n \in 1..FdMax : tab \in [0..n - 1 -> FdEntry]
    BY Zenon DEF TabOk, TabTyped
  <2>2. DOMAIN tab = 0..n - 1
    BY <2>1, Zenon
  <2>3. tab2 \in [0..n - 1 -> FdEntry]
    BY <2>2, Zenon DEF Without
  <2> QED
    BY <2>3, Zenon DEF TabTyped
<1>5. TabCleared(tab2)
  BY <1>1, <1>2, Zenon DEF Without, TabCleared, TabOk
<1> QED
  BY <1>1, <1>2, <1>3, <1>4, <1>5, Zenon

(* An original that is not aliased has no aliases.                            *)
LEMMA NoAliases ==
  ASSUME NEW tab, TabOk(tab), NEW d \in UsedIn(tab), ~IsAliased(tab, d)
  PROVE  d \in Originals(tab) /\ AliasesOf(tab, d) = {}
<1>1. d \in DOMAIN tab /\ tab[d].orig = FdNil /\ tab[d].next = FdNil /\ d # FdNil
  BY FdAssumption DEF UsedIn, IsAliased, TabOk, TabTyped
<1>2. d \in Originals(tab)
  BY <1>1, Zenon DEF Originals
<1>3. ClosedSet(tab, {d})
  BY <1>1, Zenon DEF ClosedSet
<1>4. Chain(tab, d) \subseteq {d}
  BY <1>3, ChainLeast, Zenon
<1>5. d \notin AliasesOf(tab, d)
  BY <1>1, Zenon DEF AliasesOf
<1> QED
  BY <1>2, <1>4, <1>5, Zenon DEF TabOk, TabChains

(* An entry without aliases.                                                  *)
LEMMA SingleClosed ==
  ASSUME NEW tab, TabOk(tab), NEW d \in UsedIn(tab), ~IsAliased(tab, d),
         NEW tab2, tab2 = [tab EXCEPT ![d] = Vacant]
  PROVE  Without(tab, tab2, d) /\ TabOk(tab2) /\ \A f : LockMarks(tab, f) => LockMarks(tab2, f)
<1>0. /\ TabTyped(tab) /\ TabCleared(tab) /\ TabFiles(tab) /\ TabAliases(tab)
      /\ TabNext(tab) /\ TabChains(tab)
  BY Zenon DEF TabOk
<1>1. d \in DOMAIN tab /\ tab[d].used /\ tab[d].orig = FdNil /\ tab[d].next = FdNil
  BY Zenon DEF UsedIn, IsAliased
<1>2. \A e \in DOMAIN tab : e # FdNil /\ tab[e] \in FdEntry
  BY <1>0, FdAssumption DEF TabTyped
<1>3. Without(tab, tab2, d)
  <2>1. Vacant \in FdEntry
    BY Zenon DEF Vacant, FdEntry
  <2> QED
    BY <1>0, <1>1, <1>2, <2>1, Zenon DEF Without, TabCleared
<1>4. /\ DOMAIN tab2 = DOMAIN tab /\ UsedIn(tab2) = UsedIn(tab) \ {d}
      /\ TabTyped(tab2) /\ TabCleared(tab2)
  BY <1>3, WithoutNames, Zenon
<1>5. \A e \in DOMAIN tab \ {d} : tab2[e] = tab[e]
  BY Zenon
<1>6. Originals(tab2) = Originals(tab) \ {d}
  BY <1>4, <1>5, Zenon DEF Originals, UsedIn
<1>7. d \in Originals(tab) /\ AliasesOf(tab, d) = {}
  BY NoAliases, Zenon
<1>8. \A e \in UsedIn(tab) : tab[e].next # d
  BY <1>0, <1>1, <1>2 DEF TabNext, Resolve, UsedIn
<1>9. TabFiles(tab2)
  BY <1>0, <1>4, <1>5, <1>6 DEF TabFiles, UsedIn, Originals
<1>10. TabAliases(tab2)
  BY <1>0, <1>4, <1>5, <1>6, <1>7 DEF TabAliases, UsedIn, Originals, AliasesOf
<1>11. \A e \in UsedIn(tab2) : Resolve(tab2, e) = Resolve(tab, e)
  BY <1>4, <1>5, Zenon DEF Resolve, UsedIn
<1>12. TabNext(tab2)
  <2>1. ASSUME NEW e \in UsedIn(tab2), tab2[e].next # FdNil
        PROVE  tab2[e].next \in UsedIn(tab2) /\ tab2[tab2[e].next].orig = Resolve(tab2, e)
    <3>1. e \in UsedIn(tab) /\ tab2[e] = tab[e]
      BY <1>4, <1>5, Zenon DEF UsedIn
    <3>2. tab[e].next \in UsedIn(tab) \ {d} /\ tab[tab[e].next].orig = Resolve(tab, e)
      BY <1>0, <1>8, <2>1, <3>1, Zenon DEF TabNext
    <3> QED
      BY <1>4, <1>5, <1>11, <3>1, <3>2, Zenon DEF UsedIn
  <2>2. \A e \in UsedIn(tab2) : e \in UsedIn(tab) /\ tab2[e].next = tab[e].next
    BY <1>4, <1>5, Zenon DEF UsedIn
  <2>3. ASSUME NEW a \in UsedIn(tab2), NEW b \in UsedIn(tab2),
               tab2[a].next = tab2[b].next, tab2[a].next # FdNil
        PROVE  a = b
    BY <1>0, <2>2, <2>3, Zenon DEF TabNext
  <2> QED
    BY <2>1, <2>3, Zenon DEF TabNext
<1>13. ClosedSet(tab, DOMAIN tab) /\ ClosedSet(tab2, DOMAIN tab2)
  BY <1>0, <1>4, <1>12, TabClosed, Zenon
<1>14. TabChains(tab2)
  <2> SUFFICES ASSUME NEW p \in Originals(tab), p # d
               PROVE  Chain(tab2, p) = {p} \cup AliasesOf(tab2, p)
    BY <1>6, Zenon DEF TabChains
  <2>1. Chain(tab, p) = {p} \cup AliasesOf(tab, p)
    BY <1>0, Zenon DEF TabChains
  <2>2. \A e \in Chain(tab, p) : e \in DOMAIN tab \ {d}
    BY <1>1, <1>2, <2>1, Zenon DEF AliasesOf, Originals, UsedIn
  <2>3. Chain(tab2, p) = Chain(tab, p)
    <3>1. \A e \in Chain(tab, p) : tab2[e].next = tab[e].next
      BY <1>5, <2>2, Zenon
    <3>2. p \in DOMAIN tab
      BY Zenon DEF Originals, UsedIn
    <3>3. DOMAIN tab \subseteq DOMAIN tab2
      BY <1>4, Zenon
    <3> QED
      BY <1>13, <3>1, <3>2, <3>3, ChainLocal, ZenonT(30)
  <2>4. AliasesOf(tab2, p) = AliasesOf(tab, p)
    BY <1>1, <1>2, <1>4, <1>5 DEF AliasesOf, Originals, UsedIn
  <2> QED
    BY <2>1, <2>3, <2>4, Zenon
<1>15. TabOk(tab2)
  BY <1>4, <1>9, <1>10, <1>12, <1>14, Zenon DEF TabOk
<1>16. ASSUME NEW f, LockMarks(tab, f), NEW e \in UsedIn(tab2), FileOf(tab2, e) = f
       PROVE  tab2[e].locked /\ tab2[Resolve(tab2, e)].cleanup
  <2>1. e \in UsedIn(tab) /\ e # d /\ Resolve(tab2, e) = Resolve(tab, e)
    BY <1>4, <1>11, Zenon
  <2>2. Resolve(tab2, e) \in DOMAIN tab \ {d}
    BY <1>4, <1>10, <1>11, <1>16, <2>1, Zenon DEF Resolve, TabAliases, Originals, UsedIn
  <2>3. FileOf(tab, e) = f
    BY <1>5, <1>16, <2>1, <2>2, Zenon DEF FileOf
  <2> QED
    BY <1>5, <1>16, <2>1, <2>2, <2>3, Zenon DEF LockMarks, UsedIn
<1> QED
  BY <1>3, <1>15, <1>16, Zenon DEF LockMarks

(* __remove_fd_alias on an alias: its predecessor takes over its successor.   *)
Skipped(tab, tab2, d) ==
  /\ Without(tab, tab2, d)
  /\ \A e \in DOMAIN tab \ {d} :
       /\ tab2[e].orig = tab[e].orig /\ tab2[e].locked = tab[e].locked
       /\ tab2[e].cleanup = tab[e].cleanup
       /\ tab2[e].next = IF tab[e].next = d THEN tab[d].next ELSE tab[e].next

(* Closing an alias: its predecessor skips it.                                *)
LEMMA AliasClosedIs ==
  ASSUME NEW tab, TabOk(tab), NEW d \in UsedIn(tab), tab[d].orig # FdNil
  PROVE  Skipped(tab, [AliasRemoved(tab, d) EXCEPT ![d] = Vacant], d)
<1>0. /\ TabTyped(tab) /\ TabCleared(tab) /\ TabAliases(tab) /\ TabNext(tab) /\ TabChains(tab)
  BY Zenon DEF TabOk
<1> DEFINE o == tab[d].orig
           mid == AliasRemoved(tab, d)
           tab2 == [mid EXCEPT ![d] = Vacant]
<1>1. \A e \in DOMAIN tab : e # FdNil /\ tab[e] \in FdEntry
  BY <1>0, FdAssumption DEF TabTyped
<1>2. d \in DOMAIN tab /\ o \in Originals(tab)
  BY <1>0, Zenon DEF UsedIn, TabAliases
<1>3. \A e \in DOMAIN tab : tab[e].next = d => e \in Chain(tab, o)
  <2> SUFFICES ASSUME NEW e \in DOMAIN tab, tab[e].next = d PROVE e \in Chain(tab, o)
    BY Zenon
  <2>1. e \in UsedIn(tab)
    BY <1>0, <1>1, <1>2 DEF TabCleared, Vacant
  <2>2. o = Resolve(tab, e)
    BY <1>0, <1>1, <1>2, <2>1, Zenon DEF TabNext
  <2>3. e = o \/ e \in AliasesOf(tab, o)
    BY <2>1, <2>2, Zenon DEF Resolve, AliasesOf
  <2> QED
    BY <1>0, <1>2, <2>3, Zenon DEF TabChains
<1>4. mid = [e \in DOMAIN tab |->
               IF tab[e].next = d THEN [tab[e] EXCEPT !.next = tab[d].next] ELSE tab[e]]
  BY <1>3, Zenon DEF AliasRemoved
<1>5. tab2 = [e \in DOMAIN tab |->
                IF e = d THEN Vacant
                ELSE IF tab[e].next = d THEN [tab[e] EXCEPT !.next = tab[d].next] ELSE tab[e]]
  <2> HIDE DEF mid
  <2> QED
    BY <1>2, <1>4, Zenon
<1> HIDE DEF tab2, mid
<1>6. ASSUME NEW e \in DOMAIN tab \ {d}
      PROVE  /\ tab2[e] \in FdEntry
             /\ tab2[e].used = tab[e].used /\ tab2[e].file = tab[e].file
             /\ tab2[e].orig = tab[e].orig /\ tab2[e].locked = tab[e].locked
             /\ tab2[e].cleanup = tab[e].cleanup
             /\ tab2[e].next = IF tab[e].next = d THEN tab[d].next ELSE tab[e].next
  <2>1. tab[e] \in FdEntry /\ tab[d].next \in Slots \cup {FdNil}
    BY <1>1, <1>2, Zenon DEF FdEntry
  <2>2. CASE tab[e].next = d
    <3>1. tab2[e] = [tab[e] EXCEPT !.next = tab[d].next]
      BY <1>5, <2>2, Zenon
    <3> QED
      BY <2>1, <2>2, <3>1, Zenon DEF FdEntry
  <2>3. CASE tab[e].next # d
    BY <1>5, <2>1, <2>3, Zenon
  <2> QED
    BY <2>2, <2>3, Zenon
<1>7. tab2[d] = Vacant /\ Vacant \in FdEntry
  BY <1>2, <1>5, Zenon DEF Vacant, FdEntry
<1>8. tab2 = [e \in DOMAIN tab |-> tab2[e]]
  BY <1>5, Zenon
<1>9. \A e \in DOMAIN tab \ UsedIn(tab) : tab2[e] = tab[e]
  BY <1>0, <1>1, <1>2, <1>5 DEF TabCleared, Vacant
<1> QED
  BY <1>6, <1>7, <1>8, <1>9, Zenon DEF Skipped, Without, tab2, mid

(* A table with an alias skipped is in order.                                 *)
LEMMA AliasClosed ==
  ASSUME NEW tab, TabOk(tab), NEW d \in UsedIn(tab), tab[d].orig # FdNil,
         NEW tab2, Skipped(tab, tab2, d)
  PROVE  TabOk(tab2) /\ \A f : LockMarks(tab, f) => LockMarks(tab2, f)
<1>0. /\ TabTyped(tab) /\ TabCleared(tab) /\ TabFiles(tab) /\ TabAliases(tab)
      /\ TabNext(tab) /\ TabChains(tab)
  BY Zenon DEF TabOk
<1> DEFINE o == tab[d].orig
<1>1. \A e \in DOMAIN tab : e # FdNil
  BY <1>0, FdAssumption, SMTT(30) DEF TabTyped
<1>2. /\ d \in DOMAIN tab /\ o \in Originals(tab) /\ o # d /\ o \in UsedIn(tab)
      /\ o \in DOMAIN tab
  BY <1>0, Zenon DEF UsedIn, TabAliases, Originals
<1>4. /\ DOMAIN tab2 = DOMAIN tab /\ UsedIn(tab2) = UsedIn(tab) \ {d}
      /\ \A e \in UsedIn(tab2) : tab2[e].file = tab[e].file
      /\ TabTyped(tab2) /\ TabCleared(tab2)
  BY WithoutNames, Zenon DEF Skipped
<1>5. \A e \in UsedIn(tab2) : e \in UsedIn(tab) /\ tab2[e].orig = tab[e].orig
  BY <1>4, Zenon DEF Skipped, UsedIn
<1>6. Originals(tab2) = Originals(tab)
  BY <1>2, <1>4, <1>5, Zenon DEF Originals
<1>7. TabFiles(tab2)
  BY <1>0, <1>4, <1>6, Zenon DEF TabFiles, Originals
<1>8. TabAliases(tab2)
  BY <1>0, <1>4, <1>5, <1>6 DEF TabAliases, Originals
<1>9. \A e \in UsedIn(tab2) : Resolve(tab2, e) = Resolve(tab, e)
  BY <1>5, Zenon DEF Resolve
<1>10. tab[d].next # d
  BY NextIsOther, Zenon
<1>11. \A e \in UsedIn(tab2) :
         tab2[e].next = IF tab[e].next = d THEN tab[d].next ELSE tab[e].next
  BY <1>4, Zenon DEF Skipped, UsedIn
<1>12. TabNext(tab2)
  <2>1. ASSUME NEW e \in UsedIn(tab2), tab2[e].next # FdNil
        PROVE  tab2[e].next \in UsedIn(tab2) /\ tab2[tab2[e].next].orig = Resolve(tab2, e)
    <3>1. CASE tab[e].next = d
      <4>1. tab2[e].next = tab[d].next
        BY <1>11, <3>1, Zenon
      <4>2. tab[d].next \in UsedIn(tab2) /\ tab[tab[d].next].orig = o
        BY <1>0, <1>4, <1>10, <2>1, <4>1, Zenon DEF TabNext, Resolve
      <4>3. Resolve(tab, e) = o
        BY <1>0, <1>1, <1>2, <1>5, <3>1, Zenon DEF TabNext
      <4> QED
        BY <1>5, <1>9, <4>1, <4>2, <4>3, Zenon
    <3>2. CASE tab[e].next # d
      BY <1>0, <1>4, <1>5, <1>9, <1>11, <2>1, <3>2 DEF TabNext
    <3> QED
      BY <3>1, <3>2, Zenon
  <2>2. ASSUME NEW a \in UsedIn(tab2), NEW b \in UsedIn(tab2),
               tab2[a].next = tab2[b].next, tab2[a].next # FdNil
        PROVE  a = b
    <3>1. a \in UsedIn(tab) \ {d} /\ b \in UsedIn(tab) \ {d}
      BY <1>4, Zenon
    <3>2. CASE tab[a].next = d /\ tab[b].next = d
      BY <1>0, <1>1, <1>2, <3>1, <3>2, Zenon DEF TabNext
    <3>3. CASE tab[a].next = d /\ tab[b].next # d
      BY <1>0, <1>11, <2>2, <3>1, <3>3, Zenon DEF TabNext
    <3>4. CASE tab[a].next # d /\ tab[b].next = d
      BY <1>0, <1>11, <2>2, <3>1, <3>4, Zenon DEF TabNext
    <3>5. CASE tab[a].next # d /\ tab[b].next # d
      BY <1>0, <1>11, <2>2, <3>1, <3>5, Zenon DEF TabNext
    <3> QED
      BY <3>2, <3>3, <3>4, <3>5, Zenon
  <2> QED
    BY <2>1, <2>2, Zenon DEF TabNext
<1>13. ClosedSet(tab, DOMAIN tab) /\ ClosedSet(tab2, DOMAIN tab2)
  BY <1>0, <1>4, <1>12, TabClosed, Zenon
<1>14. ASSUME NEW p \in Originals(tab), p # o
       PROVE  Chain(tab2, p) = {p} \cup AliasesOf(tab2, p)
  <2>1. Chain(tab, p) = {p} \cup AliasesOf(tab, p)
    BY <1>0, Zenon DEF TabChains
  <2>2. \A e \in Chain(tab, p) : e \in UsedIn(tab2) /\ Resolve(tab, e) = p
    BY <1>1, <1>2, <1>4, <1>14, <2>1, Zenon DEF AliasesOf, Originals, UsedIn, Resolve
  <2>3. \A e \in Chain(tab, p) : tab2[e].next = tab[e].next
    BY <1>0, <1>1, <1>2, <1>5, <1>11, <1>14, <2>2, SMTT(30) DEF TabNext
  <2>4. Chain(tab2, p) = Chain(tab, p)
    <3>1. p \in DOMAIN tab
      BY Zenon DEF Originals, UsedIn
    <3> QED
      BY <1>4, <1>13, <2>3, <3>1, ChainLocal, Zenon
  <2>5. AliasesOf(tab2, p) = AliasesOf(tab, p)
    BY <1>4, <1>5, <1>14, Zenon DEF AliasesOf
  <2> QED
    BY <2>1, <2>4, <2>5, Zenon
<1>15. Chain(tab2, o) = {o} \cup AliasesOf(tab2, o)
  <2> DEFINE A == Chain(tab, o)
             C == Chain(tab2, o)
  <2>1. A = {o} \cup AliasesOf(tab, o) /\ A \subseteq UsedIn(tab) /\ d \in A
    BY <1>0, <1>2, Zenon DEF TabChains, AliasesOf, Originals
  <2>2. ClosedSet(tab, A) /\ o \in A
    BY <1>2, <1>13, ChainClosed, Zenon
  <2>3. {o} \cup AliasesOf(tab2, o) = A \ {d}
    BY <1>2, <1>4, <1>5, <2>1, Zenon DEF AliasesOf
  <2>4. ClosedSet(tab2, C) /\ o \in C
    BY <1>2, <1>4, <1>13, ChainClosed, Zenon
  <2> HIDE DEF A, C
  <2>5. ClosedSet(tab2, A \ {d})
    <3>1. A \ {d} \subseteq UsedIn(tab2)
      BY <1>4, <2>1, Zenon
    <3>2. ASSUME NEW e \in A \ {d} PROVE tab2[e].next \in (A \ {d}) \cup {FdNil}
      BY <1>10, <1>11, <2>1, <2>2, <3>1, Zenon DEF ClosedSet
    <3> QED
      BY <3>1, <3>2, Zenon DEF ClosedSet, UsedIn
  <2>6. C \subseteq A \ {d}
    BY <1>2, <2>2, <2>5, ChainLeast, Zenon DEF C
  <2>7. C \subseteq UsedIn(tab2)
    BY <1>4, <2>1, <2>6, Zenon
  <2>8. A \subseteq C \cup {d}
    <3>1. CASE \E e \in C : tab[e].next = d
      <4>1. PICK e \in C : tab[e].next = d
        BY <3>1, Zenon
      <4>2. tab2[e].next = tab[d].next
        BY <1>11, <2>7, <4>1, Zenon
      <4>3. tab[d].next \in C \cup {FdNil}
        BY <2>4, <4>2, Zenon DEF ClosedSet
      <4>4. ClosedSet(tab, C \cup {d})
        BY <1>2, <1>4, <1>11, <2>4, <2>7, <4>3, Zenon DEF ClosedSet
      <4> QED
        BY <2>4, <4>4, ChainLeast, Zenon DEF A
    <3>2. CASE \A e \in C : tab[e].next # d
      <4>1. ClosedSet(tab, C)
        BY <1>4, <1>11, <2>4, <2>7, <3>2, Zenon DEF ClosedSet
      <4> QED
        BY <2>4, <4>1, ChainLeast, Zenon DEF A
    <3> QED
      BY <3>1, <3>2, Zenon
  <2> QED
    BY <2>3, <2>6, <2>8, Zenon DEF C
<1>16. TabChains(tab2)
  BY <1>6, <1>14, <1>15, Zenon DEF TabChains
<1>17. TabOk(tab2)
  BY <1>4, <1>7, <1>8, <1>12, <1>16, Zenon DEF TabOk
<1>18. ASSUME NEW f, LockMarks(tab, f), NEW e \in UsedIn(tab2), FileOf(tab2, e) = f
       PROVE  tab2[e].locked /\ tab2[Resolve(tab2, e)].cleanup
  <2>1. e \in UsedIn(tab) /\ e # d /\ FileOf(tab, e) = f
    BY <1>4, <1>17, <1>18, FileOfIs, Zenon
  <2>2. Resolve(tab2, e) = Resolve(tab, e) /\ Resolve(tab2, e) \in UsedIn(tab2)
    BY <1>6, <1>8, <1>9, <1>18, Zenon DEF Resolve, TabAliases, Originals
  <2>3. tab[e].locked /\ tab[Resolve(tab, e)].cleanup
    BY <1>18, <2>1, Zenon DEF LockMarks
  <2>4. \A x \in UsedIn(tab2) : tab2[x].locked = tab[x].locked /\ tab2[x].cleanup = tab[x].cleanup
    BY <1>4, Zenon DEF Skipped, UsedIn
  <2> QED
    BY <2>2, <2>3, <2>4, Zenon
<1> QED
  BY <1>17, <1>18, Zenon DEF LockMarks

(* __remove_fd_alias on an original: its first alias becomes the original of  *)
(* the others.                                                                *)
Succeeded(tab, tab2, d) ==
  LET first == tab[d].next
  IN  /\ Without(tab, tab2, d)
      /\ \A e \in DOMAIN tab \ {d} :
           /\ tab2[e].next = tab[e].next
           /\ tab2[e].orig = IF e = first THEN FdNil
                             ELSE IF e \in AliasesOf(tab, d) THEN first ELSE tab[e].orig
           /\ tab2[e].locked = IF e = first THEN tab[d].locked ELSE tab[e].locked
           /\ tab2[e].cleanup = IF e = first THEN tab[d].cleanup ELSE tab[e].cleanup

(* The list that starts at the first alias holds all of them.                 *)
LEMMA FirstAlias ==
  ASSUME NEW tab, TabOk(tab), NEW d \in Originals(tab), tab[d].next # FdNil
  PROVE  /\ tab[d].next \in AliasesOf(tab, d) /\ d \notin AliasesOf(tab, d)
         /\ Chain(tab, tab[d].next) = AliasesOf(tab, d)
         /\ tab[d].file \notin FdDirs
<1>0. /\ TabTyped(tab) /\ TabCleared(tab) /\ TabAliases(tab) /\ TabNext(tab) /\ TabChains(tab)
  BY Zenon DEF TabOk
<1> DEFINE first == tab[d].next
           A == AliasesOf(tab, d)
<1>1. \A e \in DOMAIN tab : e # FdNil
  BY <1>0, FdAssumption DEF TabTyped
<1>2. d \in UsedIn(tab) /\ d \in DOMAIN tab /\ tab[d].orig = FdNil
  BY Zenon DEF Originals, UsedIn
<1>3. first \in A /\ d \notin A /\ A \subseteq UsedIn(tab) /\ A \subseteq DOMAIN tab
  BY <1>0, <1>1, <1>2, Zenon DEF TabNext, Resolve, AliasesOf, UsedIn
<1>4. tab[d].file \notin FdDirs
  BY <1>0, <1>1, <1>2, <1>3, Zenon DEF TabAliases, AliasesOf
<1>5. ClosedSet(tab, DOMAIN tab)
  BY <1>0, TabClosed, Zenon
<1>6. Chain(tab, d) = {d} \cup A
  BY <1>0, Zenon DEF TabChains
<1>7. \A e \in UsedIn(tab) : tab[e].next # d
  BY <1>0, <1>1, <1>2 DEF TabNext, Resolve, UsedIn
<1>8. ClosedSet(tab, A)
  <2>1. ClosedSet(tab, {d} \cup A)
    BY <1>2, <1>5, <1>6, ChainClosed, Zenon
  <2> QED
    BY <1>3, <1>7, <2>1, Zenon DEF ClosedSet
<1>9. Chain(tab, first) \subseteq A
  BY <1>3, <1>8, ChainLeast, Zenon
<1>10. A \subseteq Chain(tab, first)
  <2>1. ClosedSet(tab, Chain(tab, first)) /\ first \in Chain(tab, first)
    BY <1>3, <1>5, ChainClosed, Zenon
  <2>2. ClosedSet(tab, Chain(tab, first) \cup {d})
    BY <1>2, <2>1, Zenon DEF ClosedSet
  <2>3. Chain(tab, d) \subseteq Chain(tab, first) \cup {d}
    BY <2>2, ChainLeast, ZenonT(30)
  <2> QED
    BY <1>3, <1>6, <2>3, Zenon
<1> QED
  BY <1>3, <1>4, <1>9, <1>10, Zenon

(* Closing an original with aliases: the first of them takes over.            *)
LEMMA OriginalClosedIs ==
  ASSUME NEW tab, TabOk(tab), NEW d \in Originals(tab), tab[d].next # FdNil
  PROVE  Succeeded(tab, [AliasRemoved(tab, d) EXCEPT ![d] = Vacant], d)
<1>0. TabTyped(tab) /\ TabCleared(tab)
  BY Zenon DEF TabOk
<1> DEFINE first == tab[d].next
           A == AliasesOf(tab, d)
           mid == AliasRemoved(tab, d)
           tab2 == [mid EXCEPT ![d] = Vacant]
<1>1. \A e \in DOMAIN tab : e # FdNil /\ tab[e] \in FdEntry /\ e \in Slots
  BY <1>0, FdAssumption, SMTT(30) DEF TabTyped, Slots
<1>2. d \in UsedIn(tab) /\ d \in DOMAIN tab /\ tab[d].orig = FdNil
  BY Zenon DEF Originals, UsedIn
<1>3. first \in A /\ d \notin A /\ Chain(tab, first) = A
  BY FirstAlias, Zenon
<1>4. A \subseteq UsedIn(tab) /\ first \in DOMAIN tab
  BY <1>3, Zenon DEF AliasesOf, UsedIn
<1>5. mid = [e \in DOMAIN tab |->
               CASE e = first -> Migrated(tab, d)
                 [] e \in A \ {first} -> [tab[e] EXCEPT !.orig = first]
                 [] OTHER -> tab[e]]
  BY <1>2, <1>3, Zenon DEF AliasRemoved
<1>6. tab2 = [e \in DOMAIN tab |-> IF e = d THEN Vacant ELSE mid[e]] /\ DOMAIN mid = DOMAIN tab
  BY <1>5, Zenon
<1> HIDE DEF tab2
<1>7. ASSUME NEW e \in DOMAIN tab \ {d}
      PROVE  /\ tab2[e] \in FdEntry
             /\ tab2[e].used = tab[e].used /\ tab2[e].file = tab[e].file
             /\ tab2[e].next = tab[e].next
             /\ tab2[e].orig = IF e = first THEN FdNil
                               ELSE IF e \in A THEN first ELSE tab[e].orig
             /\ tab2[e].locked = IF e = first THEN tab[d].locked ELSE tab[e].locked
             /\ tab2[e].cleanup = IF e = first THEN tab[d].cleanup ELSE tab[e].cleanup
  <2>0. tab2[e] = mid[e]
    BY <1>6, Zenon
  <2> HIDE DEF mid
  <2>1. CASE e = first
    <3>1. tab2[e] = [tab[d] EXCEPT !.next = tab[first].next, !.orig = FdNil]
      BY <1>5, <2>0, <2>1, Zenon DEF Migrated
    <3>2. tab[d] \in FdEntry /\ tab[first] \in FdEntry
      BY <1>1, <1>2, <1>4, Zenon
    <3>3. tab[first].file = tab[d].file /\ tab[first].used = tab[d].used
      <4>1. tab[first].used /\ tab[d].used /\ tab[first].used \in BOOLEAN /\ tab[d].used \in BOOLEAN
        BY <1>2, <1>3, <3>2, Zenon DEF AliasesOf, UsedIn, FdEntry
      <4> QED
        BY <1>1, <1>2, <1>3, <4>1, Zenon DEF TabOk, TabAliases, AliasesOf
    <3> QED
      BY <2>1, <3>1, <3>2, <3>3, ZenonT(30) DEF FdEntry
  <2>2. CASE e # first /\ e \in A
    <3>1. tab2[e] = [tab[e] EXCEPT !.orig = first]
      BY <1>5, <2>0, <2>2, Zenon
    <3>2. tab[e] \in FdEntry /\ first \in Slots
      BY <1>1, <1>4, Zenon
    <3> QED
      BY <2>2, <3>1, <3>2, Zenon DEF FdEntry
  <2>3. CASE e # first /\ e \notin A
    BY <1>1, <1>5, <2>0, <2>3, Zenon
  <2> QED
    BY <2>1, <2>2, <2>3, Zenon
<1>8. tab2[d] = Vacant /\ Vacant \in FdEntry
  BY <1>2, <1>6, Zenon DEF Vacant, FdEntry
<1>9. tab2 = [e \in DOMAIN tab |-> tab2[e]]
  BY <1>6, Zenon
<1>10. \A e \in DOMAIN tab \ UsedIn(tab) : tab2[e] = tab[e]
  BY <1>2, <1>3, <1>4, <1>5, <1>6, Zenon
<1> QED
  BY <1>7, <1>8, <1>9, <1>10, Zenon DEF Succeeded, Without, tab2

(* A table in which the first alias has taken over is in order.               *)
LEMMA OriginalClosed ==
  ASSUME NEW tab, TabOk(tab), NEW d \in Originals(tab), tab[d].next # FdNil,
         NEW tab2, Succeeded(tab, tab2, d)
  PROVE  TabOk(tab2) /\ \A f : LockMarks(tab, f) => LockMarks(tab2, f)
<1>0. /\ TabTyped(tab) /\ TabCleared(tab) /\ TabFiles(tab) /\ TabAliases(tab)
      /\ TabNext(tab) /\ TabChains(tab)
  BY Zenon DEF TabOk
<1> DEFINE first == tab[d].next
           A == AliasesOf(tab, d)
<1>1. \A e \in DOMAIN tab : e # FdNil
  BY <1>0, FdAssumption, SMTT(30) DEF TabTyped
<1>2. d \in UsedIn(tab) /\ d \in DOMAIN tab /\ tab[d].orig = FdNil
  BY Zenon DEF Originals, UsedIn
<1>3. first \in A /\ d \notin A /\ Chain(tab, first) = A /\ tab[d].file \notin FdDirs
  BY FirstAlias, Zenon
<1>4. /\ DOMAIN tab2 = DOMAIN tab /\ UsedIn(tab2) = UsedIn(tab) \ {d}
      /\ \A e \in UsedIn(tab2) : tab2[e].file = tab[e].file
      /\ TabTyped(tab2) /\ TabCleared(tab2)
  BY <1>2, WithoutNames, Zenon DEF Succeeded
<1>5. /\ A \subseteq UsedIn(tab2) /\ first \in UsedIn(tab2)
      /\ \A e \in UsedIn(tab2) : e \in A <=> tab[e].orig = d
      /\ \A e \in A : tab[e].file = tab[d].file
  BY <1>0, <1>1, <1>2, <1>3, <1>4, Zenon DEF AliasesOf, TabAliases
<1>6. \A e \in UsedIn(tab2) :
        /\ tab2[e].next = tab[e].next
        /\ tab2[e].orig = IF e = first THEN FdNil ELSE IF e \in A THEN first ELSE tab[e].orig
        /\ tab2[e].locked = IF e = first THEN tab[d].locked ELSE tab[e].locked
        /\ tab2[e].cleanup = IF e = first THEN tab[d].cleanup ELSE tab[e].cleanup
  BY <1>4, Zenon DEF Succeeded, UsedIn
<1>7. first # FdNil /\ first \in DOMAIN tab
  BY <1>1, <1>4, <1>5, Zenon DEF UsedIn
<1>8. Originals(tab2) = (Originals(tab) \ {d}) \cup {first}
  <2>1. ASSUME NEW e \in UsedIn(tab2)
        PROVE  tab2[e].orig = FdNil <=> (e = first \/ tab[e].orig = FdNil)
    BY <1>1, <1>2, <1>5, <1>6, <1>7, ZenonT(30)
  <2> QED
    BY <1>2, <1>4, <1>5, <2>1, ZenonT(30) DEF Originals
<1>9. \A e \in UsedIn(tab2) : Resolve(tab2, e) = IF e \in A THEN first ELSE Resolve(tab, e)
  BY <1>3, <1>6, <1>7, Zenon DEF Resolve
<1>10. TabFiles(tab2)
  <2>1. \A e \in UsedIn(tab2) : tab2[e].file # FdNil
    BY <1>0, <1>4, Zenon DEF TabFiles
  <2>2. ASSUME NEW x \in Originals(tab2), NEW y \in Originals(tab2), tab2[x].file = tab2[y].file
        PROVE  x = y
    <3>1. tab2[first].file = tab[d].file
      BY <1>3, <1>4, <1>5, Zenon
    <3>2. \A e \in Originals(tab) \ {d} : tab2[e].file = tab[e].file
      BY <1>4, Zenon DEF Originals
    <3> QED
      BY <1>0, <1>8, <2>2, <3>1, <3>2 DEF TabFiles
  <2> QED
    BY <2>1, <2>2, Zenon DEF TabFiles
<1>11. TabAliases(tab2)
  <2> SUFFICES ASSUME NEW e \in UsedIn(tab2), tab2[e].orig # FdNil
               PROVE  /\ tab2[e].orig \in Originals(tab2)
                      /\ tab2[tab2[e].orig].file = tab2[e].file /\ tab2[e].file \notin FdDirs
    BY Zenon DEF TabAliases
  <2>1. CASE e \in A
    <3>1. tab2[e].orig = first
      BY <1>6, <2>1, Zenon
    <3>2. first \in Originals(tab2)
      BY <1>8, Zenon
    <3>3. tab2[first].file = tab2[e].file /\ tab2[e].file \notin FdDirs
      BY <1>3, <1>4, <1>5, <2>1, Zenon
    <3> QED
      BY <3>1, <3>2, <3>3, Zenon
  <2>2. CASE e \notin A
    <3>1. tab2[e].orig = tab[e].orig /\ tab[e].orig # d /\ e \in UsedIn(tab)
      BY <1>3, <1>4, <1>5, <1>6, <2>2, Zenon
    <3>2. /\ tab[e].orig \in Originals(tab) \ {d} /\ tab[tab[e].orig].file = tab[e].file
          /\ tab[e].file \notin FdDirs
      BY <1>0, <3>1, Zenon DEF TabAliases
    <3>3. tab[e].orig \in UsedIn(tab2)
      BY <1>4, <3>2, Zenon DEF Originals
    <3> QED
      BY <1>4, <1>8, <3>1, <3>2, <3>3, Zenon
  <2> QED
    BY <2>1, <2>2, Zenon
<1>12. \A e \in UsedIn(tab) : tab[e].next # d
  BY <1>0, <1>1, <1>2 DEF TabNext, Resolve, UsedIn
<1>13. \A e \in UsedIn(tab2) : tab[e].next # first
  BY <1>0, <1>2, <1>4, <1>7, Zenon DEF TabNext
<1>14. TabNext(tab2)
  <2>1. ASSUME NEW e \in UsedIn(tab2), tab2[e].next # FdNil
        PROVE  tab2[e].next \in UsedIn(tab2) /\ tab2[tab2[e].next].orig = Resolve(tab2, e)
    <3> DEFINE n == tab[e].next
    <3>1. tab2[e].next = n /\ e \in UsedIn(tab)
      BY <1>4, <1>6, Zenon
    <3>2. n \in UsedIn(tab2) /\ tab[n].orig = Resolve(tab, e) /\ n # first
      BY <1>0, <1>4, <1>12, <1>13, <2>1, <3>1, Zenon DEF TabNext
    <3>3. e \in A <=> n \in A
      BY <1>1, <1>2, <1>4, <1>5, <3>1, <3>2, Zenon DEF Resolve, AliasesOf
    <3> QED
      BY <1>6, <1>9, <3>1, <3>2, <3>3
  <2>2. ASSUME NEW a \in UsedIn(tab2), NEW b \in UsedIn(tab2),
               tab2[a].next = tab2[b].next, tab2[a].next # FdNil
        PROVE  a = b
    BY <1>0, <1>4, <1>6, <2>2, ZenonT(30) DEF TabNext
  <2> QED
    BY <2>1, <2>2, Zenon DEF TabNext
<1>15. ClosedSet(tab, DOMAIN tab) /\ ClosedSet(tab2, DOMAIN tab2)
  BY <1>0, <1>4, <1>14, TabClosed, Zenon
<1>16. ASSUME NEW p \in Originals(tab), p # d
       PROVE  Chain(tab2, p) = {p} \cup AliasesOf(tab2, p)
  <2>1. Chain(tab, p) = {p} \cup AliasesOf(tab, p) /\ p \in DOMAIN tab
    BY <1>0, Zenon DEF TabChains, Originals, UsedIn
  <2>2. \A e \in Chain(tab, p) : e \in UsedIn(tab2)
    BY <1>1, <1>2, <1>4, <1>16, <2>1, Zenon DEF AliasesOf, Originals
  <2>3. Chain(tab2, p) = Chain(tab, p)
    BY <1>4, <1>6, <1>15, <2>1, <2>2, ChainLocal, SMTT(30)
  <2>4. p # first /\ p # FdNil
    BY <1>1, <1>2, <1>3, <2>1, Zenon DEF AliasesOf, Originals
  <2>5. AliasesOf(tab2, p) = AliasesOf(tab, p)
    <3>1. ASSUME NEW e \in UsedIn(tab2) PROVE tab2[e].orig = p <=> tab[e].orig = p
      BY <1>3, <1>5, <1>6, <1>16, <2>4, ZenonT(30)
    <3>2. d \notin AliasesOf(tab, p)
      BY <1>2, <2>4, Zenon DEF AliasesOf
    <3> QED
      BY <1>4, <3>1, <3>2, Zenon DEF AliasesOf
  <2> QED
    BY <2>1, <2>3, <2>5, Zenon
<1>17. Chain(tab2, first) = {first} \cup AliasesOf(tab2, first)
  <2>1. Chain(tab2, first) = A
    <3>1. \A e \in A : tab2[e].next = tab[e].next
      BY <1>5, <1>6, Zenon
    <3> HIDE DEF A, first
    <3> QED
      BY <1>3, <1>4, <1>7, <1>15, <3>1, ChainLocal, Zenon
  <2>2. ASSUME NEW e \in UsedIn(tab2), e \notin A PROVE tab[e].orig # first
    BY <1>0, <1>1, <1>2, <1>3, <1>4, <1>5, <1>7, <2>2, ZenonT(30) DEF TabAliases, Originals, AliasesOf
  <2>3. AliasesOf(tab2, first) = A \ {first}
    BY <1>5, <1>6, <1>7, <2>2, SMTT(30) DEF AliasesOf
  <2> QED
    BY <1>3, <2>1, <2>3, Zenon
<1>18. TabChains(tab2)
  BY <1>8, <1>16, <1>17, Zenon DEF TabChains
<1>19. TabOk(tab2)
  BY <1>4, <1>10, <1>11, <1>14, <1>18, Zenon DEF TabOk
<1>20. ASSUME NEW f, LockMarks(tab, f), NEW e \in UsedIn(tab2), FileOf(tab2, e) = f
       PROVE  tab2[e].locked /\ tab2[Resolve(tab2, e)].cleanup
  <2>1. e \in UsedIn(tab) /\ e # d /\ FileOf(tab, e) = f
    BY <1>4, <1>19, <1>20, FileOfIs, Zenon
  <2>2. tab[e].locked /\ tab[Resolve(tab, e)].cleanup
    BY <1>20, <2>1, Zenon DEF LockMarks
  <2>3. CASE e \in A
    <3>1. FileOf(tab, d) = f /\ Resolve(tab, d) = d
      BY <1>2, <1>5, <2>1, <2>3, FileOfIs, Zenon DEF Resolve
    <3>2. tab[d].locked /\ tab[d].cleanup
      BY <1>2, <1>20, <3>1, Zenon DEF LockMarks
    <3> QED
      BY <1>5, <1>6, <1>9, <2>2, <2>3, <3>2, ZenonT(30)
  <2>4. CASE e \notin A
    <3>1. Resolve(tab2, e) = Resolve(tab, e)
      BY <1>9, <2>4, Zenon
    <3>2. Resolve(tab, e) \in UsedIn(tab2) /\ Resolve(tab, e) # first
      BY <1>0, <1>1, <1>2, <1>3, <1>4, <1>5, <2>1, <2>4, ZenonT(30)
         DEF Resolve, TabAliases, Originals, AliasesOf
    <3> QED
      BY <1>3, <1>6, <2>2, <2>4, <3>1, <3>2, Zenon
  <2> QED
    BY <2>3, <2>4, Zenon
<1> QED
  BY <1>19, <1>20, Zenon DEF LockMarks

(* Entries are descriptors, and files are numbers.                            *)
LEMMA TabSlots ==
  ASSUME NEW tab, TabOk(tab)
  PROVE  /\ UsedIn(tab) \subseteq DOMAIN tab /\ DOMAIN tab \subseteq Slots /\ FdNil \notin Slots
         /\ \A d \in UsedIn(tab) : tab[d].file \in 1..FdMaxFiles
         /\ FdNil \notin 1..FdMaxFiles
<1>1. PICK n \in 1..FdMax : tab \in [0..n - 1 -> FdEntry]
  BY Zenon DEF TabOk, TabTyped
<1>2. UsedIn(tab) \subseteq DOMAIN tab /\ DOMAIN tab \subseteq Slots
  BY <1>1, FdAssumption, SMTT(30) DEF UsedIn, Slots
<1>3. FdNil \notin Slots /\ FdNil \notin 1..FdMaxFiles
  BY FdAssumption DEF Slots
<1>4. ASSUME NEW d \in UsedIn(tab) PROVE tab[d].file \in 1..FdMaxFiles
  <2>1. tab[d] \in FdEntry
    BY <1>1, <1>2, Zenon
  <2> QED
    BY <2>1, Zenon DEF FdEntry, TabOk, TabFiles
<1> QED
  BY <1>2, <1>3, <1>4, Zenon

(* The table after close().                                                   *)
LEMMA ClosedKeeps ==
  ASSUME NEW tab, TabOk(tab), NEW d \in UsedIn(tab), ~Stays(tab, d)
  PROVE  /\ TabOk(Closed(tab, d)) /\ Without(tab, Closed(tab, d), d)
         /\ \A f : LockMarks(tab, f) => LockMarks(Closed(tab, d), f)
         /\ \A e \in Originals(tab) \ {d} : Closed(tab, d)[e].orig = FdNil
<1>0. \A e \in Originals(tab) : e \in DOMAIN tab /\ tab[e].orig = FdNil
  BY Zenon DEF Originals, UsedIn
<1>1. CASE ~IsAliased(tab, d)
  <2>1. Closed(tab, d) = [tab EXCEPT ![d] = Vacant]
    BY <1>1, Zenon DEF Closed
  <2>2. \A e \in Originals(tab) \ {d} : Closed(tab, d)[e].orig = FdNil
    BY <1>0, <2>1, Zenon
  <2> QED
    BY <1>1, <2>1, <2>2, SingleClosed, Zenon
<1>2. CASE tab[d].orig # FdNil
  <2>1. tab[d].file \notin FdDirs
    BY <1>2, Zenon DEF TabOk, TabAliases
  <2>2. Closed(tab, d) = [AliasRemoved(tab, d) EXCEPT ![d] = Vacant]
    BY <1>2, <2>1, Zenon DEF Closed, IsAliased
  <2>3. Skipped(tab, Closed(tab, d), d)
    <3>1. Skipped(tab, [AliasRemoved(tab, d) EXCEPT ![d] = Vacant], d)
      BY <1>2, AliasClosedIs, ZenonT(30)
    <3> QED
      BY <2>2, <3>1, Zenon
  <2>4. \A e \in Originals(tab) \ {d} : Closed(tab, d)[e].orig = FdNil
    BY <1>0, <2>3, Zenon DEF Skipped
  <2> QED
    BY <1>2, <2>3, <2>4, AliasClosed, Zenon DEF Skipped
<1>3. CASE tab[d].orig = FdNil /\ tab[d].next # FdNil
  <2>1. d \in Originals(tab)
    BY <1>3, Zenon DEF Originals
  <2>2. tab[d].file \notin FdDirs
    BY <1>3, <2>1, FirstAlias, Zenon
  <2>3. Closed(tab, d) = [AliasRemoved(tab, d) EXCEPT ![d] = Vacant]
    BY <1>3, <2>2, Zenon DEF Closed, IsAliased, Stays
  <2>4. Succeeded(tab, Closed(tab, d), d)
    <3>1. Succeeded(tab, [AliasRemoved(tab, d) EXCEPT ![d] = Vacant], d)
      BY <1>3, <2>1, OriginalClosedIs, Zenon
    <3> QED
      BY <2>3, <3>1, Zenon
  <2>5. \A e \in Originals(tab) \ {d} : Closed(tab, d)[e].orig = FdNil
    <3>1. d # FdNil
      BY TabSlots, Zenon
    <3> QED
      BY <1>0, <2>4, <3>1, Zenon DEF Succeeded, AliasesOf
  <2> QED
    BY <1>3, <2>1, <2>4, <2>5, OriginalClosed, Zenon DEF Succeeded
<1> QED
  BY <1>1, <1>2, <1>3, Zenon DEF IsAliased

-------------------------------------------------------------------------------
(* Growing the table and finding a vacant entry.                              *)

(* The lowest of a set of entries.                                            *)
LEMMA FdLeast ==
  ASSUME NEW T, T \subseteq Nat, T # {}
  PROVE  Min(T) \in T /\ \A y \in T : Min(T) <= y
<1> DEFINE R == OpToRel(<, Nat)
<1>1. IsWellFoundedOn(R, Nat)
  BY NatLessThanWellFounded, Zenon
<1>2. \A m, n \in Nat : m < n => <<m, n>> \in R
  BY Zenon DEF OpToRel
<1> HIDE DEF R
<1>3. PICK x \in T : \A y \in T : ~(<<y, x>> \in R)
  BY <1>1, WFMin, Zenon
<1>4. ASSUME NEW y \in T PROVE x <= y
  <2>1. x \in Nat /\ y \in Nat
    BY Zenon
  <2>2. ~(y < x)
    BY <2>1, <1>2, <1>3, Zenon
  <2> QED
    BY <2>1, <2>2
<1> QED
  BY <1>4, Zenon DEF Min

(* A larger table with the same entries.                                      *)
IsGrown(tab, tab2) ==
  /\ DOMAIN tab \subseteq DOMAIN tab2 /\ UsedIn(tab2) = UsedIn(tab)
  /\ \A e \in DOMAIN tab : tab2[e] = tab[e]
  /\ \A e \in DOMAIN tab2 \ DOMAIN tab : \A d \in DOMAIN tab : d < e
  /\ \A f : LockMarks(tab, f) => LockMarks(tab2, f)

(* A table that grows stays in order, with vacant entries added.              *)
LEMMA GrownKeeps ==
  ASSUME NEW tab, TabOk(tab), NEW max \in Nat, CanGrow(tab, max)
  PROVE  /\ TabOk(Grown(tab, max)) /\ IsGrown(tab, Grown(tab, max))
         /\ DOMAIN Grown(tab, max) = DOMAIN tab \cup 0..NewSize(tab, max) - 1
         /\ max = 0 => \E e \in DOMAIN Grown(tab, max) : e \notin DOMAIN tab
<1>0. /\ TabTyped(tab) /\ TabCleared(tab) /\ TabFiles(tab) /\ TabAliases(tab)
      /\ TabNext(tab) /\ TabChains(tab)
  BY Zenon DEF TabOk
<1> DEFINE tab2 == Grown(tab, max)
           m == NewSize(tab, max)
<1>1. PICK n \in 1..FdMax : tab \in [0..n - 1 -> FdEntry]
  BY <1>0, Zenon DEF TabTyped
<1>2. FdMax \in Nat /\ FdGranularity \in Nat \ {0} /\ DOMAIN tab = 0..n - 1
  BY <1>1, FdAssumption, Zenon
<1>3. Cardinality(0..n - 1) = n
  BY <1>2, FS_Interval
<1>4. m \in Nat /\ m <= FdMax /\ (max = 0 => m > n)
  BY <1>2, <1>3 DEF NewSize, CanGrow
<1> HIDE DEF m
<1>5. tab2 = [d \in DOMAIN tab \cup 0..m - 1 |-> IF d \in DOMAIN tab THEN tab[d] ELSE Vacant]
  BY Zenon DEF Grown, m
<1> HIDE DEF tab2
<1>6. DOMAIN tab2 = DOMAIN tab \cup 0..m - 1
  BY <1>5, Zenon
<1>7. \A e \in DOMAIN tab : tab2[e] = tab[e]
  BY <1>5, Zenon
<1>8. \A e \in DOMAIN tab2 \ DOMAIN tab : tab2[e] = Vacant /\ e >= n
  BY <1>2, <1>4, <1>5
<1>9. UsedIn(tab2) = UsedIn(tab)
  BY <1>6, <1>7, <1>8, SMTT(30) DEF UsedIn, Vacant
<1>10. UsedIn(tab) \subseteq DOMAIN tab
  BY Zenon DEF UsedIn
<1>11. Originals(tab2) = Originals(tab)
  BY <1>7, <1>9, <1>10, Zenon DEF Originals
<1>12. \A e \in UsedIn(tab) : Resolve(tab2, e) = Resolve(tab, e)
  BY <1>7, <1>10, Zenon DEF Resolve
<1>13. TabTyped(tab2)
  <2> DEFINE k == IF m > n THEN m ELSE n
  <2>1. DOMAIN tab2 = 0..k - 1 /\ k \in 1..FdMax
    BY <1>2, <1>4, <1>6
  <2>2. \A e \in DOMAIN tab2 : tab2[e] \in FdEntry
    <3>1. Vacant \in FdEntry
      BY Zenon DEF Vacant, FdEntry
    <3> QED
      BY <1>1, <1>2, <1>7, <1>8, <3>1, Zenon
  <2>3. tab2 = [e \in DOMAIN tab2 |-> tab2[e]]
    BY <1>5, Zenon
  <2> HIDE DEF k
  <2>4. tab2 \in [0..k - 1 -> FdEntry]
    BY <2>1, <2>2, <2>3, Zenon
  <2> QED
    BY <2>1, <2>4, Zenon DEF TabTyped
<1>14. TabCleared(tab2)
  BY <1>0, <1>7, <1>8, <1>9, Zenon DEF TabCleared
<1>15. TabFiles(tab2)
  BY <1>0, <1>7, <1>9, <1>10, <1>11, Zenon DEF TabFiles, Originals
<1>16. TabAliases(tab2)
  BY <1>0, <1>7, <1>9, <1>10, <1>11, ZenonT(30) DEF TabAliases, Originals
<1>17. TabNext(tab2)
  <2>1. \A e \in UsedIn(tab) : tab2[e] = tab[e]
    BY <1>7, <1>10, Zenon
  <2> QED
    BY <1>0, <1>9, <1>12, <2>1, SMTT(30) DEF TabNext
<1>18. TabChains(tab2)
  <2> SUFFICES ASSUME NEW o \in Originals(tab)
               PROVE  Chain(tab2, o) = {o} \cup AliasesOf(tab2, o)
    BY <1>11, Zenon DEF TabChains
  <2>1. ClosedSet(tab, DOMAIN tab) /\ ClosedSet(tab2, DOMAIN tab2)
    BY <1>0, <1>14, <1>17, TabClosed, Zenon
  <2>2. o \in DOMAIN tab /\ \A e \in Chain(tab, o) : tab2[e].next = tab[e].next
    BY <1>7, Zenon DEF Originals, UsedIn, Chain
  <2>3. Chain(tab2, o) = Chain(tab, o)
    BY <1>6, <2>1, <2>2, ChainLocal, Zenon
  <2>4. AliasesOf(tab2, o) = AliasesOf(tab, o)
    BY <1>7, <1>9, <1>10, Zenon DEF AliasesOf
  <2> QED
    BY <1>0, <2>3, <2>4, Zenon DEF TabChains
<1>19. TabOk(tab2)
  BY <1>13, <1>14, <1>15, <1>16, <1>17, <1>18, Zenon DEF TabOk
<1>20. ASSUME NEW f, LockMarks(tab, f) PROVE LockMarks(tab2, f)
  <2>1. \A e \in UsedIn(tab) : Resolve(tab, e) \in DOMAIN tab
    BY <1>0, <1>10, Zenon DEF Resolve, TabAliases, Originals
  <2> QED
    BY <1>7, <1>9, <1>10, <1>12, <1>20, <2>1, Zenon DEF LockMarks, FileOf
<1>21. \A e \in DOMAIN tab2 \ DOMAIN tab : \A d \in DOMAIN tab : d < e
  BY <1>2, <1>4, <1>6, <1>8
<1>22. max = 0 => n \in DOMAIN tab2 /\ n \notin DOMAIN tab
  BY <1>2, <1>4, <1>6
<1> QED
  BY <1>6, <1>7, <1>9, <1>19, <1>20, <1>21, <1>22, Zenon DEF IsGrown, tab2, m

(* The lowest vacant entry from a place in the table on.                      *)
LEMMA VacantFound ==
  ASSUME NEW tab, TabOk(tab), NEW from \in Nat, from = 0 \/ from \in DOMAIN tab,
         HasVacant(tab, from)
  PROVE  LET tab2 == WithVacant(tab, from)
             d == FindVacant(tab2, from)
         IN  /\ TabOk(tab2) /\ IsGrown(tab, tab2)
             /\ d \in DOMAIN tab2 \ UsedIn(tab2)
             /\ \A e \in DOMAIN tab2 \ UsedIn(tab2) : e >= from => d <= e
<1> DEFINE tab2 == WithVacant(tab, from)
           d == FindVacant(tab2, from)
<1>1. TabOk(tab2) /\ IsGrown(tab, tab2) /\ VacantSlots(tab2, from) # {}
  <2>1. CASE VacantSlots(tab, from) # {}
    BY <2>1, Zenon DEF WithVacant, IsGrown
  <2>2. CASE VacantSlots(tab, from) = {}
    <3>1. CanGrow(tab, 0) /\ tab2 = Grown(tab, 0)
      BY <2>2, Zenon DEF HasVacant, WithVacant
    <3> HIDE DEF tab2
    <3>2. TabOk(tab2) /\ IsGrown(tab, tab2)
      BY <3>1, GrownKeeps, Zenon
    <3>3. PICK e \in DOMAIN tab2 : e \notin DOMAIN tab
      BY <3>1, GrownKeeps, Zenon
    <3>4. e \notin UsedIn(tab2)
      BY <3>2, <3>3, Zenon DEF IsGrown, UsedIn
    <3>5. e \in Nat
      BY <3>2, <3>3 DEF TabOk, TabTyped
    <3>6. e >= from
      <4>1. CASE from = 0
        BY <3>5, <4>1
      <4>2. CASE from \in DOMAIN tab
        BY <3>2, <3>3, <3>5, <4>2 DEF IsGrown
      <4> QED
        BY <4>1, <4>2, Zenon
    <3> QED
      BY <3>2, <3>3, <3>4, <3>6, Zenon DEF VacantSlots, UsedIn
  <2> QED
    BY <2>1, <2>2, Zenon
<1> HIDE DEF tab2
<1>2. VacantSlots(tab2, from) \subseteq Nat
  BY <1>1 DEF VacantSlots, TabOk, TabTyped
<1>3. d \in VacantSlots(tab2, from) /\ \A e \in VacantSlots(tab2, from) : d <= e
  BY <1>1, <1>2, FdLeast, Zenon DEF FindVacant
<1>4. /\ d \in DOMAIN tab2 \ UsedIn(tab2)
      /\ \A e \in DOMAIN tab2 \ UsedIn(tab2) : e >= from => d <= e
  <2> HIDE DEF d
  <2> QED
    BY <1>3, Zenon DEF VacantSlots, UsedIn
<1> QED
  BY <1>1, <1>4, Zenon DEF tab2

-------------------------------------------------------------------------------
(* An entry that is opened.                                                   *)

(* A new original, whose file nobody has opened before.                       *)
IsOpened(tab, tab2, d, f) ==
  /\ tab2 = [e \in DOMAIN tab |-> tab2[e]]
  /\ tab2[d] \in FdEntry /\ tab2[d].used /\ tab2[d].orig = FdNil /\ tab2[d].next = FdNil
  /\ tab2[d].file = f
  /\ \A e \in DOMAIN tab \ {d} : tab2[e] = tab[e]

(* What open makes of a vacant entry.                                         *)
LEMMA OpenedIs ==
  ASSUME NEW tab, NEW d \in DOMAIN tab, NEW f \in 1..FdMaxFiles
  PROVE  IsOpened(tab, [tab EXCEPT ![d] = Initialized(TRUE, f, FALSE)], d, f)
<1> DEFINE new == Initialized(TRUE, f, FALSE)
           tab2 == [tab EXCEPT ![d] = new]
<1>1. /\ new \in FdEntry /\ new.used /\ new.orig = FdNil /\ new.next = FdNil /\ new.file = f
  BY Zenon DEF Initialized, Vacant, FdEntry
<1> HIDE DEF new
<1>2. /\ tab2[d] = new /\ \A e \in DOMAIN tab \ {d} : tab2[e] = tab[e]
      /\ tab2 = [e \in DOMAIN tab |-> tab2[e]]
  BY Zenon
<1> HIDE DEF tab2
<1>3. IsOpened(tab, tab2, d, f)
  BY <1>1, <1>2, Zenon DEF IsOpened
<1> QED
  BY <1>3, Zenon DEF tab2, new

(* A table with a file opened is in order.                                    *)
LEMMA OpenedTable ==
  ASSUME NEW tab, TabOk(tab), NEW d \in DOMAIN tab \ UsedIn(tab), NEW f \in 1..FdMaxFiles,
         \A e \in UsedIn(tab) : tab[e].file # f,
         NEW tab2, IsOpened(tab, tab2, d, f)
  PROVE  /\ TabOk(tab2) /\ UsedIn(tab2) = UsedIn(tab) \cup {d} /\ tab2[d].file = f
         /\ \A e \in UsedIn(tab) : tab2[e] = tab[e]
         /\ \A g : g # f /\ LockMarks(tab, g) => LockMarks(tab2, g)
<1>0. /\ TabTyped(tab) /\ TabCleared(tab) /\ TabFiles(tab) /\ TabAliases(tab)
      /\ TabNext(tab) /\ TabChains(tab)
  BY Zenon DEF TabOk
<1>1. /\ DOMAIN tab2 = DOMAIN tab /\ f # FdNil /\ tab2[d] \in FdEntry
      /\ \A e \in DOMAIN tab \ {d} : tab2[e] = tab[e]
  BY TabSlots, Zenon DEF IsOpened
<1>2. tab2[d].used /\ tab2[d].orig = FdNil /\ tab2[d].next = FdNil /\ tab2[d].file = f
  BY Zenon DEF IsOpened
<1>3. UsedIn(tab2) = UsedIn(tab) \cup {d}
  BY <1>1, <1>2, Zenon DEF UsedIn
<1>4. \A e \in UsedIn(tab) : tab2[e] = tab[e]
  BY <1>1, Zenon DEF UsedIn
<1>5. Originals(tab2) = Originals(tab) \cup {d}
  BY <1>1, <1>2, <1>3, <1>4, Zenon DEF Originals
<1>6. \A e \in DOMAIN tab : e # FdNil
  BY <1>0, FdAssumption, SMTT(30) DEF TabTyped
<1>7. TabTyped(tab2)
  <2>1. PICK n \in 1..FdMax : tab \in [0..n - 1 -> FdEntry]
    BY <1>0, Zenon DEF TabTyped
  <2>2. DOMAIN tab = 0..n - 1 /\ \A e \in 0..n - 1 : tab2[e] \in FdEntry
    BY <1>1, <2>1, Zenon
  <2>3. tab2 \in [0..n - 1 -> FdEntry]
    <3>1. tab2 = [e \in DOMAIN tab |-> tab2[e]]
      BY Zenon DEF IsOpened
    <3> QED
      BY <2>2, <3>1, Zenon
  <2> QED
    BY <2>3, Zenon DEF TabTyped
<1>8. TabCleared(tab2)
  BY <1>0, <1>1, <1>3, Zenon DEF TabCleared
<1>9. TabFiles(tab2)
  <2>1. \A e \in UsedIn(tab2) : tab2[e].file # FdNil
    BY <1>0, <1>1, <1>2, <1>3, <1>4, Zenon DEF TabFiles
  <2>2. \A e \in Originals(tab) : tab2[e] = tab[e] /\ tab[e].file # f
    BY <1>4, Zenon DEF Originals
  <2>3. \A x, y \in Originals(tab2) : tab2[x].file = tab2[y].file => x = y
    BY <1>0, <1>2, <1>5, <2>2, ZenonT(30) DEF TabFiles
  <2> QED
    BY <2>1, <2>3, Zenon DEF TabFiles
<1>10. TabAliases(tab2)
  <2> SUFFICES ASSUME NEW e \in UsedIn(tab2), tab2[e].orig # FdNil
               PROVE  /\ tab2[e].orig \in Originals(tab2)
                      /\ tab2[tab2[e].orig].file = tab2[e].file /\ tab2[e].file \notin FdDirs
    BY Zenon DEF TabAliases
  <2>1. e \in UsedIn(tab) /\ tab2[e] = tab[e]
    BY <1>2, <1>3, <1>4, Zenon
  <2>2. tab[e].orig \in Originals(tab) /\ tab[tab[e].orig].file = tab[e].file /\ tab[e].file \notin FdDirs
    BY <1>0, <2>1, Zenon DEF TabAliases
  <2>3. tab2[tab[e].orig] = tab[tab[e].orig]
    BY <1>4, <2>2, Zenon DEF Originals
  <2> QED
    BY <1>5, <2>1, <2>2, <2>3, Zenon
<1>11. \A e \in UsedIn(tab) : Resolve(tab2, e) = Resolve(tab, e)
  BY <1>4, Zenon DEF Resolve
<1>12. TabNext(tab2)
  <2>1. ASSUME NEW e \in UsedIn(tab2), tab2[e].next # FdNil
        PROVE  e \in UsedIn(tab) /\ tab2[e].next = tab[e].next
    BY <1>2, <1>3, <1>4, <2>1, Zenon
  <2>2. ASSUME NEW e \in UsedIn(tab2), tab2[e].next # FdNil
        PROVE  tab2[e].next \in UsedIn(tab2) /\ tab2[tab2[e].next].orig = Resolve(tab2, e)
    <3>1. tab[e].next \in UsedIn(tab) /\ tab[tab[e].next].orig = Resolve(tab, e)
      BY <1>0, <2>1, <2>2, Zenon DEF TabNext
    <3> QED
      BY <1>3, <1>4, <1>11, <2>1, <2>2, <3>1, Zenon
  <2>3. ASSUME NEW a \in UsedIn(tab2), NEW b \in UsedIn(tab2),
               tab2[a].next = tab2[b].next, tab2[a].next # FdNil
        PROVE  a = b
    BY <1>0, <2>1, <2>3, Zenon DEF TabNext
  <2> QED
    BY <2>2, <2>3, Zenon DEF TabNext
<1>13. ClosedSet(tab, DOMAIN tab) /\ ClosedSet(tab2, DOMAIN tab2)
  BY <1>0, <1>8, <1>12, TabClosed, Zenon
<1>14. ASSUME NEW p \in Originals(tab) PROVE Chain(tab2, p) = {p} \cup AliasesOf(tab2, p)
  <2>1. Chain(tab, p) = {p} \cup AliasesOf(tab, p) /\ p \in DOMAIN tab
    BY <1>0, Zenon DEF TabChains, Originals, UsedIn
  <2>2. \A e \in Chain(tab, p) : tab2[e].next = tab[e].next
    BY <1>4, <2>1, Zenon DEF AliasesOf, Originals
  <2>3. Chain(tab2, p) = Chain(tab, p)
    BY <1>1, <1>2, <1>13, <2>1, <2>2, ChainLocal, Zenon
  <2>4. AliasesOf(tab2, p) = AliasesOf(tab, p)
    BY <1>1, <1>2, <1>3, <1>4, <1>6, <2>1, ZenonT(30) DEF AliasesOf
  <2> QED
    BY <2>1, <2>3, <2>4, Zenon
<1>15. Chain(tab2, d) = {d} \cup AliasesOf(tab2, d)
  <2>1. ClosedSet(tab2, {d})
    BY <1>1, <1>2, Zenon DEF ClosedSet
  <2>2. Chain(tab2, d) = {d}
    BY <1>1, <1>2, <1>13, <2>1, ChainClosed, ChainLeast, SMTT(30)
  <2>3. AliasesOf(tab2, d) = {}
    <3>1. d \notin UsedIn(tab) /\ d # FdNil
      BY <1>6, Zenon
    <3>2. \A e \in UsedIn(tab) : tab2[e].orig # d
      BY <1>0, <1>4, <3>1, SMTT(30) DEF TabAliases, Originals
    <3> QED
      BY <1>2, <1>3, <3>1, <3>2, Zenon DEF AliasesOf
  <2> QED
    BY <2>2, <2>3, Zenon
<1>16. TabChains(tab2)
  BY <1>5, <1>14, <1>15, Zenon DEF TabChains
<1>17. TabOk(tab2)
  BY <1>7, <1>8, <1>9, <1>10, <1>12, <1>16, Zenon DEF TabOk
<1>18. ASSUME NEW g, g # f, LockMarks(tab, g) PROVE LockMarks(tab2, g)
  <2> SUFFICES ASSUME NEW e \in UsedIn(tab2), FileOf(tab2, e) = g
               PROVE  tab2[e].locked /\ tab2[Resolve(tab2, e)].cleanup
    BY Zenon DEF LockMarks
  <2>1. e \in UsedIn(tab)
    BY <1>1, <1>2, <1>3, <1>18, Zenon DEF FileOf, Resolve
  <2>2. Resolve(tab, e) \in UsedIn(tab)
    BY <1>0, <2>1, Zenon DEF Resolve, TabAliases, Originals
  <2>3. FileOf(tab, e) = g
    BY <1>4, <1>11, <2>1, <2>2, Zenon DEF FileOf
  <2> QED
    BY <1>4, <1>11, <1>18, <2>1, <2>2, <2>3, Zenon DEF LockMarks
<1> QED
  BY <1>1, <1>2, <1>3, <1>4, <1>17, <1>18, Zenon

-------------------------------------------------------------------------------
(* The marks of record locks.                                                 *)

(* A descriptor resolves to an original of the same file.                     *)
LEMMA ResolveIs ==
  ASSUME NEW tab, TabOk(tab), NEW d \in UsedIn(tab)
  PROVE  Resolve(tab, d) \in Originals(tab) /\ tab[Resolve(tab, d)].file = tab[d].file
  BY Zenon DEF TabOk, TabAliases, Resolve, Originals

IsMarked(tab, tab2, o, on) ==
  /\ tab2 = [e \in DOMAIN tab |-> tab2[e]]
  /\ \A e \in DOMAIN tab :
       /\ tab2[e] \in FdEntry
       /\ tab2[e].used = tab[e].used /\ tab2[e].orig = tab[e].orig
       /\ tab2[e].next = tab[e].next /\ tab2[e].file = tab[e].file
       /\ tab2[e].locked = IF e \in Chain(tab, o) THEN on ELSE tab[e].locked
       /\ tab2[e].cleanup = (tab[e].cleanup \/ e = o)
       /\ e # o /\ e \notin Chain(tab, o) => tab2[e] = tab[e]

(* What fcntl marks: the descriptor's original, and all its aliases.          *)
LEMMA MarkedIs ==
  ASSUME TabOk(fdTab), NEW d \in UsedIn(fdTab), NEW on \in BOOLEAN
  PROVE  IsMarked(fdTab, Marked(d, on), Resolve(fdTab, d), on)
<1> DEFINE o == Resolve(fdTab, d)
           C == Chain(fdTab, o)
           tab2 == Marked(d, on)
<1>1. \A e \in DOMAIN fdTab : fdTab[e] \in FdEntry
  BY Zenon DEF TabOk, TabTyped
<1>2. tab2 = [e \in DOMAIN fdTab |->
                [fdTab[e] EXCEPT !.locked = IF e \in C THEN on ELSE @, !.cleanup = @ \/ e = o]]
  BY Zenon DEF Marked
<1> HIDE DEF C, o, tab2
<1>3. ASSUME NEW e \in DOMAIN fdTab
      PROVE  /\ tab2[e] \in FdEntry
             /\ tab2[e].used = fdTab[e].used /\ tab2[e].orig = fdTab[e].orig
             /\ tab2[e].next = fdTab[e].next /\ tab2[e].file = fdTab[e].file
             /\ tab2[e].locked = IF e \in C THEN on ELSE fdTab[e].locked
             /\ tab2[e].cleanup = (fdTab[e].cleanup \/ e = o)
             /\ e # o /\ e \notin C => tab2[e] = fdTab[e]
  <2> DEFINE r == fdTab[e]
             s == tab2[e]
  <2>1. r \in FdEntry
    BY <1>1, Zenon
  <2>2. s = [r EXCEPT !.locked = IF e \in C THEN on ELSE r.locked,
                      !.cleanup = r.cleanup \/ e = o]
    BY <1>2, Zenon
  <2> HIDE DEF r, s
  <2>3. s \in FdEntry
    BY <2>1, <2>2, ZenonT(30) DEF FdEntry
  <2>4. s.used = r.used /\ s.orig = r.orig /\ s.next = r.next /\ s.file = r.file
    BY <2>1, <2>2, Zenon DEF FdEntry
  <2>5. s.locked = (IF e \in C THEN on ELSE r.locked) /\ s.cleanup = (r.cleanup \/ e = o)
    BY <2>1, <2>2, Zenon DEF FdEntry
  <2>6. e # o /\ e \notin C => s = r
    BY <2>1, <2>2, Zenon DEF FdEntry
  <2> QED
    BY <2>3, <2>4, <2>5, <2>6, Zenon DEF r, s
<1>4. tab2 = [e \in DOMAIN fdTab |-> tab2[e]]
  BY <1>2, Zenon
<1>5. IsMarked(fdTab, tab2, o, on)
  BY <1>3, <1>4, Zenon DEF IsMarked, C
<1> QED
  BY <1>5, Zenon DEF tab2, o

(* The table stays in order, and the marks of other files stay.               *)
LEMMA MarkedKeeps ==
  ASSUME NEW tab, NEW tab2, TabOk(tab), NEW o \in Originals(tab), NEW on \in BOOLEAN,
         IsMarked(tab, tab2, o, on)
  PROVE  /\ TabOk(tab2) /\ UsedIn(tab2) = UsedIn(tab) /\ DOMAIN tab2 = DOMAIN tab
         /\ \A e \in UsedIn(tab) : tab2[e].file = tab[e].file
         /\ \A g : g # tab[o].file /\ LockMarks(tab, g) => LockMarks(tab2, g)
         /\ on => LockMarks(tab2, tab[o].file)
<1>0. /\ TabTyped(tab) /\ TabCleared(tab) /\ TabFiles(tab) /\ TabAliases(tab)
      /\ TabNext(tab) /\ TabChains(tab)
  BY Zenon DEF TabOk
<1>1. /\ DOMAIN tab2 = DOMAIN tab
      /\ \A e \in DOMAIN tab :
           /\ tab2[e] \in FdEntry /\ tab2[e].used = tab[e].used
           /\ tab2[e].orig = tab[e].orig /\ tab2[e].next = tab[e].next
           /\ tab2[e].file = tab[e].file
  BY Zenon DEF IsMarked
<1>2. UsedIn(tab2) = UsedIn(tab) /\ UsedIn(tab) \subseteq DOMAIN tab
  BY <1>1, Zenon DEF UsedIn
<1>3. Originals(tab2) = Originals(tab)
  BY <1>1, <1>2, Zenon DEF Originals
<1>4. Chain(tab, o) = {o} \cup AliasesOf(tab, o) /\ o \in UsedIn(tab)
  BY <1>0, Zenon DEF TabChains, Originals
<1>5. Chain(tab, o) \subseteq UsedIn(tab)
  BY <1>4, Zenon DEF AliasesOf
<1>6. \A e \in UsedIn(tab) : Resolve(tab2, e) = Resolve(tab, e)
  BY <1>1, <1>2, Zenon DEF Resolve
<1>7. TabTyped(tab2)
  <2>1. PICK n \in 1..FdMax : tab \in [0..n - 1 -> FdEntry]
    BY <1>0, Zenon DEF TabTyped
  <2>2. DOMAIN tab = 0..n - 1
    BY <2>1, Zenon
  <2>3. tab2 = [e \in DOMAIN tab |-> tab2[e]]
    BY Zenon DEF IsMarked
  <2>4. tab2 \in [0..n - 1 -> FdEntry]
    BY <1>1, <2>2, <2>3, Zenon
  <2> QED
    BY <2>4, Zenon DEF TabTyped
<1>8. TabCleared(tab2)
  BY <1>0, <1>1, <1>2, <1>4, <1>5, Zenon DEF TabCleared, IsMarked
<1>9. TabFiles(tab2)
  BY <1>0, <1>1, <1>2, <1>3, ZenonT(30) DEF TabFiles, Originals
<1>10. TabAliases(tab2)
  <2> SUFFICES ASSUME NEW e \in UsedIn(tab), tab[e].orig # FdNil
               PROVE  /\ tab[e].orig \in Originals(tab)
                      /\ tab2[tab[e].orig].file = tab2[e].file /\ tab2[e].file \notin FdDirs
    BY <1>1, <1>2, <1>3, ZenonT(30) DEF TabAliases
  <2>1. /\ tab[e].orig \in Originals(tab) /\ tab[e].orig \in DOMAIN tab
        /\ tab[tab[e].orig].file = tab[e].file /\ tab[e].file \notin FdDirs
    BY <1>0, <1>2, Zenon DEF TabAliases, Originals
  <2> QED
    BY <1>1, <1>2, <2>1, Zenon
<1>11. TabNext(tab2)
  <2>1. \A e \in UsedIn(tab) : tab2[e].next = tab[e].next /\ tab2[e].orig = tab[e].orig
    BY <1>1, <1>2, Zenon
  <2>2. ASSUME NEW e \in UsedIn(tab), tab2[e].next # FdNil
        PROVE  tab2[e].next \in UsedIn(tab) /\ tab2[tab2[e].next].orig = Resolve(tab2, e)
    <3>1. tab[e].next \in UsedIn(tab) /\ tab[tab[e].next].orig = Resolve(tab, e)
      BY <1>0, <2>1, <2>2, Zenon DEF TabNext
    <3> QED
      BY <1>6, <2>1, <3>1, Zenon
  <2>3. ASSUME NEW a \in UsedIn(tab), NEW b \in UsedIn(tab),
               tab2[a].next = tab2[b].next, tab2[a].next # FdNil
        PROVE  a = b
    BY <1>0, <2>1, <2>3, Zenon DEF TabNext
  <2> QED
    BY <1>2, <2>2, <2>3, Zenon DEF TabNext
<1>12. ClosedSet(tab, DOMAIN tab) /\ ClosedSet(tab2, DOMAIN tab2)
  BY <1>0, <1>8, <1>11, TabClosed, Zenon
<1>13. ASSUME NEW p \in Originals(tab) PROVE Chain(tab2, p) = {p} \cup AliasesOf(tab2, p)
  <2>1. Chain(tab, p) = {p} \cup AliasesOf(tab, p) /\ p \in DOMAIN tab
    BY <1>0, Zenon DEF TabChains, Originals, UsedIn
  <2>2. \A e \in Chain(tab, p) : tab2[e].next = tab[e].next
    BY <1>1, <1>2, <2>1, Zenon DEF AliasesOf
  <2>3. Chain(tab2, p) = Chain(tab, p)
    BY <1>1, <1>12, <2>1, <2>2, ChainLocal, Zenon
  <2>4. AliasesOf(tab2, p) = AliasesOf(tab, p)
    BY <1>1, <1>2, Zenon DEF AliasesOf
  <2> QED
    BY <2>1, <2>3, <2>4, Zenon
<1>14. TabChains(tab2)
  BY <1>3, <1>13, Zenon DEF TabChains
<1>15. TabOk(tab2)
  BY <1>7, <1>8, <1>9, <1>10, <1>11, <1>14, Zenon DEF TabOk
<1>16. \A e \in UsedIn(tab) : FileOf(tab2, e) = tab[e].file /\ FileOf(tab, e) = tab[e].file
  BY <1>1, <1>2, <1>15, FileOfIs, ZenonT(30)
<1>17. \A e \in UsedIn(tab) : tab[e].file = tab[o].file <=> e \in Chain(tab, o)
  <2>1. ASSUME NEW e \in UsedIn(tab), tab[e].file = tab[o].file PROVE e \in Chain(tab, o)
    <3>1. Resolve(tab, e) = o
      BY <1>0, <2>1, ResolveIs DEF TabFiles
    <3> QED
      BY <1>4, <3>1, Zenon DEF Resolve, AliasesOf
  <2>2. ASSUME NEW e \in Chain(tab, o) PROVE tab[e].file = tab[o].file
    <3>1. o # FdNil
      BY <1>2, <1>4, TabSlots, Zenon
    <3> QED
      BY <1>0, <1>4, <3>1, Zenon DEF AliasesOf, TabAliases
  <2> QED
    BY <2>1, <2>2, Zenon
<1>18. \A e \in UsedIn(tab) : Resolve(tab, e) \in UsedIn(tab)
                              /\ (e \in Chain(tab, o) => Resolve(tab, e) = o)
  <2>1. \A e \in UsedIn(tab) : Resolve(tab, e) \in UsedIn(tab)
    BY ResolveIs, Zenon DEF Originals
  <2>2. ASSUME NEW e \in Chain(tab, o) PROVE Resolve(tab, e) = o
    <3>1. o # FdNil /\ tab[o].orig = FdNil
      BY <1>2, <1>4, TabSlots, Zenon DEF Originals
    <3> QED
      BY <1>4, <3>1, Zenon DEF AliasesOf, Resolve
  <2> QED
    BY <2>1, <2>2, Zenon
<1>19. ASSUME NEW g, g # tab[o].file, LockMarks(tab, g) PROVE LockMarks(tab2, g)
  <2> SUFFICES ASSUME NEW e \in UsedIn(tab), FileOf(tab2, e) = g
               PROVE  tab2[e].locked /\ tab2[Resolve(tab2, e)].cleanup
    BY <1>2, Zenon DEF LockMarks
  <2>1. tab[e].locked /\ tab[Resolve(tab, e)].cleanup /\ e \notin Chain(tab, o)
    BY <1>16, <1>17, <1>19, Zenon DEF LockMarks
  <2> QED
    BY <1>2, <1>6, <1>18, <2>1, Zenon DEF IsMarked
<1>20. ASSUME on PROVE LockMarks(tab2, tab[o].file)
  <2> SUFFICES ASSUME NEW e \in UsedIn(tab), FileOf(tab2, e) = tab[o].file
               PROVE  tab2[e].locked /\ tab2[Resolve(tab2, e)].cleanup
    BY <1>2, Zenon DEF LockMarks
  <2>1. e \in Chain(tab, o) /\ Resolve(tab2, e) = o
    BY <1>6, <1>16, <1>17, <1>18, Zenon
  <2> QED
    BY <1>2, <1>4, <1>20, <2>1, Zenon DEF IsMarked
<1> QED
  BY <1>1, <1>2, <1>15, <1>19, <1>20, Zenon

===============================================================================
