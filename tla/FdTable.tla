------------------------------- MODULE FdTable --------------------------------
(* The file descriptor table of a process: open, close, dup, dup2 and F_DUPFD *)
(* over entries that are originals or aliases of one.  Aliases of an original *)
(* form a list through fd_NextAlias; closing the original moves its contents  *)
(* to the first alias.                                                        *)
EXTENDS Integers, FiniteSets, FiniteSetsExt

CONSTANTS FdThreads, FdNil,
          FdGranularity,  \* entries added when the table grows without a target
          FdMax,          \* bound on the table's size: growing past it fails
          FdMaxFiles,     \* bound on the files opened, the standard ones included
          FdStd,          \* files 1..FdStd are the standard streams' (FDF_STDIO)
          FdDirs,         \* files that are directories
          FdOrphans,      \* files without a parent directory (NIL:)
          FdUses          \* "dup2own", "dup2orphan", "dupdir": uses that happen too

ASSUME FdAssumption ==
  /\ {FdGranularity, FdMax, FdMaxFiles, FdStd} \subseteq Nat \ {0}
  /\ FdStd < FdMaxFiles /\ FdStd <= FdMax
  /\ FdDirs \cap FdOrphans = {} /\ FdDirs \cup FdOrphans \subseteq FdStd + 1 .. FdMaxFiles
  /\ FdNil \notin 0..FdMaxFiles + FdMax

VARIABLES fdTab,    \* __fd[0 .. __num_fd - 1]
          fdFiles,  \* the files that are open
          fdMade,   \* files opened so far
          fdPick,   \* per thread: the slot open() has chosen, FdNil outside open()
          fdHeld    \* files with record locks of this process on them

fdVars == <<fdTab, fdFiles, fdMade, fdPick, fdHeld>>

Slots == 0..FdMax - 1
Used == {d \in DOMAIN fdTab : fdTab[d].used}

(* memset(fd, 0) *)
Vacant == [used |-> FALSE, orig |-> FdNil, next |-> FdNil, file |-> FdNil,
           locked |-> FALSE, cleanup |-> FALSE]
(* __initialize_fd *)
Initialized(used, file, locked) ==
  [Vacant EXCEPT !.used = used, !.file = file, !.locked = locked]

(* __get_file_descriptor on an entry in use *)
Resolve(tab, d) == IF tab[d].orig = FdNil THEN d ELSE tab[d].orig
FileOf(tab, d) == tab[Resolve(tab, d)].file

(* An entry and what follows it in the alias list.                            *)
Chain(tab, o) ==
  {d \in DOMAIN tab : \A S \in SUBSET DOMAIN tab :
     o \in S /\ (\A e \in S : tab[e].next \in S \cup {FdNil}) => d \in S}

FdInit ==
  /\ fdTab = [d \in 0..FdStd - 1 |-> Initialized(TRUE, d + 1, FALSE)]
  /\ fdFiles = 1..FdStd /\ fdMade = FdStd /\ fdHeld = {}
  /\ fdPick = [t \in FdThreads |-> FdNil]

(* __grow_fd_table(max_fd), 0 standing for one more granule.                  *)
NewSize(tab, max) == IF max = 0 THEN Cardinality(DOMAIN tab) + FdGranularity ELSE max
Grown(tab, max) ==
  [d \in DOMAIN tab \cup 0..NewSize(tab, max) - 1 |-> IF d \in DOMAIN tab THEN tab[d] ELSE Vacant]
CanGrow(tab, max) == NewSize(tab, max) <= FdMax

VacantSlots(tab, from) == {d \in DOMAIN tab : d >= from /\ ~tab[d].used}
(* The table in which a vacant entry exists: this one, or this one grown.     *)
WithVacant(tab, from) == IF VacantSlots(tab, from) = {} THEN Grown(tab, 0) ELSE tab
HasVacant(tab, from) == VacantSlots(tab, from) # {} \/ CanGrow(tab, 0)
FindVacant_last(tab, from) == Max(VacantSlots(tab, from))

(* __find_vacant_fd_entry *)
FindVacant(tab, from) == Min(VacantSlots(tab, from))

(* open() chooses its slot, then calls Lock(), Examine() and Open(), which    *)
(* wait for the file system: other threads run, the stdio lock being held in  *)
(* shared mode only.                                                          *)
OpenPick(t) ==
  /\ fdPick[t] = FdNil /\ fdMade < FdMaxFiles /\ HasVacant(fdTab, 0)
  /\ fdTab' = WithVacant(fdTab, 0)
  /\ fdPick' = [fdPick EXCEPT ![t] = FindVacant(fdTab', 0)]
  /\ UNCHANGED <<fdFiles, fdMade, fdHeld>>

OpenFails(t) ==
  /\ fdPick[t] # FdNil
  /\ fdPick' = [fdPick EXCEPT ![t] = FdNil]
  /\ UNCHANGED <<fdTab, fdFiles, fdMade, fdHeld>>

OpenDone(t) ==
  /\ fdPick[t] # FdNil /\ fdMade < FdMaxFiles
  /\ fdMade' = fdMade + 1
  /\ fdTab' = [fdTab EXCEPT ![fdPick[t]] = Initialized(TRUE, fdMade', FALSE)]
  /\ fdFiles' = fdFiles \cup {fdMade'}
  /\ fdPick' = [fdPick EXCEPT ![t] = FdNil]
  /\ UNCHANGED fdHeld

Migrated_linked(tab, d) == [tab[d] EXCEPT !.orig = FdNil]

(* The first alias after the original d has been copied into it.              *)
Migrated(tab, d) == [tab[d] EXCEPT !.next = tab[tab[d].next].next, !.orig = FdNil]

(* __remove_fd_alias, for an alias and for an original with aliases.          *)
AliasRemoved(tab, d) ==
  IF tab[d].orig # FdNil
    THEN [e \in DOMAIN tab |->
            IF tab[e].next = d /\ e \in Chain(tab, tab[d].orig)
              THEN [tab[e] EXCEPT !.next = tab[d].next] ELSE tab[e]]
    ELSE LET first == tab[d].next
             rest == Chain(tab, first) \ {first}
         IN  [e \in DOMAIN tab |->
                CASE e = first -> Migrated(tab, d)
                  [] e \in rest -> [tab[e] EXCEPT !.orig = first]
                  [] OTHER -> tab[e]]

IsAliased(tab, d) == tab[d].orig # FdNil \/ tab[d].next # FdNil

(* The close action of __fd_hook_entry: the table after it, the files it      *)
(* closes and those whose record locks it releases.  A file whose parent is   *)
(* not found keeps its entry.  A directory is never treated as aliased.  The  *)
(* entry goes when Close() fails too; here the file system does close it.     *)
Stays(tab, d) == tab[d].file \in FdOrphans /\ ~IsAliased(tab, d)
Closed(tab, d) ==
  IF Stays(tab, d) THEN tab
  ELSE [IF IsAliased(tab, d) /\ tab[d].file \notin FdDirs THEN AliasRemoved(tab, d) ELSE tab
        EXCEPT ![d] = Vacant]
ClosedFiles(tab, d) ==
  IF \/ tab[d].file \in FdDirs
     \/ ~IsAliased(tab, d) /\ ~Stays(tab, d) /\ tab[d].file > FdStd
  THEN {tab[d].file} ELSE {}
CleanedUp(tab, d) ==
  IF ~IsAliased(tab, d) /\ tab[d].cleanup /\ tab[d].locked THEN {tab[d].file} ELSE {}

FdClose(d) ==
  /\ d \in Used
  /\ fdTab' = Closed(fdTab, d)
  /\ fdFiles' = fdFiles \ ClosedFiles(fdTab, d)
  /\ fdHeld' = fdHeld \ CleanedUp(fdTab, d)
  /\ UNCHANGED <<fdMade, fdPick>>

(* __duplicate_fd: o and dup may be the same entry by now.                    *)
Duplicated(tab, dup, o) ==
  LET first == Initialized(tab[o].used, tab[o].file, tab[o].locked)
      t1 == [tab EXCEPT ![dup] = first]
      orig == IF t1[o].orig = FdNil THEN o ELSE t1[o].orig
      t2 == [t1 EXCEPT ![dup].orig = orig, ![dup].next = t1[orig].next]
  IN  [t2 EXCEPT ![orig].next = dup]

MayDup(d) == d \in Used /\ (FileOf(fdTab, d) \notin FdDirs \/ "dupdir" \in FdUses)

Dup(d) ==
  /\ MayDup(d) /\ HasVacant(fdTab, 0)
  /\ LET tab == WithVacant(fdTab, 0)
     IN  fdTab' = Duplicated(tab, FindVacant(tab, 0), Resolve(fdTab, d))
  /\ UNCHANGED <<fdFiles, fdMade, fdPick, fdHeld>>

(* fd1 is resolved before descriptor d2 is closed.                            *)
Dup2Table(d1, d2) ==
  LET tab == Grown(fdTab, d2 + 1)
  IN  Duplicated(IF tab[d2].used THEN Closed(tab, d2) ELSE tab, d2, Resolve(fdTab, d1))
Dup2(d1, d2) ==
  /\ MayDup(d1) /\ d1 # d2 /\ CanGrow(fdTab, d2 + 1)
  /\ Resolve(fdTab, d1) # d2 \/ "dup2own" \in FdUses
  /\ (d2 \in Used /\ Stays(fdTab, d2)) => "dup2orphan" \in FdUses
  /\ fdTab' = Dup2Table(d1, d2)
  /\ fdFiles' = fdFiles \ (IF d2 \in Used THEN ClosedFiles(fdTab, d2) ELSE {})
  /\ fdHeld' = fdHeld \ (IF d2 \in Used THEN CleanedUp(fdTab, d2) ELSE {})
  /\ UNCHANGED <<fdMade, fdPick>>

(* fcntl(F_DUPFD) *)
DupFd(d, base) ==
  LET grown == Grown(fdTab, base + 1)
      tab == WithVacant(grown, base)
  IN  /\ MayDup(d) /\ CanGrow(fdTab, base + 1) /\ HasVacant(grown, base)
      /\ fdTab' = Duplicated(tab, FindVacant(tab, base), Resolve(fdTab, d))
      /\ UNCHANGED <<fdFiles, fdMade, fdPick, fdHeld>>

(* What record locking does to descriptors: a lock registers the cleanup with *)
(* the original and marks it and its aliases; giving up the last lock on the  *)
(* file unmarks them.                                                         *)
Marked(d, on) ==
  LET o == Resolve(fdTab, d)
      marked == Chain(fdTab, o)
  IN  [e \in DOMAIN fdTab |->
         [fdTab[e] EXCEPT !.locked = IF e \in marked THEN on ELSE @,
                          !.cleanup = @ \/ e = o]]
FdSetLk(d) ==
  /\ d \in Used
  /\ LET f == FileOf(fdTab, d)
     IN  f > FdStd /\ f \notin FdDirs \cup FdOrphans /\ fdHeld' = fdHeld \cup {f}
  /\ fdTab' = Marked(d, TRUE)
  /\ UNCHANGED <<fdFiles, fdMade, fdPick>>

FdUnLk(d) ==
  /\ d \in Used /\ FileOf(fdTab, d) \in fdHeld /\ fdTab[Resolve(fdTab, d)].locked
  /\ fdHeld' = fdHeld \ {FileOf(fdTab, d)}
  /\ fdTab' = Marked(d, FALSE)
  /\ UNCHANGED <<fdFiles, fdMade, fdPick>>

(* A call of a thread that is not inside open(). *)
Call ==
  \/ \E d \in Slots : FdClose(d) \/ Dup(d) \/ FdSetLk(d) \/ FdUnLk(d)
  \/ \E d1, d2 \in Slots : Dup2(d1, d2) \/ DupFd(d1, d2)

FdNext ==
  \/ \E t \in FdThreads : OpenPick(t) \/ OpenFails(t) \/ OpenDone(t)
  \/ (\E t \in FdThreads : fdPick[t] = FdNil) /\ Call

FdSpec == FdInit /\ [][FdNext]_fdVars

-------------------------------------------------------------------------------
(* duplicate_fd.c, remove_fd_alias.c: the alias list that starts at an        *)
(* original holds exactly the descriptors in use that point back at it, and   *)
(* what they point at is an original in use (the assertions of                *)
(* __remove_fd_alias), however opens, duplications and closes interleave.     *)
FdChainsSound ==
  /\ \A d \in Used : fdTab[d].orig # FdNil =>
       fdTab[d].orig \in Used \ {d} /\ fdTab[fdTab[d].orig].orig = FdNil
  /\ \A o \in Used : fdTab[o].orig = FdNil =>
       Chain(fdTab, o) = {o} \cup {d \in Used : fdTab[d].orig = o}

(* Record locks and descriptors: a file with locks of this process is open,   *)
(* every descriptor that names it is marked, and its original carries the     *)
(* cleanup, so that closing the last of them releases the locks.              *)
FdLocksCleanedUp ==
  \A f \in fdHeld :
    /\ f \in fdFiles
    /\ \E d \in Used : FileOf(fdTab, d) = f
    /\ \A d \in Used : FileOf(fdTab, d) = f =>
         fdTab[d].locked /\ fdTab[Resolve(fdTab, d)].cleanup

(* The table keeps the promise of AbstractFds: every descriptor goes on       *)
(* naming its file through the closes and duplications of the others, new     *)
(* descriptors are the lowest vacant ones, and a file is closed with the last *)
(* descriptor that names it, neither before nor never.                        *)
RefersTo == [d \in Slots |-> IF d \in Used THEN FileOf(fdTab, d) ELSE FdNil]
FdAbs == INSTANCE AbstractFds WITH
  AbsSlots <- Slots, AbsFiles <- 1..FdMaxFiles, AbsNil <- FdNil, AbsKept <- 1..FdStd,
  absRef <- RefersTo, absOpen <- fdFiles
FdImplements == FdAbs!AbsSpec

(* duplicate_fd.c: "Initialize the duplicate to match the original": after a  *)
(* dup2 that succeeds both descriptors are in use and name the same file.     *)
FdDupMatches ==
  [][\A d1, d2 \in Slots : Dup2(d1, d2) =>
       {d1, d2} \subseteq Used' /\ FileOf(fdTab, d2)' = FileOf(fdTab, d1)']_fdVars

(* open.c: the slot an open has chosen is still vacant, and no other thread's *)
(* choice, while it waits for the file system.                                *)
FdPickExclusive ==
  \A t \in FdThreads : fdPick[t] # FdNil =>
    /\ fdPick[t] \notin Used
    /\ \A u \in FdThreads \ {t} : fdPick[u] # fdPick[t]

(* Aliases and lock marks of the descriptor table are consistent.             *)
FdSound == FdChainsSound /\ FdLocksCleanedUp
===============================================================================
