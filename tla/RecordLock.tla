------------------------------ MODULE RecordLock ------------------------------
(* Advisory record locks on one file, as fcntl(F_SETLK, F_SETLKW) keeps them  *)
(* in the system-wide list of record_locking.c; flock() and lockf() are thin  *)
(* layers over it.  Every access to the list holds its semaphore.  The order  *)
(* of the list does not matter, nor does a region that is in it twice: every  *)
(* search that changes the list visits all of it.                             *)
EXTENDS Integers, FiniteSets

CONSTANTS RlProcs, RlNone,
          RlFds,         \* the descriptors each process may have on the file
          RlReqs,        \* the requests made: [fd, start, len, shared]
          LONG_MAX,      \* stands for 2^31 - 1
          RlMaxRegions,  \* bound on the regions locked at once
          RlExits        \* whether a process may exit while others need its lock node

ASSUME RlAssumption == /\ RlReqs \subseteq [fd : RlFds, start : Nat, len : Int, shared : BOOLEAN]
                       /\ LONG_MAX \in Nat /\ RlMaxRegions \in Nat /\ RlExits \in BOOLEAN
                       /\ RlNone \notin RlProcs

VARIABLES rlNode,     \* the process whose memory the file's lock node is in, or RlNone
          rlRegions,  \* what is in fln_LockedRegionList
          rlLocked,   \* descriptors <<p, f>> with FDF_IS_LOCKED
          rlOpen,     \* open descriptors <<p, f>>
          rlWait,     \* per process: the F_SETLKW it polls for, or RlNone
          rlGone      \* processes that have exited

rlVars == <<rlNode, rlRegions, rlLocked, rlOpen, rlWait, rlGone>>

(* The bytes a request stands for; a length of 0 means up to LONG_MAX bytes,  *)
(* a negative one the bytes before the start.                                 *)
Extent(r) ==
  LET len == IF r.len = 0 THEN LONG_MAX ELSE r.len
  IN  IF len < 0 THEN [start |-> r.start + len, stop |-> r.start - 1]
                 ELSE [start |-> r.start, stop |-> r.start - 1 + len]
ValidReq(r) == Extent(r).start >= 0

RlInit ==
  /\ rlNode = RlNone /\ rlRegions = {} /\ rlLocked = {} /\ rlGone = {}
  /\ rlOpen = RlProcs \X RlFds
  /\ rlWait = [p \in RlProcs |-> RlNone]

Overlap(a, b) == a.start <= b.stop /\ b.start <= a.stop
Collides_own(p, r) ==
  \E lrn \in rlRegions :
    Overlap(lrn, Extent(r)) /\ (~r.shared \/ ~lrn.shared)
Collides_inner(p, r) ==
  \E lrn \in rlRegions :
    /\ lrn.start < Extent(r).stop /\ Extent(r).start < lrn.stop
    /\ ~r.shared \/ ~lrn.shared
    /\ lrn.owner # p

(* find_colliding_region *)
Collides(p, r) ==
  \E lrn \in rlRegions :
    /\ Overlap(lrn, Extent(r))
    /\ ~r.shared \/ ~lrn.shared
    /\ lrn.owner # p

Region(p, r) ==
  [start |-> Extent(r).start, stop |-> Extent(r).stop, len |-> r.len,
   owner |-> p, shared |-> r.shared]

(* The region is added to the file's node, or to a new one of this process;   *)
(* the descriptor (with its aliases) is marked.                               *)
RegionAdded(p, r) ==
  /\ Cardinality(rlRegions) < RlMaxRegions
  /\ rlRegions' = rlRegions \cup {Region(p, r)}
  /\ rlNode' = IF rlNode = RlNone THEN p ELSE rlNode
  /\ rlLocked' = rlLocked \cup {<<p, r.fd>>}

CanCall(p, f) == <<p, f>> \in rlOpen /\ rlWait[p] = RlNone

(* F_SETLK; a colliding one fails with EACCES and changes nothing.            *)
SetLk(p, r) ==
  /\ CanCall(p, r.fd) /\ ValidReq(r) /\ ~Collides(p, r)
  /\ RegionAdded(p, r)
  /\ UNCHANGED <<rlOpen, rlWait, rlGone>>

(* F_SETLKW polls, with a delay between attempts, until nothing collides or a *)
(* break signal is seen after a failed attempt.                               *)
SetLkWait(p, r) ==
  /\ CanCall(p, r.fd) /\ ValidReq(r) /\ Collides(p, r)
  /\ rlWait' = [rlWait EXCEPT ![p] = r]
  /\ UNCHANGED <<rlNode, rlRegions, rlLocked, rlOpen, rlGone>>
Poll(p) ==
  /\ rlWait[p] # RlNone /\ ~Collides(p, rlWait[p])
  /\ RegionAdded(p, rlWait[p])
  /\ rlWait' = [rlWait EXCEPT ![p] = RlNone]
  /\ UNCHANGED <<rlOpen, rlGone>>
PollBroken(p) ==
  /\ rlWait[p] # RlNone /\ Collides(p, rlWait[p])
  /\ rlWait' = [rlWait EXCEPT ![p] = RlNone]
  /\ UNCHANGED <<rlNode, rlRegions, rlLocked, rlOpen, rlGone>>

(* The regions that stay, and what becomes of the node and of the marks.  The *)
(* node is freed through the heap of the caller, whoever made it: what that   *)
(* does to the two heaps is not modelled.                                     *)
KeptNode(rest) == IF rest = {} THEN RlNone ELSE rlNode
(* remove_locked_region_node: only requests of the same start and length      *)
(* match, and only those of the calling process.                              *)
Others(p, start, len) ==
  {lrn \in rlRegions : ~(lrn.owner = p /\ lrn.start = start /\ lrn.len = len)}
UnmarkedAfter(p, f, rest) == IF rest = {} THEN {<<p, f>>} ELSE {}

(* F_UNLCK, through a descriptor that is marked; otherwise nothing happens.   *)
Unlock(p, r) ==
  LET rest == Others(p, Extent(r).start, r.len)
  IN  /\ CanCall(p, r.fd) /\ ValidReq(r) /\ <<p, r.fd>> \in rlLocked
      /\ rlNode # RlNone
      /\ rlRegions' = rest /\ rlNode' = KeptNode(rest)
      /\ rlLocked' = rlLocked \ UnmarkedAfter(p, r.fd, rest)
      /\ UNCHANGED <<rlOpen, rlWait, rlGone>>

(* Closing the last descriptor of an open file runs cleanup_locked_records,   *)
(* which removes every region of the process if the descriptor is marked.     *)
Cleanup(p, fds) ==
  LET rest == {lrn \in rlRegions : ~(lrn.owner = p /\ fds \cap rlLocked # {})}
  IN  /\ rlRegions' = rest /\ rlNode' = KeptNode(rest)
      /\ rlLocked' = rlLocked \ fds /\ rlOpen' = rlOpen \ fds
CloseFd(p, f) ==
  /\ CanCall(p, f)
  /\ Cleanup(p, {<<p, f>>})
  /\ UNCHANGED <<rlWait, rlGone>>

(* open() of the same file again *)
Reopen(p, f) ==
  /\ p \notin rlGone /\ rlWait[p] = RlNone /\ <<p, f>> \notin rlOpen
  /\ rlOpen' = rlOpen \cup {<<p, f>>}
  /\ UNCHANGED <<rlNode, rlRegions, rlLocked, rlWait, rlGone>>

(* stdio_exit closes every descriptor; the process's memory goes after it.    *)
RlExit(p) ==
  /\ p \notin rlGone /\ rlWait[p] = RlNone
  /\ RlExits \/ rlNode # p \/ \A lrn \in rlRegions : lrn.owner = p
  /\ Cleanup(p, {p} \X RlFds)
  /\ rlGone' = rlGone \cup {p}
  /\ UNCHANGED rlWait

RlNext ==
  \E p \in RlProcs :
    \/ \E r \in RlReqs : SetLk(p, r) \/ SetLkWait(p, r) \/ Unlock(p, r)
    \/ Poll(p) \/ PollBroken(p) \/ RlExit(p)
    \/ \E f \in RlFds : CloseFd(p, f) \/ Reopen(p, f)

(* The poll loop keeps running.                                               *)
RlFairness == \A p \in RlProcs : WF_rlVars(Poll(p))
RlSpec == RlInit /\ [][RlNext]_rlVars /\ RlFairness

-------------------------------------------------------------------------------
(* find_colliding_region: no byte is locked by two processes unless both      *)
(* locks are shared ones, over every way of giving the same range.            *)
RlExclusive ==
  \A a, b \in rlRegions :
    a.owner # b.owner /\ Overlap(a, b) => a.shared /\ b.shared

(* remove_locked_region_node, cleanup_locked_records: the file has a node in  *)
(* the system-wide list exactly while a region of it is locked, so that node  *)
(* is neither leaked nor removed under the regions of another process.        *)
RlNodeExact == (rlNode = RlNone) <=> (rlRegions = {})

(* FDF_IS_LOCKED: the owner of every region has an open descriptor marked as  *)
(* locked, so that closing what it has open on the file frees the region.     *)
RlReclaimable ==
  \A lrn \in rlRegions :
    \E f \in RlFds : <<lrn.owner, f>> \in rlOpen \cap rlLocked

(* F_UNLCK, close and exit of one process leave the regions of the others     *)
(* alone.                                                                     *)
OfProc(p) == {lrn \in rlRegions : lrn.owner = p}
RlOwnRegionsOnly ==
  [][\A p \in RlProcs : ~(OfProc(p) \subseteq OfProc(p)') =>
       \A q \in RlProcs \ {p} : OfProc(q)' = OfProc(q)]_rlVars

Obstructed(p) ==
  \E lrn \in rlRegions :
    lrn.owner # p /\ Overlap(lrn, Extent(rlWait[p]))
(* F_SETLKW: a process polls for ever only if regions of other processes keep *)
(* getting in its way; its own never do.                                      *)
RlPollEnds ==
  \A p \in RlProcs :
    []<>(rlWait[p] = RlNone \/ Obstructed(p) \/ Cardinality(rlRegions) = RlMaxRegions)

(* The node in the system-wide list is in the memory of a running process.    *)
RlNodesAlive == rlNode \notin rlGone

(* Regions exclude each other, can all be released by their owners and only   *)
(* by them, and the file's node lives as long as they do.                     *)
RlSound == [](RlExclusive /\ RlNodeExact /\ RlReclaimable) /\ RlOwnRegionsOnly
===============================================================================
