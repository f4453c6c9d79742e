------------------------------ MODULE WmemBlock ------------------------------
(* The block allocator behind malloc, realloc and free                        *)
(* (wmem/wmem_allocator_block.c): blocks from the operating system are cut    *)
(* into chunks, free chunks are on the master stack or the circular recycler. *)
(* Every call runs under __memory_lock, so each is one step.  Addresses and   *)
(* lengths count words of 4 bytes, the size of a pointer and of a size_t.     *)
EXTENDS Integers, Sequences, FiniteSets, SequencesExt, FiniteSetsExt, TLC

CONSTANTS WbSizes,       \* sizes that malloc and realloc are asked for
          WbAligns,      \* alignments that malloc and memalign ask for
          WbBlockSize,   \* WMEM_BLOCK_SIZE
          WbMaxBlocks,   \* bound on the blocks held at a time
          WbMaxLive,     \* bound on the allocations held at a time
          WbGrowJumbo    \* whether a client makes a jumbo allocation larger

WbAlign == 4       \* WMEM_ALIGN_AMOUNT
ChunkHdr == 4      \* WMEM_CHUNK_HEADER_SIZE
BlockHdr == 4      \* WMEM_BLOCK_HEADER_SIZE
FreeLen == 2       \* sizeof(wmem_block_free_t)
PreLen == 1        \* sizeof(wmem_block_pre_t)
Null == 0
WordBits == 30     \* a 32-bit size_t in words

ASSUME WbAssumption ==
  /\ WbSizes \subseteq Nat \ {0} /\ WbAligns \subseteq {4, 8, 16}
  /\ WbBlockSize \in Nat /\ WbBlockSize % WbAlign = 0 /\ WbGrowJumbo \in BOOLEAN

VARIABLES wb,      \* the allocator and the memory it manages
          wbLive,  \* the client's pointers: their wmem_block_pre_t, size and alignment
          wbOpen   \* not yet destroyed

wbVars == <<wb, wbLive, wbOpen>>

(* hdr: the headers of all chunks; free: the pointers kept in free chunks;    *)
(* blocks: block_list; os: the length of each block got from AllocVecTags.    *)
WbInit ==
  /\ wb = [hdr |-> <<>>, free |-> <<>>, master |-> Null, recycler |-> Null,
           blocks |-> <<>>, os |-> <<>>]
  /\ wbLive = <<>> /\ wbOpen = TRUE

RoundUp(n, a) == ((n + a - 1) \div a) * a   \* WMEM_ALIGN_SIZE, align_address

(* AllocVecTags places a block on a 16-byte boundary, every other one here on *)
(* a 32-byte boundary too.                                                    *)
Base(b) == 128 * b + 4 * (b % 2)
FirstChunk(b) == Base(b) + BlockHdr
BlockOf(c) == c \div 128
NewBlockId(s) == Min((1..Len(s.blocks) + 1) \ Range(s.blocks))

HoldsFree(s, c) == s.hdr[c].len - ChunkHdr >= FreeLen
NextChunk(s, c) == IF s.hdr[c].last THEN Null ELSE c + s.hdr[c].len
PrevChunk(s, c) == IF s.hdr[c].prev = 0 THEN Null ELSE c - s.hdr[c].prev
IsFree(s, c) == c # Null /\ ~s.hdr[c].used
Without(f, S) == [x \in DOMAIN f \ S |-> f[x]]

(* wmem_block_cycle_recycler                                                  *)
CycleRecycler(s) ==
  LET h == s.recycler  n == s.free[h].next  p == s.free[h].prev
      held == [s.free EXCEPT ![n].prev = p, ![p].next = n, ![h].prev = n]
      m == held[n].next
  IN  IF h = Null THEN s
      ELSE IF s.hdr[n].len < s.hdr[h].len
      THEN [s EXCEPT !.free = [held EXCEPT ![h].next = m, ![m].prev = h, ![n].next = h]]
      ELSE [s EXCEPT !.recycler = n]

(* wmem_block_add_to_recycler                                                 *)
AddToRecycler(s, c) ==
  LET h == s.recycler
  IN  IF ~HoldsFree(s, c) THEN s
      ELSE IF h = Null
      THEN [s EXCEPT !.free = (c :> [prev |-> c, next |-> c]) @@ @, !.recycler = c]
      ELSE LET p == s.free[h].prev
               f == (c :> [prev |-> p, next |-> h]) @@ s.free
           IN  [s EXCEPT !.free = [f EXCEPT ![h].prev = c, ![p].next = c],
                         !.recycler = IF s.hdr[c].len > s.hdr[h].len THEN c ELSE h]

(* wmem_block_remove_from_recycler                                            *)
RemoveFromRecycler_headless(s, c) ==
  LET p == s.free[c].prev  n == s.free[c].next
  IN  IF p = c /\ n = c THEN [s EXCEPT !.recycler = Null]
      ELSE [s EXCEPT !.free[p].next = n, !.free[n].prev = p]
RemoveFromRecycler(s, c) ==
  LET p == s.free[c].prev  n == s.free[c].next
  IN  IF p = c /\ n = c THEN [s EXCEPT !.recycler = Null]
      ELSE [s EXCEPT !.free[p].next = n, !.free[n].prev = p,
                     !.recycler = IF @ = c THEN n ELSE @]

(* wmem_block_push_master, wmem_block_pop_master                              *)
PushMaster(s, c) ==
  LET f == (c :> [prev |-> Null, next |-> s.master]) @@ s.free
  IN  [s EXCEPT !.master = c,
                !.free = IF s.master = Null THEN f ELSE [f EXCEPT ![s.master].prev = c]]
PopMaster(s) ==
  LET n == s.free[s.master].next
  IN  [s EXCEPT !.master = n,
                !.free = IF n = Null THEN @ ELSE [@ EXCEPT ![n].prev = Null]]

(* The length of c has changed: its successor's back-pointer follows.         *)
Relink(s, c) == IF s.hdr[c].last THEN s
                ELSE [s EXCEPT !.hdr[NextChunk(s, c)].prev = s.hdr[c].len]

(* The chunks a and b, neighbours in this order, as one.                      *)
Joined(s, a, b) ==
  [s EXCEPT !.hdr = Without([@ EXCEPT ![a].len = @ + s.hdr[b].len,
                                      ![a].last = s.hdr[b].last], {b})]

(* wmem_block_merge_free                                                      *)
MergeFree(s0, c0) ==
  LET right == NextChunk(s0, c0)
      rightFree == IsFree(s0, right) /\ HoldsFree(s0, right)
      s1 == IF IsFree(s0, right) THEN Joined(s0, c0, right) ELSE s0
      left == PrevChunk(s1, c0)
      leftFree == IsFree(s1, left) /\ HoldsFree(s1, left)
      c == IF IsFree(s1, left) THEN left ELSE c0
      s == Relink(IF IsFree(s1, left) THEN Joined(s1, left, c0) ELSE s1, c)
      n == s.free[right].next
      t == IF leftFree THEN RemoveFromRecycler(s, left) ELSE s
      f == (c :> [prev |-> Null, next |-> n]) @@ t.free
      u == IF rightFree THEN RemoveFromRecycler(s, right) ELSE s
  IN  IF rightFree /\ right = s.master
      THEN [t EXCEPT !.master = c,
                     !.free = IF n = Null THEN f ELSE [f EXCEPT ![n].prev = c]]
      ELSE IF leftFree THEN u ELSE AddToRecycler(u, c)

(* The chunk c cut after len words; the rest is an unused chunk.              *)
Cut(s, c, len) ==
  LET rest == [prev |-> len, last |-> s.hdr[c].last, used |-> FALSE, jumbo |-> FALSE,
               len |-> s.hdr[c].len - len]
      h == [s.hdr EXCEPT ![c].len = len, ![c].last = FALSE]
  IN  Relink([s EXCEPT !.hdr = (c + len :> rest) @@ h], c + len)

Needed_unpadded(size, align) == RoundUp(ChunkHdr + PreLen + size, WbAlign)
Needed(size, align) == RoundUp(ChunkHdr + align + PreLen + size, WbAlign)
Splits(s, c, len) == s.hdr[c].len >= len + ChunkHdr + FreeLen

(* wmem_block_split_free_chunk                                                *)
SplitFree(s, c, size, align) ==
  LET len == Needed(size, align)
      e == c + len
      old == s.free[c]
      moved == (e :> old) @@ s.free
      alone == (e :> [prev |-> e, next |-> e]) @@ s.free
      t == Cut(s, c, len)
  IN  IF ~Splits(s, c, len)
      THEN IF c = s.master THEN PopMaster(s)
           ELSE IF HoldsFree(s, c) THEN RemoveFromRecycler(s, c) ELSE s
      ELSE IF c = s.master
      THEN [t EXCEPT !.master = e,
                     !.free = IF old.next = Null THEN moved
                              ELSE [moved EXCEPT ![old.next].prev = e]]
      ELSE [t EXCEPT !.recycler = IF @ = c THEN e ELSE @,
                     !.free = IF old.prev = c THEN alone
                              ELSE [moved EXCEPT ![old.prev].next = e, ![old.next].prev = e]]

(* wmem_block_split_used_chunk                                                *)
SplitUsed(s, c, data, size) ==
  LET len == RoundUp(size + (data - c), WbAlign)
  IN  IF len + 2 > s.hdr[c].len THEN s ELSE MergeFree(Cut(s, c, len), c + len)

(* wmem_block_init_block on a block that is in the list                       *)
InitBlock(s, b) ==
  LET c == FirstChunk(b)
      whole == [prev |-> 0, last |-> TRUE, used |-> FALSE, jumbo |-> FALSE,
                len |-> WbBlockSize - BlockHdr]
      others == {d \in DOMAIN s.hdr : BlockOf(d) = b}
  IN  PushMaster([s EXCEPT !.hdr = (c :> whole) @@ Without(@, others)], c)

NewBlock(s) ==
  LET b == NewBlockId(s)
  IN  InitBlock([s EXCEPT !.blocks = Cons(b, @), !.os = (b :> WbBlockSize) @@ @], b)

(* wmem_free(NULL, block): the memory is the operating system's again.        *)
FreeVec(s, b) ==
  LET gone == {d \in DOMAIN s.hdr : BlockOf(d) = b}
  IN  [s EXCEPT !.hdr = Without(@, gone), !.free = Without(@, gone), !.os = Without(@, {b})]

DataOf(c, align) == RoundUp(c + ChunkHdr + PreLen, align)

(* wmem_block_alloc_jumbo, wmem_block_free_jumbo                              *)
AllocJumbo(s, size, align) ==
  LET b == NewBlockId(s)
      c == FirstChunk(b)
      only == [prev |-> 0, last |-> TRUE, used |-> TRUE, jumbo |-> TRUE, len |-> 0]
      len == size + align + PreLen + BlockHdr + ChunkHdr
  IN  [s |-> [s EXCEPT !.blocks = Cons(b, @), !.os = (b :> len) @@ @, !.hdr = (c :> only) @@ @],
       chunk |-> c, ptr |-> DataOf(c, align)]
FreeJumbo(s, c) ==
  FreeVec([s EXCEPT !.blocks = SelectSeq(@, LAMBDA b : b # BlockOf(c))], BlockOf(c))

(* wmem_block_alloc                                                           *)
BlockAlloc(s, size, align) ==
  LET needed == Needed(size, align)
      s1 == IF s.master # Null /\ s.hdr[s.master].len < needed
            THEN AddToRecycler(PopMaster(s), s.master) ELSE s
      s2 == IF s1.master = Null THEN NewBlock(s1) ELSE s1
      pick == IF s.recycler # Null /\ s.hdr[s.recycler].len >= needed
              THEN [s |-> s, c |-> s.recycler] ELSE [s |-> s2, c |-> s2.master]
      cut == CycleRecycler(SplitFree(pick.s, pick.c, size, align))
  IN  IF needed > WbBlockSize - BlockHdr THEN AllocJumbo(s, size, align)
      ELSE [s |-> [cut EXCEPT !.hdr[pick.c].used = TRUE],
            chunk |-> pick.c, ptr |-> DataOf(pick.c, align)]

(* wmem_block_free                                                            *)
BlockFree(s, c) ==
  IF s.hdr[c].jumbo THEN FreeJumbo(s, c)
  ELSE CycleRecycler(MergeFree([s EXCEPT !.hdr[c].used = FALSE], c))

(* wmem_block_realloc_jumbo: len is 0 in a jumbo chunk, so the old size wraps *)
(* around to a huge number and the allocation always stays where it is.       *)
ReallocJumbo(s, c, p, size) ==
  LET oldSize == (s.hdr[c].len - (p - c)) % 2^WordBits
      new == AllocJumbo(s, size, WbAlign)
  IN  IF oldSize < size THEN [new EXCEPT !.s = FreeJumbo(@, c)]
      ELSE [s |-> s, chunk |-> c, ptr |-> p]

(* wmem_block_realloc, the branch that grows into the free chunk on the right *)
GrowInto(s, c, d, sup) ==
  LET gap == sup - (c + s.hdr[c].len)
      size == IF gap < ChunkHdr THEN 0 ELSE gap - ChunkHdr
      t == Joined(SplitFree(s, d, size, 0), c, d)
  IN  CycleRecycler(Relink(t, c))

BlockRealloc(s, c, p, size) ==
  LET sup == RoundUp(p + size, WbAlign)
      end == c + s.hdr[c].len
      d == NextChunk(s, c)
      new == BlockAlloc(s, size, WbAlign)
      same(t) == [s |-> t, chunk |-> c, ptr |-> p]
  IN  IF s.hdr[c].jumbo THEN ReallocJumbo(s, c, p, size)
      ELSE IF sup > end
      THEN IF IsFree(s, d) /\ sup < end + s.hdr[d].len THEN same(GrowInto(s, c, d, sup))
           ELSE [new EXCEPT !.s = BlockFree(@, c)]
      ELSE IF sup < end THEN same(CycleRecycler(SplitUsed(s, c, p, size)))
      ELSE same(s)

(* wmem_block_free_all: jumbo blocks go, the others become one chunk each.    *)
FreeAll(s0) ==
  LET s == [s0 EXCEPT !.master = Null, !.recycler = Null]
      Reset(t, b) == IF t.hdr[FirstChunk(b)].jumbo THEN FreeJumbo(t, FirstChunk(b))
                     ELSE InitBlock(t, b)
  IN  FoldLeft(Reset, s, s0.blocks)

(* wmem_block_gc: blocks that consist of one unused chunk leave their list    *)
(* and go back to the operating system.                                       *)
Unlinked(s, c) ==
  LET n == s.free[c].next  p == s.free[c].prev
      f == IF n = Null THEN s.free ELSE [s.free EXCEPT ![n].prev = p]
  IN  [s EXCEPT !.free = IF p = Null THEN f ELSE [f EXCEPT ![p].next = n],
                !.recycler = IF @ # c THEN @ ELSE IF n = c THEN Null ELSE n,
                !.master = IF s.recycler # c /\ @ = c THEN n ELSE @]
Gc(s0) ==
  LET Visit(t, b) ==
        LET h == t.hdr[FirstChunk(b)]
        IN  IF ~h.jumbo /\ ~h.used /\ h.last THEN FreeVec(Unlinked(t, FirstChunk(b)), b)
            ELSE [t EXCEPT !.blocks = Cons(b, @)]
  IN  FoldLeft(Visit, [s0 EXCEPT !.blocks = <<>>], s0.blocks)
-----------------------------------------------------------------------------
(* What a call leaves: the free header of a chunk in use is its client's.     *)
Commit(s) ==
  /\ Len(s.blocks) <= WbMaxBlocks
  /\ wb' = [s EXCEPT !.free = Without(@, {c \in DOMAIN @ :
                          c \notin DOMAIN s.hdr \/ ~IsFree(s, c) \/ ~HoldsFree(s, c)})]

Handle(r, size, align) ==
  r.ptr :> [chunk |-> r.chunk, size |-> size, align |-> align]

(* malloc and memalign                                                        *)
malloc(size, align) ==
  LET r == BlockAlloc(wb, size, align)
  IN  /\ wbOpen /\ Cardinality(DOMAIN wbLive) < WbMaxLive
      /\ Commit(r.s)
      /\ wbLive' = Handle(r, size, align) @@ wbLive
      /\ UNCHANGED wbOpen

free(p) ==
  /\ wbOpen
  /\ Commit(BlockFree(wb, wbLive[p].chunk))
  /\ wbLive' = Without(wbLive, {p})
  /\ UNCHANGED wbOpen

(* realloc: always with an alignment of 16 bytes                              *)
realloc(p, size) ==
  LET c == wbLive[p].chunk
      r == BlockRealloc(wb, c, p, size)
      align == IF r.ptr = p THEN wbLive[p].align ELSE WbAlign
  IN  /\ wbOpen
      /\ WbGrowJumbo \/ ~wb.hdr[c].jumbo \/ size <= wbLive[p].size
      /\ Commit(r.s)
      /\ wbLive' = Handle(r, size, align) @@ Without(wbLive, {p})
      /\ UNCHANGED wbOpen

wmem_free_all ==
  wbOpen /\ Commit(FreeAll(wb)) /\ wbLive' = <<>> /\ UNCHANGED wbOpen

wmem_gc == wbOpen /\ Commit(Gc(wb)) /\ UNCHANGED <<wbLive, wbOpen>>

(* stdlib_memory_exit: wmem_destroy_allocator calls free_all, then gc.        *)
wmem_destroy_allocator ==
  /\ wbOpen /\ wbOpen' = FALSE
  /\ Commit(Gc(FreeAll(wb)))
  /\ wbLive' = <<>>

WbNext ==
  \/ \E size \in WbSizes, align \in WbAligns : malloc(size, align)
  \/ \E p \in DOMAIN wbLive : free(p)
  \/ \E p \in DOMAIN wbLive, size \in WbSizes : realloc(p, size)
  \/ wmem_free_all \/ wmem_gc \/ wmem_destroy_allocator

WbSpec == WbInit /\ [][WbNext]_wbVars
-----------------------------------------------------------------------------
Chunks == {c \in DOMAIN wb.hdr : ~wb.hdr[c].jumbo}
Walk(head) ==
  LET n == Cardinality(DOMAIN wb.free)
      at[i \in 0..n] == IF i = 0 THEN head
                        ELSE IF at[i - 1] \in DOMAIN wb.free THEN wb.free[at[i - 1]].next ELSE Null
  IN  {at[i] : i \in 0..n} \ {Null}

(* The chunks of a block follow each other without a gap from its header to   *)
(* its end, lengths and back-lengths agree, and no two neighbours are free.   *)
WbTiled ==
  \A c \in Chunks : LET h == wb.hdr[c]  b == BlockOf(c) IN
    /\ IF h.last THEN c + h.len = Base(b) + WbBlockSize
       ELSE /\ c + h.len \in Chunks /\ BlockOf(c + h.len) = b
            /\ wb.hdr[c + h.len].prev = h.len
            /\ h.used \/ wb.hdr[c + h.len].used
    /\ h.len >= ChunkHdr
    /\ IF h.prev = 0 THEN c = FirstChunk(b)
       ELSE c - h.prev \in Chunks /\ wb.hdr[c - h.prev].len = h.prev

(* The master stack and the recycler are well-linked and between them hold    *)
(* every free chunk that has room for a free header exactly once; below the   *)
(* top of the stack there are only whole blocks, header not counted.          *)
WbListsExact ==
  LET M == Walk(wb.master)  R == Walk(wb.recycler) IN
  /\ M \cap R = {}
  /\ M \cup R = {c \in Chunks : IsFree(wb, c) /\ HoldsFree(wb, c)}
  /\ M \cup R = DOMAIN wb.free
  /\ \A c \in R : LET n == wb.free[c].next IN n \in R /\ wb.free[n].prev = c
  /\ \A c \in M : LET n == wb.free[c].next IN
       /\ n # Null => n \in M /\ wb.free[n].prev = c
       /\ IF c = wb.master THEN wb.free[c].prev = Null
          ELSE wb.hdr[c].len = WbBlockSize - BlockHdr

(* wmem_block_verify_master_list (wmem_allocator_block.c:285-287) asks for    *)
(* WMEM_BLOCK_SIZE instead, header included: this does not hold.              *)
WbMasterAssert ==
  \A c \in Walk(wb.master) \ {wb.master} : wb.hdr[c].len = WbBlockSize

(* "for a list with n items, n iterations guarantees that the largest chunk   *)
(* will be the head" (wmem_allocator_block.c:118-120).                        *)
WbCyclesToLargest ==
  LET R == Walk(wb.recycler)
      n == Cardinality(R)
      after[i \in 0..n] == IF i = 0 THEN wb ELSE CycleRecycler(after[i - 1])
  IN  \A c \in R : wb.hdr[c].len <= wb.hdr[after[n].recycler].len

(* The heap is consistent after every call: what wmem_block_verify asserts,   *)
(* but for the length of the chunks below the top of the master stack (see    *)
(* WbMasterAssert); merging "prevents us ever having consecutive free         *)
(* chunks" (wmem_allocator_block.c:83-85); and the recycler turns up its      *)
(* largest chunk.                                                             *)
WbHeapSound == WbTiled /\ WbListsExact /\ WbCyclesToLargest

(* What clients hold: every allocation has the alignment asked for and lies,  *)
(* with the word that finds its chunk, within a chunk or jumbo block of its   *)
(* own; every used chunk belongs to an allocation; and the blocks in the list *)
(* are the ones got from the operating system, none after the allocator is    *)
(* destroyed.                                                                 *)
WbOwnership ==
  /\ {wbLive[p].chunk : p \in DOMAIN wbLive} = {c \in DOMAIN wb.hdr : wb.hdr[c].used}
  /\ Cardinality({wbLive[p].chunk : p \in DOMAIN wbLive}) = Cardinality(DOMAIN wbLive)
  /\ \A p \in DOMAIN wbLive : LET l == wbLive[p]  h == wb.hdr[l.chunk]  b == BlockOf(l.chunk) IN
       /\ p % l.align = 0
       /\ p - PreLen >= l.chunk + ChunkHdr
       /\ p + l.size <= IF h.jumbo THEN Base(b) + wb.os[b] ELSE l.chunk + h.len
  /\ DOMAIN wb.os = Range(wb.blocks) /\ Len(wb.blocks) = Cardinality(DOMAIN wb.os)
  /\ wbOpen \/ wb.blocks = <<>>
=============================================================================
