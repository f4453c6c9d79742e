-------------------------------- MODULE Stream --------------------------------
(* A buffered stream (struct iob) over a file open for update: fgetc, fputc,  *)
(* ungetc, fread, fwrite, fseek, fflush, setvbuf and fclose.  One buffer      *)
(* serves for reading and for writing.                                        *)
EXTENDS Integers, Sequences, FiniteSetsExt

CONSTANTS StBytes, StNewline,
          StBehind,    \* the byte that follows a caller's data in memory
          StSizes,     \* buffer sizes
          StWrites,    \* the data fwrite is called with
          StReads,     \* the numbers of bytes fread is asked for
          StMaxFile,   \* bound on the length of the file
          StZero,      \* the byte a file grows by
          StUnix,      \* the values of __unix_path_semantics
          StFaults,    \* what the file system does: "read", "write", "seek" the call fails,
                       \* "short" a write takes less than it is given, "late" a seek
                       \* fails after it has moved, "quiet" a call fails whose
                       \* failure __fd_hook_entry ignores
          StUses       \* uses that happen: "readfwrite" fwrite after fseek with bytes read ahead,
                       \* "fullfwrite" fwrite on a full buffer, "ungetother" ungetc of
                       \* another character, "nonefread" fread after fgetc on an
                       \* unbuffered stream, "vbuffail" setvbuf that cannot flush,
                       \* "shortflush" a flush meets a short write

ASSUME StAssumption == /\ {StNewline, StBehind, StZero} \subseteq StBytes
                       /\ StUnix \subseteq BOOLEAN
                       /\ StSizes \subseteq Nat \ {0} /\ StReads \subseteq Nat \ {0}
                       /\ StMaxFile \in Nat

VARIABLES stDisk,    \* the file's contents
          st,        \* the stream: see StInit
          stData,    \* what the last call read, or was asked to write
          stAnswer   \* -1 if it failed; else the number of bytes it was asked to
                     \* read or reports written, or the position it was to reach

stVars == <<stDisk, st, stData, stAnswer>>

StInit ==
  /\ \E n \in 0..StMaxFile : stDisk \in [1..n -> StBytes]
  /\ \E mode \in {"full", "line"}, size \in StSizes, unix \in StUnix :
       st = [unix |-> unix,   \* __unix_path_semantics
             pos |-> 0,       \* the position in the file, fd_Position
             buf |-> <<>>,    \* iob_Buffer, as far as it is in use
             bp |-> 0,        \* iob_BufferPosition
             rd |-> 0,        \* iob_BufferReadBytes
             wr |-> 0,        \* iob_BufferWriteBytes
             size |-> size, mode |-> mode, err |-> FALSE,
             freed |-> FALSE, \* iob_CustomBuffer, freed while it is in use
             open |-> TRUE]
  /\ stData = <<>> /\ stAnswer = 0

Overwritten(file, pos, s) ==
  [i \in 1..Max({pos + Len(s), Len(file)}) |->
     IF i \in pos + 1 .. pos + Len(s) THEN s[i - pos] ELSE file[i]]

-------------------------------------------------------------------------------
(* The steps of a call take the stream and the file to a new stream and file, *)
(* and succeed or not.                                                        *)
Failed(g) == [g EXCEPT !.ok = FALSE, !.s.err = TRUE]

(* file_action_write.  The file system may take less than it is given.        *)
Written(g, data, fail) ==
  LET put == IF "short" \in fail THEN SubSeq(data, 1, Len(data) - 1) ELSE data
  IN  IF "write" \in fail THEN Failed(g)
      ELSE [g EXCEPT !.disk = Overwritten(@, g.s.pos, put), !.s.pos = @ + Len(put)]

(* file_action_seek.  A position before the file is its beginning; one behind *)
(* its end is an error, unless __grow_file_size makes the file reach it.      *)
Sought(g, off, whence, fail) ==
  LET size == Len(g.disk)
      new == off + (CASE whence = "set" -> 0 [] whence = "cur" -> g.s.pos [] whence = "end" -> size)
      zeros == [i \in 1..new - size |-> StZero]
      Moved(pos) == [g EXCEPT !.s.pos = pos]
  IN  CASE "quiet" \in fail /\ (whence = "end" \/ new < 0) -> g
        [] new < 0 -> Moved(0)
        [] new = g.s.pos -> g
        [] "seek" \in fail \/ (new > size /\ ~g.s.unix) -> Failed(g)
        [] "late" \in fail -> Failed(Moved(Min({new, size})))
        [] OTHER -> [Moved(new) EXCEPT !.disk = Overwritten(@, size, zeros)]

Unwritten(s) == SubSeq(s.buf, 1, s.wr)
Flushed(g, fail) ==      \* whatever was written of it, the buffer is empty then
  LET w == Written(g, Unwritten(g.s), IF "shortflush" \in StUses THEN fail ELSE fail \ {"short"})
  IN  IF g.s.wr = 0 THEN g
      ELSE IF ~w.ok THEN w ELSE [w EXCEPT !.s.wr = 0, !.s.buf = SubSeq(@, 1, g.s.rd)]

Unread(s) == IF s.rd > 0 THEN s.rd - s.bp ELSE 0
SeekBack_none(g) == 0
(* The file position is ahead of the reader by what is unread.                *)
SeekBack(g) == Unread(g.s)
Dropped(g, fail) ==
  LET back == Sought(g, -SeekBack(g), "cur", fail)
  IN  IF g.s.rd = 0 THEN g
      ELSE IF ~back.ok THEN back
      ELSE [back EXCEPT !.s.rd = 0, !.s.bp = 0, !.s.buf = SubSeq(@, 1, g.s.wr)]

Ahead(g, n) == SubSeq(g.disk, g.s.pos + 1, Min({g.s.pos + n, Len(g.disk)}))
Filled(g, fail) ==
  IF "read" \in fail THEN Failed(g)
  ELSE LET data == Ahead(g, g.s.size)
       IN  [g EXCEPT !.s.buf = data, !.s.rd = Len(data), !.s.bp = 0, !.s.pos = @ + Len(data)]

FputcCheck_keep(g, fail) == g
FputcCheck(g, fail) == Dropped(g, fail)
FgetcCheck(g, fail) == Flushed(g, fail)

(* n calls of __getc, as far as they do not meet the end of the file.         *)
RECURSIVE Getc(_, _, _, _)
Getc(g, n, data, fail) ==
  LET a == IF Unread(g.s) = 0 THEN Filled(g, fail) ELSE g
  IN  IF n = 0 THEN [g |-> g, data |-> data]
      ELSE IF ~a.ok \/ Unread(a.s) = 0 THEN [g |-> a, data |-> data]
      ELSE Getc([a EXCEPT !.s.bp = @ + 1], n - 1, Append(data, a.s.buf[a.s.bp + 1]), fail)

(* fread goes around an empty buffer when asked for a buffer's worth or more. *)
Bypasses(g, n) == g.s.mode = "none" \/ (g.s.rd = 0 /\ n >= g.s.size)
Fread(g, n, fail) ==
  IF ~Bypasses(g, n) THEN Getc(g, n, <<>>, fail)
  ELSE IF "read" \in fail THEN [g |-> Failed(g), data |-> <<>>]
  ELSE [g |-> [g EXCEPT !.s.pos = @ + Len(Ahead(g, n))], data |-> Ahead(g, n)]

Stored(g, s) == [g EXCEPT !.s.buf = Overwritten(@, g.s.wr, s), !.s.wr = @ + Len(s)]
Unstored(g) == [g EXCEPT !.s.wr = @ - 1, !.s.buf = SubSeq(@, 1, Max({g.s.rd, g.s.wr - 1}))]

FlushesOn(g, c) == g.s.mode = "none" \/ (g.s.mode = "line" /\ c = StNewline)
Fputc(g, c, fail) ==
  LET room == IF g.s.wr = g.s.size THEN Flushed(g, fail) ELSE g
      put == Stored(room, <<c>>)
      sent == IF FlushesOn(g, c) THEN Flushed(put, fail) ELSE put
  IN  IF ~room.ok THEN room ELSE IF ~sent.ok THEN Unstored(sent) ELSE sent

(* How much of s fwrite puts in the buffer at once: up to a line feed.        *)
Chunk(g, s, left) ==
  LET room == Min({left, g.s.size - g.s.wr})
      feeds == {i \in 1..room : s[i] = StNewline}
  IN  IF g.s.mode = "line" /\ feeds # {} THEN Min(feeds) ELSE room
SentAfter(g, c) == g.s.wr = g.s.size \/ FlushesOn(g, c)
From(s, k) == SubSeq(s, k + 1, Len(s))

(* The loops of fwrite, over the memory s, with left bytes to go and n done.  *)
RECURSIVE Fwrite(_, _, _, _, _)
Fwrite(g, s, left, n, fail) ==
  IF left = 0 THEN [g |-> g, n |-> n]
  ELSE IF g.s.mode = "full" /\ g.s.wr = 0 /\ left >= g.s.size
    THEN LET w == Written(g, SubSeq(s, 1, left), fail)
         IN  [g |-> w, n |-> IF w.ok THEN n + w.s.pos - g.s.pos ELSE 0]
  ELSE IF g.s.wr < g.s.size
    THEN LET k == Chunk(g, s, left)
             put == Stored(g, SubSeq(s, 1, k))
             sent == IF SentAfter(put, s[k]) THEN Flushed(put, fail) ELSE put
         IN  IF sent.ok THEN Fwrite(sent, From(s, k), left - k, n + k, fail)
                        ELSE [g |-> sent, n |-> n]
  ELSE LET put == Fputc(g, s[1], fail)
           line == g.s.mode = "line"
       IN  IF put.ok THEN Fwrite(put, From(s, 1), IF line THEN left - 1 ELSE left, n + 1, fail)
                     ELSE [g |-> put, n |-> IF line THEN n ELSE 0]
FwriteNone(g, s, fail) ==
  LET part == SubSeq(s, 1, Min({Len(s), g.s.size}))
      w == Written(g, part, fail)
  IN  [g |-> w, n |-> IF w.ok THEN w.s.pos - g.s.pos ELSE 0]

-------------------------------------------------------------------------------
(* ftell *)
Position(s) == IF s.rd > 0 THEN s.pos - Unread(s) ELSE s.pos + s.wr
Contents(s, disk) == Overwritten(disk, s.pos, Unwritten(s))

Here == [s |-> st, disk |-> stDisk, ok |-> TRUE]
Result(g, data, answer) ==
  /\ st.open /\ Len(Contents(g.s, g.disk)) <= StMaxFile
  /\ st' = g.s /\ stDisk' = g.disk /\ stData' = data
  /\ stAnswer' = IF g.ok THEN answer ELSE -1

StGetc(fail) ==
  LET g == FgetcCheck(Here, fail)
      r == Getc(g, 1, <<>>, fail)
  IN  IF g.ok THEN Result(r.g, r.data, 1) ELSE Result(g, <<>>, 1)

StRead(n, fail) ==      \* fread forgets an earlier error first
  LET g == FgetcCheck([Here EXCEPT !.s.err = FALSE], fail)
      r == Fread(g, n, fail)
  IN  /\ "nonefread" \in StUses \/ st.mode # "none" \/ st.rd = 0
      /\ IF g.ok THEN Result(r.g, r.data, n) ELSE Result(g, <<>>, n)

StPutc(c, fail) ==
  LET g == FputcCheck(Here, fail) IN Result(IF g.ok THEN Fputc(g, c, fail) ELSE g, <<c>>, 1)

StWrite(s, fail) ==
  LET r == IF st.mode = "none" THEN FwriteNone(Here, s, fail)
                               ELSE Fwrite(Here, s \o <<StBehind>>, Len(s), 0, fail)
  IN  /\ \/ st.rd = 0
         \/ "readfwrite" \in StUses /\ stData = <<>> /\ stAnswer = Position(st)
      /\ "fullfwrite" \in StUses \/ st.mode # "full" \/ st.wr < st.size
      /\ Result([r.g EXCEPT !.ok = TRUE], s, r.n)

StUngetc(c, fail) ==    \* the character just read is replaced
  LET g == Flushed(Here, fail)
      put == [g EXCEPT !.s.bp = @ - 1, !.s.buf[g.s.bp] = c]
  IN  IF g.s.bp = 0 \/ ~g.ok THEN Result(Failed(g), <<>>, 0)
      ELSE /\ "ungetother" \in StUses \/ g.s.buf[g.s.bp] = c
           /\ Result(put, <<>>, Position(st) - 1)

(* fseek rather moves within the buffer than in the file.                     *)
InBuffer(s, off) == s.rd > 0 /\ ((off < 0 /\ -off <= s.bp) \/ (off > 0 /\ off <= Unread(s)))
SoughtFrom(g, off, whence, fail) ==
  LET clean == Dropped(Flushed(g, fail), fail)
  IN  CASE whence = "cur" /\ off = 0 -> g
        [] whence = "cur" /\ InBuffer(g.s, off) -> [g EXCEPT !.s.bp = @ + off]
        [] OTHER -> IF clean.ok THEN Sought(clean, off, whence, fail) ELSE clean
StSeek(off, whence, fail) ==
  LET target == off + (CASE whence = "set" -> 0 [] whence = "cur" -> Position(st)
                         [] whence = "end" -> Len(Contents(st, stDisk)))
      g == IF whence = "set" /\ st.rd > 0 THEN SoughtFrom(Here, off - Position(st), "cur", fail)
                                          ELSE SoughtFrom(Here, off, whence, fail)
  IN  Result(g, <<>>, Max({0, target}))

StFlush(fail) == Result(Flushed(Here, fail), <<>>, Position(st))

(* setvbuf with a buffer it allocates.  Failing, it frees the one in use,     *)
(* which is the stream's own unless that is unbuffered.                       *)
StSetvbuf(mode, size, fail) ==
  LET clean == Dropped(Flushed(Here, fail), fail)
      new == [clean EXCEPT !.s.mode = mode, !.s.size = IF mode = "none" THEN 1 ELSE size,
                           !.s.freed = FALSE]
  IN  /\ clean.ok \/ "vbuffail" \in StUses
      /\ Result(IF clean.ok THEN new
                ELSE [clean EXCEPT !.s.freed = @ \/ "none" \notin {mode, st.mode}],
                <<>>, Position(st))

StClose(fail) ==
  Result([Flushed(Here, fail) EXCEPT !.s.open = FALSE, !.s.pos = 0, !.s.buf = <<>>,
                                     !.s.bp = 0, !.s.rd = 0, !.s.wr = 0], <<>>, 0)

Faults(kinds) == {{}} \cup {{f} : f \in StFaults \cap kinds}
StNext ==
  \/ \E fail \in Faults({"read", "write", "short"}) : StGetc(fail)
  \/ \E fail \in Faults({"read", "write", "short"}), n \in StReads : StRead(n, fail)
  \/ \E fail \in Faults({"write", "short", "seek", "late", "quiet"}), off \in -1..1, whence \in {"set", "cur", "end"} :
       StSeek(off, whence, fail)
  \/ \E fail \in Faults({"write", "short", "seek", "late"}), c \in StBytes : StPutc(c, fail)
  \/ \E fail \in Faults({"write", "short"}), s \in StWrites : StWrite(s, fail)
  \/ \E fail \in Faults({"write", "short"}), c \in StBytes : StUngetc(c, fail)
  \/ \E fail \in Faults({"write", "short", "seek", "late"}), mode \in {"full", "line", "none"}, size \in StSizes :
       StSetvbuf(mode, size, fail)
  \/ \E fail \in Faults({"write", "short"}) : StFlush(fail) \/ StClose(fail)

StSpec == StInit /\ [][StNext]_stVars

-------------------------------------------------------------------------------
(* The assertion of __fill_iob_read_buffer, and what setvbuf asserts: the one *)
(* buffer never holds bytes read ahead and bytes to be written at once, and   *)
(* its counters stay within it, failing flushes and seeks included.           *)
StBufferOneUse ==
  /\ st.rd = 0 \/ st.wr = 0
  /\ st.bp \in 0..st.rd /\ st.rd <= st.size /\ st.wr \in 0..st.size
  /\ Len(st.buf) = st.rd + st.wr

(* "Remember this, so we can release it later" (setvbuf.c): the buffer of a   *)
(* stream that is open is released only when another one takes its place.     *)
StBufferKept == st.open => ~st.freed

(* fputc and fwrite on a line buffered stream: unless a write has failed, a   *)
(* completed line does not stay in the buffer, whatever the mode was before.  *)
StLinesOut ==
  (st.mode = "line" /\ ~st.err) => \A i \in 1..st.wr : st.buf[i] # StNewline

(* fgetc, fread, fputc, fwrite, ungetc, fseek, fflush and setvbuf in any      *)
(* order act as on a file with a position, whatever is buffered and whichever *)
(* of the calls in StFaults fail: a read returns what was written, a write    *)
(* lands where the position says, a failing seek leaves it alone, and what    *)
(* was reported written is not lost, unless a flush meets a short write       *)
(* ("shortflush").                                                            *)
StAbs == INSTANCE AbstractStream WITH
  AbsZero <- StZero, absFile <- Contents(st, stDisk), absPos <- Position(st),
  absData <- stData, absAnswer <- stAnswer, absOpen <- st.open
StImplements == StAbs!AbsSpec

(* The one buffer of a stream is its own and consistent in every mode.        *)
StSound == StBufferOneUse /\ StBufferKept /\ StLinesOut
===============================================================================
