--------------------------- MODULE RAMFileOutput ---------------------------
(***************************************************************************)
(* RAMFileIndexOutput: the buffered writer of IndexOutput whose buffer is  *)
(* always the current block of its RAMFile.  The state is one record       *)
(* `out`, a field per member:                                              *)
(*   blocks, length   file->blocks_, file->length                          *)
(*   cur              current_block                                        *)
(*   buf              bufStart != nullptr                                  *)
(*   bs, bc           bufStart, bufCur as offsets in block `cur`; bufEnd   *)
(*                    is always the end of the block (set(..., kBlockSize))*)
(*   pos              IndexIOBase::pos                                     *)
(*   open             the object is alive (its destructor has not run)     *)
(*   err              NoErr, or the assertion / out-of-range block access  *)
(*                    that ended the process                               *)
(*   pend             the bytes a write(ptr, size) in progress has still  *)
(*                    to handle: the arguments of its pending recursive    *)
(*                    call, << >> when no write is in progress             *)
(* Each public call is one action, except write(), whose every activation *)
(* (the first and each recursive call) is one; the helpers below are the  *)
(* private methods a call uses, as functions from record to record.  A    *)
(* call that crashes leaves the record as it was with `err` set.  The      *)
(* destructor's call of commit() belongs to RAMDirectory.                  *)
(***************************************************************************)
EXTENDS RAMFile

CONSTANT MaxWrite   \* bound: bytes passed to one write(ptr, size)

VARIABLE out

NoErr == "none"

OutInit ==
    out = [blocks |-> << >>, length |-> 0, cur |-> 0, buf |-> FALSE,
           bs |-> 0, bc |-> 0, pos |-> 0, open |-> TRUE, err |-> NoErr,
           pend |-> << >>]

\* available(): bufEnd - bufCur (both null before the first buffer).
Available(o) == IF o.buf THEN BlockSize - o.bc ELSE 0

\* getNumWritableBytes(): bufCur - bufStart.
Writable(o) == IF o.buf THEN o.bc - o.bs ELSE 0

\* Mutant: set() that moves bufEnd to the new block and leaves bufStart.
SetBlock_nostart(o, k) ==
    IF k < Len(o.blocks) THEN [o EXCEPT !.buf = TRUE]
    ELSE [o EXCEPT !.err = "blockIndex"]

\* set(file->blocks_[k], kBlockSize): bufStart and bufEnd bound block k;
\* an index past blocks_.size() is an out-of-range access.
SetBlock(o, k) ==
    IF k < Len(o.blocks) THEN [o EXCEPT !.buf = TRUE, !.bs = 0]
    ELSE [o EXCEPT !.err = "blockIndex"]

\* initInternalBuffer(): alloc() the first block, buffer it, bufCur = bufStart.
InitInternalBuffer(o) ==
    [SetBlock([o EXCEPT !.blocks = Alloc(@)], 0) EXCEPT !.bc = 0]

\* Mutant: the next block is allocated only when current_block equals
\* blocks_.size(), one past the last index.
WriteImpl_offbyone(o) ==
    LET o1 == [o EXCEPT !.length = MaxOf(@, o.pos)]
    IN  IF o1.bc = BlockSize
        THEN LET o2 == IF o1.cur = Len(o1.blocks)
                       THEN [o1 EXCEPT !.blocks = Alloc(@)] ELSE o1
             IN  SetBlock([o2 EXCEPT !.cur = @ + 1], o2.cur + 1)
        ELSE [o1 EXCEPT !.bs = o1.bc]

\* writeImpl(): raise length to pos; on a full block move to the next one,
\* allocating it if the current block is the last; otherwise bufStart =
\* bufCur.
WriteImpl(o) ==
    LET o1 == [o EXCEPT !.length = MaxOf(@, o.pos)]
    IN  IF o1.bc = BlockSize
        THEN LET o2 == IF o1.cur = Len(o1.blocks) - 1
                       THEN [o1 EXCEPT !.blocks = Alloc(@)] ELSE o1
             IN  SetBlock([o2 EXCEPT !.cur = @ + 1], o2.cur + 1)
        ELSE [o1 EXCEPT !.bs = o1.bc]

\* flushNonEmpty(): asserts the buffer holds bytes, writeImpl(), then
\* bufCur = bufStart.
FlushNonEmpty(o) ==
    IF Writable(o) = 0 THEN [o EXCEPT !.err = "flushEmpty"]
    ELSE LET o1 == WriteImpl(o)
         IN  IF o1.err # NoErr THEN o1 ELSE [o1 EXCEPT !.bc = o1.bs]

\* copyToBuffer(ptr, size): asserts size <= available(); the bytes land at
\* bufCur in the current block.
CopyToBuffer(o, d) ==
    IF Len(d) > Available(o) THEN [o EXCEPT !.err = "bufferOverrun"]
    ELSE [o EXCEPT !.blocks[o.cur + 1] =
                       [i \in 0 .. BlockSize - 1 |->
                           IF o.bc <= i /\ i < o.bc + Len(d) THEN d[i - o.bc + 1]
                           ELSE o.blocks[o.cur + 1][i]],
                   !.bc = @ + Len(d)]

\* writeByte(c): no room: first buffer, or flush; then store and pos++.
WriteByteOp(o, c) ==
    LET o1 == IF Available(o) > 0 THEN o
              ELSE IF ~o.buf THEN InitInternalBuffer(o) ELSE FlushNonEmpty(o)
    IN  IF o1.err # NoErr THEN o1
        ELSE [o1 EXCEPT !.blocks[o1.cur + 1][o1.bc] = c,
                        !.bc = @ + 1, !.pos = @ + 1]

\* One activation of write(ptr, size), its recursive call left pending in
\* `pend`: without room for all of d, set up the first buffer and call
\* again with d, or fill the buffer, flush and call again with the rest;
\* with room, copy d and return.
WriteIter(o, d) ==
    IF Available(o) < Len(d)
    THEN IF ~o.buf THEN [InitInternalBuffer(o) EXCEPT !.pend = d]
         ELSE LET a  == Available(o)
                  o1 == [CopyToBuffer(o, SubSeq(d, 1, a)) EXCEPT !.pos = @ + a]
              IN  [FlushNonEmpty(o1) EXCEPT !.pend = SubSeq(d, a + 1, Len(d))]
    ELSE [CopyToBuffer(o, d) EXCEPT !.pos = @ + Len(d), !.pend = << >>]

\* flush() (and sync(), which calls it): flushNonEmpty() if bufCur !=
\* bufStart.
FlushOp(o) == IF o.buf /\ o.bc # o.bs THEN FlushNonEmpty(o) ELSE o

\* seek(s): raise length to pos; the block of s, allocated if it is one
\* past the last; bufCur at the offset of s; pos = s.
SeekOp(o, s) ==
    LET k  == s \div BlockSize
        o0 == [o EXCEPT !.length = MaxOf(@, o.pos)]
        o1 == SetBlock([o0 EXCEPT !.cur = k,
                          !.blocks = IF k = Len(o0.blocks) THEN Alloc(@) ELSE @], k)
    IN  IF o1.err # NoErr THEN o1
        ELSE [o1 EXCEPT !.bc = s % BlockSize, !.pos = s]

\* A call's effect: its result, or only the crash if it crashed.
Step(o) == IF o.err = NoErr THEN o ELSE [out EXCEPT !.err = o.err]

-----------------------------------------------------------------------------

WriteByte(c) ==
    /\ out.pos < MaxLength
    /\ out' = Step(WriteByteOp(out, c))

\* write(ptr, size) called with d.
Write(d) ==
    /\ out.pos + Len(d) <= MaxLength
    /\ out' = Step(WriteIter(out, d))

\* The pending recursive call of a write in progress.
WriteRest ==
    /\ out.pend # << >>
    /\ out' = Step(WriteIter(out, out.pend))

Flush == out' = Step(FlushOp(out))

\* seek(s) asserts s <= length once length is raised to pos: its callers'
\* obligation, kept by the range of s.
SeekOutput(s) ==
    /\ s <= MaxOf(out.length, out.pos)
    /\ out' = Step(SeekOp(out, s))

\* ~RAMFileIndexOutput: length = max(length, pos), then finish_writing().
CloseOutput ==
    out' = [out EXCEPT !.length = MaxOf(@, out.pos), !.open = FALSE]

\* While a write is in progress its next activation is the only step.
OutNext ==
    /\ out.open
    /\ out.err = NoErr
    /\ \/ /\ out.pend = << >>
          /\ \/ \E c \in Byte : WriteByte(c)
             \/ \E n \in 1 .. MaxWrite : \E d \in [1 .. n -> Byte] : Write(d)
             \/ Flush
             \/ \E s \in 0 .. MaxLength : SeekOutput(s)
             \/ CloseOutput
       \/ WriteRest

-----------------------------------------------------------------------------
(***************************************************************************)
(* The writer implements ByteFile: the file's content is the bytes of the  *)
(* blocks up to max(length, pos), since length lags behind pos until the   *)
(* next flush, seek or close; the cursor is pos.  Each activation of write *)
(* is a Put of the bytes it copies.                                        *)
(***************************************************************************)
File == INSTANCE ByteFile
            WITH content <- Content(out.blocks, MaxOf(out.length, out.pos)),
                 cursor  <- out.pos,
                 open    <- out.open
=============================================================================
