--------------------------- MODULE RAMFileInput ---------------------------
(***************************************************************************)
(* RAMFileIndexInput: the buffered reader of IndexInput whose buffer is    *)
(* always one block of a committed RAMFile.  The file (its blocks and      *)
(* length) is a parameter `bl`, `len` of every operator: once committed it *)
(* never changes.  The state is one record `rd`:                           *)
(*   cur              current_block                                        *)
(*   buf              bufStart != nullptr                                  *)
(*   bc, sent         bufCur and sentinel as offsets in block `cur`        *)
(*                    (bufStart is always the block's start)               *)
(*   pos              IndexIOBase::pos                                     *)
(*   lastBlock, lastBlockBytes   last_block, last_block_bytes              *)
(*   open             the object is alive                                  *)
(*   err              NoErr, or the assertion / out-of-range block access  *)
(*                    that ended the process                               *)
(*   reading, want, got   a read(ptr, size) in progress: its size and the *)
(*                    bytes copied so far (bytes_copied is Len(got))       *)
(* and `res`, the last call: its kind, its argument (the n of read and   *)
(* the position of seek) and what it returned: the bytes, each with the  *)
(* file position the reader took it from, an exception, or eof()'s answer.*)
(* readInt32/64 are read(buf, n) followed by a check that changes no       *)
(* state, and readVarint*/readString are loops of readByte(): the actions  *)
(* ReadByte and the read actions cover what they do to the reader.  read *)
(* is one action per iteration of its loop: ReadStart, then ReadIter.    *)
(***************************************************************************)
EXTENDS RAMFile

CONSTANTS
    MaxRead,      \* bound: the largest pos a reader reaches (seek never
                  \* lowers pos, so reads after seeks keep raising it)
    SeekToEnd,    \* TRUE: clients seek anywhere in [0, length], as spec
                  \* section 8 allows; FALSE: only in [0, length)
    ReadPastEnd   \* TRUE: clients read, and ask eof(), at the end of the
                  \* file; FALSE: they read only bytes the file holds

ASSUME InputAssumption ==
    /\ MaxRead \in Nat
    /\ SeekToEnd \in BOOLEAN
    /\ ReadPastEnd \in BOOLEAN

VARIABLES rd, res

NoErrIn == "none"

Result(kind, arg, got) == [kind |-> kind, arg |-> arg, got |-> got]

NoResult == Result("none", 0, << >>)

InInit ==
    /\ rd = [cur |-> 0, buf |-> FALSE, bc |-> 0, sent |-> 0, pos |-> 0,
             lastBlock |-> 0, lastBlockBytes |-> 0, open |-> FALSE,
             err |-> NoErrIn, reading |-> FALSE, want |-> 0, got |-> << >>]
    /\ res = NoResult

\* getNumReadableBytes(): sentinel - bufCur (both null before a buffer).
Readable(r) == IF r.buf THEN r.sent - r.bc ELSE 0

\* The constructor: asserts the file is not empty, then last_block and
\* last_block_bytes from length (sic: last_block is a count of blocks).
OpenOp(len) ==
    IF len = 0 THEN [rd EXCEPT !.err = "emptyFile"]
    ELSE [cur |-> 0, buf |-> FALSE, bc |-> 0, sent |-> 0, pos |-> 0,
          lastBlock |-> LastBlockOf(len),
          lastBlockBytes |-> LastBlockBytesOf(len),
          open |-> TRUE, err |-> NoErrIn,
          reading |-> FALSE, want |-> 0, got |-> << >>]

\* initInternalBuffer(): block 0, bufCur at its start, the sentinel after
\* last_block_bytes if last_block is 0, else at the block's end.
InitInternalBufferIn(r) ==
    [r EXCEPT !.buf = TRUE, !.bc = 0,
              !.sent = IF r.lastBlock = 0 THEN r.lastBlockBytes ELSE BlockSize]

\* fillImpl(): the first buffer; EOF at last_block; else the next block,
\* whose sentinel is after last_block_bytes if it is last_block.  (Its
\* assertion that no data is pending holds: eof() calls it only then.)
\* An index past blocks_.size() is an out-of-range access.
FillImpl(r, bl) ==
    IF ~r.buf THEN [ok |-> TRUE, r |-> InitInternalBufferIn(r)]
    ELSE IF r.cur = r.lastBlock THEN [ok |-> FALSE, r |-> r]
    ELSE IF r.cur + 1 >= Len(bl) THEN [ok |-> FALSE, r |-> [r EXCEPT !.err = "blockIndex"]]
    ELSE [ok |-> TRUE,
          r  |-> [r EXCEPT !.cur = @ + 1, !.bc = 0,
                           !.sent = IF r.cur + 1 = r.lastBlock
                                    THEN r.lastBlockBytes ELSE BlockSize]]

\* eof(): !hasPendingData() && !fillImpl().
EofOp(r, bl) ==
    IF Readable(r) > 0 THEN [eof |-> FALSE, r |-> r]
    ELSE LET f == FillImpl(r, bl) IN [eof |-> ~f.ok, r |-> f.r]

\* The byte under bufCur, with its position in the file.
Taken(r, bl, i) == << r.cur * BlockSize + r.bc + i, bl[r.cur + 1][r.bc + i] >>

\* readByte(): throws at EOF; else pos++ and the byte at bufCur++.
ReadByteOp(r, bl) ==
    LET e == EofOp(r, bl)
    IN  IF e.eof \/ e.r.err # NoErrIn
        THEN [r |-> e.r, res |-> Result("exception", 0, << >>)]
        ELSE [r   |-> [e.r EXCEPT !.bc = @ + 1, !.pos = @ + 1],
              res |-> Result("bytes", 0, << Taken(e.r, bl, 0) >>)]

\* The exit of read(ptr, size): pos += bytes_copied, return them.
ReadDone(r) ==
    [r   |-> [r EXCEPT !.pos = @ + Len(r.got), !.reading = FALSE,
                       !.want = 0, !.got = << >>],
     res |-> Result("bytes", r.want, r.got)]

\* One iteration of read's loop `while (bytes_copied < size && !eof())`:
\* the test (eof() may refill the buffer), then either the exit or the
\* copy of what the buffer holds, at most what is still wanted.
ReadIterOp(r, bl) ==
    IF Len(r.got) >= r.want THEN ReadDone(r)
    ELSE LET e == EofOp(r, bl)
         IN  IF e.r.err # NoErrIn THEN [r |-> e.r, res |-> res]
             ELSE IF e.eof THEN ReadDone(e.r)
             ELSE LET k == MinOf(Readable(e.r), r.want - Len(r.got))
                  IN  [r   |-> [e.r EXCEPT !.bc = @ + k,
                                 !.got = @ \o [i \in 1 .. k |-> Taken(e.r, bl, i - 1)]],
                       res |-> res]

\* Mutant: seek() that sets bufCur to the start of the block, without the
\* offset of s in it.
SeekInOp_nooffset(r, len, s) ==
    IF s >= len THEN [r EXCEPT !.err = "seekPastEnd"]
    ELSE [r EXCEPT !.cur = s \div BlockSize, !.buf = TRUE, !.bc = 0,
                   !.sent = IF s \div BlockSize = r.lastBlock
                            THEN r.lastBlockBytes ELSE BlockSize]

\* seek(s): asserts s < length; the block of s, bufCur at the offset of s,
\* the sentinel after last_block_bytes if the block is last_block.  pos is
\* left as it was.
SeekInOp(r, len, s) ==
    IF s >= len THEN [r EXCEPT !.err = "seekPastEnd"]
    ELSE [r EXCEPT !.cur = s \div BlockSize, !.buf = TRUE,
                   !.bc = s % BlockSize,
                   !.sent = IF s \div BlockSize = r.lastBlock
                            THEN r.lastBlockBytes ELSE BlockSize]

\* A call's effect: its result, or only the crash if it crashed.
StepIn(r) == IF r.err = NoErrIn THEN r ELSE [rd EXCEPT !.err = r.err]

\* What a call returns: nothing if it crashed.
Ret(r, v) == IF r.err = NoErrIn THEN v ELSE res

\* Where the reader stands in the file: the position of bufCur.
ReaderAt == IF rd.buf THEN rd.cur * BlockSize + rd.bc ELSE 0

\* Where a caller sees the reader: during a read, where the read started.
CallerAt == ReaderAt - Len(rd.got)

-----------------------------------------------------------------------------

\* openInput() on the committed file builds the reader.
OpenReader(len) ==
    /\ ~rd.open
    /\ rd' = StepIn(OpenOp(len))
    /\ res' = Ret(OpenOp(len), NoResult)

ReadByte(bl, len) ==
    /\ rd.pos < MaxRead
    /\ ReadPastEnd \/ ReaderAt < len
    /\ LET x == ReadByteOp(rd, bl) IN rd' = StepIn(x.r) /\ res' = Ret(x.r, x.res)

\* read(ptr, n) is called: bytes_copied = 0.
ReadStart(len, n) ==
    /\ rd.pos + n <= MaxRead
    /\ ReadPastEnd \/ ReaderAt + n <= len
    /\ rd' = [rd EXCEPT !.reading = TRUE, !.want = n, !.got = << >>]
    /\ UNCHANGED res

\* The next iteration of the read in progress.
ReadIter(bl) ==
    /\ rd.reading
    /\ LET x == ReadIterOp(rd, bl) IN rd' = StepIn(x.r) /\ res' = Ret(x.r, x.res)

Eof(bl, len) ==
    /\ ReadPastEnd \/ ReaderAt < len
    /\ LET e == EofOp(rd, bl)
       IN  /\ rd' = StepIn(e.r)
           /\ res' = Ret(e.r, Result(IF e.eof THEN "eof" ELSE "more", 0, << >>))

SeekInput(len, s) ==
    /\ s <= (IF SeekToEnd THEN len ELSE len - 1)
    /\ rd' = StepIn(SeekInOp(rd, len, s))
    /\ res' = Ret(SeekInOp(rd, len, s), Result("seek", s, << >>))

\* ~RAMFileIndexInput; its finish_reading() belongs to RAMDirectory.
CloseReader ==
    /\ rd' = [rd EXCEPT !.open = FALSE]
    /\ res' = NoResult

InNext(bl, len) ==
    \/ OpenReader(len)
    \/ /\ rd.open
       /\ rd.err = NoErrIn
       /\ \/ /\ ~rd.reading
             /\ \/ ReadByte(bl, len)
                \/ \E n \in 1 .. BlockSize + 1 : ReadStart(len, n)
                \/ Eof(bl, len)
                \/ \E s \in 0 .. len : SeekInput(len, s)
                \/ CloseReader
          \/ ReadIter(bl)
=============================================================================
