------------------------------ MODULE RAMFileIO ------------------------------
(***************************************************************************)
(* One RAMFile through its life: a RAMFileIndexOutput writes it, its       *)
(* destructor commits it (RAMDirectory::commit publishes blocks_ and       *)
(* length, which never change again), and RAMFileIndexInputs read it,     *)
(* one after another.  The directory's bookkeeping of names and reference  *)
(* counts is RAMDirectory's; here the two streams share the blocks.        *)
(***************************************************************************)
EXTENDS RAMFileOutput, RAMFileInput

vars == <<out, rd, res>>

Init == OutInit /\ InInit

\* The writer's calls, then, on the committed file, the readers' calls.
\* A crash (an assertion or an out-of-range block access) ends the process:
\* no step follows it.  Readers open non-empty files only: opening an empty
\* one aborts in the constructor, which MCRAMDirectory's dir_empty_open run
\* shows.
Next ==
    \/ OutNext /\ UNCHANGED <<rd, res>>
    \/ /\ ~out.open
       /\ out.err = NoErr
       /\ rd.err = NoErrIn
       /\ out.length > 0
       /\ InNext(out.blocks, out.length)
       /\ UNCHANGED out

Spec == Init /\ [][Next]_vars

-----------------------------------------------------------------------------
(***************************************************************************)
(* Properties.                                                             *)
(***************************************************************************)

\* Types, and the buffer-window invariant of spec section 3: bufStart <=
\* bufCur <= bufEnd in both streams, bufCur <= sentinel <= bufEnd in the
\* reader, and the writer's buffer is a block that exists.  A set() that
\* left bufStart behind when it moved to another block would break it.
IOTypeOK ==
    /\ out.blocks \in Seq(Block)
    /\ out.length \in 0 .. MaxLength /\ out.pos \in 0 .. MaxLength
    /\ out.bs \in 0 .. BlockSize /\ out.bc \in out.bs .. BlockSize
    /\ out.buf => out.cur < Len(out.blocks)
    /\ rd.bc \in 0 .. rd.sent /\ rd.sent \in 0 .. BlockSize
    /\ rd.pos \in 0 .. MaxRead
    /\ res.kind \in {"none", "bytes", "exception", "eof", "more", "seek"}

\* No call of either stream ends the process: no assertion fails and no
\* block index is past blocks_.size() (RAMFileIndexOutput::writeImpl's
\* allocation of the next block, RAMFileIndexInput's last_block and
\* seek's bound).
NoCrash == out.err = NoErr /\ rd.err = NoErrIn

\* The writer and the readers implement ByteStream: the file holds what was
\* written, and every reader call returns the bytes at the positions the
\* abstract reader would, eof() included.  The reader's cursor is where
\* bufCur stands in the file, less what a read in progress has copied:
\* the iterations of read's loop are stutters, its exit is the RRead.
Stream == INSTANCE ByteStream
              WITH content <- Content(out.blocks, MaxOf(out.length, out.pos)),
                   cursor  <- out.pos,
                   open    <- out.open,
                   rcursor <- CallerAt,
                   ropen   <- rd.open,
                   rres    <- res

StreamRefines == Stream!SSpec

\* getCurrentPosition() of a reader is where it reads next: its pos is the
\* position of bufCur in the file once a buffer is set (spec 4.2: the
\* window is kept consistent with the logical position); within a read,
\* pos lags bufCur by the bytes copied so far.
PosTracks == rd.open /\ rd.buf => rd.pos + Len(rd.got) = ReaderAt
=============================================================================
