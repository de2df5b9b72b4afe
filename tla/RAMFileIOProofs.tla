--------------------------- MODULE RAMFileIOProofs ---------------------------
(***************************************************************************)
(* Proofs about one RAMFile written and then read (RAMFileIO), for every   *)
(* block size, byte set and bound allowed by the modules' assumptions,     *)
(* under the reader contract of run io_stream: clients seek only below the *)
(* length and read only bytes the file holds.                              *)
(***************************************************************************)
EXTENDS RAMFileIO, RAMFileProofs, TLAPS

(* The clients' side of the reader contract (SeekToEnd and ReadPastEnd    *)
(* FALSE), which runs io_seek_end and io_read_past_end show to be needed. *)
ReaderContract == ~SeekToEnd /\ ~ReadPastEnd

(* The fields of the writer's record.                                     *)
OutFields ==
    {"blocks", "length", "cur", "buf", "bs", "bc", "pos", "open", "err", "pend"}

(* The layout of a live writer: bufStart <= bufCur <= bufEnd in the block  *)
(* current_block, which exists; pos is where bufCur stands in the file;    *)
(* the blocks hold the whole length; and bufStart never reaches the end of *)
(* the block, so that a full buffer always has bytes to flush.  Before the *)
(* first buffer every position is 0.                                       *)
OutCore(o) ==
    /\ DOMAIN o = OutFields
    /\ o.blocks \in Seq(Block) /\ o.pend \in Seq(Byte)
    /\ o.buf \in BOOLEAN /\ o.open \in BOOLEAN /\ o.err = NoErr
    /\ o.length \in Nat /\ o.cur \in Nat /\ o.bs \in Nat /\ o.bc \in Nat
    /\ o.pos \in Nat
    /\ o.length <= MaxLength /\ o.pos <= MaxLength
    /\ o.bs < BlockSize /\ o.bs <= o.bc /\ o.bc <= BlockSize
    /\ o.length <= Len(o.blocks) * BlockSize
    /\ o.buf => o.cur < Len(o.blocks) /\ o.pos = o.cur * BlockSize + o.bc
    /\ ~o.buf => o.cur = 0 /\ o.bc = 0 /\ o.bs = 0 /\ o.pos = 0 /\ o.length = 0

(* ... and a write in progress has its rest within the bound, and only   *)
(* after its first activation has set up a buffer.                        *)
OutOK(o) ==
    /\ OutCore(o)
    /\ o.pos + Len(o.pend) <= MaxLength
    /\ o.pend # << >> => o.buf

(* The fields of the reader's record.                                     *)
InFields ==
    {"cur", "buf", "bc", "sent", "pos", "lastBlock", "lastBlockBytes", "open",
     "err", "reading", "want", "got"}

(* What a read in progress has copied: bytes, each with its position.    *)
Taking(g) == g \in Seq(Nat \X Memory)

(* Where bufCur of reader r stands in the file (ReaderAt of r).           *)
AtIn(r) == IF r.buf THEN r.cur * BlockSize + r.bc ELSE 0

(* The layout of a reader of a file of length len: bufCur <= sentinel <=  *)
(* bufEnd; a read in progress has copied at most its size and stays below *)
(* MaxRead; and an open reader's sentinel is the end of a block the file  *)
(* starts in, with what it still has to read inside the file.             *)
InOK(r, len) ==
    /\ DOMAIN r = InFields
    /\ r.buf \in BOOLEAN /\ r.open \in BOOLEAN /\ r.reading \in BOOLEAN
    /\ r.err = NoErrIn
    /\ r.cur \in Nat /\ r.bc \in Nat /\ r.sent \in Nat /\ r.pos \in Nat
    /\ r.lastBlock \in Nat /\ r.want \in Nat
    /\ Taking(r.got)
    /\ r.pos <= MaxRead
    /\ r.bc <= r.sent /\ r.sent <= BlockSize
    /\ r.reading => r.open /\ Len(r.got) <= r.want /\ r.pos + r.want <= MaxRead
    /\ ~r.reading => r.want = 0 /\ r.got = << >>
    /\ r.open =>
          /\ r.lastBlock = LastBlockOf(len)
          /\ ~r.buf => r.cur = 0
          /\ r.buf => r.sent = BlockSize /\ r.cur * BlockSize < len
          /\ AtIn(r) + r.want - Len(r.got) <= len

ResKinds == {"none", "bytes", "exception", "eof", "more", "seek"}

(* The inductive invariant: both streams keep their layout, the reader    *)
(* reads the committed file, and nothing has crashed.                      *)
IInv ==
    /\ OutOK(out)
    /\ InOK(rd, out.length)
    /\ res.kind \in ResKinds
    /\ rd.open => ~out.open /\ out.length > 0

-----------------------------------------------------------------------------
(***************************************************************************)
(* The writer's helpers.                                                   *)
(***************************************************************************)

(* RAMFile::alloc() appends one block of uninitialised memory.            *)
LEMMA AllocOK ==
    ASSUME NEW bs \in Seq(Block)
    PROVE  /\ Alloc(bs) \in Seq(Block)
           /\ Len(Alloc(bs)) = Len(bs) + 1
           /\ \A k \in 1 .. Len(bs) : Alloc(bs)[k] = bs[k]
<1>1. [i \in 0 .. BlockSize - 1 |-> Undef] \in Block
    BY DEF Block, Memory
<1>2. QED
    BY <1>1, AppendProperties DEF Alloc

(* initInternalBuffer() on a writer without a buffer: the first block is  *)
(* allocated and buffered, bufCur at its start, pos where it was.         *)
LEMMA InitBufferOK ==
    ASSUME NEW o, OutCore(o), ~o.buf
    PROVE  /\ OutCore(InitInternalBuffer(o))
           /\ InitInternalBuffer(o).buf /\ InitInternalBuffer(o).bc = 0
           /\ InitInternalBuffer(o).pos = o.pos
           /\ InitInternalBuffer(o).pend = o.pend
           /\ InitInternalBuffer(o).open = o.open
           /\ InitInternalBuffer(o).length = o.length
           /\ InitInternalBuffer(o).blocks = Alloc(o.blocks)
<1> DEFINE o0 == [o EXCEPT !.blocks = Alloc(o.blocks)]
<1>1. /\ Alloc(o.blocks) \in Seq(Block)
      /\ Len(Alloc(o.blocks)) = Len(o.blocks) + 1
    BY AllocOK DEF OutCore
<1>2. /\ DOMAIN o0 = OutFields /\ o0.blocks = Alloc(o.blocks)
      /\ Len(o0.blocks) = Len(o.blocks) + 1
    BY <1>1 DEF OutCore, OutFields
<1>3. SetBlock(o0, 0) = [o0 EXCEPT !.buf = TRUE, !.bs = 0]
    BY <1>2 DEF SetBlock
<1> DEFINE o1 == InitInternalBuffer(o)
<1>4. /\ DOMAIN o1 = OutFields
      /\ o1.blocks = Alloc(o.blocks) /\ o1.buf /\ o1.bs = 0 /\ o1.bc = 0
      /\ o1.cur = o.cur /\ o1.pos = o.pos /\ o1.length = o.length
      /\ o1.pend = o.pend /\ o1.open = o.open /\ o1.err = o.err
    BY <1>2, <1>3 DEF InitInternalBuffer, OutFields
<1>5. QED
    BY <1>1, <1>4, BlockAssumption DEF OutCore


(* Whole blocks: more blocks hold more bytes.                             *)
LEMMA BlocksMono ==
    ASSUME NEW a \in Nat, NEW b \in Nat, a <= b
    PROVE  a * BlockSize <= b * BlockSize
<1>1. b * BlockSize - a * BlockSize = (b - a) * BlockSize
    BY BlockAssumption
<1>2. (b - a) * BlockSize \in Nat
    BY BlockAssumption
<1>3. QED
    BY <1>1, <1>2, BlockAssumption

(* writeImpl() raises length to pos: within the bound and within the      *)
(* blocks, since pos is inside the current block.                          *)
LEMMA RaiseLengthOK ==
    ASSUME NEW o, OutCore(o)
    PROVE  /\ MaxOf(o.length, o.pos) \in Nat
           /\ MaxOf(o.length, o.pos) <= MaxLength
           /\ MaxOf(o.length, o.pos) <= Len(o.blocks) * BlockSize
           /\ o.pos <= Len(o.blocks) * BlockSize
<1>1. o.pos <= Len(o.blocks) * BlockSize
    <2>1. CASE o.buf
        <3>1. o.cur + 1 <= Len(o.blocks) /\ Len(o.blocks) \in Nat
            BY <2>1 DEF OutCore
        <3>2. (o.cur + 1) * BlockSize <= Len(o.blocks) * BlockSize
            BY <3>1, BlocksMono DEF OutCore
        <3>3. QED
            BY <2>1, <3>2, BlockAssumption DEF OutCore
    <2>2. CASE ~o.buf
        BY <2>2, BlockAssumption DEF OutCore
    <2>3. QED
        BY <2>1, <2>2
<1>2. QED
    BY <1>1 DEF OutCore, MaxOf

(* flushNonEmpty() on a buffer that holds bytes: it does not crash, and   *)
(* leaves bufStart = bufCur inside a block that exists, the next one if  *)
(* the current block was full (allocated if it was the last).             *)
LEMMA FlushOK ==
    ASSUME NEW o, OutCore(o), o.buf, o.bs < o.bc
    PROVE  /\ OutCore(FlushNonEmpty(o))
           /\ FlushNonEmpty(o).buf /\ FlushNonEmpty(o).bc < BlockSize
           /\ FlushNonEmpty(o).pos = o.pos
           /\ FlushNonEmpty(o).pend = o.pend
           /\ FlushNonEmpty(o).open = o.open
           /\ FlushNonEmpty(o).length = MaxOf(o.length, o.pos)
           /\ FlushNonEmpty(o).blocks \in {o.blocks, Alloc(o.blocks)}
<1> DEFINE oa == [o EXCEPT !.length = MaxOf(@, o.pos)]
           o1 == FlushNonEmpty(o)
<1>1. Writable(o) # 0
    BY DEF Writable, OutCore
<1>2. /\ DOMAIN oa = OutFields
      /\ oa.length = MaxOf(o.length, o.pos)
      /\ oa.blocks = o.blocks /\ oa.cur = o.cur /\ oa.buf = o.buf
      /\ oa.bs = o.bs /\ oa.bc = o.bc /\ oa.pos = o.pos
      /\ oa.open = o.open /\ oa.err = o.err /\ oa.pend = o.pend
    BY DEF OutCore, OutFields
<1>3. /\ MaxOf(o.length, o.pos) \in Nat
      /\ MaxOf(o.length, o.pos) <= MaxLength
      /\ MaxOf(o.length, o.pos) <= Len(o.blocks) * BlockSize
    BY RaiseLengthOK
<1>4. CASE o.bc = BlockSize
    <2> DEFINE ob == IF oa.cur = Len(oa.blocks) - 1
                     THEN [oa EXCEPT !.blocks = Alloc(@)] ELSE oa
               oc == [ob EXCEPT !.cur = @ + 1]
    <2>1. /\ DOMAIN ob = OutFields
          /\ ob.blocks \in Seq(Block)
          /\ o.cur + 1 < Len(ob.blocks)
          /\ Len(o.blocks) <= Len(ob.blocks)
          /\ ob.length = oa.length /\ ob.cur = oa.cur
          /\ ob.buf = oa.buf /\ ob.bs = oa.bs /\ ob.bc = oa.bc
          /\ ob.pos = oa.pos /\ ob.open = oa.open /\ ob.err = oa.err
          /\ ob.pend = oa.pend
          /\ ob.blocks \in {o.blocks, Alloc(o.blocks)}
        <3>1. CASE o.cur = Len(o.blocks) - 1
            <4>1. ob = [oa EXCEPT !.blocks = Alloc(o.blocks)]
                BY <1>2, <3>1 DEF OutFields
            <4>2. /\ Alloc(o.blocks) \in Seq(Block)
                  /\ Len(Alloc(o.blocks)) = Len(o.blocks) + 1
                BY AllocOK DEF OutCore
            <4>3. QED
                BY <1>2, <3>1, <4>1, <4>2 DEF OutCore, OutFields
        <3>2. CASE o.cur # Len(o.blocks) - 1
            BY <1>2, <3>2 DEF OutCore, OutFields
        <3>3. QED
            BY <3>1, <3>2
    <2>2. /\ DOMAIN oc = OutFields /\ oc.cur = o.cur + 1
          /\ oc.blocks = ob.blocks /\ oc.length = ob.length
          /\ oc.buf = ob.buf /\ oc.bs = ob.bs /\ oc.bc = ob.bc
          /\ oc.pos = ob.pos /\ oc.open = ob.open /\ oc.err = ob.err
          /\ oc.pend = ob.pend
        BY <2>1, <1>2 DEF OutCore, OutFields
    <2>3. WriteImpl(o) = SetBlock(oc, o.cur + 1)
        BY <1>4, <1>2, <2>1 DEF WriteImpl, OutFields
    <2>4. SetBlock(oc, o.cur + 1) = [oc EXCEPT !.buf = TRUE, !.bs = 0]
        BY <2>1, <2>2, <1>2 DEF SetBlock, OutFields
    <2> HIDE DEF oa, ob, oc
    <2>5. o1 = [[oc EXCEPT !.buf = TRUE, !.bs = 0] EXCEPT !.bc = 0]
        <3>1. WriteImpl(o).err = NoErr /\ WriteImpl(o).bs = 0
            <4>1. WriteImpl(o) = [oc EXCEPT !.buf = TRUE, !.bs = 0]
                BY <2>3, <2>4
            <4>2. oc.err = NoErr /\ DOMAIN oc = OutFields
                BY <2>2, <2>1, <1>2 DEF OutCore
            <4>3. QED
                BY <4>1, <4>2 DEF OutFields
        <3>2. QED
            BY <1>1, <2>3, <2>4, <3>1 DEF FlushNonEmpty
    <2>6. /\ DOMAIN o1 = OutFields
          /\ o1.buf /\ o1.bs = 0 /\ o1.bc = 0 /\ o1.cur = o.cur + 1
          /\ o1.blocks = ob.blocks /\ o1.length = MaxOf(o.length, o.pos)
          /\ o1.pos = o.pos /\ o1.pend = o.pend /\ o1.open = o.open
          /\ o1.err = o.err
        BY <2>5, <2>2, <2>1, <1>2 DEF OutFields
    <2>7. o1.length <= Len(o1.blocks) * BlockSize
        <3>1. Len(o.blocks) * BlockSize <= Len(ob.blocks) * BlockSize
            <4>1. Len(o.blocks) \in Nat /\ Len(ob.blocks) \in Nat
                BY <2>1 DEF OutCore
            <4>2. QED
                BY <4>1, <2>1, BlocksMono
        <3>2. QED
            <4>1. o1.length = MaxOf(o.length, o.pos) /\ o1.blocks = ob.blocks
                BY <2>6
            <4>2. Len(o1.blocks) = Len(ob.blocks)
                BY <4>1
            <4>3. Len(o.blocks) \in Nat /\ Len(ob.blocks) \in Nat
                BY <2>1 DEF OutCore
            <4>4. QED
                BY <4>1, <4>2, <4>3, <3>1, <1>3, BlockAssumption
    <2>8. o1.pos = o1.cur * BlockSize + o1.bc
        BY <1>4, <2>6, BlockAssumption DEF OutCore
    <2>9. /\ o1.blocks \in Seq(Block) /\ o1.pend \in Seq(Byte)
          /\ o1.buf \in BOOLEAN /\ o1.open \in BOOLEAN /\ o1.err = NoErr
        BY <2>1, <2>6 DEF OutCore
    <2>10. /\ o1.length \in Nat /\ o1.cur \in Nat /\ o1.bs \in Nat
           /\ o1.bc \in Nat /\ o1.pos \in Nat
           /\ o1.length <= MaxLength /\ o1.pos <= MaxLength
        BY <2>6, <1>3 DEF OutCore
    <2>11. o1.cur < Len(o1.blocks)
        BY <2>1, <2>6
    <2>12. OutCore(o1)
        BY <2>6, <2>7, <2>8, <2>9, <2>10, <2>11, BlockAssumption DEF OutCore
    <2>13. QED
        BY <2>1, <2>6, <2>12, BlockAssumption
<1>5. CASE o.bc # BlockSize
    <2>1. WriteImpl(o) = [oa EXCEPT !.bs = o.bc]
        BY <1>5, <1>2 DEF WriteImpl, OutFields
    <2>2. o1 = [[oa EXCEPT !.bs = o.bc] EXCEPT !.bc = o.bc]
        <3>1. WriteImpl(o).err = NoErr /\ WriteImpl(o).bs = o.bc
            BY <2>1, <1>2 DEF OutFields, OutCore
        <3>2. QED
            BY <1>1, <2>1, <3>1 DEF FlushNonEmpty
    <2>3. /\ DOMAIN o1 = OutFields
          /\ o1.bs = o.bc /\ o1.bc = o.bc
          /\ o1.length = MaxOf(o.length, o.pos)
          /\ o1.blocks = o.blocks /\ o1.cur = o.cur /\ o1.buf = o.buf
          /\ o1.pos = o.pos /\ o1.open = o.open /\ o1.err = o.err
          /\ o1.pend = o.pend
        BY <2>2, <1>2 DEF OutFields
    <2>4. o.bc < BlockSize
        BY <1>5, BlockAssumption DEF OutCore
    <2>5. o1.pos = o1.cur * BlockSize + o1.bc /\ o1.cur < Len(o1.blocks)
        BY <2>3 DEF OutCore
    <2>6. OutCore(o1)
        BY <2>3, <2>4, <2>5, <1>3 DEF OutCore
    <2>7. QED
        BY <2>3, <2>4, <2>6 DEF OutCore
<1>6. QED
    BY <1>4, <1>5


(* copyToBuffer(ptr, size) followed by pos += size, as write() does it.   *)
Copied(o, d) == [CopyToBuffer(o, d) EXCEPT !.pos = @ + Len(d)]

(* copyToBuffer of bytes that fit before bufEnd, then pos += size: the   *)
(* bytes land in the current block and bufCur and pos advance together.  *)
LEMMA CopiedOK ==
    ASSUME NEW o, OutCore(o), o.buf, NEW d \in Seq(Byte),
           o.bc + Len(d) <= BlockSize, o.pos + Len(d) <= MaxLength
    PROVE  /\ OutCore(Copied(o, d))
           /\ Copied(o, d).buf /\ Copied(o, d).bc = o.bc + Len(d)
           /\ Copied(o, d).pos = o.pos + Len(d)
           /\ Copied(o, d).pend = o.pend /\ Copied(o, d).open = o.open
<1> DEFINE k  == o.cur + 1
           nb == [i \in 0 .. BlockSize - 1 |->
                     IF o.bc <= i /\ i < o.bc + Len(d) THEN d[i - o.bc + 1]
                     ELSE o.blocks[k][i]]
           ob == [o EXCEPT !.blocks = [o.blocks EXCEPT ![k] = nb]]
           oc == [ob EXCEPT !.bc = o.bc + Len(d)]
           o1 == Copied(o, d)
<1>1. k \in 1 .. Len(o.blocks) /\ o.blocks[k] \in Block
    BY DEF OutCore
<1>2. nb \in Block
    <2>1. ASSUME NEW i \in 0 .. BlockSize - 1, o.bc <= i, i < o.bc + Len(d)
          PROVE  d[i - o.bc + 1] \in Memory
        <3>0. o.bc \in Nat /\ Len(d) \in Nat
            BY DEF OutCore
        <3>1. i - o.bc + 1 \in 1 .. Len(d)
            BY <2>1, <3>0, BlockAssumption
        <3>2. QED
            BY <3>1 DEF Memory
    <2>2. \A i \in 0 .. BlockSize - 1 : o.blocks[k][i] \in Memory
        BY <1>1 DEF Block
    <2>3. QED
        BY <2>1, <2>2 DEF Block
<1>3. /\ [o.blocks EXCEPT ![k] = nb] \in Seq(Block)
      /\ Len([o.blocks EXCEPT ![k] = nb]) = Len(o.blocks)
    BY <1>1, <1>2, ExceptSeq DEF OutCore
<1>4. CopyToBuffer(o, d) = oc
    BY BlockAssumption DEF CopyToBuffer, Available, OutCore, OutFields
<1> HIDE DEF nb
<1>5. /\ DOMAIN o1 = OutFields
      /\ o1.blocks = [o.blocks EXCEPT ![k] = nb]
      /\ o1.bc = o.bc + Len(d) /\ o1.pos = o.pos + Len(d)
      /\ o1.length = o.length /\ o1.cur = o.cur /\ o1.buf = o.buf
      /\ o1.bs = o.bs /\ o1.open = o.open /\ o1.err = o.err
      /\ o1.pend = o.pend
    BY <1>4 DEF Copied, OutCore, OutFields
<1>6. /\ o1.blocks \in Seq(Block) /\ Len(o1.blocks) = Len(o.blocks)
    BY <1>3, <1>5
<1>7. o1.pos = o1.cur * BlockSize + o1.bc
    <2>1. /\ o.pos = o.cur * BlockSize + o.bc /\ Len(d) \in Nat
          /\ o.cur \in Nat /\ o.bc \in Nat /\ o.pos \in Nat
        BY DEF OutCore
    <2>2. QED
        BY <1>5, <2>1, BlockAssumption
<1>8. o1.cur < Len(o1.blocks) /\ o1.length <= Len(o1.blocks) * BlockSize
    BY <1>5, <1>6 DEF OutCore
<1>9. o1.bc \in Nat /\ o1.pos \in Nat /\ o1.bc <= BlockSize /\ o1.pos <= MaxLength
    BY <1>5 DEF OutCore
<1>10. OutCore(o1)
    BY <1>5, <1>6, <1>7, <1>8, <1>9 DEF OutCore
<1>11. QED
    BY <1>5, <1>10


(* Recording what a write in progress has still to handle changes nothing *)
(* of the layout.                                                          *)
LEMMA PendOK ==
    ASSUME NEW o, OutCore(o), NEW p \in Seq(Byte)
    PROVE  /\ OutCore([o EXCEPT !.pend = p])
           /\ [o EXCEPT !.pend = p].pend = p
           /\ [o EXCEPT !.pend = p].pos = o.pos
           /\ [o EXCEPT !.pend = p].buf = o.buf
           /\ [o EXCEPT !.pend = p].open = o.open
<1> DEFINE o1 == [o EXCEPT !.pend = p]
<1>1. /\ DOMAIN o1 = OutFields /\ o1.pend = p
      /\ o1.blocks = o.blocks /\ o1.length = o.length /\ o1.cur = o.cur
      /\ o1.buf = o.buf /\ o1.bs = o.bs /\ o1.bc = o.bc /\ o1.pos = o.pos
      /\ o1.open = o.open /\ o1.err = o.err
    BY DEF OutCore, OutFields
<1>2. QED
    BY <1>1 DEF OutCore

(* One activation of write(ptr, size) with bytes to write: whatever branch *)
(* it takes, the writer keeps its layout and does not crash (no buffer    *)
(* overrun in copyToBuffer, no empty flush), and what is left pending     *)
(* stays within the bound.                                                 *)
LEMMA WriteIterOK ==
    ASSUME NEW o, OutCore(o), NEW d \in Seq(Byte), d # << >>,
           o.pos + Len(d) <= MaxLength
    PROVE  /\ OutOK(WriteIter(o, d))
           /\ WriteIter(o, d).open = o.open
<1>0. /\ Len(d) \in Nat \ {0} /\ o.bc \in Nat /\ o.pos \in Nat
      /\ o.bc <= BlockSize /\ o.bs < BlockSize
    BY EmptySeq, BlockAssumption DEF OutCore
<1>1. CASE Available(o) < Len(d) /\ ~o.buf
    <2>1. WriteIter(o, d) = [InitInternalBuffer(o) EXCEPT !.pend = d]
        BY <1>1 DEF WriteIter
    <2>2. /\ OutCore(InitInternalBuffer(o))
          /\ InitInternalBuffer(o).buf /\ InitInternalBuffer(o).pos = o.pos
          /\ InitInternalBuffer(o).open = o.open
        BY <1>1, InitBufferOK
    <2>3. QED
        BY <2>1, <2>2, PendOK DEF OutOK
<1>2. CASE Available(o) < Len(d) /\ o.buf
    <2> DEFINE a    == Available(o)
               head == SubSeq(d, 1, a)
               rest == SubSeq(d, a + 1, Len(d))
               o1   == [CopyToBuffer(o, head) EXCEPT !.pos = @ + a]
    <2>1. a = BlockSize - o.bc /\ a \in 0 .. Len(d)
        <3>1. Available(o) = BlockSize - o.bc
            BY <1>2 DEF Available
        <3>2. QED
            BY <3>1, <1>0, <1>2, BlockAssumption
    <2>2. head \in Seq(Byte) /\ Len(head) = a
        BY <2>1, SubSeqProperties
    <2>3. rest \in Seq(Byte) /\ o.pos + a + Len(rest) <= MaxLength
        <3>1. Len(rest) = Len(d) - a
            BY <2>1, <1>0, SubSeqProperties
        <3>2. QED
            BY <2>1, <1>0, <3>1, SubSeqProperties
    <2>4. o1 = Copied(o, head)
        BY <2>2 DEF Copied
    <2> HIDE DEF o1
    <2>5. /\ OutCore(o1) /\ o1.buf /\ o1.bc = BlockSize
          /\ o1.pos = o.pos + a /\ o1.open = o.open
        <3>1. o.bc + Len(head) <= BlockSize /\ o.pos + Len(head) <= MaxLength
            BY <2>1, <2>2, <1>0, BlockAssumption
        <3>2. /\ OutCore(Copied(o, head)) /\ Copied(o, head).buf
              /\ Copied(o, head).bc = o.bc + Len(head)
              /\ Copied(o, head).pos = o.pos + Len(head)
              /\ Copied(o, head).open = o.open
            BY <1>2, <2>2, <3>1, CopiedOK
        <3>3. OutCore(o1) /\ o1.buf /\ o1.open = o.open
            BY <2>4, <3>2
        <3>4. o1.bc = o.bc + a /\ o1.pos = o.pos + a
            BY <2>2, <2>4, <3>2
        <3>5. QED
            BY <2>1, <1>0, <3>3, <3>4, BlockAssumption
    <2>6. o1.bs < o1.bc
        BY <2>5, BlockAssumption DEF OutCore
    <2>7. /\ OutCore(FlushNonEmpty(o1)) /\ FlushNonEmpty(o1).buf
          /\ FlushNonEmpty(o1).pos = o.pos + a
          /\ FlushNonEmpty(o1).open = o.open
        BY <2>5, <2>6, FlushOK
    <2>8. WriteIter(o, d) = [FlushNonEmpty(o1) EXCEPT !.pend = rest]
        BY <1>2 DEF WriteIter, o1
    <2>9. /\ OutCore([FlushNonEmpty(o1) EXCEPT !.pend = rest])
          /\ [FlushNonEmpty(o1) EXCEPT !.pend = rest].pend = rest
          /\ [FlushNonEmpty(o1) EXCEPT !.pend = rest].pos = o.pos + a
          /\ [FlushNonEmpty(o1) EXCEPT !.pend = rest].buf
          /\ [FlushNonEmpty(o1) EXCEPT !.pend = rest].open = o.open
        BY <2>3, <2>7, PendOK
    <2>10. QED
        BY <2>3, <2>8, <2>9 DEF OutOK
<1>3. CASE ~(Available(o) < Len(d))
    <2>1. o.buf /\ o.bc + Len(d) <= BlockSize
        <3>1. o.buf
            <4>1. ~o.buf => Available(o) = 0
                BY DEF Available
            <4>2. QED
                BY <4>1, <1>0, <1>3
        <3>2. Available(o) = BlockSize - o.bc
            BY <3>1 DEF Available
        <3>3. QED
            BY <3>1, <3>2, <1>0, <1>3, BlockAssumption
    <2>2. WriteIter(o, d) = [Copied(o, d) EXCEPT !.pend = << >>]
        BY <1>3 DEF WriteIter, Copied
    <2>3. /\ OutCore(Copied(o, d)) /\ Copied(o, d).open = o.open
          /\ Copied(o, d).pos = o.pos + Len(d)
        BY <2>1, CopiedOK
    <2>4. << >> \in Seq(Byte)
        OBVIOUS
    <2>5. /\ OutCore([Copied(o, d) EXCEPT !.pend = << >>])
          /\ [Copied(o, d) EXCEPT !.pend = << >>].pend = << >>
          /\ [Copied(o, d) EXCEPT !.pend = << >>].pos = o.pos + Len(d)
          /\ [Copied(o, d) EXCEPT !.pend = << >>].open = o.open
        BY <2>3, <2>4, PendOK
    <2>6. QED
        BY <2>2, <2>5, <1>0 DEF OutOK
<1>4. QED
    BY <1>1, <1>2, <1>3


(* writeByte's store at bufCur, then pos++.                               *)
Stored(o, c) ==
    [o EXCEPT !.blocks[o.cur + 1][o.bc] = c, !.bc = @ + 1, !.pos = @ + 1]

(* The store is within the block, since bufCur is below bufEnd.           *)
LEMMA StoreOK ==
    ASSUME NEW o, OutCore(o), o.buf, o.bc < BlockSize, o.pos < MaxLength,
           NEW c \in Byte
    PROVE  /\ OutCore(Stored(o, c)) /\ Stored(o, c).buf
           /\ Stored(o, c).pos = o.pos + 1 /\ Stored(o, c).pend = o.pend
           /\ Stored(o, c).open = o.open
<1> DEFINE k  == o.cur + 1
           nb == [o.blocks[k] EXCEPT ![o.bc] = c]
           nbs == [o.blocks EXCEPT ![k] = nb]
           o1 == Stored(o, c)
<1>1. k \in 1 .. Len(o.blocks) /\ o.blocks[k] \in Block
    BY DEF OutCore
<1>2. nb \in Block
    BY <1>1, BlockAssumption DEF Block, Memory, OutCore
<1>3. nbs \in Seq(Block) /\ Len(nbs) = Len(o.blocks)
    BY <1>1, <1>2, ExceptSeq DEF OutCore
<1> HIDE DEF nb
<1>4. /\ DOMAIN o1 = OutFields
      /\ o1.blocks = nbs /\ o1.bc = o.bc + 1 /\ o1.pos = o.pos + 1
      /\ o1.length = o.length /\ o1.cur = o.cur /\ o1.buf = o.buf
      /\ o1.bs = o.bs /\ o1.open = o.open /\ o1.err = o.err
      /\ o1.pend = o.pend
    BY DEF OutCore, OutFields, nb, Stored
<1> HIDE DEF nbs, o1
<1>5. /\ o.pos = o.cur * BlockSize + o.bc /\ o.cur < Len(o.blocks)
      /\ o.cur \in Nat /\ o.bc \in Nat /\ o.pos \in Nat
    BY DEF OutCore
<1>6. o1.bc = o.bc + 1 /\ o1.pos = o.pos + 1 /\ o1.cur = o.cur
    BY <1>4
<1>7. o1.pos = o1.cur * BlockSize + o1.bc
    BY SMTT(30), <1>6, <1>5, BlockAssumption
<1>8. o1.blocks \in Seq(Block) /\ o1.cur < Len(o1.blocks)
      /\ o1.length <= Len(o1.blocks) * BlockSize
    BY <1>3, <1>4, <1>5 DEF OutCore
<1>9. /\ o1.pend \in Seq(Byte) /\ o1.buf \in BOOLEAN /\ o1.open \in BOOLEAN
      /\ o1.err = NoErr /\ o1.length \in Nat /\ o1.bs \in Nat
      /\ o1.length <= MaxLength /\ o1.bs < BlockSize /\ o1.buf
    <2>1. /\ o1.pend \in Seq(Byte) /\ o1.buf \in BOOLEAN /\ o1.open \in BOOLEAN
          /\ o1.err = NoErr /\ o1.buf
        BY <1>4, Zenon DEF OutCore
    <2>2. /\ o.length \in Nat /\ o.bs \in Nat
          /\ o.length <= MaxLength /\ o.bs < BlockSize
        BY Zenon DEF OutCore
    <2>3. /\ o1.length \in Nat /\ o1.bs \in Nat
          /\ o1.length <= MaxLength /\ o1.bs < BlockSize
        BY <1>4, <2>2
    <2>4. QED
        BY <2>1, <2>3
<1>10. /\ o1.cur \in Nat /\ o1.bc \in Nat /\ o1.pos \in Nat
       /\ o1.pos <= MaxLength /\ o1.bs <= o1.bc /\ o1.bc <= BlockSize
    <2>1. o.bs \in Nat /\ o.bs <= o.bc
        BY Zenon DEF OutCore
    <2>2. QED
        BY <1>6, <1>5, <1>4, <2>1, BlockAssumption
<1>11. OutCore(o1)
    BY <1>4, <1>7, <1>8, <1>9, <1>10 DEF OutCore
<1>12. QED
    BY <1>4, <1>11 DEF o1

(* writeByte(c): the room it makes first (the first buffer, or a flush of  *)
(* a full one) leaves bufCur below bufEnd, so the byte is stored inside    *)
(* the block.                                                              *)
LEMMA WriteByteOK ==
    ASSUME NEW o, OutOK(o), o.pend = << >>, o.pos < MaxLength,
           NEW c \in Byte
    PROVE  /\ OutOK(WriteByteOp(o, c))
           /\ WriteByteOp(o, c).open = o.open
<1> DEFINE o1 == IF Available(o) > 0 THEN o
                 ELSE IF ~o.buf THEN InitInternalBuffer(o) ELSE FlushNonEmpty(o)
<1>1. /\ OutCore(o1) /\ o1.buf /\ o1.bc < BlockSize
      /\ o1.pos = o.pos /\ o1.pend = o.pend /\ o1.open = o.open
    <2>1. CASE Available(o) > 0
        <3>1. o.buf /\ Available(o) = BlockSize - o.bc
            BY <2>1 DEF Available
        <3>2. o.bc < BlockSize /\ o1 = o
            BY <2>1, <3>1, BlockAssumption DEF OutOK, OutCore
        <3>3. QED
            BY <3>1, <3>2 DEF OutOK
    <2>2. CASE ~(Available(o) > 0) /\ ~o.buf
        <3>1. o1 = InitInternalBuffer(o)
            BY <2>2
        <3>2. QED
            BY <3>1, <2>2, InitBufferOK, BlockAssumption DEF OutOK
    <2>3. CASE ~(Available(o) > 0) /\ o.buf
        <3>1. o1 = FlushNonEmpty(o)
            BY <2>3
        <3>2. o.bc = BlockSize /\ o.bs < o.bc
            BY <2>3, BlockAssumption DEF Available, OutOK, OutCore
        <3>3. QED
            BY <3>1, <3>2, <2>3, FlushOK DEF OutOK
    <2>4. QED
        BY <2>1, <2>2, <2>3
<1>2. o1.err = NoErr
    BY <1>1 DEF OutCore
<1>3. WriteByteOp(o, c) = Stored(o1, c)
    BY <1>2 DEF WriteByteOp, Stored
<1> HIDE DEF o1
<1>4. /\ OutCore(Stored(o1, c)) /\ Stored(o1, c).pos = o1.pos + 1
      /\ Stored(o1, c).pend = o1.pend /\ Stored(o1, c).open = o1.open
    BY <1>1, StoreOK
<1>5. o.pos \in Nat /\ WriteByteOp(o, c).pend = << >>
    BY <1>1, <1>3, <1>4 DEF OutOK, OutCore
<1>6. QED
    BY <1>1, <1>3, <1>4, <1>5, BlockAssumption DEF OutOK


(* flush(): flushNonEmpty() only if bufCur != bufStart.                   *)
LEMMA FlushOpOK ==
    ASSUME NEW o, OutOK(o)
    PROVE  /\ OutOK(FlushOp(o)) /\ FlushOp(o).open = o.open
<1>1. CASE o.buf /\ o.bc # o.bs
    <2>1. o.bs < o.bc
        BY <1>1 DEF OutOK, OutCore
    <2>2. /\ OutCore(FlushNonEmpty(o)) /\ FlushNonEmpty(o).buf
          /\ FlushNonEmpty(o).pos = o.pos /\ FlushNonEmpty(o).pend = o.pend
          /\ FlushNonEmpty(o).open = o.open
        BY <1>1, <2>1, FlushOK DEF OutOK
    <2>3. QED
        BY <1>1, <2>2 DEF FlushOp, OutOK
<1>2. CASE ~(o.buf /\ o.bc # o.bs)
    BY <1>2 DEF FlushOp
<1>3. QED
    BY <1>1, <1>2

(* A position at most the capacity of L blocks lies in one of them or at *)
(* the start of the next.                                                  *)
LEMMA BlockAtMost ==
    ASSUME NEW p \in Nat, NEW L \in Nat, p <= L * BlockSize
    PROVE  p \div BlockSize <= L
<1>1. p < (L + 1) * BlockSize
    BY BlockAssumption
<1>2. p \div BlockSize < L + 1
    BY <1>1, BlockBelow
<1>3. QED
    BY <1>2, DivMod

(* seek(s) to a position its assertion lets through: the block of s exists *)
(* or is the one allocated, and bufCur is at s.                           *)
LEMMA SeekOK ==
    ASSUME NEW o, OutOK(o), o.pend = << >>, NEW s \in 0 .. MaxLength,
           s <= MaxOf(o.length, o.pos)
    PROVE  /\ OutOK(SeekOp(o, s)) /\ SeekOp(o, s).open = o.open
           /\ SeekOp(o, s).pos = s
           /\ SeekOp(o, s).length = MaxOf(o.length, o.pos)
           /\ SeekOp(o, s).blocks \in {o.blocks, Alloc(o.blocks)}
<1> DEFINE k  == s \div BlockSize
           o0 == [o EXCEPT !.length = MaxOf(@, o.pos)]
           bl == IF k = Len(o.blocks) THEN Alloc(o.blocks) ELSE o.blocks
           oa == [o0 EXCEPT !.cur = k, !.blocks = bl]
           o1 == [[oa EXCEPT !.buf = TRUE, !.bs = 0] EXCEPT !.bc = s % BlockSize, !.pos = s]
<1>1. /\ MaxOf(o.length, o.pos) \in Nat
      /\ MaxOf(o.length, o.pos) <= MaxLength
      /\ MaxOf(o.length, o.pos) <= Len(o.blocks) * BlockSize
    BY RaiseLengthOK DEF OutOK
<1>2. /\ k \in Nat /\ s % BlockSize \in 0 .. BlockSize - 1
      /\ s = k * BlockSize + (s % BlockSize)
    <2>1. s \in Nat
        OBVIOUS
    <2>2. QED
        BY <2>1, DivMod
<1>3. k <= Len(o.blocks)
    <2>1. s \in Nat /\ Len(o.blocks) \in Nat /\ s <= Len(o.blocks) * BlockSize
        BY <1>1, BlockAssumption DEF OutOK, OutCore
    <2>2. QED
        BY <2>1, BlockAtMost
<1>4. /\ bl \in Seq(Block) /\ k < Len(bl) /\ Len(o.blocks) <= Len(bl)
    <2>1. CASE k = Len(o.blocks)
        BY <2>1, AllocOK DEF OutOK, OutCore
    <2>2. CASE k # Len(o.blocks)
        BY <2>2, <1>2, <1>3 DEF OutOK, OutCore
    <2>3. QED
        BY <2>1, <2>2
<1>5. /\ DOMAIN oa = OutFields /\ oa.cur = k /\ oa.blocks = bl
      /\ oa.length = MaxOf(o.length, o.pos) /\ oa.err = NoErr
    BY DEF OutOK, OutCore, OutFields
<1>6. SeekOp(o, s) = o1
    BY <1>4, <1>5 DEF SeekOp, SetBlock, OutFields
<1>7. /\ DOMAIN o1 = OutFields
      /\ o1.blocks = bl /\ o1.cur = k /\ o1.buf /\ o1.bs = 0
      /\ o1.bc = s % BlockSize /\ o1.pos = s
      /\ o1.length = MaxOf(o.length, o.pos)
      /\ o1.pend = o.pend /\ o1.open = o.open /\ o1.err = NoErr
    BY <1>5 DEF OutOK, OutCore, OutFields
<1> HIDE DEF o1, bl, k
<1>8. o1.length <= Len(o1.blocks) * BlockSize
    <2>1. Len(o.blocks) \in Nat /\ Len(bl) \in Nat
        BY <1>4 DEF OutOK, OutCore
    <2>2. Len(o.blocks) * BlockSize <= Len(bl) * BlockSize
        BY <1>4, <2>1, BlocksMono
    <2>3. QED
        BY <1>1, <1>7, <2>1, <2>2, BlockAssumption
<1>9. /\ o1.blocks \in Seq(Block) /\ o1.pend \in Seq(Byte)
      /\ o1.buf \in BOOLEAN /\ o1.open \in BOOLEAN
      /\ o1.length \in Nat /\ o1.cur \in Nat /\ o1.bs \in Nat
      /\ o1.bc \in Nat /\ o1.pos \in Nat
      /\ o1.length <= MaxLength /\ o1.pos <= MaxLength
      /\ o1.bs < BlockSize /\ o1.bs <= o1.bc /\ o1.bc <= BlockSize
    BY <1>1, <1>2, <1>4, <1>7, BlockAssumption DEF OutOK, OutCore
<1>12. o1.cur < Len(o1.blocks) /\ o1.pos = o1.cur * BlockSize + o1.bc
    BY <1>2, <1>4, <1>7
<1>10. OutCore(o1)
    BY <1>7, <1>8, <1>9, <1>12 DEF OutCore
<1>13. bl \in {o.blocks, Alloc(o.blocks)}
    BY DEF bl
<1>11. QED
    BY <1>6, <1>7, <1>9, <1>10, <1>13 DEF OutOK


-----------------------------------------------------------------------------
(***************************************************************************)
(* The reader's helpers, on the committed file: blocks bl holding its len *)
(* bytes.                                                                  *)
(***************************************************************************)

(* The first position of block q lies in block q.                         *)
LEMMA BlockOfStart ==
    ASSUME NEW q \in Nat
    PROVE  (q * BlockSize) \div BlockSize = q
BY BlockAssumption

(* A block that starts inside the file is below last_block, and is one of *)
(* the file's blocks.                                                      *)
LEMMA StartsInside ==
    ASSUME NEW len \in Nat \ {0}, NEW bl \in Seq(Block),
           len <= Len(bl) * BlockSize,
           NEW q \in Nat, q * BlockSize < len
    PROVE  /\ q < LastBlockOf(len)
           /\ q < Len(bl)
<1>1. (q * BlockSize) \div BlockSize = q
    BY BlockOfStart
<1>2. q * BlockSize \in 0 .. len - 1
    BY BlockAssumption
<1>3. q < LastBlockOf(len)
    BY <1>1, <1>2, SeekNeverLastBlock
<1>4. q * BlockSize < Len(bl) * BlockSize /\ Len(bl) \in Nat
    BY BlockAssumption
<1>5. q < Len(bl)
    BY <1>1, <1>4, BlockBelow, BlockAssumption
<1>6. QED
    BY <1>3, <1>5


(* The file the reader reads: committed blocks holding its len bytes.     *)
FileOK(bl, len) ==
    /\ bl \in Seq(Block) /\ len \in Nat \ {0} /\ len <= Len(bl) * BlockSize

(* The conjuncts of InOK for an open reader, one fact each.               *)
InParts(r, len) ==
    /\ DOMAIN r = InFields /\ r.err = NoErrIn
    /\ r.buf \in BOOLEAN /\ r.open = TRUE /\ r.reading \in BOOLEAN
    /\ r.cur \in Nat /\ r.bc \in Nat /\ r.sent \in Nat /\ r.pos \in Nat
    /\ r.want \in Nat /\ Taking(r.got)
    /\ r.lastBlock \in Nat /\ r.lastBlock = LastBlockOf(len)
    /\ r.pos <= MaxRead /\ r.bc <= r.sent /\ r.sent <= BlockSize
    /\ r.reading => Len(r.got) <= r.want /\ r.pos + r.want <= MaxRead
    /\ ~r.reading => r.want = 0 /\ r.got = << >>
    /\ ~r.buf => r.cur = 0
    /\ r.buf => r.sent = BlockSize /\ r.cur * BlockSize < len
    /\ AtIn(r) + r.want - Len(r.got) <= len

(* InOK of an open reader, from its conjuncts.                           *)
LEMMA InOKIntro ==
    ASSUME NEW r, NEW len, InParts(r, len)
    PROVE  InOK(r, len)
<1> USE DEF InParts
<1>1. /\ DOMAIN r = InFields
      /\ r.buf \in BOOLEAN /\ r.open \in BOOLEAN /\ r.reading \in BOOLEAN
      /\ r.err = NoErrIn
    OBVIOUS
<1>2. /\ r.cur \in Nat /\ r.bc \in Nat /\ r.sent \in Nat /\ r.pos \in Nat
      /\ r.lastBlock \in Nat /\ r.want \in Nat /\ Taking(r.got)
      /\ r.pos <= MaxRead /\ r.bc <= r.sent /\ r.sent <= BlockSize
    OBVIOUS
<1>3. /\ r.reading => r.open /\ Len(r.got) <= r.want /\ r.pos + r.want <= MaxRead
      /\ ~r.reading => r.want = 0 /\ r.got = << >>
    OBVIOUS
<1>4. r.open =>
        /\ r.lastBlock = LastBlockOf(len)
        /\ ~r.buf => r.cur = 0
        /\ r.buf => r.sent = BlockSize /\ r.cur * BlockSize < len
        /\ AtIn(r) + r.want - Len(r.got) <= len
    OBVIOUS
<1>5. QED
    BY <1>1, <1>2, <1>3, <1>4 DEF InOK

(* A reader step that moves bufCur leaves the rest of the reader alone.  *)
Keeps(r1, r) ==
    /\ DOMAIN r1 = InFields
    /\ r1.pos = r.pos /\ r1.lastBlock = r.lastBlock
    /\ r1.lastBlockBytes = r.lastBlockBytes /\ r1.open = r.open
    /\ r1.err = r.err /\ r1.reading = r.reading
    /\ r1.want = r.want /\ r1.got = r.got

(* Where a buffer of a whole block is placed inside the file, and what is *)
(* still to be read from bufCur on fits in it, the reader keeps its       *)
(* layout.                                                                 *)
LEMMA PlaceOK ==
    ASSUME NEW len, NEW r, InOK(r, len), r.open,
           NEW r1, Keeps(r1, r), r1.buf = TRUE,
           r1.cur \in Nat, r1.bc \in Nat, r1.sent = BlockSize,
           r1.bc <= BlockSize, r1.cur * BlockSize < len,
           AtIn(r1) + r.want - Len(r.got) <= len
    PROVE  InOK(r1, len)
<1>1. /\ DOMAIN r1 = InFields /\ r1.err = NoErrIn
      /\ r1.buf \in BOOLEAN /\ r1.open \in BOOLEAN /\ r1.reading \in BOOLEAN
    BY Zenon DEF InOK, Keeps
<1>2. /\ r1.pos \in Nat /\ r1.lastBlock \in Nat /\ r1.want \in Nat
      /\ r1.pos <= MaxRead
    BY DEF InOK, Keeps
<1>3. Taking(r1.got)
    BY Zenon DEF InOK, Keeps
<1>4. r1.bc <= r1.sent /\ r1.sent <= BlockSize /\ r1.sent \in Nat
    BY BlockAssumption
<1>5. /\ r1.reading => r1.open /\ Len(r1.got) <= r1.want /\ r1.pos + r1.want <= MaxRead
      /\ ~r1.reading => r1.want = 0 /\ r1.got = << >>
    BY Zenon DEF InOK, Keeps
<1>6. r1.open =>
        /\ r1.lastBlock = LastBlockOf(len)
        /\ ~r1.buf => r1.cur = 0
        /\ r1.buf => r1.sent = BlockSize /\ r1.cur * BlockSize < len
        /\ AtIn(r1) + r1.want - Len(r1.got) <= len
    BY DEF InOK, Keeps
<1>7. QED
    BY <1>1, <1>2, <1>3, <1>4, <1>5, <1>6 DEF InOK

(* initInternalBuffer() of a reader whose last_block is not 0.            *)
LEMMA InitBufferInShape ==
    ASSUME NEW r, DOMAIN r = InFields, r.lastBlock # 0
    PROVE  /\ Keeps(InitInternalBufferIn(r), r)
           /\ InitInternalBufferIn(r).buf = TRUE
           /\ InitInternalBufferIn(r).cur = r.cur
           /\ InitInternalBufferIn(r).bc = 0
           /\ InitInternalBufferIn(r).sent = BlockSize
BY DEF InitInternalBufferIn, Keeps, InFields

(* fillImpl() moving to a next block that exists and is not last_block.   *)
LEMMA NextBlockShape ==
    ASSUME NEW r, NEW bl, DOMAIN r = InFields, r.buf = TRUE,
           r.cur # r.lastBlock, r.cur + 1 # r.lastBlock, ~(r.cur + 1 >= Len(bl))
    PROVE  /\ FillImpl(r, bl).ok = TRUE
           /\ Keeps(FillImpl(r, bl).r, r)
           /\ FillImpl(r, bl).r.buf = TRUE
           /\ FillImpl(r, bl).r.cur = r.cur + 1
           /\ FillImpl(r, bl).r.bc = 0
           /\ FillImpl(r, bl).r.sent = BlockSize
BY DEF FillImpl, Keeps, InFields

(* eof() with no pending data is !fillImpl().                             *)
LEMMA EofFills ==
    ASSUME NEW r, NEW bl, ~(Readable(r) > 0)
    PROVE  /\ EofOp(r, bl).eof = ~FillImpl(r, bl).ok
           /\ EofOp(r, bl).r = FillImpl(r, bl).r
BY DEF EofOp

(* fillImpl() before the first buffer is initInternalBuffer().            *)
LEMMA FillFirst ==
    ASSUME NEW r, NEW bl, r.buf = FALSE
    PROVE  /\ FillImpl(r, bl).ok = TRUE
           /\ FillImpl(r, bl).r = InitInternalBufferIn(r)
BY DEF FillImpl

(* What eof() leaves when it answers no: a reader in layout, moved only   *)
(* in bufCur's buffer, with bytes to read at the same place in the file.  *)
EofPost(r, r1, len) ==
    /\ InOK(r1, len) /\ Keeps(r1, r) /\ r1.buf = TRUE
    /\ Readable(r1) > 0 /\ AtIn(r1) = AtIn(r)

(* eof() where the file has bytes left, as the callers under the contract *)
(* ask it: it says no, and leaves a buffer with bytes to read at the same  *)
(* place in the file: the first buffer, or the next block, which exists   *)
(* and is not last_block (so fillImpl reads no block past blocks_).      *)
LEMMA EofOK ==
    ASSUME NEW bl, NEW len, FileOK(bl, len),
           NEW r, InOK(r, len), r.open, AtIn(r) < len
    PROVE  /\ EofOp(r, bl).eof = FALSE
           /\ EofPost(r, EofOp(r, bl).r, len)
<1>0. /\ r.lastBlock = LastBlockOf(len) /\ LastBlockOf(len) \in Nat \ {0}
      /\ len \in Nat \ {0} /\ len <= Len(bl) * BlockSize /\ bl \in Seq(Block)
      /\ DOMAIN r = InFields /\ r.buf \in BOOLEAN
    <2>1. len - 1 \in Nat
        BY DEF FileOK
    <2>2. (len - 1) \div BlockSize \in Nat
        BY <2>1, DivMod
    <2>3. QED
        BY <2>2 DEF InOK, LastBlockOf, FileOK
<1>1. /\ r.cur \in Nat /\ r.bc \in Nat /\ r.sent \in Nat
      /\ r.want \in Nat /\ Len(r.got) \in Nat
      /\ r.bc <= r.sent /\ r.sent <= BlockSize
    BY DEF InOK
<1>2. /\ ~r.buf => r.cur = 0
      /\ r.buf => r.sent = BlockSize /\ r.cur * BlockSize < len
      /\ AtIn(r) + r.want - Len(r.got) <= len
    BY DEF InOK
<1> HIDE DEF FileOK
<1>3. CASE Readable(r) > 0
    <2>1. EofOp(r, bl).eof = FALSE /\ EofOp(r, bl).r = r
        BY <1>3 DEF EofOp
    <2>2. r.buf = TRUE
        BY <1>0, <1>3 DEF Readable
    <2>3. EofPost(r, r, len)
        BY <1>0, <1>3, <2>2 DEF EofPost, Keeps
    <2>4. QED
        BY <2>1, <2>3
<1>4. CASE ~(Readable(r) > 0) /\ ~r.buf
    <2> DEFINE r1 == InitInternalBufferIn(r)
    <2>1. r.buf = FALSE
        BY <1>0, <1>4
    <2>2. EofOp(r, bl).eof = FALSE /\ EofOp(r, bl).r = r1
        BY Zenon, <1>4, <2>1, EofFills, FillFirst
    <2>3. /\ Keeps(r1, r) /\ r1.buf = TRUE /\ r1.cur = r.cur /\ r1.bc = 0
          /\ r1.sent = BlockSize
        BY Zenon, <1>0, InitBufferInShape
    <2> HIDE DEF r1
    <2>4. r.cur = 0 /\ AtIn(r) = 0 /\ AtIn(r1) = 0
        BY <1>1, <1>2, <2>1, <2>3, BlockAssumption DEF AtIn
    <2>5. AtIn(r1) + r.want - Len(r.got) <= len
        BY <1>2, <2>4
    <2>6. InOK(r1, len)
        <3>1. r1.cur \in Nat /\ r1.bc \in Nat /\ r1.bc <= BlockSize
              /\ r1.cur * BlockSize < len
            BY <1>0, <1>1, <2>3, <2>4, BlockAssumption
        <3>2. QED
            BY Zenon, <2>3, <2>5, <3>1, PlaceOK
    <2>7. Readable(r1) > 0
        BY <2>3, BlockAssumption DEF Readable
    <2>8. QED
        BY <2>2, <2>3, <2>4, <2>6, <2>7 DEF EofPost
<1>5. CASE ~(Readable(r) > 0) /\ r.buf
    <2> DEFINE q  == r.cur + 1
               r1 == FillImpl(r, bl).r
    <2>1. r.bc = BlockSize /\ r.sent = BlockSize /\ r.cur * BlockSize < len
        BY <1>1, <1>2, <1>5, BlockAssumption DEF Readable
    <2>2. AtIn(r) = q * BlockSize /\ q * BlockSize < len /\ q \in Nat
        BY <1>1, <1>5, <2>1, BlockAssumption DEF AtIn
    <2>3. q < LastBlockOf(len) /\ q < Len(bl)
        BY <1>0, <2>2, StartsInside
    <2>4. r.cur # r.lastBlock /\ q # r.lastBlock /\ ~(q >= Len(bl))
        BY <1>0, <1>1, <2>3
    <2>5. /\ FillImpl(r, bl).ok = TRUE /\ Keeps(r1, r) /\ r1.buf = TRUE
          /\ r1.cur = q /\ r1.bc = 0 /\ r1.sent = BlockSize
        BY Zenon, <1>0, <1>5, <2>4, NextBlockShape
    <2>6. EofOp(r, bl).eof = FALSE /\ EofOp(r, bl).r = r1
        BY Zenon, <1>5, <2>5, EofFills
    <2> HIDE DEF r1
    <2>7. AtIn(r1) = AtIn(r)
        BY <1>1, <2>2, <2>5, BlockAssumption DEF AtIn
    <2>8. AtIn(r1) + r.want - Len(r.got) <= len
        BY <1>2, <2>7
    <2>9. InOK(r1, len)
        <3>1. r1.cur \in Nat /\ r1.bc \in Nat /\ r1.bc <= BlockSize
              /\ r1.cur * BlockSize < len
            BY <2>2, <2>5, BlockAssumption
        <3>2. QED
            BY Zenon, <2>5, <2>8, <3>1, PlaceOK
    <2>10. Readable(r1) > 0
        BY <2>5, BlockAssumption DEF Readable
    <2>11. QED
        BY <2>5, <2>6, <2>7, <2>9, <2>10 DEF EofPost
<1>6. QED
    BY Zenon, <1>0, <1>3, <1>4, <1>5

-----------------------------------------------------------------------------
(***************************************************************************)
(* The reader's calls under the contract.                                  *)
(***************************************************************************)

(* readByte() inside the file: eof() says no, and the byte taken is below *)
(* the sentinel, so bufCur stays within the block.                        *)
LEMMA ReadByteOK ==
    ASSUME NEW bl, NEW len, FileOK(bl, len),
           NEW r, InOK(r, len), r.open, ~r.reading, r.pos < MaxRead,
           AtIn(r) < len
    PROVE  /\ InOK(ReadByteOp(r, bl).r, len)
           /\ ReadByteOp(r, bl).r.open = TRUE
           /\ ReadByteOp(r, bl).res.kind = "bytes"
<1> DEFINE r1 == EofOp(r, bl).r
           r2 == [r1 EXCEPT !.bc = @ + 1, !.pos = @ + 1]
<1>1. EofOp(r, bl).eof = FALSE /\ EofPost(r, r1, len)
    BY Zenon, EofOK
<1>2. /\ DOMAIN r1 = InFields /\ r1.err = NoErrIn /\ r1.buf = TRUE
      /\ r1.cur \in Nat /\ r1.bc \in Nat /\ r1.sent \in Nat /\ r1.pos \in Nat
      /\ r1.bc < r1.sent /\ r1.sent = BlockSize /\ r1.cur * BlockSize < len
      /\ AtIn(r1) = AtIn(r) /\ r1.pos = r.pos /\ r1.open = TRUE
      /\ r1.reading = FALSE /\ r1.want = 0 /\ r1.got = << >>
      /\ r1.lastBlock = LastBlockOf(len)
    <2>1. /\ InOK(r1, len) /\ Keeps(r1, r) /\ r1.buf = TRUE
          /\ Readable(r1) > 0 /\ AtIn(r1) = AtIn(r)
        BY <1>1 DEF EofPost
    <2>2. r.want = 0 /\ r.got = << >> /\ r.open = TRUE /\ r.reading = FALSE
        BY DEF InOK
    <2> HIDE DEF r1
    <2>3. /\ DOMAIN r1 = InFields /\ r1.pos = r.pos /\ r1.open = TRUE
          /\ r1.reading = FALSE /\ r1.want = 0 /\ r1.got = << >>
        BY <2>1, <2>2 DEF Keeps
    <2>4. /\ r1.err = NoErrIn
          /\ r1.cur \in Nat /\ r1.bc \in Nat /\ r1.sent \in Nat /\ r1.pos \in Nat
          /\ r1.sent = BlockSize /\ r1.cur * BlockSize < len
          /\ r1.lastBlock = LastBlockOf(len)
        BY <2>1, <2>3 DEF InOK
    <2>5. r1.bc < r1.sent
        BY <2>1, <2>4 DEF Readable
    <2>6. QED
        BY <2>1, <2>3, <2>4, <2>5
<1>3. /\ ReadByteOp(r, bl).r = r2
      /\ ReadByteOp(r, bl).res.kind = "bytes"
    BY <1>1, <1>2 DEF ReadByteOp, Result
<1>4. /\ DOMAIN r2 = InFields /\ r2.err = NoErrIn /\ r2.buf = TRUE
      /\ r2.cur = r1.cur /\ r2.bc = r1.bc + 1 /\ r2.sent = r1.sent
      /\ r2.pos = r1.pos + 1 /\ r2.open = TRUE /\ r2.reading = FALSE
      /\ r2.want = 0 /\ r2.got = << >> /\ r2.lastBlock = r1.lastBlock
    BY <1>2
<1> HIDE DEF r1, r2
<1>5. AtIn(r2) = AtIn(r) + 1
    BY <1>2, <1>4 DEF AtIn
<1>6. r.pos \in Nat /\ MaxRead \in Nat /\ AtIn(r) \in Nat
    BY InputAssumption, BlockAssumption DEF InOK, AtIn
<1>7. InOK(r2, len)
    <2>1. Taking(r2.got) /\ Len(r2.got) = 0
        BY <1>4, EmptySeq DEF Taking
    <2>2. r2.lastBlock \in Nat /\ r2.lastBlock = LastBlockOf(len)
        BY <1>2, <1>4 DEF InOK
    <2>3. /\ r2.bc \in Nat /\ r2.pos \in Nat /\ r2.sent \in Nat
          /\ r2.bc <= r2.sent /\ r2.sent = BlockSize /\ r2.pos <= MaxRead
          /\ r2.cur \in Nat /\ r2.cur * BlockSize < len
          /\ AtIn(r2) + r2.want - Len(r2.got) <= len /\ r2.want \in Nat
        <3>1. len \in Nat
            BY DEF FileOK
        <3>2. QED
            BY SMTT(30), <1>2, <1>4, <1>5, <1>6, <2>1, <3>1, BlockAssumption
    <2>4. /\ r2.reading \in BOOLEAN
          /\ r2.reading => Len(r2.got) <= r2.want /\ r2.pos + r2.want <= MaxRead
          /\ ~r2.reading => r2.want = 0 /\ r2.got = << >>
          /\ r2.buf \in BOOLEAN /\ ~r2.buf => r2.cur = 0
          /\ r2.buf => r2.sent = BlockSize /\ r2.cur * BlockSize < len
        BY Zenon, <1>4, <2>3
    <2>7. r2.sent <= BlockSize
        BY <2>3, BlockAssumption
    <2>5. InParts(r2, len)
        BY <1>4, <2>1, <2>2, <2>3, <2>4, <2>7 DEF InParts
    <2>6. QED
        BY <2>5, InOKIntro
<1>8. QED
    BY <1>3, <1>4, <1>7

(* The bytes one iteration of read's loop copies: the k bytes from bufCur *)
(* on, each with its position in the file.                                *)
Chunk(r, bl, k) == [i \in 1 .. k |-> Taken(r, bl, i - 1)]

(* The copy of k bytes from the buffer into the caller's memory.          *)
CopyIn(r, bl, k) == [r EXCEPT !.bc = @ + k, !.got = @ \o Chunk(r, bl, k)]

(* The k bytes from bufCur on are in the block, which exists: a sequence  *)
(* of k positioned bytes.                                                  *)
LEMMA ChunkOK ==
    ASSUME NEW bl \in Seq(Block), NEW r, r.cur \in Nat, r.bc \in Nat,
           r.cur < Len(bl), NEW k \in Nat, r.bc + k <= BlockSize
    PROVE  Chunk(r, bl, k) \in Seq(Nat \X Memory) /\ Len(Chunk(r, bl, k)) = k
<1>1. bl[r.cur + 1] \in [0 .. BlockSize - 1 -> Memory]
    <2>1. r.cur + 1 \in 1 .. Len(bl)
        BY LenProperties
    <2>2. QED
        BY <2>1, ElementOfSeq DEF Block
<1>2. \A i \in 1 .. k : Taken(r, bl, i - 1) \in Nat \X Memory
    <2> SUFFICES ASSUME NEW i \in 1 .. k
                 PROVE  Taken(r, bl, i - 1) \in Nat \X Memory
        OBVIOUS
    <2>1. r.bc + (i - 1) \in 0 .. BlockSize - 1
        BY BlockAssumption
    <2>2. bl[r.cur + 1][r.bc + (i - 1)] \in Memory
        BY <1>1, <2>1
    <2>3. r.cur * BlockSize + r.bc + (i - 1) \in Nat
        BY BlockAssumption
    <2>4. QED
        BY <2>2, <2>3 DEF Taken
<1>3. Chunk(r, bl, k) \in [1 .. k -> Nat \X Memory]
    BY <1>2 DEF Chunk
<1>4. QED
    BY <1>3, SeqDef DEF Chunk

(* One copy of read's loop keeps the layout: at most what the buffer      *)
(* holds and what the call still wants, so bufCur stays below the        *)
(* sentinel and the bytes copied stay within the size.                    *)
LEMMA CopyOK ==
    ASSUME NEW bl, NEW len, FileOK(bl, len),
           NEW r, InOK(r, len), r.open, r.reading, r.buf = TRUE,
           NEW k \in Nat \ {0}, r.bc + k <= r.sent, Len(r.got) + k <= r.want
    PROVE  /\ InOK(CopyIn(r, bl, k), len)
           /\ CopyIn(r, bl, k).open = TRUE
           /\ CopyIn(r, bl, k).reading = TRUE
<1> DEFINE r2 == CopyIn(r, bl, k)
<1>1. /\ r.cur \in Nat /\ r.bc \in Nat /\ r.sent = BlockSize /\ r.pos \in Nat
      /\ r.want \in Nat /\ Taking(r.got) /\ r.cur * BlockSize < len
      /\ r.lastBlock \in Nat /\ r.lastBlock = LastBlockOf(len)
      /\ r.pos + r.want <= MaxRead /\ r.pos <= MaxRead
      /\ AtIn(r) + r.want - Len(r.got) <= len
      /\ DOMAIN r = InFields
    BY DEF InOK
<1>2. /\ r.err = NoErrIn /\ r.open = TRUE /\ r.reading = TRUE
      /\ r.buf = TRUE
    BY Zenon DEF InOK
<1>3. len \in Nat /\ bl \in Seq(Block) /\ len <= Len(bl) * BlockSize
    BY DEF FileOK
<1>4. r.cur < Len(bl)
    <2>1. len \in Nat \ {0}
        BY DEF FileOK
    <2>2. QED
        BY <1>1, <1>3, <2>1, StartsInside
<1>5. Chunk(r, bl, k) \in Seq(Nat \X Memory) /\ Len(Chunk(r, bl, k)) = k
    BY <1>1, <1>3, <1>4, ChunkOK
<1>6. r.got \o Chunk(r, bl, k) \in Seq(Nat \X Memory)
      /\ Len(r.got \o Chunk(r, bl, k)) = Len(r.got) + k
    <2>1. r.got \in Seq(Nat \X Memory)
        BY <1>1 DEF Taking
    <2>2. /\ r.got \o Chunk(r, bl, k) \in Seq(Nat \X Memory)
          /\ Len(r.got \o Chunk(r, bl, k)) = Len(r.got) + Len(Chunk(r, bl, k))
        BY ZenonT(40), <1>5, <2>1, ConcatProperties
    <2>3. QED
        BY <1>5, <2>2
<1>7. /\ DOMAIN r2 = InFields /\ r2.bc = r.bc + k
      /\ r2.got = r.got \o Chunk(r, bl, k)
      /\ r2.cur = r.cur /\ r2.sent = r.sent /\ r2.pos = r.pos
      /\ r2.want = r.want /\ r2.lastBlock = r.lastBlock
      /\ r2.err = r.err /\ r2.open = r.open /\ r2.reading = r.reading
      /\ r2.buf = r.buf
    BY <1>1 DEF CopyIn, InFields
<1>8. r2.err = NoErrIn /\ r2.open = TRUE /\ r2.reading = TRUE
      /\ r2.buf = TRUE
    BY Zenon, <1>2, <1>7
<1> HIDE DEF r2
<1>9. AtIn(r2) = AtIn(r) + k
    BY <1>1, <1>2, <1>7, <1>8, BlockAssumption DEF AtIn
<1>10. /\ r2.cur \in Nat /\ r2.bc \in Nat /\ r2.sent \in Nat /\ r2.pos \in Nat
       /\ r2.want \in Nat /\ Taking(r2.got)
       /\ r2.lastBlock \in Nat /\ r2.lastBlock = LastBlockOf(len)
       /\ r2.pos <= MaxRead /\ r2.bc <= r2.sent /\ r2.sent <= BlockSize
       /\ Len(r2.got) <= r2.want /\ r2.pos + r2.want <= MaxRead
       /\ r2.sent = BlockSize /\ r2.cur * BlockSize < len
       /\ AtIn(r2) + r2.want - Len(r2.got) <= len
    <2>1. Taking(r2.got) /\ Len(r2.got) = Len(r.got) + k
        BY Zenon, <1>6, <1>7 DEF Taking
    <2>2. Len(r.got) \in Nat
        BY Zenon, <1>1, LenProperties DEF Taking
    <2>3. /\ r2.cur \in Nat /\ r2.bc \in Nat /\ r2.sent \in Nat /\ r2.pos \in Nat
          /\ r2.want \in Nat /\ r2.lastBlock \in Nat
          /\ r2.lastBlock = LastBlockOf(len) /\ r2.sent = BlockSize
        <3>1. r2.lastBlock = LastBlockOf(len) /\ r2.sent = BlockSize
              /\ r2.lastBlock \in Nat /\ r2.cur = r.cur /\ r2.pos = r.pos
              /\ r2.want = r.want
            BY Zenon, <1>1, <1>7
        <3>2. r2.bc \in Nat
            BY <1>1, <1>7
        <3>3. QED
            BY <1>1, <3>1, <3>2, BlockAssumption
    <2>4. /\ r2.pos <= MaxRead /\ r2.bc <= r2.sent /\ r2.sent <= BlockSize
          /\ r2.pos + r2.want <= MaxRead /\ r2.cur * BlockSize < len
        BY <1>1, <1>7, <2>3, BlockAssumption
    <2>5. Len(r2.got) <= r2.want
        BY <1>1, <1>7, <2>1, <2>2
    <2>6. AtIn(r2) + r2.want - Len(r2.got) <= len
        <3>1. AtIn(r) = r.cur * BlockSize + r.bc
            BY Zenon, <1>2 DEF AtIn
        <3>2. AtIn(r) \in Nat
            <4>1. r.cur \in Nat /\ r.bc \in Nat
                BY <1>1
            <4>2. r.cur * BlockSize + r.bc \in Nat
                BY <4>1, BlockAssumption
            <4>3. QED
                BY <3>1, <4>2
        <3>3. QED
            BY <1>1, <1>3, <1>7, <1>9, <2>1, <2>2, <3>2
    <2>7. QED
        BY <2>1, <2>3, <2>4, <2>5, <2>6
<1>11. /\ r2.buf \in BOOLEAN /\ r2.reading \in BOOLEAN
       /\ r2.reading => Len(r2.got) <= r2.want /\ r2.pos + r2.want <= MaxRead
       /\ ~r2.reading => r2.want = 0 /\ r2.got = << >>
       /\ ~r2.buf => r2.cur = 0
       /\ r2.buf => r2.sent = BlockSize /\ r2.cur * BlockSize < len
    BY Zenon, <1>8, <1>10
<1>12. InParts(r2, len)
    BY <1>7, <1>8, <1>10, <1>11 DEF InParts
<1>13. QED
    BY <1>8, <1>12, InOKIntro DEF r2

(* The exit of read(ptr, size) once it has copied all it was asked for:  *)
(* pos moves past the bytes copied, and the call returns them.            *)
LEMMA DoneOK ==
    ASSUME NEW len, NEW r, InOK(r, len), r.reading, Len(r.got) >= r.want
    PROVE  /\ InOK(ReadDone(r).r, len)
           /\ ReadDone(r).r.open = TRUE
           /\ ReadDone(r).res.kind = "bytes"
<1> DEFINE r2 == ReadDone(r).r
<1>1. /\ r.open = TRUE /\ r.reading = TRUE /\ r.err = NoErrIn
      /\ r.buf \in BOOLEAN /\ DOMAIN r = InFields
    BY Zenon DEF InOK
<1>2. /\ r.cur \in Nat /\ r.bc \in Nat /\ r.sent \in Nat /\ r.pos \in Nat
      /\ r.want \in Nat /\ r.lastBlock \in Nat
      /\ r.lastBlock = LastBlockOf(len)
      /\ r.bc <= r.sent /\ r.sent <= BlockSize
      /\ r.pos + r.want <= MaxRead /\ Len(r.got) <= r.want
      /\ AtIn(r) + r.want - Len(r.got) <= len
    BY <1>1 DEF InOK
<1>3. /\ ~r.buf => r.cur = 0
      /\ r.buf => r.sent = BlockSize /\ r.cur * BlockSize < len
    BY <1>1 DEF InOK
<1>4. /\ DOMAIN r2 = InFields /\ r2.pos = r.pos + Len(r.got)
      /\ r2.want = 0 /\ r2.got = << >>
      /\ r2.cur = r.cur /\ r2.bc = r.bc /\ r2.sent = r.sent
      /\ r2.lastBlock = r.lastBlock
    BY <1>1 DEF ReadDone, InFields
<1>5. /\ r2.err = NoErrIn /\ r2.open = TRUE /\ r2.reading = FALSE
      /\ r2.buf = r.buf
    BY Zenon, <1>1 DEF ReadDone, InFields
<1>6. ReadDone(r).res.kind = "bytes"
    BY DEF ReadDone, Result
<1> HIDE DEF r2
<1>7. Len(r.got) = r.want
    BY <1>2
<1>8. AtIn(r2) = AtIn(r)
    BY <1>4, <1>5 DEF AtIn
<1>9. /\ r2.cur \in Nat /\ r2.bc \in Nat /\ r2.sent \in Nat /\ r2.pos \in Nat
      /\ r2.want \in Nat /\ r2.lastBlock \in Nat
      /\ r2.lastBlock = LastBlockOf(len)
      /\ r2.pos <= MaxRead /\ r2.bc <= r2.sent /\ r2.sent <= BlockSize
    BY <1>2, <1>4, <1>7
<1>10. AtIn(r2) + r2.want - Len(r2.got) <= len
    <2>1. AtIn(r) \in Int
        BY <1>2, BlockAssumption DEF AtIn
    <2>2. QED
        BY <1>2, <1>4, <1>7, <1>8, <2>1, EmptySeq
<1>11. Taking(r2.got)
    BY <1>4, EmptySeq DEF Taking
<1>12. /\ r2.buf \in BOOLEAN /\ r2.reading \in BOOLEAN
       /\ r2.reading => Len(r2.got) <= r2.want /\ r2.pos + r2.want <= MaxRead
       /\ ~r2.reading => r2.want = 0 /\ r2.got = << >>
       /\ ~r2.buf => r2.cur = 0
       /\ r2.buf => r2.sent = BlockSize /\ r2.cur * BlockSize < len
    BY Zenon, <1>1, <1>3, <1>4, <1>5
<1>13. InParts(r2, len)
    BY <1>4, <1>5, <1>9, <1>10, <1>11, <1>12 DEF InParts
<1>14. QED
    BY <1>5, <1>6, <1>13, InOKIntro DEF r2

(* One iteration of read's loop under the contract (the read stays in    *)
(* the file): the exit once all is copied, else eof() says no and a copy  *)
(* of what the buffer holds, at most what is still wanted.  It never      *)
(* crashes, and what it returns is the read's bytes or nothing.           *)
LEMMA ReadIterOK ==
    ASSUME NEW bl, NEW len, FileOK(bl, len), NEW r, InOK(r, len), r.reading
    PROVE  /\ InOK(ReadIterOp(r, bl).r, len)
           /\ ReadIterOp(r, bl).r.open = TRUE
           /\ \/ ReadIterOp(r, bl).res = res
              \/ ReadIterOp(r, bl).res.kind = "bytes"
<1>1. CASE Len(r.got) >= r.want
    <2>1. ReadIterOp(r, bl) = ReadDone(r)
        BY <1>1 DEF ReadIterOp
    <2>2. QED
        BY <1>1, <2>1, DoneOK
<1>2. CASE ~(Len(r.got) >= r.want)
    <2> DEFINE r1 == EofOp(r, bl).r
               k  == MinOf(Readable(r1), r.want - Len(r.got))
    <2>1. r.open = TRUE /\ r.reading = TRUE
        BY Zenon DEF InOK
    <2>2. /\ r.want \in Nat /\ Len(r.got) \in Nat /\ len \in Nat
          /\ AtIn(r) \in Nat /\ AtIn(r) + r.want - Len(r.got) <= len
        <3>1. r.got \in Seq(Nat \X Memory)
            BY DEF InOK, Taking
        <3>2. Len(r.got) \in Nat
            BY Zenon, <3>1, LenProperties
        <3>3. r.cur \in Nat /\ r.bc \in Nat /\ r.buf \in BOOLEAN
            BY DEF InOK
        <3>4. AtIn(r) \in Nat
            BY <3>3, BlockAssumption DEF AtIn
        <3>5. QED
            BY <3>2, <3>4 DEF InOK, FileOK
    <2>3. AtIn(r) < len
        BY <1>2, <2>2
    <2>4. EofOp(r, bl).eof = FALSE /\ EofPost(r, r1, len)
        BY Zenon, <2>1, <2>3, EofOK
    <2>5. /\ InOK(r1, len) /\ r1.buf = TRUE /\ Readable(r1) > 0
          /\ r1.err = NoErrIn /\ r1.open = TRUE /\ r1.reading = TRUE
          /\ r1.want = r.want /\ r1.got = r.got
        <3>1. InOK(r1, len) /\ Keeps(r1, r) /\ r1.buf = TRUE /\ Readable(r1) > 0
            BY <2>4 DEF EofPost
        <3>2. r1.err = NoErrIn
            BY <3>1 DEF InOK
        <3>3. QED
            BY Zenon, <2>1, <3>1, <3>2 DEF Keeps
    <2>6. /\ ReadIterOp(r, bl).r = CopyIn(r1, bl, k)
          /\ ReadIterOp(r, bl).res = res
        BY <1>2, <2>4, <2>5 DEF ReadIterOp, CopyIn, Chunk
    <2> HIDE DEF r1
    <2>7. /\ k \in Nat \ {0} /\ r1.bc + k <= r1.sent
          /\ Len(r1.got) + k <= r1.want
        <3>1. r1.bc \in Nat /\ r1.sent \in Nat
            BY <2>5 DEF InOK
        <3>2. Readable(r1) = r1.sent - r1.bc
            BY Zenon, <2>5 DEF Readable
        <3>3. QED
            BY SMTT(30), <1>2, <2>2, <2>5, <3>1, <3>2 DEF MinOf
    <2> HIDE DEF k
    <2>8. /\ InOK(CopyIn(r1, bl, k), len)
          /\ CopyIn(r1, bl, k).open = TRUE
        BY <2>5, <2>7, CopyOK
    <2>9. QED
        BY <2>6, <2>8
<1>3. QED
    BY <1>1, <1>2

(* read(ptr, n) called on a reader whose next n bytes are in the file.   *)
Started(r, n) == [r EXCEPT !.reading = TRUE, !.want = n, !.got = << >>]

LEMMA StartOK ==
    ASSUME NEW len, NEW r, InOK(r, len), r.open, ~r.reading,
           NEW n \in Nat, r.pos + n <= MaxRead, AtIn(r) + n <= len
    PROVE  InOK(Started(r, n), len) /\ Started(r, n).open = TRUE
<1> DEFINE r2 == Started(r, n)
<1>1. /\ r.open = TRUE /\ r.reading = FALSE /\ r.err = NoErrIn
      /\ r.buf \in BOOLEAN /\ DOMAIN r = InFields
    BY Zenon DEF InOK
<1>2. /\ r.cur \in Nat /\ r.bc \in Nat /\ r.sent \in Nat /\ r.pos \in Nat
      /\ r.lastBlock \in Nat /\ r.lastBlock = LastBlockOf(len)
      /\ r.bc <= r.sent /\ r.sent <= BlockSize /\ r.pos <= MaxRead
    BY <1>1 DEF InOK
<1>3. /\ ~r.buf => r.cur = 0
      /\ r.buf => r.sent = BlockSize /\ r.cur * BlockSize < len
    BY <1>1 DEF InOK
<1>4. /\ DOMAIN r2 = InFields /\ r2.want = n /\ r2.got = << >>
      /\ r2.cur = r.cur /\ r2.bc = r.bc /\ r2.sent = r.sent /\ r2.pos = r.pos
      /\ r2.lastBlock = r.lastBlock
    BY <1>1 DEF Started, InFields
<1>5. /\ r2.err = NoErrIn /\ r2.open = TRUE /\ r2.reading = TRUE
      /\ r2.buf = r.buf
    BY Zenon, <1>1 DEF Started, InFields
<1> HIDE DEF r2
<1>6. AtIn(r2) = AtIn(r)
    BY <1>4, <1>5 DEF AtIn
<1>7. Taking(r2.got) /\ Len(r2.got) = 0
    BY <1>4, EmptySeq DEF Taking
<1>8. /\ r2.cur \in Nat /\ r2.bc \in Nat /\ r2.sent \in Nat /\ r2.pos \in Nat
      /\ r2.want \in Nat /\ r2.lastBlock \in Nat
      /\ r2.lastBlock = LastBlockOf(len)
      /\ r2.pos <= MaxRead /\ r2.bc <= r2.sent /\ r2.sent <= BlockSize
      /\ Len(r2.got) <= r2.want /\ r2.pos + r2.want <= MaxRead
      /\ AtIn(r2) + r2.want - Len(r2.got) <= len
    BY <1>2, <1>4, <1>6, <1>7, InputAssumption
<1>9. /\ r2.buf \in BOOLEAN /\ r2.reading \in BOOLEAN
      /\ r2.reading => Len(r2.got) <= r2.want /\ r2.pos + r2.want <= MaxRead
      /\ ~r2.reading => r2.want = 0 /\ r2.got = << >>
      /\ ~r2.buf => r2.cur = 0
      /\ r2.buf => r2.sent = BlockSize /\ r2.cur * BlockSize < len
    BY Zenon, <1>1, <1>3, <1>4, <1>5, <1>8
<1>10. InParts(r2, len)
    BY <1>4, <1>5, <1>7, <1>8, <1>9 DEF InParts
<1>11. QED
    BY <1>5, <1>10, InOKIntro DEF r2

(* seek(s) to a position inside the file: the assertion holds, and the    *)
(* block of s is never last_block (SeekNeverLastBlock), so the sentinel   *)
(* is the block's end and bufCur stands at s.                              *)
LEMMA SeekInOK ==
    ASSUME NEW len \in Nat \ {0}, NEW r, InOK(r, len), r.open, ~r.reading,
           NEW s \in 0 .. len - 1
    PROVE  /\ InOK(SeekInOp(r, len, s), len)
           /\ SeekInOp(r, len, s).open = TRUE
           /\ SeekInOp(r, len, s).err = NoErrIn
<1> DEFINE q  == s \div BlockSize
           r1 == SeekInOp(r, len, s)
<1>1. /\ r.open = TRUE /\ r.reading = FALSE /\ r.err = NoErrIn
      /\ DOMAIN r = InFields
    BY Zenon DEF InOK
<1>2. r.lastBlock = LastBlockOf(len) /\ r.want = 0 /\ r.got = << >>
    BY <1>1 DEF InOK
<1>3. /\ q \in Nat /\ s % BlockSize \in 0 .. BlockSize - 1
      /\ s = q * BlockSize + (s % BlockSize)
    BY DivMod
<1>4. q < LastBlockOf(len) /\ q # r.lastBlock
    <2>1. q < LastBlockOf(len)
        BY SeekNeverLastBlock
    <2>2. LastBlockOf(len) \in Nat
        BY DivMod DEF LastBlockOf
    <2>3. QED
        BY <1>2, <1>3, <2>1, <2>2
<1>0. ~(s >= len)
    OBVIOUS
<1>5. /\ r1.cur = q /\ r1.bc = s % BlockSize /\ r1.sent = BlockSize
      /\ r1.buf = TRUE
    BY <1>0, <1>1, <1>4 DEF SeekInOp, InFields
<1>6. Keeps(r1, r)
    <2>1. /\ DOMAIN r1 = InFields /\ r1.pos = r.pos /\ r1.lastBlock = r.lastBlock
          /\ r1.lastBlockBytes = r.lastBlockBytes /\ r1.err = r.err
          /\ r1.want = r.want /\ r1.got = r.got
        BY <1>0, <1>1 DEF SeekInOp, InFields
    <2>2. r1.open = r.open /\ r1.reading = r.reading
        BY <1>0, <1>1 DEF SeekInOp, InFields
    <2>3. QED
        BY <2>1, <2>2 DEF Keeps
<1>7. r1.err = NoErrIn /\ r1.open = TRUE
    BY Zenon, <1>1, <1>6 DEF Keeps
<1> HIDE DEF r1
<1>8. AtIn(r1) = s
    BY <1>3, <1>5 DEF AtIn
<1>12. r1.cur = q /\ r1.bc = s % BlockSize
    BY <1>5, Zenon
<1>13. r.want = 0 /\ Len(r.got) = 0
    BY <1>2, EmptySeq
<1>9. /\ r1.cur \in Nat /\ r1.bc \in Nat /\ r1.bc <= BlockSize
      /\ r1.cur * BlockSize < len
      /\ AtIn(r1) + r.want - Len(r.got) <= len
    BY <1>3, <1>8, <1>12, <1>13, BlockAssumption
<1>10. InOK(r1, len)
    BY Zenon, <1>5, <1>6, <1>9, PlaceOK
<1>11. QED
    BY <1>7, <1>10 DEF r1

(* An open reader's layout depends on the file only while it is open.    *)
LEMMA ClosedAnyLen ==
    ASSUME NEW l1, NEW l2, NEW r, InOK(r, l1), ~r.open
    PROVE  InOK(r, l2)
BY DEF InOK

(* The reader's destructor: a reader with no read in progress closes.    *)
LEMMA CloseInOK ==
    ASSUME NEW len, NEW l2, NEW r, InOK(r, len), ~r.reading
    PROVE  InOK([r EXCEPT !.open = FALSE], l2)
           /\ [r EXCEPT !.open = FALSE].open = FALSE
<1> DEFINE r2 == [r EXCEPT !.open = FALSE]
<1>1. DOMAIN r = InFields /\ r.reading = FALSE
    BY Zenon DEF InOK
<1>2. /\ DOMAIN r2 = InFields /\ r2.open = FALSE /\ r2.reading = FALSE
      /\ r2.buf = r.buf /\ r2.err = r.err /\ r2.cur = r.cur /\ r2.bc = r.bc
      /\ r2.sent = r.sent /\ r2.pos = r.pos /\ r2.lastBlock = r.lastBlock
      /\ r2.want = r.want /\ r2.got = r.got
    BY Zenon, <1>1 DEF InFields
<1> HIDE DEF r2
<1>3. InOK(r2, l2)
    BY Zenon, <1>2 DEF InOK
<1>4. QED
    BY <1>2, <1>3 DEF r2

(* The constructor on a non-empty file.                                   *)
LEMMA OpenOK ==
    ASSUME NEW len \in Nat \ {0}
    PROVE  /\ InOK(OpenOp(len), len)
           /\ OpenOp(len).open = TRUE /\ OpenOp(len).err = NoErrIn
<1> DEFINE r2 == OpenOp(len)
<1>1. /\ DOMAIN r2 = InFields /\ r2.err = NoErrIn /\ r2.buf = FALSE
      /\ r2.open = TRUE /\ r2.reading = FALSE
      /\ r2.cur = 0 /\ r2.bc = 0 /\ r2.sent = 0 /\ r2.pos = 0
      /\ r2.lastBlock = LastBlockOf(len) /\ r2.want = 0 /\ r2.got = << >>
    BY DEF OpenOp, InFields
<1> HIDE DEF r2
<1>2. LastBlockOf(len) \in Nat
    BY DivMod DEF LastBlockOf
<1>3. AtIn(r2) = 0
    BY <1>1 DEF AtIn
<1>4. Taking(r2.got) /\ Len(r2.got) = 0
    BY <1>1, EmptySeq DEF Taking
<1>5. /\ r2.buf \in BOOLEAN /\ r2.reading \in BOOLEAN
      /\ r2.reading => Len(r2.got) <= r2.want /\ r2.pos + r2.want <= MaxRead
      /\ ~r2.reading => r2.want = 0 /\ r2.got = << >>
      /\ ~r2.buf => r2.cur = 0
      /\ r2.buf => r2.sent = BlockSize /\ r2.cur * BlockSize < len
    BY Zenon, <1>1
<1>6. /\ r2.cur \in Nat /\ r2.bc \in Nat /\ r2.sent \in Nat /\ r2.pos \in Nat
      /\ r2.want \in Nat /\ r2.lastBlock \in Nat
      /\ r2.pos <= MaxRead /\ r2.bc <= r2.sent /\ r2.sent <= BlockSize
      /\ AtIn(r2) + r2.want - Len(r2.got) <= len
    BY <1>1, <1>2, <1>3, <1>4, InputAssumption, BlockAssumption
<1>7. InParts(r2, len)
    BY <1>1, <1>4, <1>5, <1>6 DEF InParts
<1>8. QED
    BY <1>1, <1>7, InOKIntro DEF r2

-----------------------------------------------------------------------------
(***************************************************************************)
(* The writer's destructor, and the steps of the whole system.             *)
(***************************************************************************)

(* ~RAMFileIndexOutput: length = max(length, pos), closed.                *)
Closed(o) == [o EXCEPT !.length = MaxOf(@, o.pos), !.open = FALSE]

(* The committed length covers every byte written, within the blocks.    *)
LEMMA CloseOutOK ==
    ASSUME NEW o, OutOK(o), o.pend = << >>
    PROVE  /\ OutOK(Closed(o)) /\ Closed(o).open = FALSE
           /\ Closed(o).length = MaxOf(o.length, o.pos)
           /\ Closed(o).blocks = o.blocks
<1> DEFINE o1 == Closed(o)
           m  == MaxOf(o.length, o.pos)
<1>1. /\ m \in Nat /\ m <= MaxLength /\ m <= Len(o.blocks) * BlockSize
    BY RaiseLengthOK DEF OutOK
<1>2. DOMAIN o = OutFields /\ o.buf \in BOOLEAN
    BY DEF OutOK, OutCore
<1>3. /\ DOMAIN o1 = OutFields /\ o1.length = m /\ o1.blocks = o.blocks
      /\ o1.cur = o.cur /\ o1.bs = o.bs /\ o1.bc = o.bc /\ o1.pos = o.pos
      /\ o1.pend = o.pend /\ o1.err = o.err
    BY <1>2 DEF Closed, OutFields
<1>4. o1.open = FALSE /\ o1.buf = o.buf
    BY Zenon, <1>2 DEF Closed, OutFields
<1> HIDE DEF o1, m
<1>5. ~o.buf => m = 0
    BY DEF OutOK, OutCore, m, MaxOf
<1>6. OutCore(o1)
    <2>1. /\ o1.blocks \in Seq(Block) /\ o1.pend \in Seq(Byte)
          /\ o1.err = NoErr
          /\ o1.length \in Nat /\ o1.cur \in Nat /\ o1.bs \in Nat
          /\ o1.bc \in Nat /\ o1.pos \in Nat
          /\ o1.length <= MaxLength /\ o1.pos <= MaxLength
          /\ o1.bs < BlockSize /\ o1.bs <= o1.bc /\ o1.bc <= BlockSize
          /\ o1.length <= Len(o1.blocks) * BlockSize
        BY <1>1, <1>3 DEF OutOK, OutCore
    <2>2. /\ o1.buf \in BOOLEAN /\ o1.open \in BOOLEAN
          /\ o1.buf => o1.cur < Len(o1.blocks) /\ o1.pos = o1.cur * BlockSize + o1.bc
        BY Zenon, <1>2, <1>3, <1>4 DEF OutOK, OutCore
    <2>3. ~o1.buf => o1.cur = 0 /\ o1.bc = 0 /\ o1.bs = 0 /\ o1.pos = 0 /\ o1.length = 0
        <3>1. ~o.buf => o.cur = 0 /\ o.bc = 0 /\ o.bs = 0 /\ o.pos = 0
            BY DEF OutOK, OutCore
        <3>2. QED
            BY Zenon, <1>3, <1>4, <1>5, <3>1
    <2>4. QED
        BY <1>3, <2>1, <2>2, <2>3 DEF OutCore
<1>7. o1.pos + Len(o1.pend) <= MaxLength /\ (o1.pend # << >> => o1.buf)
    BY <1>3, EmptySeq DEF OutOK, OutCore
<1>8. QED
    BY <1>3, <1>4, <1>6, <1>7 DEF OutOK, o1, m

(* A call that did not crash has its own effect.                          *)
LEMMA StepKeeps ==
    ASSUME NEW o, o.err = NoErr
    PROVE  Step(o) = o
BY DEF Step

LEMMA StepInKeeps ==
    ASSUME NEW r, r.err = NoErrIn, NEW v
    PROVE  StepIn(r) = r /\ Ret(r, v) = v
BY DEF StepIn, Ret

(* The bytes passed to write(ptr, n), n >= 1.                             *)
LEMMA WriteArgOK ==
    ASSUME NEW n \in Nat \ {0}, NEW d \in [1 .. n -> Byte]
    PROVE  d \in Seq(Byte) /\ d # << >> /\ Len(d) = n
<1>1. d \in Seq(Byte)
    BY SeqDef
<1>2. Len(d) = n
    BY <1>1, LenProperties
<1>3. QED
    BY <1>1, <1>2, EmptySeq

(* Every writer call keeps the writer's layout and leaves it open, or, for *)
(* the destructor, closes it.                                              *)
LEMMA OutNextOK ==
    ASSUME OutOK(out), OutNext
    PROVE  OutOK(out')
<1>1. out.err = NoErr /\ OutCore(out)
    BY DEF OutOK, OutCore
<1>2. CASE out.pend = << >> /\ \E c \in Byte : WriteByte(c)
    <2>1. PICK c \in Byte : WriteByte(c)
        BY <1>2
    <2>2. OutOK(WriteByteOp(out, c))
        BY <1>2, <2>1, WriteByteOK DEF WriteByte
    <2>3. QED
        BY <2>1, <2>2, StepKeeps DEF WriteByte, OutOK, OutCore
<1>3. CASE out.pend = << >> /\ \E n \in 1 .. MaxWrite : \E d \in [1 .. n -> Byte] : Write(d)
    <2>1. PICK n \in 1 .. MaxWrite : \E d \in [1 .. n -> Byte] : Write(d)
        BY <1>3
    <2>2. PICK d \in [1 .. n -> Byte] : Write(d)
        BY <2>1
    <2>3. d \in Seq(Byte) /\ d # << >> /\ Len(d) = n
        BY WriteArgOK
    <2>4. OutOK(WriteIter(out, d))
        BY <1>1, <2>2, <2>3, WriteIterOK DEF Write
    <2>5. QED
        BY <2>2, <2>4, StepKeeps DEF Write, OutOK, OutCore
<1>4. CASE out.pend = << >> /\ Flush
    <2>1. OutOK(FlushOp(out))
        BY FlushOpOK
    <2>2. QED
        BY <1>4, <2>1, StepKeeps DEF Flush, OutOK, OutCore
<1>5. CASE out.pend = << >> /\ \E s \in 0 .. MaxLength : SeekOutput(s)
    <2>1. PICK s \in 0 .. MaxLength : SeekOutput(s)
        BY <1>5
    <2>2. OutOK(SeekOp(out, s))
        BY <1>5, <2>1, SeekOK DEF SeekOutput
    <2>3. QED
        BY <2>1, <2>2, StepKeeps DEF SeekOutput, OutOK, OutCore
<1>6. CASE out.pend = << >> /\ CloseOutput
    <2>1. out' = Closed(out)
        BY <1>6 DEF CloseOutput, Closed
    <2>2. QED
        BY <1>6, <2>1, CloseOutOK
<1>7. CASE WriteRest
    <2>1. out.pend \in Seq(Byte) /\ out.pend # << >>
          /\ out.pos + Len(out.pend) <= MaxLength
        BY <1>7 DEF WriteRest, OutOK, OutCore
    <2>2. OutOK(WriteIter(out, out.pend))
        BY <1>1, <2>1, WriteIterOK
    <2>3. QED
        BY <1>7, <2>2, StepKeeps DEF WriteRest, OutOK, OutCore
<1>8. QED
    BY <1>2, <1>3, <1>4, <1>5, <1>6, <1>7 DEF OutNext

(* Every reader call on the committed file, under the contract, keeps the *)
(* reader's layout, and no call crashes.                                   *)
LEMMA InNextOK ==
    ASSUME ReaderContract, NEW bl, NEW len, FileOK(bl, len),
           InOK(rd, len), res.kind \in ResKinds, InNext(bl, len)
    PROVE  InOK(rd', len) /\ res'.kind \in ResKinds
<1>0. /\ ~SeekToEnd /\ ~ReadPastEnd /\ len \in Nat \ {0}
      /\ ReaderAt = AtIn(rd)
    BY DEF ReaderContract, FileOK, ReaderAt, AtIn
<1>1. CASE OpenReader(len)
    <2>1. InOK(OpenOp(len), len) /\ OpenOp(len).err = NoErrIn
        BY <1>0, OpenOK
    <2>2. rd' = OpenOp(len) /\ res' = NoResult
        BY <1>1, <2>1, StepInKeeps DEF OpenReader
    <2>3. QED
        BY <2>1, <2>2 DEF NoResult, Result, ResKinds
<1>2. CASE rd.open /\ ~rd.reading /\ ReadByte(bl, len)
    <2> DEFINE x == ReadByteOp(rd, bl)
    <2>1. rd.pos < MaxRead /\ AtIn(rd) < len
        BY <1>0, <1>2 DEF ReadByte
    <2>2. InOK(x.r, len) /\ x.res.kind = "bytes" /\ x.r.err = NoErrIn
        BY <1>2, <2>1, ReadByteOK DEF InOK
    <2>3. rd' = x.r /\ res' = x.res
        BY <1>2, <2>2, StepInKeeps DEF ReadByte
    <2>4. QED
        BY <2>2, <2>3 DEF ResKinds
<1>3. CASE rd.open /\ ~rd.reading /\ \E n \in 1 .. BlockSize + 1 : ReadStart(len, n)
    <2>1. PICK n \in 1 .. BlockSize + 1 : ReadStart(len, n)
        BY <1>3
    <2>2. rd.pos + n <= MaxRead /\ AtIn(rd) + n <= len
        BY <1>0, <2>1 DEF ReadStart
    <2>3. InOK(Started(rd, n), len)
        <3>1. n \in Nat
            BY BlockAssumption
        <3>2. QED
            BY Zenon, <1>3, <2>2, <3>1, StartOK
    <2>4. QED
        BY <2>1, <2>3 DEF ReadStart, Started
<1>4. CASE rd.open /\ ~rd.reading /\ Eof(bl, len)
    <2> DEFINE e == EofOp(rd, bl)
    <2>1. AtIn(rd) < len
        BY <1>0, <1>4 DEF Eof
    <2>2. e.eof = FALSE /\ EofPost(rd, e.r, len)
        BY <1>4, <2>1, EofOK
    <2>3. InOK(e.r, len) /\ e.r.err = NoErrIn
        BY <2>2 DEF EofPost, InOK
    <2>4. rd' = e.r /\ res' = Result("more", 0, << >>)
        BY <1>4, <2>2, <2>3, StepInKeeps DEF Eof
    <2>5. QED
        BY <2>3, <2>4 DEF Result, ResKinds
<1>5. CASE rd.open /\ ~rd.reading /\ \E s \in 0 .. len : SeekInput(len, s)
    <2>1. PICK s \in 0 .. len : SeekInput(len, s)
        BY <1>5
    <2>2. s \in 0 .. len - 1
        BY <1>0, <2>1 DEF SeekInput
    <2>3. InOK(SeekInOp(rd, len, s), len) /\ SeekInOp(rd, len, s).err = NoErrIn
        BY <1>0, <1>5, <2>2, SeekInOK
    <2>4. rd' = SeekInOp(rd, len, s) /\ res' = Result("seek", s, << >>)
        BY <2>1, <2>3, StepInKeeps DEF SeekInput
    <2>5. QED
        BY <2>3, <2>4 DEF Result, ResKinds
<1>6. CASE rd.open /\ ~rd.reading /\ CloseReader
    <2>1. InOK([rd EXCEPT !.open = FALSE], len)
        BY <1>6, CloseInOK
    <2>2. QED
        BY <1>6, <2>1 DEF CloseReader, NoResult, Result, ResKinds
<1>7. CASE rd.open /\ ReadIter(bl)
    <2> DEFINE x == ReadIterOp(rd, bl)
    <2>1. /\ InOK(x.r, len) /\ x.r.err = NoErrIn
          /\ (x.res = res \/ x.res.kind = "bytes")
        <3>1. rd.reading
            BY <1>7 DEF ReadIter
        <3>2. InOK(x.r, len) /\ (x.res = res \/ x.res.kind = "bytes")
            BY Zenon, <3>1, ReadIterOK
        <3>3. QED
            BY <3>2 DEF InOK
    <2>2. rd' = x.r /\ res' = x.res
        BY <1>7, <2>1, StepInKeeps DEF ReadIter
    <2>3. QED
        BY <2>1, <2>2 DEF ResKinds
<1>8. QED
    BY <1>1, <1>2, <1>3, <1>4, <1>5, <1>6, <1>7 DEF InNext


-----------------------------------------------------------------------------
(***************************************************************************)
(* The inductive invariant.                                                *)
(***************************************************************************)

(* Before any call: an open writer with no buffer, a closed reader.       *)
LEMMA InitIInv == Init => IInv
<1> SUFFICES ASSUME Init PROVE IInv
    OBVIOUS
<1>1. OutOK(out)
    <2>1. out.buf = FALSE /\ out.open = TRUE /\ out.blocks = << >>
          /\ out.pend = << >> /\ out.err = NoErr /\ DOMAIN out = OutFields
        BY Zenon DEF Init, OutInit, OutFields
    <2>2. /\ out.length = 0 /\ out.cur = 0 /\ out.bs = 0 /\ out.bc = 0
          /\ out.pos = 0
        BY DEF Init, OutInit
    <2>3. << >> \in Seq(Block) /\ << >> \in Seq(Byte) /\ Len(<< >>) = 0
        OBVIOUS
    <2>4. /\ out.length \in Nat /\ out.cur \in Nat /\ out.bs \in Nat
          /\ out.bc \in Nat /\ out.pos \in Nat
          /\ out.length <= MaxLength /\ out.pos <= MaxLength
          /\ out.bs < BlockSize /\ out.bs <= out.bc /\ out.bc <= BlockSize
          /\ out.length <= Len(out.blocks) * BlockSize
          /\ out.pos + Len(out.pend) <= MaxLength
        BY <2>1, <2>2, <2>3, BlockAssumption
    <2>5. QED
        BY Zenon, <2>1, <2>2, <2>3, <2>4 DEF OutOK, OutCore
<1>2. InOK(rd, out.length)
    <2>1. /\ rd.buf = FALSE /\ rd.open = FALSE /\ rd.reading = FALSE
          /\ rd.err = NoErrIn /\ DOMAIN rd = InFields
        BY Zenon DEF Init, InInit, InFields
    <2>2. /\ rd.cur = 0 /\ rd.bc = 0 /\ rd.sent = 0 /\ rd.pos = 0
          /\ rd.lastBlock = 0 /\ rd.want = 0 /\ rd.got = << >>
        BY DEF Init, InInit
    <2>3. Taking(<< >>)
        BY DEF Taking
    <2>4. /\ rd.pos <= MaxRead /\ rd.bc <= rd.sent /\ rd.sent <= BlockSize
          /\ rd.cur \in Nat /\ rd.bc \in Nat /\ rd.sent \in Nat
          /\ rd.pos \in Nat /\ rd.lastBlock \in Nat /\ rd.want \in Nat
        BY <2>2, InputAssumption, BlockAssumption
    <2>5. QED
        BY Zenon, <2>1, <2>2, <2>3, <2>4 DEF InOK
<1>3. res.kind \in ResKinds /\ ~rd.open
    BY DEF Init, InInit, NoResult, Result, ResKinds
<1>4. QED
    BY <1>1, <1>2, <1>3 DEF IInv

(* A writer's call leaves the closed reader alone; a reader's call reads   *)
(* the committed, non-empty file and leaves the writer alone.             *)
LEMMA NextIInv ==
    ASSUME ReaderContract, IInv, [Next]_vars
    PROVE  IInv'
<1>0. OutOK(out) /\ InOK(rd, out.length) /\ res.kind \in ResKinds
    BY DEF IInv
<1>1. CASE OutNext /\ UNCHANGED <<rd, res>>
    <2>1. OutOK(out')
        BY <1>0, <1>1, OutNextOK
    <2>2. ~rd.open
        BY <1>1 DEF IInv, OutNext
    <2>3. InOK(rd, out'.length)
        BY <1>0, <2>2, ClosedAnyLen
    <2>4. QED
        BY <1>0, <1>1, <2>1, <2>2, <2>3 DEF IInv
<1>2. CASE /\ ~out.open
           /\ out.err = NoErr
           /\ rd.err = NoErrIn
           /\ out.length > 0
           /\ InNext(out.blocks, out.length)
           /\ UNCHANGED out
    <2>1. FileOK(out.blocks, out.length)
        BY <1>0, <1>2 DEF OutOK, OutCore, FileOK
    <2>2. InOK(rd', out.length) /\ res'.kind \in ResKinds
        BY <1>0, <1>2, <2>1, InNextOK
    <2>3. QED
        BY <1>0, <1>2, <2>2 DEF IInv
<1>3. CASE UNCHANGED vars
    BY <1>3 DEF IInv, vars, OutOK, OutCore, InOK, AtIn, Taking
<1>4. QED
    BY <1>1, <1>2, <1>3 DEF Next

(* The buffer windows of both streams stay in bounds (spec section 3):    *)
(* bufStart <= bufCur <= bufEnd, bufCur <= sentinel <= bufEnd, and the   *)
(* writer's current block exists, for every block size and bound, when   *)
(* readers seek inside the file and never read past its end.              *)
THEOREM IOTypeCorrect ==
    ASSUME ReaderContract
    PROVE  Spec => []IOTypeOK
<1>1. IInv => IOTypeOK
    <2> SUFFICES ASSUME IInv PROVE IOTypeOK
        OBVIOUS
    <2>1. OutCore(out) /\ InOK(rd, out.length) /\ res.kind \in ResKinds
        BY DEF IInv, OutOK
    <2>2. /\ out.blocks \in Seq(Block)
          /\ out.length \in 0 .. MaxLength /\ out.pos \in 0 .. MaxLength
          /\ out.bs \in 0 .. BlockSize /\ out.bc \in out.bs .. BlockSize
        <3>0. out.blocks \in Seq(Block)
            BY Zenon, <2>1 DEF OutCore
        <3>1. /\ out.length \in Nat /\ out.bs \in Nat /\ out.bc \in Nat
              /\ out.pos \in Nat
              /\ out.length <= MaxLength /\ out.pos <= MaxLength
              /\ out.bs < BlockSize /\ out.bs <= out.bc /\ out.bc <= BlockSize
            BY Zenon, <2>1 DEF OutCore
        <3>2. /\ out.length \in 0 .. MaxLength /\ out.pos \in 0 .. MaxLength
              /\ out.bs \in 0 .. BlockSize /\ out.bc \in out.bs .. BlockSize
            BY <3>1, BlockAssumption
        <3>3. QED
            BY Zenon, <3>0, <3>2
    <2>3. out.buf => out.cur < Len(out.blocks)
        BY Zenon, <2>1 DEF OutCore
    <2>4. /\ rd.bc \in 0 .. rd.sent /\ rd.sent \in 0 .. BlockSize
          /\ rd.pos \in 0 .. MaxRead
        <3>1. /\ rd.bc \in Nat /\ rd.sent \in Nat /\ rd.pos \in Nat
              /\ rd.pos <= MaxRead /\ rd.bc <= rd.sent /\ rd.sent <= BlockSize
            BY Zenon, <2>1 DEF InOK
        <3>2. QED
            BY <3>1, BlockAssumption, InputAssumption
    <2>5. QED
        BY Zenon, <2>1, <2>2, <2>3, <2>4 DEF IOTypeOK, ResKinds
<1>2. QED
    BY <1>1, InitIInv, NextIInv, PTL DEF Spec

(* No call of the writer or of a reader kept to that contract ends the    *)
(* process: no assertion of RAMFileIndexOutput or RAMFileIndexInput       *)
(* fails and no block index passes blocks_.size().                        *)
THEOREM NoCrashCorrect ==
    ASSUME ReaderContract
    PROVE  Spec => []NoCrash
<1>1. IInv => NoCrash
    BY DEF IInv, OutOK, OutCore, InOK, NoCrash
<1>2. QED
    BY <1>1, InitIInv, NextIInv, PTL DEF Spec

=============================================================================
