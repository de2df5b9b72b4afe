------------------------- MODULE RAMFileOutputProofs -------------------------
(***************************************************************************)
(* RAMFileIndexOutput implements ByteFile: under the refinement mapping of *)
(* RAMFileOutput (File), every writer call is a Put of the bytes it copies *)
(* into the blocks, a Seek, a Close or a stutter, for every block size and *)
(* every bound.  The argument rests on the writer's layout OutOK (proved   *)
(* inductive in RAMFileIOProofs) and on one fact about the block layout:  *)
(* copying bytes into the current block at bufCur is an Overwrite of the  *)
(* file at pos.                                                            *)
(***************************************************************************)
EXTENDS RAMFileIOProofs, TLAPS

(* The file the writer's record stands for: its bytes up to               *)
(* max(length, pos).                                                       *)
FileOf(o) == Content(o.blocks, MaxOf(o.length, o.pos))

(* The blocks after copying d into block k at offset bc, as               *)
(* copyToBuffer does.                                                      *)
PutBlock(bl, k, bc, d) ==
    [bl EXCEPT ![k + 1] =
        [i \in 0 .. BlockSize - 1 |->
            IF bc <= i /\ i < bc + Len(d) THEN d[i - bc + 1] ELSE bl[k + 1][i]]]

-----------------------------------------------------------------------------
(***************************************************************************)
(* The block layout.                                                       *)
(***************************************************************************)

(* A position between the starts of blocks k and k + 1 lies in block k,   *)
(* at its distance from the start of block k.                             *)
LEMMA DivUnique ==
    ASSUME NEW j \in Nat, NEW k \in Nat,
           k * BlockSize <= j, j < (k + 1) * BlockSize
    PROVE  j \div BlockSize = k /\ j % BlockSize = j - k * BlockSize
<1> DEFINE q == j \div BlockSize
<1>1. q \in Nat /\ j % BlockSize \in 0 .. BlockSize - 1
      /\ j = q * BlockSize + (j % BlockSize)
    BY DivMod
<1>2. q < k + 1
    BY BlockBelow
<1>3. k < q + 1
    <2>1. j < (q + 1) * BlockSize
        BY <1>1, BlockAssumption
    <2>2. ~(q + 1 <= k)
        <3> SUFFICES ASSUME q + 1 <= k PROVE FALSE
            OBVIOUS
        <3>1. (q + 1) * BlockSize <= k * BlockSize
            BY <1>1, BlocksMono
        <3>2. QED
            BY <2>1, <3>1, <1>1, BlockAssumption
    <2>3. QED
        BY <2>2, <1>1
<1>4. q = k
    BY <1>1, <1>2, <1>3
<1>5. j % BlockSize = j - k * BlockSize
    <2>1. j = k * BlockSize + (j % BlockSize)
        BY <1>1, <1>4
    <2>2. QED
        BY <2>1, BlockAssumption
<1>6. QED
    BY <1>4, <1>5

(* Copying d into block k at offset bc changes exactly the bytes at file  *)
(* positions k * BlockSize + bc ... k * BlockSize + bc + Len(d) - 1.       *)
LEMMA AtPut ==
    ASSUME NEW bl \in Seq(Block), NEW k \in Nat, k < Len(bl), NEW bc \in Nat,
           NEW d \in Seq(Byte), bc + Len(d) <= BlockSize,
           NEW j \in Nat, j < Len(bl) * BlockSize
    PROVE  At(PutBlock(bl, k, bc, d), j) =
               IF k * BlockSize + bc <= j /\ j < k * BlockSize + bc + Len(d)
               THEN d[j - (k * BlockSize + bc) + 1] ELSE At(bl, j)
<1> DEFINE q == j \div BlockSize
           r == j % BlockSize
           p == k * BlockSize + bc
           nb == [i \in 0 .. BlockSize - 1 |->
                     IF bc <= i /\ i < bc + Len(d) THEN d[i - bc + 1]
                     ELSE bl[k + 1][i]]
<1>1. q \in Nat /\ r \in 0 .. BlockSize - 1 /\ j = q * BlockSize + r
    BY DivMod
<1>2. q < Len(bl)
    BY BlockBelow
<1>3. /\ DOMAIN bl = 1 .. Len(bl)
      /\ PutBlock(bl, k, bc, d) = [bl EXCEPT ![k + 1] = nb]
    BY LenProperties DEF PutBlock
<1>4. At(PutBlock(bl, k, bc, d), j) = PutBlock(bl, k, bc, d)[q + 1][r]
      /\ At(bl, j) = bl[q + 1][r]
    BY DEF At
<1>5. CASE q = k
    <2>1. PutBlock(bl, k, bc, d)[q + 1] = nb
        BY <1>2, <1>3, <1>5
    <2>2. nb[r] = IF bc <= r /\ r < bc + Len(d) THEN d[r - bc + 1]
                  ELSE bl[k + 1][r]
        BY <1>1
    <2>3. /\ (bc <= r /\ r < bc + Len(d)) <=> (p <= j /\ j < p + Len(d))
          /\ r - bc + 1 = j - p + 1
        <3>a. j = k * BlockSize + r
            BY <1>1, <1>5
        <3>b. Len(d) \in Nat
            BY LenProperties
        <3>c. k * BlockSize \in Nat
            BY BlockAssumption
        <3>1. j = k * BlockSize + r /\ Len(d) \in Nat /\ k * BlockSize \in Nat
            BY <3>a, <3>b, <3>c
        <3> HIDE DEF q, r
        <3>2. QED
            BY <3>1, <1>1
    <2>4. QED
        BY <1>4, <1>5, <2>1, <2>2, <2>3
<1>6. CASE q # k
    <2>1. PutBlock(bl, k, bc, d)[q + 1] = bl[q + 1]
        BY <1>1, <1>2, <1>3, <1>6
    <2>2. ~(p <= j /\ j < p + Len(d))
        <3> SUFFICES ASSUME p <= j, j < p + Len(d) PROVE FALSE
            OBVIOUS
        <3>1. k * BlockSize <= j /\ j < (k + 1) * BlockSize
            BY BlockAssumption
        <3>2. q = k
            BY <3>1, DivUnique
        <3>3. QED
            BY <3>2, <1>6
    <2>3. QED
        BY <1>4, <2>1, <2>2
<1>7. QED
    BY <1>5, <1>6


(* The file's bytes up to a length its blocks hold are a sequence of that  *)
(* length.                                                                 *)
LEMMA ContentSeq ==
    ASSUME NEW bl \in Seq(Block), NEW L \in Nat, L <= Len(bl) * BlockSize
    PROVE  Content(bl, L) \in Seq(Memory) /\ Len(Content(bl, L)) = L
<1>1. \A i \in 1 .. L : At(bl, i - 1) \in Memory
    <2> SUFFICES ASSUME NEW i \in 1 .. L PROVE At(bl, i - 1) \in Memory
        OBVIOUS
    <2>0. i - 1 \in Nat
        OBVIOUS
    <2>1. /\ (i - 1) \div BlockSize \in Nat
          /\ (i - 1) % BlockSize \in 0 .. BlockSize - 1
        BY <2>0, DivMod
    <2>2. (i - 1) \div BlockSize < Len(bl)
        <3>0. Len(bl) \in Nat
            BY LenProperties, Zenon
        <3>1. i - 1 \in Nat /\ Len(bl) \in Nat /\ i - 1 < Len(bl) * BlockSize
            BY <3>0, BlockAssumption
        <3>2. QED
            BY <3>1, BlockBelow
    <2>3. bl[(i - 1) \div BlockSize + 1] \in Block
        BY <2>1, <2>2, ElementOfSeq
    <2>4. QED
        BY <2>1, <2>3 DEF At, Block
<1>2. Content(bl, L) \in [1 .. L -> Memory]
    BY <1>1 DEF Content
<1>3. Content(bl, L) \in Seq(Memory)
    BY <1>2, SeqDef, Zenon
<1>4. DOMAIN Content(bl, L) = 1 .. Len(Content(bl, L))
      /\ Len(Content(bl, L)) \in Nat
    BY <1>3, LenProperties
<1>5. QED
    BY <1>3, <1>4 DEF Content

(* Copying d into the current block at bufCur overwrites the file at     *)
(* pos = k * BlockSize + bc with d, extending it when d reaches past its  *)
(* end: what a Put of d does.                                              *)
LEMMA CopyContent ==
    ASSUME NEW bl \in Seq(Block), NEW k \in Nat, k < Len(bl), NEW bc \in Nat,
           NEW d \in Seq(Byte), bc + Len(d) <= BlockSize,
           NEW L \in Nat, k * BlockSize + bc <= L, L <= Len(bl) * BlockSize
    PROVE  Content(PutBlock(bl, k, bc, d),
                   MaxOf(L, k * BlockSize + bc + Len(d))) =
               File!Overwrite(Content(bl, L), k * BlockSize + bc, d)
<1> DEFINE p == k * BlockSize + bc
           n == Len(d)
           M == MaxOf(L, p + n)
           c == Content(bl, L)
<1>0. p \in Nat /\ n \in Nat /\ Len(bl) \in Nat
    <2>1. Len(bl) \in Nat /\ Len(d) \in Nat
        BY LenProperties, Zenon
    <2>2. QED
        BY <2>1, BlockAssumption
<1>1. Len(c) = L
    BY ContentSeq
<1>2. M \in Nat /\ M <= Len(bl) * BlockSize
    <2>1. (k + 1) * BlockSize <= Len(bl) * BlockSize
        BY <1>0, BlocksMono
    <2>2. p + n <= (k + 1) * BlockSize
        BY BlockAssumption
    <2>3. QED
        BY <1>0, <2>1, <2>2, BlockAssumption DEF MaxOf
<1>3. File!Overwrite(c, p, d) =
          [i \in 1 .. M |-> IF p < i /\ i <= p + n THEN d[i - p] ELSE c[i]]
    BY <1>0, <1>1 DEF File!Overwrite, MaxOf
<1>4. ASSUME NEW i \in 1 .. M
      PROVE  At(PutBlock(bl, k, bc, d), i - 1) =
                 IF p < i /\ i <= p + n THEN d[i - p] ELSE c[i]
    <2>1. i - 1 \in Nat /\ i - 1 < Len(bl) * BlockSize
        BY <1>0, <1>2, BlockAssumption
    <2>2. At(PutBlock(bl, k, bc, d), i - 1) =
              IF p <= i - 1 /\ i - 1 < p + n THEN d[i - 1 - p + 1]
              ELSE At(bl, i - 1)
        BY <2>1, AtPut
    <2>3. CASE p < i /\ i <= p + n
        <3>1. (p <= i - 1 /\ i - 1 < p + n) /\ i - 1 - p + 1 = i - p
            BY <2>3, <1>0
        <3>2. QED
            BY <2>2, <2>3, <3>1
    <2>4. CASE ~(p < i /\ i <= p + n)
        <3>1. ~(p <= i - 1 /\ i - 1 < p + n) /\ i <= L
            BY <2>4, <1>0 DEF MaxOf
        <3>2. c[i] = At(bl, i - 1)
            BY <3>1 DEF Content
        <3>3. QED
            BY <2>2, <2>4, <3>1, <3>2
    <2>5. QED
        BY <2>3, <2>4
<1>5. QED
    BY <1>3, <1>4 DEF Content


-----------------------------------------------------------------------------
(***************************************************************************)
(* What each of the writer's helpers does to the file.                     *)
(***************************************************************************)

(* A block allocated after the data changes no byte of the file.          *)
LEMMA ContentKeep ==
    ASSUME NEW bl \in Seq(Block), NEW bl2 \in {bl, Alloc(bl)},
           NEW L \in Nat, L <= Len(bl) * BlockSize
    PROVE  Content(bl2, L) = Content(bl, L)
BY TrailingBlockHarmless

(* initInternalBuffer() allocates the first block of an empty file.       *)
LEMMA InitBufferFile ==
    ASSUME NEW o, OutCore(o), ~o.buf
    PROVE  FileOf(InitInternalBuffer(o)) = FileOf(o)
<1>1. /\ InitInternalBuffer(o).pos = o.pos
      /\ InitInternalBuffer(o).length = o.length
      /\ InitInternalBuffer(o).blocks = Alloc(o.blocks)
    BY InitBufferOK
<1>2. o.length = 0 /\ o.pos = 0 /\ o.blocks \in Seq(Block)
    BY Zenon DEF OutCore
<1>3. Content(Alloc(o.blocks), MaxOf(0, 0)) = Content(o.blocks, MaxOf(0, 0))
    <2>1. Len(o.blocks) \in Nat
        BY <1>2, LenProperties, Zenon
    <2>2. MaxOf(0, 0) = 0 /\ 0 <= Len(o.blocks) * BlockSize
        BY <2>1, BlockAssumption DEF MaxOf
    <2>3. Content(Alloc(o.blocks), 0) = Content(o.blocks, 0)
        BY <1>2, <2>2, ContentKeep
    <2>4. QED
        BY <2>2, <2>3, Zenon
<1>4. /\ FileOf(InitInternalBuffer(o)) = Content(Alloc(o.blocks), MaxOf(0, 0))
      /\ FileOf(o) = Content(o.blocks, MaxOf(0, 0))
    BY <1>1, <1>2, Zenon DEF FileOf
<1>5. QED
    BY <1>3, <1>4, Zenon

(* flushNonEmpty() raises length to pos and may allocate the next block:  *)
(* the file, up to max(length, pos), is unchanged.                        *)
LEMMA FlushFile ==
    ASSUME NEW o, OutCore(o), o.buf, o.bs < o.bc
    PROVE  FileOf(FlushNonEmpty(o)) = FileOf(o)
<1> DEFINE L == MaxOf(o.length, o.pos)
<1>1. /\ FlushNonEmpty(o).pos = o.pos
      /\ FlushNonEmpty(o).length = L
      /\ FlushNonEmpty(o).blocks \in {o.blocks, Alloc(o.blocks)}
    BY FlushOK
<1>2. L \in Nat /\ L <= Len(o.blocks) * BlockSize /\ o.pos \in Nat
    BY RaiseLengthOK DEF OutCore
<1>3. MaxOf(L, o.pos) = L
    BY <1>2 DEF MaxOf
<1>4. o.blocks \in Seq(Block)
    BY Zenon DEF OutCore
<1>5. QED
    BY <1>1, <1>2, <1>3, <1>4, ContentKeep DEF FileOf


(* copyToBuffer of bytes that fit before bufEnd, then pos += size: a Put   *)
(* of d at pos.                                                            *)
LEMMA CopiedFile ==
    ASSUME NEW o, OutCore(o), o.buf, NEW d \in Seq(Byte),
           o.bc + Len(d) <= BlockSize
    PROVE  FileOf(Copied(o, d)) = File!Overwrite(FileOf(o), o.pos, d)
<1> DEFINE L == MaxOf(o.length, o.pos)
           nb == [i \in 0 .. BlockSize - 1 |->
                     IF o.bc <= i /\ i < o.bc + Len(d) THEN d[i - o.bc + 1]
                     ELSE o.blocks[o.cur + 1][i]]
<1>1. /\ o.blocks \in Seq(Block) /\ o.cur \in Nat /\ o.bc \in Nat
      /\ o.length \in Nat /\ o.pos \in Nat /\ o.cur < Len(o.blocks)
      /\ o.pos = o.cur * BlockSize + o.bc /\ DOMAIN o = OutFields
    BY Zenon DEF OutCore
<1>2. L \in Nat /\ L <= Len(o.blocks) * BlockSize /\ o.pos <= L
    BY <1>1, RaiseLengthOK DEF MaxOf
<1>3. Len(d) \in Nat
    BY LenProperties, Zenon
<1>4. Available(o) = BlockSize - o.bc
    BY Zenon DEF Available
<1>5. ~(Len(d) > Available(o))
    BY <1>3, <1>4, <1>1, BlockAssumption
<1>6. CopyToBuffer(o, d) =
          [o EXCEPT !.blocks = [o.blocks EXCEPT ![o.cur + 1] = nb],
                    !.bc = @ + Len(d)]
    BY <1>5, Zenon DEF CopyToBuffer
<1>7. /\ Copied(o, d).blocks = PutBlock(o.blocks, o.cur, o.bc, d)
      /\ Copied(o, d).length = o.length
      /\ Copied(o, d).pos = o.pos + Len(d)
    BY <1>1, <1>6 DEF Copied, PutBlock, OutFields
<1>8. MaxOf(o.length, o.pos + Len(d)) =
          MaxOf(L, o.cur * BlockSize + o.bc + Len(d))
    BY <1>1, <1>3 DEF MaxOf
<1>9. Content(PutBlock(o.blocks, o.cur, o.bc, d),
              MaxOf(L, o.cur * BlockSize + o.bc + Len(d))) =
          File!Overwrite(Content(o.blocks, L), o.cur * BlockSize + o.bc, d)
    BY <1>1, <1>2, CopyContent
<1>10. FileOf(Copied(o, d)) =
           Content(PutBlock(o.blocks, o.cur, o.bc, d),
                   MaxOf(o.length, o.pos + Len(d)))
    BY <1>7 DEF FileOf
<1>11. File!Overwrite(FileOf(o), o.pos, d) =
           File!Overwrite(Content(o.blocks, L), o.cur * BlockSize + o.bc, d)
    BY <1>1 DEF FileOf
<1> HIDE DEF L, nb
<1>12. QED
    BY <1>8, <1>9, <1>10, <1>11, Zenon

(* writeByte's store *bufCur++ = c, with pos++: a Put of <<c>> at pos.     *)
LEMMA StoredFile ==
    ASSUME NEW o, OutCore(o), o.buf, o.bc < BlockSize, NEW c \in Byte
    PROVE  FileOf(Stored(o, c)) = File!Overwrite(FileOf(o), o.pos, << c >>)
<1> DEFINE nb == [i \in 0 .. BlockSize - 1 |->
                     IF o.bc <= i /\ i < o.bc + Len(<< c >>)
                     THEN << c >>[i - o.bc + 1] ELSE o.blocks[o.cur + 1][i]]
<1>1. /\ o.blocks \in Seq(Block) /\ o.cur \in Nat /\ o.bc \in Nat
      /\ o.cur < Len(o.blocks) /\ DOMAIN o = OutFields
    BY Zenon DEF OutCore
<1>2. << c >> \in Seq(Byte) /\ Len(<< c >>) = 1
    OBVIOUS
<1>3. o.blocks[o.cur + 1] \in Block
    BY <1>1, ElementOfSeq
<1>4. [o.blocks[o.cur + 1] EXCEPT ![o.bc] = c] = nb
    <2>1. o.blocks[o.cur + 1] \in [0 .. BlockSize - 1 -> Memory]
        BY <1>3 DEF Block
    <2>2. \A i \in 0 .. BlockSize - 1 :
              [o.blocks[o.cur + 1] EXCEPT ![o.bc] = c][i] = nb[i]
        BY <1>1, <2>1, BlockAssumption
    <2>3. QED
        BY <2>1, <2>2
<1>5. /\ Stored(o, c).blocks = PutBlock(o.blocks, o.cur, o.bc, << c >>)
      /\ Stored(o, c).length = o.length
      /\ Stored(o, c).pos = o.pos + Len(<< c >>)
    BY <1>1, <1>2, <1>4 DEF Stored, PutBlock, OutFields
<1>6. /\ Copied(o, << c >>).blocks = PutBlock(o.blocks, o.cur, o.bc, << c >>)
      /\ Copied(o, << c >>).length = o.length
      /\ Copied(o, << c >>).pos = o.pos + Len(<< c >>)
    <2>1. Available(o) = BlockSize - o.bc
        BY Zenon DEF Available
    <2>2. ~(Len(<< c >>) > Available(o))
        BY <1>1, <1>2, <2>1, BlockAssumption
    <2>3. CopyToBuffer(o, << c >>) =
              [o EXCEPT !.blocks = [o.blocks EXCEPT ![o.cur + 1] = nb],
                        !.bc = @ + Len(<< c >>)]
        BY <2>2, Zenon DEF CopyToBuffer
    <2>4. QED
        BY <1>1, <2>3 DEF Copied, PutBlock, OutFields
<1>7. FileOf(Stored(o, c)) = FileOf(Copied(o, << c >>))
    BY <1>5, <1>6 DEF FileOf
<1>8. o.bc + Len(<< c >>) <= BlockSize
    BY <1>1, <1>2, BlockAssumption
<1> HIDE DEF nb
<1>9. QED
    BY <1>2, <1>7, <1>8, CopiedFile


(* Overwriting nothing, anywhere inside the file, leaves it as it was.    *)
LEMMA OverwriteNothing ==
    ASSUME NEW bl \in Seq(Block), NEW L \in Nat, L <= Len(bl) * BlockSize,
           NEW p \in 0 .. L
    PROVE  File!Overwrite(Content(bl, L), p, << >>) = Content(bl, L)
<1>1. Len(Content(bl, L)) = L
    BY ContentSeq
<1>2. QED
    BY <1>1 DEF File!Overwrite, Content

(* A step that leaves the blocks, the length and pos leaves the file.     *)
LEMMA PendFile ==
    ASSUME NEW o, NEW v
    PROVE  /\ FileOf([o EXCEPT !.pend = v]) = FileOf(o)
           /\ [o EXCEPT !.pend = v].pos = o.pos
BY DEF FileOf

(* seek(s) inside the file: max(length, pos) is already past s, and the   *)
(* block it may allocate lies beyond the data.                            *)
LEMMA SeekFile ==
    ASSUME NEW o, OutOK(o), o.pend = << >>, NEW s \in 0 .. MaxLength,
           s <= MaxOf(o.length, o.pos)
    PROVE  FileOf(SeekOp(o, s)) = FileOf(o) /\ SeekOp(o, s).pos = s
<1> DEFINE L == MaxOf(o.length, o.pos)
<1>1. /\ SeekOp(o, s).pos = s
      /\ SeekOp(o, s).length = L
      /\ SeekOp(o, s).blocks \in {o.blocks, Alloc(o.blocks)}
    BY SeekOK
<1>2. L \in Nat /\ L <= Len(o.blocks) * BlockSize /\ o.blocks \in Seq(Block)
    BY RaiseLengthOK, Zenon DEF OutOK, OutCore
<1>3. MaxOf(L, s) = L
    BY <1>2 DEF MaxOf
<1>4. Content(SeekOp(o, s).blocks, L) = Content(o.blocks, L)
    BY <1>1, <1>2, ContentKeep
<1>5. QED
    BY <1>1, <1>3, <1>4 DEF FileOf

(* writeByte(c): whichever way it makes room, a Put of <<c>> at pos.       *)
LEMMA WriteByteFile ==
    ASSUME NEW o, OutOK(o), o.pend = << >>, o.pos < MaxLength,
           NEW c \in Byte
    PROVE  /\ FileOf(WriteByteOp(o, c)) = File!Overwrite(FileOf(o), o.pos, << c >>)
           /\ WriteByteOp(o, c).pos = o.pos + 1
<1> DEFINE o1 == IF Available(o) > 0 THEN o
                 ELSE IF ~o.buf THEN InitInternalBuffer(o) ELSE FlushNonEmpty(o)
<1>1. /\ OutCore(o1) /\ o1.buf /\ o1.bc < BlockSize
      /\ o1.pos = o.pos /\ FileOf(o1) = FileOf(o)
    <2>1. CASE Available(o) > 0
        <3>1. o.buf /\ Available(o) = BlockSize - o.bc
            BY <2>1 DEF Available
        <3>2. o.bc < BlockSize /\ o1 = o
            BY <2>1, <3>1, BlockAssumption DEF OutOK, OutCore
        <3>3. QED
            BY <3>1, <3>2 DEF OutOK
    <2>2. CASE ~(Available(o) > 0) /\ ~o.buf
        <3>1. o1 = InitInternalBuffer(o)
            BY <2>2
        <3>2. OutCore(o) /\ ~o.buf
            BY <2>2 DEF OutOK
        <3>3. QED
            BY <3>1, <3>2, InitBufferOK, InitBufferFile, BlockAssumption
    <2>3. CASE ~(Available(o) > 0) /\ o.buf
        <3>1. o1 = FlushNonEmpty(o)
            BY <2>3
        <3>2. o.bc = BlockSize /\ o.bs < o.bc /\ OutCore(o)
            BY <2>3, BlockAssumption DEF Available, OutOK, OutCore
        <3>3. QED
            BY <3>1, <3>2, <2>3, FlushOK, FlushFile
    <2>4. QED
        BY <2>1, <2>2, <2>3
<1>2. o1.err = NoErr
    BY <1>1 DEF OutCore
<1>3. WriteByteOp(o, c) = Stored(o1, c)
    BY <1>2 DEF WriteByteOp, Stored
<1> HIDE DEF o1
<1>4. /\ FileOf(Stored(o1, c)) = File!Overwrite(FileOf(o1), o1.pos, << c >>)
      /\ Stored(o1, c).pos = o1.pos + 1
    BY <1>1, StoredFile, StoreOK, BlockAssumption DEF OutOK
<1>5. QED
    BY <1>1, <1>3, <1>4


(* One activation of write(ptr, size): either it changes no byte and      *)
(* leaves pos (it sets up the first buffer, or the buffer had no room),   *)
(* or it is a Put at pos of the first bytes of d, those it copied.        *)
LEMMA WriteIterFile ==
    ASSUME NEW o, OutCore(o), NEW d \in Seq(Byte), d # << >>,
           o.pos + Len(d) <= MaxLength
    PROVE  \/ /\ FileOf(WriteIter(o, d)) = FileOf(o)
              /\ WriteIter(o, d).pos = o.pos
           \/ \E h \in Seq(Byte) :
                 /\ h # << >> /\ Len(h) <= Len(d)
                 /\ FileOf(WriteIter(o, d)) = File!Overwrite(FileOf(o), o.pos, h)
                 /\ WriteIter(o, d).pos = o.pos + Len(h)
<1>0. /\ Len(d) \in Nat \ {0} /\ o.bc \in Nat /\ o.pos \in Nat
      /\ o.bc <= BlockSize /\ o.bs < BlockSize
    BY EmptySeq, BlockAssumption DEF OutCore
<1>1. CASE Available(o) < Len(d) /\ ~o.buf
    <2>1. WriteIter(o, d) = [InitInternalBuffer(o) EXCEPT !.pend = d]
        BY <1>1 DEF WriteIter
    <2>2. /\ FileOf(InitInternalBuffer(o)) = FileOf(o)
          /\ InitInternalBuffer(o).pos = o.pos
        BY <1>1, InitBufferOK, InitBufferFile
    <2>3. QED
        BY <2>1, <2>2, PendFile
<1>2. CASE Available(o) < Len(d) /\ o.buf
    <2> DEFINE a    == Available(o)
               head == SubSeq(d, 1, a)
               rest == SubSeq(d, a + 1, Len(d))
               o1   == [CopyToBuffer(o, head) EXCEPT !.pos = @ + a]
    <2>1. a = BlockSize - o.bc /\ a \in 0 .. Len(d)
        <3>1. Available(o) = BlockSize - o.bc
            BY <1>2 DEF Available
        <3>2. QED
            BY <3>1, <1>0, <1>2, BlockAssumption
    <2>2. head \in Seq(Byte) /\ Len(head) = a
        BY <2>1, SubSeqProperties
    <2>3. o1 = Copied(o, head)
        BY <2>2 DEF Copied
    <2> HIDE DEF o1
    <2>4. /\ OutCore(o1) /\ o1.buf /\ o1.bc = BlockSize /\ o1.pos = o.pos + a
          /\ FileOf(o1) = File!Overwrite(FileOf(o), o.pos, head)
        <3>1. o.bc + Len(head) <= BlockSize /\ o.pos + Len(head) <= MaxLength
            BY <2>1, <2>2, <1>0, BlockAssumption
        <3>2. /\ OutCore(Copied(o, head)) /\ Copied(o, head).buf
              /\ Copied(o, head).bc = o.bc + Len(head)
              /\ Copied(o, head).pos = o.pos + Len(head)
            BY <1>2, <2>2, <3>1, CopiedOK
        <3>3. FileOf(Copied(o, head)) = File!Overwrite(FileOf(o), o.pos, head)
            BY <1>2, <2>2, <3>1, CopiedFile
        <3>4. o1.bc = o.bc + a /\ o1.pos = o.pos + a
            BY <2>2, <2>3, <3>2
        <3>5. QED
            BY <2>1, <1>0, <2>3, <3>2, <3>3, <3>4, BlockAssumption
    <2>5. o1.bs < o1.bc
        BY <2>4, BlockAssumption DEF OutCore
    <2>6. /\ FileOf(FlushNonEmpty(o1)) = FileOf(o1)
          /\ FlushNonEmpty(o1).pos = o.pos + a
        BY <2>4, <2>5, FlushOK, FlushFile
    <2>7. WriteIter(o, d) = [FlushNonEmpty(o1) EXCEPT !.pend = rest]
        BY <1>2 DEF WriteIter, o1
    <2>8. /\ FileOf(WriteIter(o, d)) = File!Overwrite(FileOf(o), o.pos, head)
          /\ WriteIter(o, d).pos = o.pos + Len(head)
        BY <2>2, <2>4, <2>6, <2>7, PendFile
    <2>9. CASE a = 0
        <3>1. head = << >>
            BY <2>9, SubSeqEmpty
        <3>2. /\ o.blocks \in Seq(Block)
              /\ MaxOf(o.length, o.pos) \in Nat
              /\ MaxOf(o.length, o.pos) <= Len(o.blocks) * BlockSize
              /\ o.pos \in 0 .. MaxOf(o.length, o.pos)
            <4>1. o.blocks \in Seq(Block) /\ o.length \in Nat
                BY Zenon DEF OutCore
            <4>2. QED
                BY <4>1, <1>0, RaiseLengthOK DEF MaxOf
        <3>3. File!Overwrite(FileOf(o), o.pos, << >>) = FileOf(o)
            BY <3>2, OverwriteNothing DEF FileOf
        <3>4. FileOf(WriteIter(o, d)) = FileOf(o)
            BY <2>8, <3>1, <3>3, Zenon
        <3>5. WriteIter(o, d).pos = o.pos
            BY <2>8, <2>2, <2>9, <1>0
        <3>6. QED
            BY <3>4, <3>5
    <2>10. CASE a # 0
        <3>1. head # << >> /\ Len(head) <= Len(d)
            BY <2>1, <2>2, <2>10
        <3>2. QED
            BY <2>2, <2>8, <3>1
    <2>11. QED
        BY <2>9, <2>10
<1>3. CASE ~(Available(o) < Len(d))
    <2>1. o.buf /\ o.bc + Len(d) <= BlockSize
        <3>1. o.buf
            <4>1. ~o.buf => Available(o) = 0
                BY DEF Available
            <4>2. QED
                BY <4>1, <1>0, <1>3
        <3>2. Available(o) = BlockSize - o.bc
            BY <3>1 DEF Available
        <3>3. QED
            BY <3>1, <3>2, <1>0, <1>3, BlockAssumption
    <2>2. WriteIter(o, d) = [Copied(o, d) EXCEPT !.pend = << >>]
        BY <1>3 DEF WriteIter, Copied
    <2>3. /\ FileOf(Copied(o, d)) = File!Overwrite(FileOf(o), o.pos, d)
          /\ Copied(o, d).pos = o.pos + Len(d)
        BY <2>1, <1>0, CopiedOK, CopiedFile, BlockAssumption
    <2>4. /\ FileOf(WriteIter(o, d)) = File!Overwrite(FileOf(o), o.pos, d)
          /\ WriteIter(o, d).pos = o.pos + Len(d)
        BY <2>2, <2>3, PendFile
    <2>5. Len(d) <= Len(d)
        BY <1>0
    <2>6. QED
        BY <2>4, <2>5, Zenon
<1>4. QED
    BY <1>1, <1>2, <1>3


(* flush(): the file and pos are unchanged.                                *)
LEMMA FlushOpFile ==
    ASSUME NEW o, OutOK(o)
    PROVE  FileOf(FlushOp(o)) = FileOf(o) /\ FlushOp(o).pos = o.pos
<1>1. CASE o.buf /\ o.bc # o.bs
    <2>1. OutCore(o) /\ o.bs < o.bc
        BY <1>1 DEF OutOK, OutCore
    <2>2. QED
        BY <1>1, <2>1, FlushOK, FlushFile DEF FlushOp
<1>2. CASE ~(o.buf /\ o.bc # o.bs)
    BY <1>2 DEF FlushOp
<1>3. QED
    BY <1>1, <1>2

(* The destructor raises length to pos: max(length, pos) is unchanged.     *)
LEMMA ClosedFile ==
    ASSUME NEW o, OutOK(o), o.pend = << >>
    PROVE  FileOf(Closed(o)) = FileOf(o) /\ Closed(o).pos = o.pos
<1>1. /\ Closed(o).length = MaxOf(o.length, o.pos)
      /\ Closed(o).blocks = o.blocks
    BY CloseOutOK
<1>2. Closed(o).pos = o.pos
    BY DEF Closed
<1>3. o.length \in Nat /\ o.pos \in Nat
    BY DEF OutOK, OutCore
<1>4. MaxOf(MaxOf(o.length, o.pos), o.pos) = MaxOf(o.length, o.pos)
    BY <1>3 DEF MaxOf
<1>5. QED
    BY <1>1, <1>2, <1>4 DEF FileOf

-----------------------------------------------------------------------------
(***************************************************************************)
(* The refinement.                                                         *)
(***************************************************************************)

(* A writer step that overwrites the file at pos with the bytes h it      *)
(* copied, and moves pos past them, is ByteFile's Put(h).                  *)
LEMMA PutIsFNext ==
    ASSUME NEW h \in Seq(Byte), h # << >>, Len(h) <= MaxLength, out.open,
           FileOf(out') = File!Overwrite(FileOf(out), out.pos, h),
           out'.pos = out.pos + Len(h), out'.open = out.open
    PROVE  File!FNext
<1>1. Len(h) \in 1 .. MaxLength /\ h \in [1 .. Len(h) -> Byte]
    <2>1. Len(h) \in Nat \ {0}
        BY EmptySeq, Zenon
    <2>2. h \in [1 .. Len(h) -> Byte]
        BY LenProperties, Zenon
    <2>3. QED
        BY <2>1, <2>2
<1>2. File!Put(h)
    BY Zenon DEF File!Put, FileOf
<1>3. QED
    BY <1>1, <1>2, Zenon DEF File!FNext


(* A writer step that keeps the file, pos and open is a stutter of File.   *)
LEMMA KeepIsStutter ==
    ASSUME FileOf(out') = FileOf(out), out'.pos = out.pos,
           out'.open = out.open
    PROVE  UNCHANGED File!fvars
BY DEF File!fvars, FileOf

(* An activation of write(ptr, size) is a Put of what it copies, or a     *)
(* stutter.                                                                *)
LEMMA WriteIterStep ==
    ASSUME OutOK(out), out.open, NEW d \in Seq(Byte), d # << >>,
           out.pos + Len(d) <= MaxLength,
           out' = Step(WriteIter(out, d))
    PROVE  [File!FNext]_File!fvars
<1>1. OutCore(out)
    BY DEF OutOK
<1>2. out' = WriteIter(out, d) /\ out'.open = out.open
    <2>1. OutOK(WriteIter(out, d)) /\ WriteIter(out, d).open = out.open
        BY <1>1, WriteIterOK
    <2>2. WriteIter(out, d).err = NoErr
        BY <2>1 DEF OutOK, OutCore
    <2>3. QED
        BY <2>1, <2>2, StepKeeps
<1>3. CASE /\ FileOf(WriteIter(out, d)) = FileOf(out)
           /\ WriteIter(out, d).pos = out.pos
    BY <1>2, <1>3, KeepIsStutter
<1>4. CASE \E h \in Seq(Byte) :
              /\ h # << >> /\ Len(h) <= Len(d)
              /\ FileOf(WriteIter(out, d)) = File!Overwrite(FileOf(out), out.pos, h)
              /\ WriteIter(out, d).pos = out.pos + Len(h)
    <2>1. PICK h \in Seq(Byte) :
              /\ h # << >> /\ Len(h) <= Len(d)
              /\ FileOf(WriteIter(out, d)) = File!Overwrite(FileOf(out), out.pos, h)
              /\ WriteIter(out, d).pos = out.pos + Len(h)
        BY <1>4
    <2>2. Len(h) <= MaxLength
        <3>1. Len(h) \in Nat /\ Len(d) \in Nat /\ out.pos \in Nat
            BY LenProperties, <1>1 DEF OutCore
        <3>2. QED
            BY <2>1, <3>1, BlockAssumption
    <2>3. QED
        BY <1>2, <2>1, <2>2, PutIsFNext
<1>5. QED
    BY <1>1, <1>3, <1>4, WriteIterFile

(* Every writer call is a step of ByteFile or a stutter.                   *)
LEMMA OutNextStep ==
    ASSUME OutOK(out), OutNext
    PROVE  [File!FNext]_File!fvars
<1>1. out.err = NoErr /\ OutCore(out) /\ out.open
    BY DEF OutNext, OutOK, OutCore
<1>2. CASE out.pend = << >> /\ \E c \in Byte : WriteByte(c)
    <2>1. PICK c \in Byte : WriteByte(c)
        BY <1>2
    <2>2. /\ OutOK(WriteByteOp(out, c)) /\ WriteByteOp(out, c).open = out.open
          /\ FileOf(WriteByteOp(out, c)) =
                 File!Overwrite(FileOf(out), out.pos, << c >>)
          /\ WriteByteOp(out, c).pos = out.pos + 1
        BY <1>2, <2>1, WriteByteOK, WriteByteFile DEF WriteByte
    <2>3. out' = WriteByteOp(out, c)
        BY <2>1, <2>2, StepKeeps DEF WriteByte, OutOK, OutCore
    <2>4. << c >> \in Seq(Byte) /\ << c >> # << >> /\ Len(<< c >>) = 1
        OBVIOUS
    <2>5. 1 <= MaxLength
        <3>1. out.pos \in Nat
            BY <1>1, Zenon DEF OutCore
        <3>2. QED
            BY <2>1, <3>1, BlockAssumption DEF WriteByte
    <2>6. QED
        BY <1>1, <2>2, <2>3, <2>4, <2>5, PutIsFNext
<1>3. CASE out.pend = << >> /\ \E n \in 1 .. MaxWrite : \E d \in [1 .. n -> Byte] : Write(d)
    <2>1. PICK n \in 1 .. MaxWrite : \E d \in [1 .. n -> Byte] : Write(d)
        BY <1>3
    <2>2. PICK d \in [1 .. n -> Byte] : Write(d)
        BY <2>1
    <2>3. d \in Seq(Byte) /\ d # << >>
        BY WriteArgOK
    <2>4. QED
        BY <1>1, <2>2, <2>3, WriteIterStep DEF Write
<1>4. CASE out.pend = << >> /\ Flush
    <2>1. OutOK(FlushOp(out)) /\ FlushOp(out).open = out.open
        BY FlushOpOK
    <2>2. out' = FlushOp(out)
        BY <1>4, <2>1, StepKeeps DEF Flush, OutOK, OutCore
    <2>3. QED
        BY <2>1, <2>2, FlushOpFile, KeepIsStutter
<1>5. CASE out.pend = << >> /\ \E s \in 0 .. MaxLength : SeekOutput(s)
    <2>1. PICK s \in 0 .. MaxLength : SeekOutput(s)
        BY <1>5
    <2>2. /\ OutOK(SeekOp(out, s)) /\ SeekOp(out, s).open = out.open
          /\ FileOf(SeekOp(out, s)) = FileOf(out) /\ SeekOp(out, s).pos = s
        BY <1>5, <2>1, SeekOK, SeekFile DEF SeekOutput
    <2>3. out' = SeekOp(out, s)
        BY <2>1, <2>2, StepKeeps DEF SeekOutput, OutOK, OutCore
    <2>4. s <= Len(FileOf(out))
        <3>1. /\ out.blocks \in Seq(Block)
              /\ MaxOf(out.length, out.pos) \in Nat
              /\ MaxOf(out.length, out.pos) <= Len(out.blocks) * BlockSize
            BY <1>1, RaiseLengthOK, Zenon DEF OutCore
        <3>2. Len(FileOf(out)) = MaxOf(out.length, out.pos)
            BY <3>1, ContentSeq DEF FileOf
        <3>3. QED
            BY <2>1, <3>2 DEF SeekOutput
    <2>5. File!Seek(s)
        BY <1>1, <2>2, <2>3, <2>4, Zenon DEF File!Seek, FileOf
    <2>6. QED
        BY <2>1, <2>5, Zenon DEF File!FNext
<1>6. CASE out.pend = << >> /\ CloseOutput
    <2>1. out' = Closed(out)
        BY <1>6 DEF CloseOutput, Closed
    <2>2. /\ FileOf(Closed(out)) = FileOf(out) /\ Closed(out).pos = out.pos
          /\ Closed(out).open = FALSE
        BY <1>6, ClosedFile, CloseOutOK
    <2>3. File!Close
        BY <1>1, <2>1, <2>2, Zenon DEF File!Close, FileOf
    <2>4. QED
        BY <2>3 DEF File!FNext
<1>7. CASE WriteRest
    <2>1. out.pend \in Seq(Byte) /\ out.pend # << >>
          /\ out.pos + Len(out.pend) <= MaxLength
        BY <1>7 DEF WriteRest, OutOK, OutCore
    <2>2. QED
        BY <1>1, <1>7, <2>1, WriteIterStep DEF WriteRest
<1>8. QED
    BY <1>2, <1>3, <1>4, <1>5, <1>6, <1>7 DEF OutNext


(* The writer's layout is inductive on its own: the readers never touch   *)
(* the writer's record.                                                    *)
LEMMA NextOutOK ==
    ASSUME OutOK(out), [Next]_vars
    PROVE  OutOK(out')
<1>1. CASE OutNext /\ UNCHANGED <<rd, res>>
    BY <1>1, OutNextOK
<1>2. CASE UNCHANGED out
    BY <1>2 DEF OutOK, OutCore
<1>3. QED
    BY <1>1, <1>2 DEF Next, vars

(* The file before the first call is empty.                                *)
LEMMA InitFile ==
    ASSUME Init
    PROVE  File!FInit
<1>1. out.blocks = << >> /\ out.length = 0 /\ out.pos = 0 /\ out.open = TRUE
    BY DEF Init, OutInit
<1>2. FileOf(out) = << >>
    BY <1>1 DEF FileOf, Content, MaxOf
<1>3. QED
    BY <1>1, <1>2, Zenon DEF File!FInit, FileOf

(* RAMFileIndexOutput implements ByteFile, for every block size, byte set *)
(* and bound, whatever the readers do: the bytes of the blocks up to      *)
(* max(length, pos) change only as ByteFile's writes overwrite or extend  *)
(* the file at its cursor, pos moves only past the bytes written or to a  *)
(* seek target inside the file, and the destructor closes it.  No         *)
(* assumption on the readers is needed.                                    *)
THEOREM WriterRefinesFile == Spec => File!FSpec
<1>1. Init => OutOK(out)
    BY InitIInv DEF IInv
<1>2. OutOK(out) /\ [Next]_vars => OutOK(out)'
    BY NextOutOK
<1>3. OutOK(out) /\ [Next]_vars => [File!FNext]_File!fvars
    <2> SUFFICES ASSUME OutOK(out), [Next]_vars PROVE [File!FNext]_File!fvars
        OBVIOUS
    <2>1. CASE OutNext /\ UNCHANGED <<rd, res>>
        BY <2>1, OutNextStep
    <2>2. CASE UNCHANGED out
        BY <2>2 DEF File!fvars
    <2>3. QED
        BY <2>1, <2>2 DEF Next, vars
<1>4. Init => File!FInit
    BY InitFile
<1>5. QED
    BY <1>1, <1>2, <1>3, <1>4, PTL DEF Spec, File!FSpec

====
