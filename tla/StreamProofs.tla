----------------------------- MODULE StreamProofs -----------------------------
(***************************************************************************)
(* RAMFileIO implements ByteStream (the PROPERTY StreamRefines of run      *)
(* io_stream), for every block size and bound, under the reader contract:  *)
(* the writer's calls are ByteFile's steps (RAMFileOutputProofs), and      *)
(* every reader call on the committed file is ROpen, RByte, REof, RSeek,   *)
(* RClose, the RRead of read's exit, or a stutter (read's start and the    *)
(* iterations of its loop).  The argument needs one fact besides the       *)
(* layout IInv: the bytes a read in progress has copied are the file's    *)
(* bytes from where the caller stands.                                     *)
(***************************************************************************)
EXTENDS RAMFileOutputProofs, TLAPS

(* Every byte a read in progress holds is the file's byte at the position *)
(* it is tagged with, and the positions run on from where the caller     *)
(* stands (CallerAt), which is a position of the file: copyFromBuffer    *)
(* takes them in order from bufCur.                                       *)
GotAt(r, bl) ==
    /\ Len(r.got) <= AtIn(r)
    /\ \A i \in 1 .. Len(r.got) :
          r.got[i] = << AtIn(r) - Len(r.got) + i - 1,
                        At(bl, AtIn(r) - Len(r.got) + i - 1) >>

(* The reader's data invariant: a read in progress asks for at least one  *)
(* byte (read(ptr, 0) is never started), and what it copied so far is the *)
(* file's bytes from the caller's position on.                            *)
ReadInv ==
    /\ rd.reading => rd.want >= 1
    /\ GotAt(rd, out.blocks)
-----------------------------------------------------------------------------
(***************************************************************************)
(* Positions of the bytes a reader takes.                                  *)
(***************************************************************************)

(* The byte i places after bufCur, inside the block, is the file's byte   *)
(* at position AtIn(r) + i, and is tagged with that position.             *)
LEMMA TakenAt ==
    ASSUME NEW r, NEW bl, r.buf = TRUE, r.cur \in Nat, r.bc \in Nat,
           NEW i \in Nat, r.bc + i < BlockSize
    PROVE  Taken(r, bl, i) = << AtIn(r) + i, At(bl, AtIn(r) + i) >>
<1> DEFINE j == r.cur * BlockSize + r.bc + i
<1>1. AtIn(r) + i = j
    BY DEF AtIn
<1>2. j \in Nat /\ r.cur * BlockSize <= j /\ j < (r.cur + 1) * BlockSize
    BY BlockAssumption
<1>3. j \div BlockSize = r.cur /\ j % BlockSize = r.bc + i
    <2>1. j \div BlockSize = r.cur /\ j % BlockSize = j - r.cur * BlockSize
        BY <1>2, DivUnique
    <2>2. QED
        BY <2>1, BlockAssumption
<1>4. QED
    BY <1>1, <1>3 DEF Taken, At

(* Where the caller stands, before and after a step.                      *)
LEMMA CallerAtIs ==
    /\ CallerAt = AtIn(rd) - Len(rd.got)
    /\ CallerAt' = AtIn(rd') - Len(rd'.got)
BY DEF CallerAt, ReaderAt, AtIn

(* GotAt depends on the reader only through bufCur's place and the bytes  *)
(* copied.                                                                 *)
LEMMA GotAtSame ==
    ASSUME NEW r, NEW r1, NEW bl, GotAt(r, bl),
           AtIn(r1) = AtIn(r), r1.got = r.got
    PROVE  GotAt(r1, bl)
BY Zenon DEF GotAt

(* With nothing copied, GotAt holds of any reader whose bufCur is a       *)
(* position.                                                               *)
LEMMA GotAtEmpty ==
    ASSUME NEW r, NEW bl, r.got = << >>, AtIn(r) \in Nat
    PROVE  GotAt(r, bl)
BY EmptySeq DEF GotAt

(* One copy of read's loop appends the k bytes from bufCur on, tagged     *)
(* with their positions, which run on from the bytes already copied: the  *)
(* caller's position stays where it was.                                   *)
LEMMA GotCopy ==
    ASSUME NEW bl \in Seq(Block), NEW r, GotAt(r, bl), Taking(r.got),
           DOMAIN r = InFields, r.buf = TRUE, r.cur \in Nat, r.bc \in Nat,
           r.cur < Len(bl), NEW k \in Nat, r.bc + k <= BlockSize
    PROVE  /\ GotAt(CopyIn(r, bl, k), bl)
           /\ AtIn(CopyIn(r, bl, k)) - Len(CopyIn(r, bl, k).got)
                  = AtIn(r) - Len(r.got)
<1> DEFINE g  == r.got
           c  == Chunk(r, bl, k)
           r2 == CopyIn(r, bl, k)
           B  == AtIn(r) - Len(g)
<1>1. r2.got = g \o c /\ r2.buf = TRUE /\ r2.cur = r.cur /\ r2.bc = r.bc + k
    BY DEF CopyIn, InFields
<1>2. AtIn(r) = r.cur * BlockSize + r.bc /\ AtIn(r) \in Nat
    BY BlockAssumption DEF AtIn
<1>3. AtIn(r2) = AtIn(r) + k
    <2>1. AtIn(r2) = r2.cur * BlockSize + r2.bc
        BY Zenon, <1>1 DEF AtIn
    <2>2. r2.cur = r.cur /\ r2.bc = r.bc + k
        BY Zenon, <1>1
    <2>3. QED
        BY <1>2, <2>1, <2>2, BlockAssumption
<1>4. g \in Seq(Nat \X Memory) /\ Len(g) \in Nat
    BY Zenon, LenProperties DEF Taking
<1>5. c \in Seq(Nat \X Memory) /\ Len(c) = k
    BY ChunkOK
<1> HIDE DEF c, r2
<1>6. /\ Len(r2.got) = Len(g) + k
      /\ \A i \in 1 .. Len(g) + k :
            r2.got[i] = IF i <= Len(g) THEN g[i] ELSE c[i - Len(g)]
    <2>1. /\ Len(g \o c) = Len(g) + Len(c)
          /\ \A i \in 1 .. Len(g) + Len(c) :
                (g \o c)[i] = IF i <= Len(g) THEN g[i] ELSE c[i - Len(g)]
        BY ZenonT(40), <1>4, <1>5, ConcatProperties
    <2>2. QED
        BY <1>1, <1>5, <2>1
<1>7. AtIn(r2) - Len(r2.got) = B
    BY <1>2, <1>3, <1>4, <1>6
<1>8. Len(r2.got) <= AtIn(r2)
    <2>1. Len(g) <= AtIn(r)
        BY DEF GotAt
    <2>2. QED
        BY <1>2, <1>3, <1>4, <1>6, <2>1
<1>9. ASSUME NEW i \in 1 .. Len(r2.got)
      PROVE  r2.got[i] = << B + i - 1, At(bl, B + i - 1) >>
    <2>1. CASE i <= Len(g)
        <3>1. g[i] = << B + i - 1, At(bl, B + i - 1) >>
            BY <2>1, <1>4 DEF GotAt
        <3>2. QED
            BY <1>4, <1>6, <2>1, <3>1
    <2>2. CASE ~(i <= Len(g))
        <3> DEFINE j == i - Len(g)
        <3>a. Len(r2.got) = Len(g) + k
            BY Zenon, <1>6
        <3>b. j \in 1 .. k
            BY <1>4, <3>a, <2>2
        <3>c. r2.got[i] = IF i <= Len(g) THEN g[i] ELSE c[i - Len(g)]
            BY Zenon, <1>6, <3>a
        <3>d. r2.got[i] = c[j]
            BY Zenon, <2>2, <3>c
        <3>1. j \in 1 .. k /\ r2.got[i] = c[j]
            BY <3>b, <3>d
        <3>2. c[j] = Taken(r, bl, j - 1)
            BY <3>1 DEF c, Chunk
        <3>3. j - 1 \in Nat /\ r.bc + (j - 1) < BlockSize
            BY <3>1, BlockAssumption
        <3>4. Taken(r, bl, j - 1) = << AtIn(r) + (j - 1), At(bl, AtIn(r) + (j - 1)) >>
            BY <3>3, TakenAt
        <3>5. AtIn(r) + (j - 1) = B + i - 1
            BY <1>2, <1>4
        <3>6. QED
            BY <3>1, <3>2, <3>4, <3>5
    <2>3. QED
        BY <2>1, <2>2
<1>10. \A i \in 1 .. Len(r2.got) :
          r2.got[i] = << AtIn(r2) - Len(r2.got) + i - 1,
                         At(bl, AtIn(r2) - Len(r2.got) + i - 1) >>
    BY <1>7, <1>9
<1>11. GotAt(r2, bl)
    BY <1>8, <1>10 DEF GotAt
<1>12. QED
    BY <1>7, <1>11 DEF r2

-----------------------------------------------------------------------------
(***************************************************************************)
(* The reader's calls, as the caller sees them.                            *)
(***************************************************************************)

(* One iteration of read's loop under the contract: either the exit, once *)
(* the call has copied all it asked for, which returns those bytes; or a  *)
(* copy, which leaves the caller where it stands and the result as it    *)
(* was, and copies the file's bytes.                                       *)
LEMMA IterStep ==
    ASSUME NEW bl, NEW len, FileOK(bl, len), InOK(rd, len), rd.reading,
           GotAt(rd, bl), ReadIter(bl)
    PROVE  \/ /\ Len(rd.got) = rd.want
              /\ rd' = ReadDone(rd).r
              /\ res' = Result("bytes", rd.want, rd.got)
           \/ /\ rd'.open = TRUE /\ rd'.reading = TRUE /\ rd'.want = rd.want
              /\ res' = res
              /\ GotAt(rd', bl)
              /\ AtIn(rd') - Len(rd'.got) = AtIn(rd) - Len(rd.got)
<1>0. rd' = ReadIterOp(rd, bl).r /\ res' = ReadIterOp(rd, bl).res
    <2>1. InOK(ReadIterOp(rd, bl).r, len)
        BY ReadIterOK
    <2>2. ReadIterOp(rd, bl).r.err = NoErrIn
        BY <2>1 DEF InOK
    <2>3. QED
        BY <2>2, StepInKeeps DEF ReadIter
<1>1. /\ rd.want \in Nat /\ Len(rd.got) \in Nat /\ Len(rd.got) <= rd.want
      /\ rd.open = TRUE
    <2>1. rd.got \in Seq(Nat \X Memory) /\ rd.open = TRUE
        BY Zenon DEF InOK, Taking
    <2>2. QED
        BY <2>1, LenProperties DEF InOK
<1>2. CASE Len(rd.got) >= rd.want
    <2>1. ReadIterOp(rd, bl) = ReadDone(rd)
        BY <1>2 DEF ReadIterOp
    <2>2. ReadDone(rd).res = Result("bytes", rd.want, rd.got)
        BY DEF ReadDone
    <2>3. QED
        BY <1>0, <1>1, <1>2, <2>1, <2>2
<1>3. CASE ~(Len(rd.got) >= rd.want)
    <2> DEFINE r1 == EofOp(rd, bl).r
               k  == MinOf(Readable(r1), rd.want - Len(rd.got))
    <2>1. AtIn(rd) < len /\ AtIn(rd) \in Nat
        <3>1. rd.cur \in Nat /\ rd.bc \in Nat /\ rd.buf \in BOOLEAN
            BY DEF InOK
        <3>2. AtIn(rd) \in Nat
            BY <3>1, BlockAssumption DEF AtIn
        <3>3. AtIn(rd) + rd.want - Len(rd.got) <= len /\ len \in Nat
            BY <1>1 DEF InOK, FileOK
        <3>4. QED
            BY <1>1, <1>3, <3>2, <3>3
    <2>2. EofOp(rd, bl).eof = FALSE /\ EofPost(rd, r1, len)
        BY Zenon, <1>1, <2>1, EofOK
    <2>3. /\ InOK(r1, len) /\ r1.buf = TRUE /\ Readable(r1) > 0
          /\ AtIn(r1) = AtIn(rd)
          /\ r1.err = NoErrIn /\ r1.open = TRUE /\ r1.reading = TRUE
          /\ r1.want = rd.want /\ r1.got = rd.got /\ DOMAIN r1 = InFields
        <3>1. InOK(r1, len) /\ Keeps(r1, rd) /\ r1.buf = TRUE /\ Readable(r1) > 0
              /\ AtIn(r1) = AtIn(rd)
            BY <2>2 DEF EofPost
        <3>2. r1.err = NoErrIn
            BY <3>1 DEF InOK
        <3>3. QED
            BY Zenon, <1>1, <3>1, <3>2 DEF Keeps
    <2>4. /\ ReadIterOp(rd, bl).r = CopyIn(r1, bl, k)
          /\ ReadIterOp(rd, bl).res = res
        BY <1>3, <2>2, <2>3 DEF ReadIterOp, CopyIn, Chunk
    <2> HIDE DEF r1
    <2>5. /\ r1.cur \in Nat /\ r1.bc \in Nat /\ r1.sent = BlockSize
          /\ r1.cur * BlockSize < len /\ Taking(r1.got)
        BY <2>3 DEF InOK
    <2>6. /\ k \in Nat \ {0} /\ r1.bc + k <= r1.sent
          /\ Len(r1.got) + k <= r1.want
        <3>1. r1.bc \in Nat /\ r1.sent \in Nat
            BY <2>3 DEF InOK
        <3>2. Readable(r1) = r1.sent - r1.bc
            BY Zenon, <2>3 DEF Readable
        <3>3. QED
            BY <1>1, <1>3, <2>3, <3>1, <3>2 DEF MinOf
    <2> HIDE DEF k
    <2>7. bl \in Seq(Block) /\ r1.cur < Len(bl)
        <3>1. len \in Nat \ {0} /\ bl \in Seq(Block) /\ len <= Len(bl) * BlockSize
            BY DEF FileOK
        <3>2. QED
            BY <2>5, <3>1, StartsInside
    <2>8. GotAt(r1, bl)
        BY <2>3, GotAtSame
    <2>9. /\ GotAt(CopyIn(r1, bl, k), bl)
          /\ AtIn(CopyIn(r1, bl, k)) - Len(CopyIn(r1, bl, k).got)
                 = AtIn(r1) - Len(r1.got)
        BY <2>3, <2>5, <2>6, <2>7, <2>8, BlockAssumption, GotCopy
    <2>10. /\ CopyIn(r1, bl, k).open = TRUE
           /\ CopyIn(r1, bl, k).reading = TRUE
        BY <2>3, <2>5, <2>6, CopyOK
    <2>11. CopyIn(r1, bl, k).want = rd.want
        BY <2>3 DEF CopyIn, InFields
    <2>12. QED
        BY <1>0, <2>3, <2>4, <2>9, <2>10, <2>11
<1>4. QED
    BY <1>2, <1>3

(* What eof() leaves when the file has bytes left: the reader's window    *)
(* moved to a buffer with bytes to read, at the same place in the file,   *)
(* with the rest of the reader as it was.                                  *)
LEMMA EofLeaves ==
    ASSUME NEW bl, NEW len, FileOK(bl, len), NEW r, InOK(r, len), r.open,
           AtIn(r) < len
    PROVE  /\ EofOp(r, bl).eof = FALSE
           /\ InOK(EofOp(r, bl).r, len)
           /\ EofOp(r, bl).r.buf = TRUE
           /\ EofOp(r, bl).r.cur \in Nat /\ EofOp(r, bl).r.bc \in Nat
           /\ EofOp(r, bl).r.bc < BlockSize
           /\ AtIn(EofOp(r, bl).r) = AtIn(r)
           /\ EofOp(r, bl).r.err = NoErrIn
           /\ Keeps(EofOp(r, bl).r, r)
<1> DEFINE r1 == EofOp(r, bl).r
<1>1. EofOp(r, bl).eof = FALSE /\ EofPost(r, r1, len)
    BY Zenon, EofOK
<1>2. InOK(r1, len) /\ Keeps(r1, r) /\ r1.buf = TRUE /\ Readable(r1) > 0
      /\ AtIn(r1) = AtIn(r)
    BY <1>1 DEF EofPost
<1> HIDE DEF r1
<1>3. /\ r1.err = NoErrIn /\ r1.cur \in Nat /\ r1.bc \in Nat
      /\ r1.sent \in Nat /\ r1.sent <= BlockSize
    BY <1>2 DEF InOK
<1>4. r1.bc < BlockSize
    <2>1. Readable(r1) = r1.sent - r1.bc
        BY Zenon, <1>2 DEF Readable
    <2>2. Readable(r1) > 0
        BY Zenon, <1>2
    <2>3. QED
        BY <1>3, <2>1, <2>2, BlockAssumption
<1>5. QED
    BY <1>1, <1>2, <1>3, <1>4 DEF r1

(* readByte() inside the file returns the byte at the caller's position, *)
(* tagged with it, and moves bufCur one on.                              *)
LEMMA ByteStep ==
    ASSUME NEW bl, NEW len, FileOK(bl, len), InOK(rd, len), rd.open,
           ~rd.reading, ~ReadPastEnd, ReadByte(bl, len)
    PROVE  /\ AtIn(rd) < len /\ AtIn(rd) \in Nat
           /\ AtIn(rd') = AtIn(rd) + 1
           /\ rd'.got = << >> /\ rd'.open = TRUE /\ rd'.reading = FALSE
           /\ res' = Result("bytes", 0, << << AtIn(rd), At(bl, AtIn(rd)) >> >>)
<1> DEFINE r1 == EofOp(rd, bl).r
           r2 == [r1 EXCEPT !.bc = @ + 1, !.pos = @ + 1]
<1>1. AtIn(rd) < len /\ rd.pos < MaxRead /\ AtIn(rd) \in Nat
    <2>1. rd.cur \in Nat /\ rd.bc \in Nat /\ rd.buf \in BOOLEAN
        BY DEF InOK
    <2>2. AtIn(rd) \in Nat
        BY <2>1, BlockAssumption DEF AtIn
    <2>3. QED
        BY <2>2 DEF ReadByte, ReaderAt, AtIn
<1>2. rd' = ReadByteOp(rd, bl).r /\ res' = ReadByteOp(rd, bl).res
    <2>1. InOK(ReadByteOp(rd, bl).r, len)
        BY <1>1, ReadByteOK
    <2>2. ReadByteOp(rd, bl).r.err = NoErrIn
        BY <2>1 DEF InOK
    <2>3. QED
        BY <2>2, StepInKeeps DEF ReadByte
<1>3. /\ EofOp(rd, bl).eof = FALSE
      /\ r1.buf = TRUE /\ r1.cur \in Nat /\ r1.bc \in Nat
      /\ r1.bc < BlockSize /\ AtIn(r1) = AtIn(rd) /\ r1.err = NoErrIn
      /\ Keeps(r1, rd)
    <2>1. AtIn(rd) < len
        BY <1>1
    <2>2. QED
        BY ZenonT(60), <2>1, EofLeaves
<1>4. /\ ReadByteOp(rd, bl).r = r2
      /\ ReadByteOp(rd, bl).res = Result("bytes", 0, << Taken(r1, bl, 0) >>)
    BY <1>3 DEF ReadByteOp
<1>5. Taken(r1, bl, 0) = << AtIn(r1), At(bl, AtIn(r1)) >>
    <2>1. r1.bc + 0 < BlockSize /\ 0 \in Nat
        BY <1>3
    <2>2. Taken(r1, bl, 0) = << AtIn(r1) + 0, At(bl, AtIn(r1) + 0) >>
        BY Zenon, <1>3, <2>1, TakenAt
    <2>3. AtIn(r1) + 0 = AtIn(r1)
        BY <1>1, <1>3
    <2>4. QED
        BY <2>2, <2>3
<1>6. /\ r1.got = << >> /\ r1.open = TRUE /\ r1.reading = FALSE
      /\ DOMAIN r1 = InFields
    <2>1. rd.got = << >> /\ rd.open = TRUE /\ rd.reading = FALSE
        BY Zenon DEF InOK
    <2>2. QED
        BY Zenon, <1>3, <2>1 DEF Keeps
<1> HIDE DEF r1
<1>7. /\ r2.got = << >> /\ r2.open = TRUE /\ r2.reading = FALSE
      /\ r2.buf = TRUE /\ r2.cur = r1.cur /\ r2.bc = r1.bc + 1
    BY Zenon, <1>3, <1>6 DEF InFields
<1>8. AtIn(r2) = AtIn(r1) + 1
    <2>1. AtIn(r2) = r2.cur * BlockSize + r2.bc /\ AtIn(r1) = r1.cur * BlockSize + r1.bc
        BY Zenon, <1>3, <1>7 DEF AtIn
    <2>2. QED
        BY <1>3, <1>7, <2>1, BlockAssumption
<1>9. QED
    BY <1>1, <1>2, <1>3, <1>4, <1>5, <1>7, <1>8

(* eof() inside the file answers "more" and leaves the caller where it   *)
(* stands.                                                                 *)
LEMMA EofStep ==
    ASSUME NEW bl, NEW len, FileOK(bl, len), InOK(rd, len), rd.open,
           ~ReadPastEnd, Eof(bl, len)
    PROVE  /\ AtIn(rd) < len
           /\ AtIn(rd') = AtIn(rd) /\ rd'.got = rd.got
           /\ rd'.open = rd.open /\ rd'.reading = rd.reading
           /\ res' = Result("more", 0, << >>)
<1>1. AtIn(rd) < len
    BY DEF Eof, ReaderAt, AtIn
<1>2. /\ EofOp(rd, bl).eof = FALSE /\ EofOp(rd, bl).r.err = NoErrIn
      /\ AtIn(EofOp(rd, bl).r) = AtIn(rd) /\ Keeps(EofOp(rd, bl).r, rd)
    BY ZenonT(60), <1>1, EofLeaves
<1>3. rd' = EofOp(rd, bl).r /\ res' = Result("more", 0, << >>)
    BY <1>2, StepInKeeps DEF Eof
<1>4. QED
    BY <1>1, <1>2, <1>3 DEF Keeps

(* seek(s) below the length puts bufCur at s.                            *)
LEMMA SeekStep ==
    ASSUME NEW len \in Nat \ {0}, InOK(rd, len), rd.open, ~rd.reading,
           ~SeekToEnd, NEW s \in 0 .. len, SeekInput(len, s)
    PROVE  /\ s \in 0 .. len - 1
           /\ AtIn(rd') = s /\ rd'.got = rd.got
           /\ rd'.open = rd.open /\ rd'.reading = rd.reading
           /\ res' = Result("seek", s, << >>)
<1>1. s \in 0 .. len - 1
    BY DEF SeekInput
<1>2. SeekInOp(rd, len, s).err = NoErrIn
    BY <1>1, SeekInOK
<1>3. rd' = SeekInOp(rd, len, s) /\ res' = Result("seek", s, << >>)
    BY <1>2, StepInKeeps DEF SeekInput
<1>4. /\ rd'.buf = TRUE /\ rd'.cur = s \div BlockSize /\ rd'.bc = s % BlockSize
      /\ rd'.got = rd.got /\ rd'.open = rd.open /\ rd'.reading = rd.reading
    <2>1. DOMAIN rd = InFields
        BY DEF InOK
    <2>2. /\ SeekInOp(rd, len, s).buf = TRUE
          /\ SeekInOp(rd, len, s).cur = s \div BlockSize
          /\ SeekInOp(rd, len, s).bc = s % BlockSize
        BY <1>1, <2>1 DEF SeekInOp, InFields
    <2>3. /\ SeekInOp(rd, len, s).got = rd.got
          /\ SeekInOp(rd, len, s).open = rd.open
          /\ SeekInOp(rd, len, s).reading = rd.reading
        BY <1>1, <2>1 DEF SeekInOp, InFields
    <2>4. QED
        BY Zenon, <1>3, <2>2, <2>3
<1>5. AtIn(rd') = s
    <2>1. AtIn(rd') = rd'.cur * BlockSize + rd'.bc
        BY Zenon, <1>4 DEF AtIn
    <2>2. s = (s \div BlockSize) * BlockSize + (s % BlockSize)
        BY DivMod
    <2>3. QED
        BY <1>4, <2>1, <2>2
<1>6. QED
    BY <1>1, <1>3, <1>4, <1>5

(* read(ptr, n) is called: nothing is copied yet, the caller stays where *)
(* it stands, and nothing is returned yet.                                *)
LEMMA StartStep ==
    ASSUME NEW len, InOK(rd, len), ~rd.reading,
           NEW n \in 1 .. BlockSize + 1, ReadStart(len, n)
    PROVE  /\ AtIn(rd') = AtIn(rd) /\ rd'.got = << >> /\ rd.got = << >>
           /\ rd'.open = rd.open /\ rd'.reading = TRUE /\ rd'.want = n
           /\ res' = res
<1>1. DOMAIN rd = InFields /\ rd.got = << >>
    BY DEF InOK
<1>2. QED
    BY <1>1 DEF ReadStart, AtIn, InFields

(* The reader's destructor: only open changes.                            *)
LEMMA CloseStep ==
    ASSUME NEW len, InOK(rd, len), CloseReader
    PROVE  /\ AtIn(rd') = AtIn(rd) /\ rd'.got = rd.got
           /\ rd'.open = FALSE /\ rd'.reading = rd.reading
           /\ res' = NoResult
<1>1. DOMAIN rd = InFields
    BY DEF InOK
<1>2. QED
    BY <1>1 DEF CloseReader, AtIn, InFields

(* openInput() on the committed, non-empty file: a fresh reader, with no  *)
(* buffer yet, at position 0.                                              *)
LEMMA OpenStep ==
    ASSUME NEW len \in Nat \ {0}, OpenReader(len)
    PROVE  /\ ~rd.open
           /\ AtIn(rd') = 0 /\ rd'.got = << >>
           /\ rd'.open = TRUE /\ rd'.reading = FALSE
           /\ res' = NoResult
<1>1. OpenOp(len).err = NoErrIn
    BY OpenOK
<1>2. rd' = OpenOp(len) /\ res' = NoResult
    BY <1>1, StepInKeeps DEF OpenReader
<1>3. QED
    BY <1>2 DEF OpenReader, OpenOp, AtIn

-----------------------------------------------------------------------------
(***************************************************************************)
(* The refinement, step by step.                                           *)
(***************************************************************************)

(* ByteStream's writer is ByteFile's, under the same mapping.             *)
LEMMA FileIsStream ==
    ASSUME File!FNext
    PROVE  Stream!FNext
BY Zenon DEF File!FNext, Stream!FNext, File!Put, Stream!Put, File!Seek,
             Stream!Seek, File!Close, Stream!Close, File!Overwrite,
             Stream!Overwrite

(* The exit of read(ptr, size) leaves bufCur where it was and the reader *)
(* with nothing copied and no read in progress.                            *)
LEMMA DoneAt ==
    ASSUME NEW len, NEW r, InOK(r, len)
    PROVE  /\ AtIn(ReadDone(r).r) = AtIn(r)
           /\ ReadDone(r).r.got = << >>
           /\ ReadDone(r).r.reading = FALSE
           /\ ReadDone(r).r.open = r.open
<1>1. DOMAIN r = InFields
    BY DEF InOK
<1>2. QED
    BY <1>1 DEF ReadDone, AtIn, InFields

(* A reader's call: the writer has committed the non-empty file and does  *)
(* not move, the layout and the reader's data invariant hold.             *)
ReaderCall ==
    /\ ReaderContract /\ IInv /\ ReadInv
    /\ ~out.open /\ out.length > 0 /\ UNCHANGED out

(* What a reader's call may rely on: the file, its bytes as ByteStream    *)
(* sees them (the first length bytes of FileOf(out)), and the reader.     *)
LEMMA CallFacts ==
    ASSUME ReaderCall
    PROVE  /\ FileOK(out.blocks, out.length) /\ InOK(rd, out.length)
           /\ out.length \in Nat \ {0} /\ out.length <= MaxLength
           /\ Len(FileOf(out)) \in Nat /\ out.length <= Len(FileOf(out))
           /\ \A p \in 0 .. out.length - 1 : FileOf(out)[p + 1] = At(out.blocks, p)
           /\ ~SeekToEnd /\ ~ReadPastEnd
           /\ AtIn(rd) \in Nat
           /\ rd.reading => rd.want >= 1
           /\ GotAt(rd, out.blocks)
           /\ out' = out
<1>1. OutCore(out) /\ InOK(rd, out.length)
    BY DEF ReaderCall, IInv, OutOK
<1>2. /\ out.blocks \in Seq(Block) /\ out.length \in Nat /\ out.pos \in Nat
      /\ out.length <= MaxLength /\ out.length <= Len(out.blocks) * BlockSize
    BY Zenon, <1>1 DEF OutCore
<1>3. /\ MaxOf(out.length, out.pos) \in Nat
      /\ MaxOf(out.length, out.pos) <= Len(out.blocks) * BlockSize
    BY <1>1, RaiseLengthOK
<1>4. Len(FileOf(out)) = MaxOf(out.length, out.pos)
    BY <1>2, <1>3, ContentSeq DEF FileOf
<1>5. out.length <= MaxOf(out.length, out.pos)
    BY <1>2 DEF MaxOf
<1>6. \A p \in 0 .. out.length - 1 : FileOf(out)[p + 1] = At(out.blocks, p)
    BY <1>2, <1>3, <1>5 DEF FileOf, Content
<1>7. AtIn(rd) \in Nat
    <2>1. rd.cur \in Nat /\ rd.bc \in Nat /\ rd.buf \in BOOLEAN
        BY <1>1 DEF InOK
    <2>2. QED
        BY <2>1, BlockAssumption DEF AtIn
<1>8. out.length \in Nat \ {0} /\ FileOK(out.blocks, out.length)
    BY <1>2 DEF ReaderCall, FileOK
<1>9. QED
    BY <1>1, <1>2, <1>3, <1>4, <1>5, <1>6, <1>7, <1>8
       DEF ReaderCall, ReaderContract, ReadInv

(* openInput() is ROpen.                                                   *)
LEMMA OpenMaps ==
    ASSUME ReaderCall, OpenReader(out.length)
    PROVE  Stream!ROpen /\ ReadInv'
<1>1. /\ out.length \in Nat \ {0} /\ Len(FileOf(out)) \in Nat
      /\ out.length <= Len(FileOf(out)) /\ out' = out /\ ~out.open
    BY CallFacts DEF ReaderCall
<1>2. /\ ~rd.open
      /\ AtIn(rd') = 0 /\ rd'.got = << >>
      /\ rd'.open = TRUE /\ rd'.reading = FALSE
      /\ res' = NoResult
    BY <1>1, OpenStep
<1>3. CallerAt' = 0
    <2>1. AtIn(rd') = 0 /\ rd'.got = << >>
        BY Zenon, <1>2
    <2>2. Len(rd'.got) = 0
        BY Zenon, <2>1, EmptySeq
    <2>3. CallerAt' = 0 - 0
        BY Zenon, <2>1, <2>2, CallerAtIs
    <2>4. 0 - 0 = 0
        OBVIOUS
    <2>5. QED
        BY Zenon, <2>3, <2>4
<1>4. Stream!ROpen
    BY <1>1, <1>2, <1>3
       DEF Stream!ROpen, Stream!NoResult, Stream!Result, NoResult, Result, FileOf
<1>5. ReadInv'
    <2>1. GotAt(rd', out'.blocks)
        BY <1>2, GotAtEmpty
    <2>2. QED
        BY <1>2, <2>1 DEF ReadInv
<1>6. QED
    BY <1>4, <1>5

(* readByte() inside the file is RByte: the byte at the caller's position *)
(* is returned, tagged with it, and the caller moves one on.               *)
LEMMA ByteMaps ==
    ASSUME ReaderCall, rd.open, ~rd.reading, ReadByte(out.blocks, out.length)
    PROVE  Stream!RByte /\ ReadInv'
<1> DEFINE a == AtIn(rd)
<1>1. /\ FileOK(out.blocks, out.length) /\ InOK(rd, out.length)
      /\ Len(FileOf(out)) \in Nat /\ out.length <= Len(FileOf(out))
      /\ \A p \in 0 .. out.length - 1 : FileOf(out)[p + 1] = At(out.blocks, p)
      /\ ~ReadPastEnd /\ out' = out /\ out.length \in Nat
    BY CallFacts
<1>2. /\ a < out.length /\ a \in Nat
      /\ AtIn(rd') = a + 1
      /\ rd'.got = << >> /\ rd'.open = TRUE /\ rd'.reading = FALSE
      /\ res' = Result("bytes", 0, << << a, At(out.blocks, a) >> >>)
    BY <1>1, ByteStep
<1>3. rd.got = << >>
    BY <1>1 DEF InOK
<1>4. CallerAt = a /\ CallerAt' = a + 1
    <2>1. AtIn(rd) - Len(rd.got) = a /\ AtIn(rd') - Len(rd'.got) = a + 1
        BY <1>2, <1>3
    <2>2. QED
        BY Zenon, <2>1, CallerAtIs
<1>5. << << a, At(out.blocks, a) >> >>
          = [i \in 1 .. 1 |-> << a + i - 1, FileOf(out)[a + i] >>]
    <2>1. FileOf(out)[a + 1] = At(out.blocks, a)
        BY <1>1, <1>2
    <2>2. [i \in 1 .. 1 |-> << a + i - 1, FileOf(out)[a + i] >>]
              = << << a, FileOf(out)[a + 1] >> >>
        BY <1>2
    <2>3. QED
        BY <2>1, <2>2
<1>6. a < Len(FileOf(out))
    BY <1>1, <1>2
<1> HIDE DEF a
<1>7. Stream!RByte
    BY <1>2, <1>4, <1>5, <1>6
       DEF Stream!RByte, Stream!Result, Stream!Bytes, Result, FileOf
<1>8. ReadInv'
    <2>1. GotAt(rd', out'.blocks)
        BY <1>2, GotAtEmpty
    <2>2. QED
        BY <1>2, <2>1 DEF ReadInv
<1>9. QED
    BY <1>7, <1>8

(* Two facts of arithmetic, stated apart from the reader's state.        *)
LEMMA BelowIsNot ==
    ASSUME NEW x \in Nat, NEW y \in Nat, NEW z \in Nat, x < y, y <= z
    PROVE  x # z
OBVIOUS

LEMMA InPrefix ==
    ASSUME NEW x, NEW y \in Nat, NEW m \in Nat, NEW z \in Nat,
           x \in 0 .. y - 1, y <= m, y <= z
    PROVE  x \in 0 .. m /\ x <= z
OBVIOUS

(* eof() below the length is REof answering "more": bufCur and the       *)
(* caller's position stay where they were.                                 *)
LEMMA EofMaps ==
    ASSUME ReaderCall, rd.open, ~rd.reading, Eof(out.blocks, out.length)
    PROVE  Stream!REof /\ ReadInv'
<1>1. /\ FileOK(out.blocks, out.length) /\ InOK(rd, out.length)
      /\ Len(FileOf(out)) \in Nat /\ out.length <= Len(FileOf(out))
      /\ ~ReadPastEnd /\ out' = out /\ AtIn(rd) \in Nat
      /\ out.length \in Nat
    BY CallFacts
<1>2. /\ AtIn(rd) < out.length
      /\ AtIn(rd') = AtIn(rd) /\ rd'.got = rd.got
      /\ rd'.open = rd.open /\ rd'.reading = rd.reading
      /\ res' = Result("more", 0, << >>)
    BY <1>1, EofStep
<1>3. rd.got = << >>
    BY <1>1 DEF InOK
<1>4. CallerAt = AtIn(rd) /\ CallerAt' = AtIn(rd)
    <2>1. Len(rd.got) = 0 /\ Len(rd'.got) = 0
        BY Zenon, <1>2, <1>3, EmptySeq
    <2>2. AtIn(rd) - Len(rd.got) = AtIn(rd) /\ AtIn(rd') - Len(rd'.got) = AtIn(rd)
        BY <1>1, <1>2, <2>1
    <2>3. QED
        BY Zenon, <2>2, CallerAtIs
<1>5. AtIn(rd) # Len(FileOf(out))
    <2>1. /\ AtIn(rd) < out.length /\ out.length <= Len(FileOf(out))
          /\ AtIn(rd) \in Nat /\ Len(FileOf(out)) \in Nat
          /\ out.length \in Nat
        BY Zenon, <1>1, <1>2
    <2>2. QED
        BY <2>1, BelowIsNot
<1>6. Stream!REof
    BY Zenon, <1>2, <1>4, <1>5 DEF Stream!REof, Stream!Result, Result, FileOf
<1>7. ReadInv'
    <2>1. GotAt(rd', out'.blocks)
        BY <1>1, <1>2, <1>3, GotAtEmpty
    <2>2. QED
        BY <1>2, <2>1 DEF ReadInv
<1>8. QED
    BY <1>6, <1>7

(* seek(s) is RSeek(s): the caller's position becomes s.                  *)
LEMMA SeekMaps ==
    ASSUME ReaderCall, rd.open, ~rd.reading,
           NEW s \in 0 .. out.length, SeekInput(out.length, s)
    PROVE  (\E p \in 0 .. MaxLength : Stream!RSeek(p)) /\ ReadInv'
<1>1. /\ InOK(rd, out.length) /\ out.length \in Nat \ {0}
      /\ out.length <= MaxLength
      /\ Len(FileOf(out)) \in Nat /\ out.length <= Len(FileOf(out))
      /\ ~SeekToEnd /\ out' = out
    BY CallFacts
<1>2. /\ s \in 0 .. out.length - 1
      /\ AtIn(rd') = s /\ rd'.got = rd.got
      /\ rd'.open = rd.open /\ rd'.reading = rd.reading
      /\ res' = Result("seek", s, << >>)
    BY <1>1, SeekStep
<1>3. rd.got = << >>
    BY <1>1 DEF InOK
<1>4. CallerAt' = s
    <2>1. Len(rd'.got) = 0
        BY Zenon, <1>2, <1>3, EmptySeq
    <2>2. AtIn(rd') - Len(rd'.got) = s
        BY <1>2, <2>1
    <2>3. QED
        BY Zenon, <2>2, CallerAtIs
<1>5. s \in 0 .. MaxLength /\ s <= Len(FileOf(out))
    <2>1. /\ s \in 0 .. out.length - 1 /\ out.length <= MaxLength
          /\ out.length \in Nat /\ Len(FileOf(out)) \in Nat
          /\ out.length <= Len(FileOf(out))
        BY Zenon, <1>1, <1>2
    <2>2. QED
        BY <2>1, InPrefix, BlockAssumption
<1>6. Stream!RSeek(s)
    BY Zenon, <1>2, <1>4, <1>5 DEF Stream!RSeek, Stream!Result, Result, FileOf
<1>7. ReadInv'
    <2>1. GotAt(rd', out'.blocks)
        BY <1>1, <1>2, <1>3, GotAtEmpty
    <2>2. QED
        BY <1>2, <2>1 DEF ReadInv
<1>8. QED
    BY <1>5, <1>6, <1>7

(* read(ptr, n) being called changes nothing the caller sees.             *)
LEMMA StartMaps ==
    ASSUME ReaderCall, rd.open, ~rd.reading,
           NEW n \in 1 .. BlockSize + 1, ReadStart(out.length, n)
    PROVE  UNCHANGED Stream!svars /\ ReadInv'
<1>1. /\ InOK(rd, out.length) /\ out' = out /\ AtIn(rd) \in Nat
    BY CallFacts
<1>2. /\ AtIn(rd') = AtIn(rd) /\ rd'.got = << >> /\ rd.got = << >>
      /\ rd'.open = rd.open /\ rd'.reading = TRUE /\ rd'.want = n
      /\ res' = res
    BY <1>1, StartStep
<1>3. CallerAt' = CallerAt
    BY Zenon, <1>2, CallerAtIs
<1>4. UNCHANGED Stream!svars
    BY <1>1, <1>2, <1>3 DEF Stream!svars, FileOf
<1>5. ReadInv'
    <2>1. GotAt(rd', out'.blocks)
        BY <1>1, <1>2, GotAtEmpty
    <2>2. rd'.want >= 1
        BY <1>2
    <2>3. QED
        BY <2>1, <2>2 DEF ReadInv
<1>6. QED
    BY <1>4, <1>5

(* The reader's destructor is RClose.                                     *)
LEMMA CloseMaps ==
    ASSUME ReaderCall, rd.open, ~rd.reading, CloseReader
    PROVE  Stream!RClose /\ ReadInv'
<1>1. /\ InOK(rd, out.length) /\ out' = out /\ GotAt(rd, out.blocks)
    BY CallFacts
<1>2. /\ AtIn(rd') = AtIn(rd) /\ rd'.got = rd.got
      /\ rd'.open = FALSE /\ rd'.reading = rd.reading
      /\ res' = NoResult
    BY <1>1, CloseStep
<1>3. CallerAt' = CallerAt
    BY Zenon, <1>2, CallerAtIs
<1>4. Stream!RClose
    BY <1>2, <1>3 DEF Stream!RClose, Stream!NoResult, Stream!Result,
                      NoResult, Result
<1>5. ReadInv'
    <2>1. GotAt(rd', out'.blocks)
        BY <1>1, <1>2, GotAtSame
    <2>2. QED
        BY <1>2, <2>1 DEF ReadInv
<1>6. QED
    BY <1>4, <1>5

(* An iteration of read(ptr, size)'s loop: its exit is RRead(size), which *)
(* returns the size bytes from where the caller stood and moves it on by   *)
(* size; an iteration that only copies changes nothing the caller sees.    *)
LEMMA IterMaps ==
    ASSUME ReaderCall, rd.open, rd.reading, ReadIter(out.blocks)
    PROVE  /\ \/ rd.want \in 1 .. MaxLength /\ Stream!RRead(rd.want)
              \/ UNCHANGED Stream!svars
           /\ ReadInv'
<1>1. /\ FileOK(out.blocks, out.length) /\ InOK(rd, out.length)
      /\ out.length \in Nat \ {0} /\ out.length <= MaxLength
      /\ Len(FileOf(out)) \in Nat /\ out.length <= Len(FileOf(out))
      /\ \A p \in 0 .. out.length - 1 : FileOf(out)[p + 1] = At(out.blocks, p)
      /\ AtIn(rd) \in Nat /\ GotAt(rd, out.blocks) /\ out' = out
    BY CallFacts
<1>2. rd.want >= 1
    BY Zenon, CallFacts
<1>3. /\ AtIn(rd) + rd.want - Len(rd.got) <= out.length
      /\ Len(rd.got) <= AtIn(rd)
      /\ rd.want \in Nat /\ rd.got \in Seq(Nat \X Memory)
    <2>1. AtIn(rd) + rd.want - Len(rd.got) <= out.length
        BY Zenon, <1>1 DEF InOK
    <2>2. Len(rd.got) <= AtIn(rd)
        BY Zenon, <1>1 DEF GotAt
    <2>3. rd.want \in Nat /\ rd.got \in Seq(Nat \X Memory)
        BY Zenon, <1>1 DEF InOK, Taking
    <2>4. QED
        BY <2>1, <2>2, <2>3
<1>4. \/ /\ Len(rd.got) = rd.want
         /\ rd' = ReadDone(rd).r
         /\ res' = Result("bytes", rd.want, rd.got)
      \/ /\ rd'.open = TRUE /\ rd'.reading = TRUE /\ rd'.want = rd.want
         /\ res' = res
         /\ GotAt(rd', out.blocks)
         /\ AtIn(rd') - Len(rd'.got) = AtIn(rd) - Len(rd.got)
    BY <1>1, IterStep
<1>5. CASE /\ Len(rd.got) = rd.want
           /\ rd' = ReadDone(rd).r
           /\ res' = Result("bytes", rd.want, rd.got)
    <2> DEFINE c == AtIn(rd) - Len(rd.got)
               w == rd.want
    <2>1. /\ AtIn(rd') = AtIn(rd) /\ rd'.got = << >>
          /\ rd'.reading = FALSE /\ rd'.open = rd.open
        BY Zenon, <1>1, <1>5, DoneAt
    <2>2. Len(rd'.got) = 0
        BY Zenon, <2>1, EmptySeq
    <2>3. AtIn(rd') = AtIn(rd)
        BY Zenon, <2>1
    <2>4. CallerAt = c /\ CallerAt' = c + w
        <3>1. AtIn(rd') - Len(rd'.got) = c + w
            BY <1>1, <1>3, <1>5, <2>2, <2>3
        <3>2. QED
            BY Zenon, <3>1, CallerAtIs
    <2>5. /\ c \in Nat /\ w \in 1 .. MaxLength
          /\ c + w <= out.length /\ w <= Len(FileOf(out)) - c
          /\ out.length \in Nat
        <3>1. Len(rd.got) \in Nat
            BY <1>3, LenProperties
        <3>2. Len(rd.got) = rd.want
            BY Zenon, <1>5
        <3>3. /\ AtIn(rd) \in Nat /\ out.length \in Nat
              /\ out.length <= MaxLength /\ Len(FileOf(out)) \in Nat
              /\ out.length <= Len(FileOf(out))
            BY Zenon, <1>1
        <3>4. /\ AtIn(rd) + rd.want - Len(rd.got) <= out.length
              /\ Len(rd.got) <= AtIn(rd)
            BY Zenon, <1>3
        <3>5. c \in Nat
            BY <3>1, <3>3, <3>4
        <3>6. w \in 1 .. MaxLength
            BY <1>2, <3>1, <3>2, <3>3, <3>4, BlockAssumption
        <3>7. c + w <= out.length
            BY <3>1, <3>2, <3>3, <3>4
        <3>8. w <= Len(FileOf(out)) - c
            BY <3>1, <3>2, <3>3, <3>4
        <3>9. QED
            BY <3>3, <3>5, <3>6, <3>7, <3>8
    <2>6. rd.got = [i \in 1 .. w |-> << c + i - 1, FileOf(out)[c + i] >>]
        <3>1. \A i \in 1 .. w :
                 rd.got[i] = << c + i - 1, At(out.blocks, c + i - 1) >>
            BY <1>1, <1>5 DEF GotAt
        <3>2. \A i \in 1 .. w : FileOf(out)[c + i] = At(out.blocks, c + i - 1)
            <4>1. \A i \in 1 .. w : c + i - 1 \in 0 .. out.length - 1
                BY <2>5
            <4>2. \A i \in 1 .. w : c + i - 1 + 1 = c + i
                BY <2>5
            <4>3. QED
                BY <1>1, <4>1, <4>2
        <3>3. rd.got = [i \in 1 .. w |-> rd.got[i]]
            BY <1>3, <1>5
        <3>4. QED
            BY <3>1, <3>2, <3>3
    <2> HIDE DEF c, w
    <2>7. Stream!RRead(w)
        <3>1. (IF w <= Len(FileOf(out)) - c THEN w ELSE Len(FileOf(out)) - c) = w
            BY <2>5
        <3>2. res' = Stream!Result("bytes", w, Stream!Bytes(c, w))
            BY <1>5, <2>6 DEF Stream!Result, Stream!Bytes, Result, FileOf, w
        <3>3. QED
            BY Zenon, <2>1, <2>4, <3>1, <3>2 DEF Stream!RRead, FileOf
    <2>8. ReadInv'
        <3>1. GotAt(rd', out'.blocks)
            BY <1>1, <2>2, <2>3, <2>1, GotAtEmpty
        <3>2. QED
            BY <2>1, <3>1 DEF ReadInv
    <2>9. QED
        BY <2>5, <2>7, <2>8 DEF w
<1>6. CASE /\ rd'.open = TRUE /\ rd'.reading = TRUE /\ rd'.want = rd.want
           /\ res' = res
           /\ GotAt(rd', out.blocks)
           /\ AtIn(rd') - Len(rd'.got) = AtIn(rd) - Len(rd.got)
    <2>1. CallerAt' = CallerAt
        BY Zenon, <1>6, CallerAtIs
    <2>2. UNCHANGED Stream!svars
        BY Zenon, <1>1, <1>6, <2>1 DEF Stream!svars, FileOf
    <2>3. ReadInv'
        BY Zenon, <1>1, <1>2, <1>6 DEF ReadInv
    <2>4. QED
        BY <2>2, <2>3
<1>7. QED
    BY <1>4, <1>5, <1>6

(* Every reader call on the committed file is a step of ByteStream's      *)
(* reader or leaves what a caller sees unchanged, and keeps ReadInv.       *)
LEMMA ReaderStep ==
    ASSUME ReaderCall, rd.err = NoErrIn, InNext(out.blocks, out.length)
    PROVE  [Stream!SNext]_Stream!svars /\ ReadInv'
<1>1. out' = out
    BY CallFacts
<1>2. UNCHANGED << FileOf(out), out.pos, out.open >>
    BY Zenon, <1>1
<1>3. CASE OpenReader(out.length)
    <2>1. Stream!ROpen /\ ReadInv'
        BY <1>3, OpenMaps
    <2>2. QED
        BY Zenon, <1>2, <2>1 DEF Stream!SNext, FileOf
<1>4. CASE rd.open /\ ~rd.reading /\ ReadByte(out.blocks, out.length)
    <2>1. Stream!RByte /\ ReadInv'
        BY <1>4, ByteMaps
    <2>2. QED
        BY Zenon, <1>2, <2>1 DEF Stream!SNext, FileOf
<1>5. CASE rd.open /\ ~rd.reading
           /\ \E n \in 1 .. BlockSize + 1 : ReadStart(out.length, n)
    <2>1. UNCHANGED Stream!svars /\ ReadInv'
        BY <1>5, StartMaps
    <2>2. QED
        BY <2>1
<1>6. CASE rd.open /\ ~rd.reading /\ Eof(out.blocks, out.length)
    <2>1. Stream!REof /\ ReadInv'
        BY <1>6, EofMaps
    <2>2. QED
        BY Zenon, <1>2, <2>1 DEF Stream!SNext, FileOf
<1>7. CASE rd.open /\ ~rd.reading
           /\ \E s \in 0 .. out.length : SeekInput(out.length, s)
    <2>1. (\E p \in 0 .. MaxLength : Stream!RSeek(p)) /\ ReadInv'
        BY <1>7, SeekMaps
    <2>2. QED
        BY Zenon, <1>2, <2>1 DEF Stream!SNext, FileOf
<1>8. CASE rd.open /\ ~rd.reading /\ CloseReader
    <2>1. Stream!RClose /\ ReadInv'
        BY <1>8, CloseMaps
    <2>2. QED
        BY Zenon, <1>2, <2>1 DEF Stream!SNext, FileOf
<1>9. CASE rd.open /\ ReadIter(out.blocks)
    <2>1. rd.reading
        BY <1>9 DEF ReadIter
    <2>2. /\ \/ rd.want \in 1 .. MaxLength /\ Stream!RRead(rd.want)
             \/ UNCHANGED Stream!svars
          /\ ReadInv'
        BY <1>9, <2>1, IterMaps
    <2>3. QED
        BY Zenon, <1>2, <2>2 DEF Stream!SNext, FileOf
<1>10. QED
    BY Zenon, <1>3, <1>4, <1>5, <1>6, <1>7, <1>8, <1>9 DEF InNext

(* A writer's call is ByteFile's step, with the closed reader left alone: *)
(* a step of ByteStream's writer or a stutter, which keeps ReadInv.        *)
LEMMA WriterStep ==
    ASSUME IInv, ReadInv, OutNext, UNCHANGED << rd, res >>
    PROVE  [Stream!SNext]_Stream!svars /\ ReadInv'
<1>1. [File!FNext]_File!fvars
    BY OutNextStep DEF IInv
<1>2. CallerAt' = CallerAt
    BY Zenon, CallerAtIs
<1>3. UNCHANGED Stream!rvars
    BY Zenon, <1>2 DEF Stream!rvars
<1>4. [Stream!SNext]_Stream!svars
    <2>1. CASE File!FNext
        BY Zenon, <2>1, <1>3, FileIsStream DEF Stream!SNext
    <2>2. CASE UNCHANGED File!fvars
        BY Zenon, <2>2, <1>3 DEF File!fvars, Stream!svars, Stream!rvars
    <2>3. QED
        BY <1>1, <2>1, <2>2
<1>5. ReadInv'
    <2>1. out.open
        BY DEF OutNext
    <2>2. InOK(rd, out.length) /\ ~rd.open
        BY <2>1 DEF IInv
    <2>3. ~rd.reading /\ rd.got = << >> /\ rd.cur \in Nat /\ rd.bc \in Nat
        BY <2>2 DEF InOK
    <2>4. AtIn(rd) \in Nat
        BY <2>3, BlockAssumption DEF AtIn
    <2>5. GotAt(rd, out'.blocks)
        BY <2>3, <2>4, GotAtEmpty
    <2>6. QED
        BY Zenon, <2>3, <2>5 DEF ReadInv
<1>6. QED
    BY <1>4, <1>5

(* The initial state is ByteStream's: an empty, open file and no reader.  *)
LEMMA InitStream ==
    ASSUME Init
    PROVE  Stream!SInit /\ ReadInv
<1>1. File!FInit
    BY InitFile
<1>2. rd.got = << >> /\ rd.buf = FALSE /\ rd.open = FALSE /\ rd.reading = FALSE
      /\ res = NoResult
    BY Zenon DEF Init, InInit
<1>3. AtIn(rd) = 0
    BY Zenon, <1>2 DEF AtIn
<1>4. CallerAt = 0
    <2>1. Len(rd.got) = 0
        BY Zenon, <1>2, EmptySeq
    <2>2. CallerAt = 0 - 0
        BY Zenon, <1>3, <2>1, CallerAtIs
    <2>3. 0 - 0 = 0
        OBVIOUS
    <2>4. QED
        BY Zenon, <2>2, <2>3
<1>5. Stream!SInit
    BY Zenon, <1>1, <1>2, <1>4
       DEF File!FInit, Stream!FInit, Stream!SInit, Stream!NoResult,
           Stream!Result, NoResult, Result
<1>6. ReadInv
    <2>1. GotAt(rd, out.blocks)
        BY <1>2, <1>3, GotAtEmpty
    <2>2. QED
        BY Zenon, <1>2, <2>1 DEF ReadInv
<1>7. QED
    BY <1>5, <1>6

-----------------------------------------------------------------------------
(* The writer and the readers of one file implement ByteStream, for every *)
(* block size, byte set and bound, when readers keep the contract of spec *)
(* 4.5 (ReaderContract: no seek to the end, no read past it): each reader *)
(* call on the committed file returns exactly the bytes written at the    *)
(* positions it reports, read(ptr, size) returns the size bytes from       *)
(* where the caller stood and moves it on by size, eof() below the length *)
(* answers "more", seek(s) puts the caller at s, and the writer's calls    *)
(* are ByteFile's.  ReadInv, that the bytes copied so far by a read in     *)
(* progress are the file's bytes just before bufCur, is what lets read's   *)
(* exit be RRead: it is inductive together with IInv.                      *)
THEOREM StreamRefinesCorrect ==
    ASSUME ReaderContract
    PROVE  Spec => StreamRefines
<1> DEFINE I == IInv /\ ReadInv
<1>1. Init => I
    BY InitIInv, InitStream
<1>2. I /\ [Next]_vars => I' /\ [Stream!SNext]_Stream!svars
    <2> SUFFICES ASSUME IInv, ReadInv, [Next]_vars
                 PROVE  IInv' /\ ReadInv' /\ [Stream!SNext]_Stream!svars
        OBVIOUS
    <2>1. IInv'
        BY NextIInv
    <2>2. CASE OutNext /\ UNCHANGED << rd, res >>
        BY <2>1, <2>2, WriterStep
    <2>3. CASE /\ ~out.open
               /\ out.err = NoErr
               /\ rd.err = NoErrIn
               /\ out.length > 0
               /\ InNext(out.blocks, out.length)
               /\ UNCHANGED out
        <3>1. ReaderCall
            BY <2>3 DEF ReaderCall
        <3>2. QED
            BY <2>1, <2>3, <3>1, ReaderStep
    <2>4. CASE UNCHANGED vars
        <3>1. out' = out /\ rd' = rd /\ res' = res
            BY <2>4 DEF vars
        <3>2. CallerAt' = CallerAt
            BY Zenon, <3>1, CallerAtIs
        <3>3. UNCHANGED Stream!svars
            BY Zenon, <3>1, <3>2 DEF Stream!svars, FileOf
        <3>4. ReadInv'
            BY Zenon, <3>1 DEF ReadInv, GotAt
        <3>5. QED
            BY <2>1, <3>3, <3>4
    <2>5. QED
        BY <2>2, <2>3, <2>4 DEF Next
<1>3. Init => Stream!SInit
    BY InitStream
<1>4. QED
    BY <1>1, <1>2, <1>3, PTL DEF Spec, StreamRefines, Stream!SSpec

====
