------------------------------- MODULE Codec -------------------------------
(***************************************************************************)
(* The byte codecs of IndexOutput (writeInt32/64, writeVarint32/64) and   *)
(* IndexInput (readInt32/64, readVarint32/64).                             *)
(*                                                                         *)
(* An unsigned w-bit integer is a word: a function from 1..w to {0, 1},    *)
(* bit 1 being the least significant.  The model works on words because   *)
(* the values of interest (2^32 - 1, 2^63, ...) do not fit TLC's integers; *)
(* the C++ operators are translated bit for bit: >> is Shr, a cast to      *)
(* char or uint8_t is LowByte, `x | 128` on a byte is OrB, and `x < 2^k`   *)
(* is Below(x, k).  A byte is an integer in 0..255.                        *)
(*                                                                         *)
(* A decoder takes the bytes left in the stream and returns a record       *)
(* [ok, value, used]: ok = FALSE is the IndexCorruptionException.          *)
(***************************************************************************)
EXTENDS Naturals, Sequences

\* kMaxVarintLength32 and kMaxVarintLength64 (IndexIOBase.h).
MaxVarintLength32 == 5
MaxVarintLength64 == 10


\* Bit b (counting from 0) of a byte.
Bit(byte, b) == (byte \div 2^b) % 2

\* x >> k on a word: the high bits are filled with zeros.
Shr(x, k) == [i \in DOMAIN x |-> IF i + k \in DOMAIN x THEN x[i + k] ELSE 0]

\* static_cast<uint8_t>(x): the low eight bits.
LowByte(x) == x[1] + 2 * x[2] + 4 * x[3] + 8 * x[4]
                + 16 * x[5] + 32 * x[6] + 64 * x[7] + 128 * x[8]

\* (x | B) stored in a uint8_t, B = 128.
OrB(byte) == IF byte >= 128 THEN byte ELSE byte + 128

\* x < 2^k: no bit above the k lowest is set.
Below(x, k) == \A i \in DOMAIN x : i > k => x[i] = 0

Fail == [ok |-> FALSE, value |-> <<>>, used |-> 0]

(***************************************************************************)
(* Encoders.                                                               *)
(***************************************************************************)

\* A mutant of WriteInt64: the last byte copies the shift of the one before.
WriteInt64_typo(num) ==
  [i \in 1..8 |-> LowByte(Shr(num, 8 * (IF i = 8 THEN 6 ELSE i - 1)))]

\* writeInt32 / writeInt64: buf[i] = static_cast<char>(num >> 8*i).
WriteInt32(num) == [i \in 1..4 |-> LowByte(Shr(num, 8 * (i - 1)))]

WriteInt64(num) == [i \in 1..8 |-> LowByte(Shr(num, 8 * (i - 1)))]

\* writeVarint32: one branch per encoded length, as written.
WriteVarint32(num) ==
  CASE Below(num, 7)  -> << LowByte(num) >>
    [] Below(num, 14) -> << OrB(LowByte(num)), LowByte(Shr(num, 7)) >>
    [] Below(num, 21) -> << OrB(LowByte(num)), OrB(LowByte(Shr(num, 7))),
                            LowByte(Shr(num, 14)) >>
    [] Below(num, 28) -> << OrB(LowByte(Shr(num, 7))),
                            OrB(LowByte(Shr(num, 14))),
                            LowByte(Shr(num, 21)) >>
    [] OTHER          -> << OrB(LowByte(num)), OrB(LowByte(Shr(num, 7))),
                            OrB(LowByte(Shr(num, 14))),
                            OrB(LowByte(Shr(num, 21))),
                            LowByte(Shr(num, 28)) >>

\* A mutant of WriteVarint64: the loop runs while num > B, not num >= B.
WriteVarint64_gt(num) ==
  LET enc[k \in 0..MaxVarintLength64] ==
        LET cur == Shr(num, 7 * k)
        IN  IF Below(cur, 8) /\ LowByte(cur) <= 128 THEN << LowByte(cur) >>
            ELSE << OrB(LowByte(cur)) >> \o enc[k + 1]
  IN  enc[0]

\* writeVarint64: while (num >= B) { emit num | B; num >>= 7; } emit num.
\* enc[k] is what the loop emits once num has been shifted k times; the
\* loop ends by k = 10 since a shift by 70 of a 64-bit word is zero.
WriteVarint64(num) ==
  LET enc[k \in 0..MaxVarintLength64] ==
        LET cur == Shr(num, 7 * k)
        IN  IF Below(cur, 7) THEN << LowByte(cur) >>
            ELSE << OrB(LowByte(cur)) >> \o enc[k + 1]
  IN  enc[0]

(***************************************************************************)
(* Decoders.                                                               *)
(***************************************************************************)

\* read(buf, n) then the shifts and ors of readInt32 / readInt64: fails
\* when fewer than n bytes are left.
ReadFixed(in, n) ==
  IF Len(in) < n THEN Fail
  ELSE [ok    |-> TRUE,
        value |-> [j \in 1..8 * n |-> Bit(in[(j - 1) \div 8 + 1], (j - 1) % 8)],
        used  |-> n]

ReadInt32(in) == ReadFixed(in, 4)

ReadInt64(in) == ReadFixed(in, 8)

\* The loop of readVarint64 / readVarint32 with maxLen bytes at most into a
\* w-bit result: it stops at the first byte without the continuation bit
\* among the first maxLen bytes left; running out of them first (or of the
\* stream, eof()) leaves done false.  ret |= (byte & 0x7f) << 7*i keeps the
\* bits that fit the w-bit result.
ReadVarint(in, maxLen, w) ==
  LET last == {i \in 1..maxLen : i <= Len(in) /\ in[i] < 128}
      used == CHOOSE i \in last : \A j \in last : i <= j
  IN  IF last = {} THEN Fail
      ELSE [ok    |-> TRUE,
            value |-> [j \in 1..w |->
                         IF (j - 1) \div 7 < used
                         THEN Bit(in[(j - 1) \div 7 + 1] % 128, (j - 1) % 7)
                         ELSE 0],
            used  |-> used]

ReadVarint64(in) == ReadVarint(in, MaxVarintLength64, 64)

ReadVarint32(in) == ReadVarint(in, MaxVarintLength32, 32)

(***************************************************************************)
(* Reference: the LEB128 encoding the spec (section 6) documents, the     *)
(* 7-bit groups of the value from the least significant, each but the     *)
(* last with bit 7 set, as few groups as hold the highest set bit.        *)
(***************************************************************************)
RefVarint(x) ==
  LET top  == {i \in DOMAIN x : x[i] = 1}
      hi   == IF top = {} THEN 0 ELSE CHOOSE i \in top : \A j \in top : j <= i
      n    == IF hi = 0 THEN 1 ELSE (hi - 1) \div 7 + 1
      grp(g) == LET b(k) == IF 7 * g + k + 1 \in DOMAIN x
                            THEN x[7 * g + k + 1] ELSE 0
                IN  b(0) + 2 * b(1) + 4 * b(2) + 8 * b(3)
                      + 16 * b(4) + 32 * b(5) + 64 * b(6)
  IN  [i \in 1..n |-> grp(i - 1) + (IF i < n THEN 128 ELSE 0)]

\* The low 32 bits of a 64-bit word (the uint32_t a caller passes).
Low32(x) == [i \in 1..32 |-> x[i]]
=============================================================================
