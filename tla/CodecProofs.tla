------------------------------ MODULE CodecProofs ------------------------------
(***************************************************************************)
(* Proofs about the fixed-width codecs, for every word and not only for   *)
(* the boundary values MCCodec enumerates.                                 *)
(***************************************************************************)
EXTENDS MCCodec, SequenceTheorems, TLAPS

\* Unsigned w-bit words.
Word(w) == [1 .. w -> {0, 1}]

(* The powers of two the byte arithmetic uses.                             *)
LEMMA Pow2 ==
    /\ 2^0 = 1 /\ 2^1 = 2 /\ 2^2 = 4 /\ 2^3 = 8
    /\ 2^4 = 16 /\ 2^5 = 32 /\ 2^6 = 64 /\ 2^7 = 128
OBVIOUS

(* Bit b of the byte LowByte assembles from eight bits is bit b + 1.      *)
LEMMA BitOfLowByte ==
    ASSUME NEW x, \A i \in 1 .. 8 : x[i] \in {0, 1}, NEW b \in 0 .. 7
    PROVE  Bit(LowByte(x), b) = x[b + 1]
<1>1. CASE b = 0 BY <1>1, Pow2 DEF Bit, LowByte
<1>2. CASE b = 1 BY <1>2, Pow2 DEF Bit, LowByte
<1>3. CASE b = 2 BY <1>3, Pow2 DEF Bit, LowByte
<1>4. CASE b = 3 BY <1>4, Pow2 DEF Bit, LowByte
<1>5. CASE b = 4 BY <1>5, Pow2 DEF Bit, LowByte
<1>6. CASE b = 5 BY <1>6, Pow2 DEF Bit, LowByte
<1>7. CASE b = 6 BY <1>7, Pow2 DEF Bit, LowByte
<1>8. CASE b = 7 BY <1>8, Pow2 DEF Bit, LowByte
<1>9. QED
    BY <1>1, <1>2, <1>3, <1>4, <1>5, <1>6, <1>7, <1>8

\* The n bytes writeInt32 (n = 4) and writeInt64 (n = 8) emit for num.
FixedBytes(num, n) == [i \in 1 .. n |-> LowByte(Shr(num, 8 * (i - 1)))]

(* Every byte of the encoding is a number, and its bit b is bit            *)
(* 8 * (i - 1) + b + 1 of the word.                                        *)
LEMMA FixedBytesBits ==
    ASSUME NEW n \in Nat, NEW num \in Word(8 * n),
           NEW i \in 1 .. n, NEW b \in 0 .. 7
    PROVE  /\ FixedBytes(num, n)[i] \in Nat
           /\ Bit(FixedBytes(num, n)[i], b) = num[8 * (i - 1) + b + 1]
<1> DEFINE x == Shr(num, 8 * (i - 1))
<1>1. \A k \in 1 .. 8 : x[k] = num[k + 8 * (i - 1)] /\ x[k] \in {0, 1}
    BY DEF Shr, Word
<1>2. Bit(LowByte(x), b) = x[b + 1]
    BY <1>1, BitOfLowByte
<1>3. LowByte(x) \in Nat
    BY <1>1 DEF LowByte
<1>4. QED
    BY <1>1, <1>2, <1>3 DEF FixedBytes

(* Reading n bytes back from the encoding of an 8n-bit word, whatever      *)
(* follows it in the stream, gives the word and consumes n bytes.          *)
LEMMA FixedRoundTripAll ==
    ASSUME NEW n \in Nat, NEW num \in Word(8 * n), NEW t \in Seq(Nat)
    PROVE  ReadFixed(FixedBytes(num, n) \o t, n)
               = [ok |-> TRUE, value |-> num, used |-> n]
<1> DEFINE e == FixedBytes(num, n)
           s == e \o t
<1>1. e \in Seq(Nat) /\ Len(e) = n
    <2>1. \A i \in 1 .. n : e[i] \in Nat
        BY FixedBytesBits
    <2>2. e = [i \in 1 .. n |-> e[i]]
        BY DEF FixedBytes
    <2>3. QED
        BY SMTT(30), <2>1, <2>2
<1>2. Len(s) = n + Len(t) /\ \A i \in 1 .. n : s[i] = e[i]
    <2>1. /\ Len(s) = Len(e) + Len(t)
          /\ \A i \in 1 .. Len(e) + Len(t) :
                s[i] = IF i <= Len(e) THEN e[i] ELSE t[i - Len(e)]
        BY <1>1, ConcatProperties
    <2>2. QED
        BY <1>1, <2>1
<1>3. ASSUME NEW j \in 1 .. 8 * n
      PROVE  Bit(s[(j - 1) \div 8 + 1], (j - 1) % 8) = num[j]
    <2> DEFINE i == (j - 1) \div 8 + 1
               b == (j - 1) % 8
    <2>1. i \in 1 .. n /\ b \in 0 .. 7 /\ j = 8 * (i - 1) + b + 1
        OBVIOUS
    <2>2. Bit(e[i], b) = num[8 * (i - 1) + b + 1]
        BY <2>1, FixedBytesBits
    <2>3. QED
        BY <1>2, <2>1, <2>2
<1>4. ~(Len(s) < n)
    BY <1>2
<1>5. [j \in 1 .. 8 * n |-> Bit(s[(j - 1) \div 8 + 1], (j - 1) % 8)] = num
    BY <1>3 DEF Word
<1>6. QED
    BY <1>4, <1>5 DEF ReadFixed


(* writeInt32 then readInt32, and writeInt64 then readInt64, give back     *)
(* every 32-bit and every 64-bit value and consume exactly 4 and 8 bytes,  *)
(* whatever bytes follow in the stream: IndexOutput.cpp's shifts and       *)
(* IndexInput.cpp's reassembly agree bit for bit.                          *)
THEOREM FixedCodecsRoundTrip ==
    ASSUME NEW t \in Seq(Nat)
    PROVE  /\ \A x \in Word(32) :
                  ReadInt32(WriteInt32(x) \o t) = [ok |-> TRUE, value |-> x, used |-> 4]
           /\ \A x \in Word(64) :
                  ReadInt64(WriteInt64(x) \o t) = [ok |-> TRUE, value |-> x, used |-> 8]
<1>1. ASSUME NEW x \in Word(32)
      PROVE  ReadInt32(WriteInt32(x) \o t) = [ok |-> TRUE, value |-> x, used |-> 4]
    <2>1. WriteInt32(x) = FixedBytes(x, 4)
        BY DEF WriteInt32, FixedBytes
    <2>2. QED
        BY <2>1, FixedRoundTripAll DEF ReadInt32
<1>2. ASSUME NEW x \in Word(64)
      PROVE  ReadInt64(WriteInt64(x) \o t) = [ok |-> TRUE, value |-> x, used |-> 8]
    <2>1. WriteInt64(x) = FixedBytes(x, 8)
        BY DEF WriteInt64, FixedBytes
    <2>2. QED
        BY <2>1, FixedRoundTripAll DEF ReadInt64
<1>3. QED
    BY <1>1, <1>2

-----------------------------------------------------------------------------
(* Every input of MCCodec is a 64-bit word.                               *)
LEMMA InputsAreWords == Inputs \subseteq Word(64)
<1>1. ASSUME NEW n \in Nat, NEW i \in 1 .. 64
      PROVE  (n \div 2^(i - 1)) % 2 \in {0, 1}
    BY SMT
<1>2. QED
    BY <1>1 DEF Inputs, FromNat, Ones, Single, Pair, Word

(* The run codec_roundtrip's property holds in every state of MCCodec:     *)
(* fixed-width encodings of its words read back exactly.                   *)
InputsInv == v \in Inputs

THEOREM FixedRoundTripCorrect == Spec => []FixedRoundTrip
<1>1. Init => InputsInv
    BY DEF Init, InputsInv
<1>2. InputsInv /\ [Next]_v => InputsInv'
    BY DEF Next, InputsInv
<1>3. InputsInv => FixedRoundTrip
    <2> SUFFICES ASSUME v \in Inputs PROVE FixedRoundTrip
        BY DEF InputsInv
    <2>1. v \in Word(64) /\ Low32(v) \in Word(32)
        BY InputsAreWords DEF Low32, Word
    <2>2. Trailer \in Seq(Nat)
        BY DEF Trailer
    <2>3. QED
        BY <2>1, <2>2, FixedCodecsRoundTrip DEF FixedRoundTrip
<1>4. QED
    BY <1>1, <1>2, <1>3, PTL DEF Spec

=============================================================================
