------------------------------ MODULE MCCodec ------------------------------
(***************************************************************************)
(* Checks the codecs of Codec on a set of 64-bit words that holds every   *)
(* boundary of the encodings: 2^k - 1 and 2^k for every k, all small      *)
(* values, and the values of the unit tests.  The state is the word under *)
(* test; a step moves to any other.                                        *)
(***************************************************************************)
EXTENDS Codec

\* A word from a natural number below 2^31 (TLC's integers).
FromNat(n) == [i \in 1..64 |-> IF i <= 31 THEN (n \div 2^(i - 1)) % 2 ELSE 0]

\* 2^k - 1 and 2^k as 64-bit words.
Ones(k)   == [i \in 1..64 |-> IF i <= k THEN 1 ELSE 0]
Single(k) == [i \in 1..64 |-> IF i = k + 1 THEN 1 ELSE 0]

\* 2^k + 2^j: a high bit with a low one, so that a dropped low group shows.
Pair(k, j) == [i \in 1..64 |-> IF i = k + 1 \/ i = j + 1 THEN 1 ELSE 0]

Inputs ==
  {Ones(k) : k \in 0..64} \cup {Single(k) : k \in 0..63}
    \cup {FromNat(n) : n \in 0..160 \cup {1928936378, 45, 300, 16383, 16384}}
    \cup {Pair(k, 0) : k \in 1..63}

\* A byte left in the stream after the encoding: a decoder must not read it.
Trailer == << 255 >>

VARIABLE v

Init == v \in Inputs
Next == \E w \in Inputs : v' = w
Spec == Init /\ [][Next]_v

(***************************************************************************)
(* Properties.                                                             *)
(***************************************************************************)

\* writeInt32 then readInt32, and writeInt64 then readInt64, give back the
\* value and consume exactly 4 and 8 bytes of the stream.
FixedRoundTrip ==
  /\ ReadInt32(WriteInt32(Low32(v)) \o Trailer)
       = [ok |-> TRUE, value |-> Low32(v), used |-> 4]
  /\ ReadInt64(WriteInt64(v) \o Trailer)
       = [ok |-> TRUE, value |-> v, used |-> 8]

\* writeVarint64 emits the LEB128 encoding of spec section 6, and
\* readVarint64 decodes it back, consuming exactly its bytes.
Varint64Exact ==
  /\ WriteVarint64(v) = RefVarint(v)
  /\ ReadVarint64(WriteVarint64(v) \o Trailer)
       = [ok |-> TRUE, value |-> v, used |-> Len(WriteVarint64(v))]

\* The same of writeVarint32 and readVarint32, for every uint32_t value
\* (writeString writes a string's length this way).
Varint32Exact ==
  LET x == Low32(v) IN
  /\ WriteVarint32(x) = RefVarint(x)
  /\ ReadVarint32(WriteVarint32(x) \o Trailer)
       = [ok |-> TRUE, value |-> x, used |-> Len(WriteVarint32(x))]
=============================================================================
