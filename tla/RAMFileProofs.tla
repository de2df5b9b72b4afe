---------------------------- MODULE RAMFileProofs ----------------------------
(***************************************************************************)
(* Facts about the block layout of a RAMFile, for every block size allowed *)
(* by BlockAssumption.  They are what the findings on RAMFileIndexInput    *)
(* rest on, and what lets the writer leave empty blocks behind.            *)
(***************************************************************************)
EXTENDS RAMFile, SequenceTheorems, TLAPS

(* Integer division by the block size: the quotient and remainder of a     *)
(* natural number.                                                         *)
LEMMA DivMod ==
    ASSUME NEW n \in Nat
    PROVE  /\ n \div BlockSize \in Nat
           /\ n % BlockSize \in 0 .. BlockSize - 1
           /\ n = (n \div BlockSize) * BlockSize + (n % BlockSize)
BY BlockAssumption

(* The block a position lies in is below the number of blocks of any      *)
(* length beyond the position.                                             *)
LEMMA BlockBelow ==
    ASSUME NEW p \in Nat, NEW k \in Nat, p < k * BlockSize
    PROVE  p \div BlockSize < k
<1> DEFINE q == p \div BlockSize
<1>1. q \in Nat /\ p = q * BlockSize + (p % BlockSize) /\ p % BlockSize >= 0
    BY DivMod
<1>2. q * BlockSize < k * BlockSize
    BY <1>1, BlockAssumption
<1>3. QED
    BY <1>1, <1>2, BlockAssumption

-----------------------------------------------------------------------------
(* last_block, as RAMFileIndexInput's constructor computes it, is a count  *)
(* of blocks and not an index: the block it names starts at or after the  *)
(* end of the file, so it holds none of the file's bytes, and the block    *)
(* before it holds the last byte.  This is the root of the reader serving  *)
(* bytes past the end (run io_read_past_end).                              *)
THEOREM LastBlockIsPastEnd ==
    ASSUME NEW len \in Nat \ {0}
    PROVE  /\ LastBlockOf(len) * BlockSize >= len
           /\ (len - 1) \div BlockSize = LastBlockOf(len) - 1
<1> DEFINE q == (len - 1) \div BlockSize
           r == (len - 1) % BlockSize
<1>1. len - 1 = q * BlockSize + r /\ q \in Nat /\ r \in 0 .. BlockSize - 1
    BY DivMod
<1>2. (q + 1) * BlockSize >= len
    BY <1>1, BlockAssumption
<1>3. QED
    BY <1>2, BlockAssumption DEF LastBlockOf, q

(* Every position p < len lies in a block below last_block, so the branch *)
(* of RAMFileIndexInput::seek that gives the sentinel last_block_bytes     *)
(* (current_block == last_block) is never taken for a position its         *)
(* assertion lets through: the true last block always gets bufEnd.         *)
THEOREM SeekNeverLastBlock ==
    ASSUME NEW len \in Nat \ {0}, NEW p \in 0 .. len - 1
    PROVE  p \div BlockSize < LastBlockOf(len)
<1>1. LastBlockOf(len) * BlockSize >= len
    BY LastBlockIsPastEnd
<1>2. LastBlockOf(len) \in Nat
    BY DivMod DEF LastBlockOf
<1>3. p \in Nat /\ p < LastBlockOf(len) * BlockSize
    BY <1>1, <1>2, BlockAssumption
<1>4. QED
    BY <1>2, <1>3, BlockBelow

(* An allocated block after the data changes nothing a reader of the first *)
(* len bytes sees: the content of the file is the same with or without     *)
(* the trailing block RAMFile::alloc() appends (spec section 9 allows such *)
(* blocks; writeImpl and seek leave them).                                 *)
THEOREM TrailingBlockHarmless ==
    ASSUME NEW blocks \in Seq(Block), NEW len \in Nat,
           len <= Len(blocks) * BlockSize
    PROVE  Content(Alloc(blocks), len) = Content(blocks, len)
<1> DEFINE fresh == [i \in 0 .. BlockSize - 1 |-> Undef]
<1>1. fresh \in Block
    BY DEF Block, Memory
<1>2. \A k \in 1 .. Len(blocks) : Append(blocks, fresh)[k] = blocks[k]
    BY <1>1, AppendProperties
<1>3. ASSUME NEW i \in 1 .. len
      PROVE  (i - 1) \div BlockSize + 1 \in 1 .. Len(blocks)
    <2>1. i - 1 \in Nat /\ Len(blocks) \in Nat /\ i - 1 < Len(blocks) * BlockSize
        BY BlockAssumption
    <2>2. (i - 1) \div BlockSize < Len(blocks)
        BY <2>1, BlockBelow
    <2>3. (i - 1) \div BlockSize \in Nat
        BY <2>1, DivMod
    <2>4. QED
        BY <2>2, <2>3
<1>4. QED
    BY <1>2, <1>3 DEF Content, At, Alloc
=============================================================================
