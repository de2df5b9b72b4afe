------------------------------ MODULE RAMFile ------------------------------
(***************************************************************************)
(* RAMDirectory::RAMFile as the streams see it: a vector of blocks of      *)
(* kBlockSize bytes each (blocks_) and a logical length.  A block is a     *)
(* function from the offsets 0..kBlockSize-1 to bytes; `new char[...]`     *)
(* leaves its bytes uninitialised, written Undef, so that a property can   *)
(* tell a byte nobody wrote from every byte somebody did.                  *)
(***************************************************************************)
EXTENDS Naturals, Sequences

CONSTANTS
    BlockSize,  \* RAMFile::kBlockSize (4096 in the build; 1 and 2 in tests)
    Byte,       \* the byte values clients write
    Undef,      \* the contents of memory no one has written
    MaxLength   \* bound: the largest stream position clients reach

ASSUME BlockAssumption ==
    /\ BlockSize \in Nat \ {0}
    /\ MaxLength \in Nat
    /\ Undef \notin Byte

Memory == Byte \cup {Undef}

Block == [0 .. BlockSize - 1 -> Memory]

\* RAMFile::alloc(): blocks_.push_back(new char[kBlockSize]).
Alloc(blocks) == Append(blocks, [i \in 0 .. BlockSize - 1 |-> Undef])

\* The byte at linear position i of the file (block i / kBlockSize, offset
\* i % kBlockSize): the layout the writer and the reader both assume.
At(blocks, i) == blocks[i \div BlockSize + 1][i % BlockSize]

\* The file's bytes at positions [0, len), as a sequence.
Content(blocks, len) == [i \in 1 .. len |-> At(blocks, i - 1)]

\* RAMFileIndexInput's last_block and last_block_bytes for a file of length
\* len > 0, as its constructor computes them.
LastBlockOf(len) == (len - 1) \div BlockSize + 1

LastBlockBytesOf(len) == ((len - 1) % BlockSize) + 1

\* `if (file->length < pos) file->length = pos`: length raised to pos.
MaxOf(a, b) == IF a >= b THEN a ELSE b

\* std::min.
MinOf(a, b) == IF a <= b THEN a ELSE b
=============================================================================
