----------------------------- MODULE MCRAMFileIO -----------------------------
(* Small instances of RAMFileIO for TLC: blocks of two bytes, so that a    *)
(* file of up to four bytes spans a block boundary, fills its blocks, or   *)
(* ends in a partial block; two byte values, so that a byte read from the  *)
(* wrong place can differ from the right one.                              *)
EXTENDS RAMFileIO, TLC

CONSTANTS b0, b1
=============================================================================
