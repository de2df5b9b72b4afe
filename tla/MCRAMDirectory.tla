--------------------------- MODULE MCRAMDirectory ---------------------------
(* Small instances of RAMDirectory for TLC.                                *)
EXTENDS RAMDirectory, TLC

CONSTANTS n1, n2, f1, f2, f3, s1

(* One segment prefix s1 that the name n1 starts with and n2 does not.    *)
MCSegmentMembers == [s \in {s1} |-> {n1}]

(* No segment prefixes: runs in which deleteSegment() is never called.    *)
MCNoSegments == [s \in {} |-> {}]

(* The RAMFile objects are interchangeable: any free one may be allocated. *)
MCSymmetry == Permutations({f1, f2, f3})

=============================================================================
