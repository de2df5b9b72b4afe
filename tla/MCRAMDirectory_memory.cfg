\* Every API call on any name, deleteSegment included, callers unrestricted;
\* the RAMFile objects are interchangeable.
CONSTANTS
    n1 = n1
    n2 = n2
    f1 = f1
    f2 = f2
    f3 = f3
    s1 = s1
    Names = {n1, n2}
    FileIds = {f1, f2, f3}
    Segments = {s1}
    SegmentMembers <- MCSegmentMembers
    MaxReaders = 2
    MaxLocks = 1
    MaxDummyUnrefs = 2
    Contract = FALSE
    Absent = Absent
    Dummy = Dummy

SPECIFICATION Spec
SYMMETRY MCSymmetry
INVARIANT TypeOK
INVARIANT RefCountSound
INVARIANT NoUseAfterFree
INVARIANT NoLeak
