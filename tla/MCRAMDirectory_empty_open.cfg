\* Callers keep the documented preconditions; deleteSegment() is never called.
CONSTANTS
    n1 = n1
    n2 = n2
    f1 = f1
    f2 = f2
    f3 = f3
    s1 = s1
    Names = {n1, n2}
    FileIds = {f1, f2, f3}
    Segments = {}
    SegmentMembers <- MCNoSegments
    MaxReaders = 2
    MaxLocks = 1
    MaxDummyUnrefs = 2
    Contract = TRUE
    Absent = Absent
    Dummy = Dummy
SYMMETRY MCSymmetry
SPECIFICATION Spec
INVARIANT NoAbort
