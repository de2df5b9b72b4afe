\* Callers keep the documented preconditions and call deleteSegment(); two lock handles allowed to exist.
CONSTANTS
    n1 = n1
    n2 = n2
    f1 = f1
    f2 = f2
    f3 = f3
    s1 = s1
    Names = {n1, n2}
    FileIds = {f1, f2, f3}
    Segments = {s1}
    SegmentMembers <- MCSegmentMembers
    MaxReaders = 2
    MaxLocks = 2
    MaxDummyUnrefs = 2
    Contract = TRUE
    Absent = Absent
    Dummy = Dummy
SYMMETRY MCSymmetry
SPECIFICATION Spec
INVARIANT LockExclusion
