SPECIFICATION Spec
INVARIANT FixedRoundTrip
INVARIANT Varint64Exact
