SPECIFICATION Spec
INVARIANT Varint32Exact
