SPECIFICATION Spec
CONSTANTS
  Digest = {d1, d2, d3}
  MaxRefs = 3
INVARIANTS
  TypeOK
  BytesIffCommitted
PROPERTY
  CommittedLeavesOnlyUnreferenced
