SPECIFICATION PSpec
CONSTANTS
  d1 = d1
  d2 = d2
  m1 = m1
  m2 = m2
  None = None
  Digest = {d1, d2}
  Manifest = {m1, m2}
  Ref = {r1, r2}
  Descriptors <- MCDescriptors
  Pusher = {p1, p2}
  Collector = {g1, g2}
  Puller = {q1}
  MaxRefs = 2
INVARIANTS
  PullTypeOK
  TagsResolve
  LedgerExact
PROPERTIES
  ImplementsCatalog
  PullFailsOnlyUntagged
SYMMETRY Interchangeable
VIEW ExceptIndex
