SPECIFICATION BoundedSpec
CONSTANTS
  d1 = d1
  m1 = m1
  m2 = m2
  None = None
  Digest = {d1}
  Manifest = {m1, m2}
  Ref = {r1, r2}
  Descriptors <- MCDescriptors
  Pusher = {p1, p2}
  Collector = {g1}
  MaxRefs = 1
INVARIANTS
  TypeOK
  SettledIntact
  SurvivalInv
SYMMETRY Interchangeable
VIEW ExceptIndex
