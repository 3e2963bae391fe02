SPECIFICATION CSpec
CONSTANTS
  d1 = d1
  d2 = d2
  m1 = m1
  m2 = m2
  None = None
  Digest = {d1}
  Manifest = {m1}
  Ref = {r1}
  Descriptors <- MCOneManifest
  Pusher = {p1}
  Collector = {g1}
  MaxRefs = 1
PROPERTY TaggedNeverCollected
