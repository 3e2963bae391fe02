SPECIFICATION CSpec
CONSTANTS
  d1 = d1
  d2 = d2
  m1 = m1
  m2 = m2
  None = None
  Digest = {d1, d2}
  Manifest = {m1, m2}
  Ref = {r1}
  Descriptors <- MCDescriptors
  Pusher = {p1}
  Collector = {g1}
  MaxRefs = 2
INVARIANT HeldSurvives
