SPECIFICATION BoundedSpec
CONSTANTS
  Digest = {d1}
  Session = {s1, s2}
  Token = {t1, t2}
  Handler = {h1, h2}
  Chunk = {c1, c2}
  None = None
  MaxRefs = 2
  MaxReleases = 1
SYMMETRY Interchangeable
INVARIANTS
  TypeOK
  CommittedIsWhole
  CommittedIsStored
  HoldsCounted
  InflightExact
  OrphanTracked
  BindingsAgree
PROPERTIES
  SessionsKeepOwner
  SessionsOnlyAdvance
