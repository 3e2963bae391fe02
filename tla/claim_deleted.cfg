SPECIFICATION Spec
CONSTANTS
  Digest = {d1, d2}
  Session = {s1, s2}
  Token = {t1}
  Handler = {h1, h2}
  Chunk = {c1, c2}
  None = None
  MaxRefs = 2
  MaxReleases = 1
SYMMETRY Interchangeable
PROPERTY
  DeletedReceivesNothing
