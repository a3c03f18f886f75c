\* Two calls of one process with one place in its cache.
SPECIFICATION Spec
CONSTANTS
  t1 = t1
  t2 = t2
  r1 = r1
  r2 = r2
  p1 = p1
  a1 = a1
  a2 = a2
  Tokens = {t1, t2}
  Raws = {r1, r2}
  Procs = {p1}
  Calls = {a1, a2}
  MaxCached = 1
  None = None
SYMMETRY Symmetry
INVARIANTS
  RevocationImmediate
  PolicyHolds
  CacheBounded
PROPERTY
  ChecksLikeDirect
