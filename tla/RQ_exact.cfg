\* The document is edited while its render is outstanding.
SPECIFICATION Spec
CONSTANTS
  d1 = d1
  d2 = d2
  d3 = d3
  k1 = k1
  k2 = k2
  c1 = c1
  w1 = w1
  Docs = {d1, d2}
  Keys = {k1, k2}
  Fingerprint <- MCFingerprint
  Oversized = {}
  Clients = {c1}
  Workers = {w1}
  Modes = {"async"}
  MAX_ATTEMPTS = 2
  MaxJobs = 1
  MaxEdits = 2
  MaxCrashes = 0
  None = None
  Failed = Failed
CHECK_DEADLOCK FALSE
INVARIANT
  CacheIsExact
