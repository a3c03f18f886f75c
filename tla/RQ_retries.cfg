\* Three workers sweep and claim one row, through crashes and restarts.
SPECIFICATION Spec
CONSTANTS
  d1 = d1
  d2 = d2
  d3 = d3
  k1 = k1
  k2 = k2
  c1 = c1
  w1 = w1
  w2 = w2
  w3 = w3
  Docs = {d1}
  Keys = {k1, k2}
  Fingerprint <- MCFingerprint
  Oversized = {}
  Clients = {c1}
  Workers = {w1, w2, w3}
  Modes = {"async"}
  MAX_ATTEMPTS = 2
  MaxJobs = 1
  MaxEdits = 0
  MaxCrashes = 2
  None = None
  Failed = Failed
SYMMETRY Symmetry
CHECK_DEADLOCK FALSE
INVARIANT
  AttemptsBound
