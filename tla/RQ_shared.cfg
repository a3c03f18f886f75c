\* Two workers share the queue; web processes render inline or enqueue.
SPECIFICATION Spec
CONSTANTS
  d1 = d1
  d2 = d2
  d3 = d3
  k1 = k1
  k2 = k2
  c1 = c1
  w1 = w1
  w2 = w2
  Docs = {d1, d2, d3}
  Keys = {k1, k2}
  Fingerprint <- MCFingerprint
  Oversized = {d2}
  Clients = {c1}
  Workers = {w1, w2}
  Modes = {"inline", "async"}
  MAX_ATTEMPTS = 2
  MaxJobs = 2
  MaxEdits = 1
  MaxCrashes = 1
  None = None
  Failed = Failed
SYMMETRY Symmetry
CONSTRAINTS GrowsLater DiesApart
CHECK_DEADLOCK FALSE
INVARIANTS
  ClaimsMatchQueuings
  InlineExclusive
  ExactUnlessOvertaken
  AttemptsBound
