\* Two browsers on one account; two epochs, two links, two recovery codes.
SPECIFICATION Spec
CONSTANTS
  b1 = b1
  b2 = b2
  l1 = l1
  l2 = l2
  c1 = c1
  c2 = c2
  Browsers = {b1, b2}
  Links = {l1, l2}
  Codes = {c1, c2}
  MaxAttempts = 2
  MaxFailed = 2
  MaxEpoch = 2
  Policies = {"require_mfa"}
  None = None
SYMMETRY Symmetry
CONSTRAINT Bounded
CHECK_DEADLOCK FALSE
INVARIANTS
  SessionsFollowPassword
  CodesServeOnce
  OneLinkWorks
  LockoutReached
PROPERTIES
  RevocationReaches
