\* A version is revised before its issue is logged.
SPECIFICATION Spec
CONSTANTS
  s1 = s1
  s2 = s2
  u1 = u1
  u2 = u2
  h1 = h1
  h2 = h2
  p1 = p1
  t1 = t1
  t2 = t2
  Sessions = {s1, s2}
  Users = {u1, u2}
  Heads = {h1, h2}
  Parts = {p1}
  Texts = {t1, t2}
  MaxVersion = 3
  MaxRv = 4
  None = None
CHECK_DEADLOCK FALSE
INVARIANT
  AuditNamesFrozenVersion
