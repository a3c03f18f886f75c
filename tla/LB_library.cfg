\* Two organizations and seedings of two releases.
SPECIFICATION Spec
CONSTANTS
  o1 = o1
  o2 = o2
  i1 = i1
  i2 = i2
  i3 = i3
  s1 = s1
  s2 = s2
  c = c
  f = f
  r1 = r1
  r2 = r2
  t1 = t1
  t2 = t2
  Orgs = {o1, o2}
  Rows = {i1, i2, i3}
  ClauseKeys = {c}
  SectionKeys = {f}
  Texts = {t1, t2}
  Releases = {r1, r2}
  Shipped <- Ships
  Sessions = {s1, s2}
  None = None
CONSTRAINT Bounded
SYMMETRY Symmetry
CHECK_DEADLOCK FALSE
INVARIANTS
  AsReleased
  TwinsHidden
PROPERTIES
  OthersUnaffected
