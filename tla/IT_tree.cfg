\* Two requests of one or two people on up to three items.
SPECIFICATION Spec
CONSTANTS
  i1 = i1
  i2 = i2
  i3 = i3
  c1 = c1
  s1 = s1
  s2 = s2
  u1 = u1
  u2 = u2
  Items = {i1, i2, i3}
  Clauses = {c1}
  Sessions = {s1, s2}
  Users = {u1, u2}
  MaxPos = 2
  None = None
SYMMETRY Symmetry
CONSTRAINT Bounded
ACTION_CONSTRAINT EntriesFirst
CHECK_DEADLOCK FALSE
INVARIANTS
  AllShown
  SiblingsOrdered
  ClauseOnce
