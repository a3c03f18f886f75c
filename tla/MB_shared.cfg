\* Two requests at a time on two organizations.
SPECIFICATION Spec
CONSTANTS
  u1 = u1
  u2 = u2
  o1 = o1
  o2 = o2
  i1 = i1
  s1 = s1
  s2 = s2
  Users = {u1, u2}
  Orgs = {o1, o2}
  Invites = {i1}
  Sessions = {s1, s2}
  Roles = {"admin", "editor"}
  RegistrationMode = "open"
  Shell = TRUE
  DefaultOrg = None
  None = None
SYMMETRY Symmetry
CHECK_DEADLOCK FALSE
INVARIANTS
  NoDanglingRows
PROPERTIES
  FreshKeepsAdmin
  FreshStrandsNothing
  FreshDeletesOnlyItsOwn
  InvitationReuse
