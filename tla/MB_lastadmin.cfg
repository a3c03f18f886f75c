\* Two administrators change each other's role at the same time.
SPECIFICATION Spec
CONSTANTS
  u1 = u1
  u2 = u2
  o1 = o1
  i1 = i1
  s1 = s1
  s2 = s2
  Users = {u1, u2}
  Orgs = {o1}
  Invites = {i1}
  Sessions = {s1, s2}
  Roles = {"admin", "editor"}
  RegistrationMode = "open"
  Shell = FALSE
  DefaultOrg = o1
  None = None
CHECK_DEADLOCK FALSE
PROPERTY
  LastAdminKept
