SPECIFICATION Spec
CONSTANTS
  None = None
  g1 = g1
  tower = tower
  annex = annex
  package = package
  Requests = {r1, r2}
  Grants = {g1}
  Ids = {tower, annex, package}
  Listings <- MCListings
  PerPage = 1
  MaxPages = 2
  MaxTokens <- MCMaxTokens
  MaxChanges = 1
  MaxEdits = 1
  MaxVersion = 3
CONSTRAINT Bounded
SYMMETRY Symmetry
INVARIANTS
  ChainKept
  ForgottenOnDisconnect
PROPERTIES
  ImportedOnce
  ImportedAll
  AttachedIsCurrent
CHECK_DEADLOCK FALSE
