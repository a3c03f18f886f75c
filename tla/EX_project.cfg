SPECIFICATION ExhibitSpec
CONSTANTS
  Null = Null
  A = A
  B = B
  d1 = d1
  d2 = d2
  t1 = t1
  shown = shown
  office = office
  other = other
  package = package
  foreign = foreign
  fire = fire
  pipes = pipes
  closeout = closeout
  ofA = ofA
  ofB = ofB
  Orgs = {A, B}
  Docs = {d1, d2}
  Templates = {t1}
  Specs = {fire, pipes, closeout, ofA, ofB}
  Alphabet <- MCAlphabet
  MaxEdits = 2
  Divs <- MCDivs
  Procedural <- MCProcedural
  Codes <- MCCodes
  DivisionOf <- MCDivisionOf
  SpecOwner <- MCSpecOwner
  Mentions <- MCMentions
  ProjectOrg <- MCProjectOrg
  PackageOrg <- MCPackageOrg
  PackageProject <- MCPackageProject
  ClauseOrder <- MCClauseOrder
  ClauseOwner <- MCClauseOwner
  ClauseSection <- MCClauseSection
  ClauseDiv <- MCClauseDiv
  ClauseDefault <- MCClauseDefault
  Hidden <- MCHidden
  SpecOrder <- MCSpecOrder
  ShippedRows <- MCShippedRows
  NewRows <- MCNewRows
  KeyOrder <- MCKeyOrder
  OffByDefault <- MCOffByDefault
  Prose <- MCProse
  Drafts <- MCDrafts
  Forms <- MCForms
  Typed <- MCTyped
  Selections <- MCSelections
  Orders <- MCOrders
INVARIANTS
  ContentIsOwn
  DefaultsReportClean
  LabelsPointAtOne
PROPERTIES
  CopyReadsAlike
  OthersDocumentsDoNotCount
CONSTRAINT Bounded
ACTION_CONSTRAINT FirstEdited
CHECK_DEADLOCK FALSE
