SPECIFICATION Spec
CONSTANTS
  None = None
  Texts <- MCTexts
  Fold <- MCFold
  Alike <- MCAlike
  Inside <- MCInside
  Short <- MCShort
  Types = {"customer", "product", "department"}
  Sources = {"customer", "product"}
  Known <- MCKnown
  Roles <- MCRoles
  TypeOf <- MCTypeOf
  RolesOf <- MCRolesOf
  Metrics = {"sales", "debt"}
  Allowed <- MCAllowed
  Literal = {"department"}
  Universe <- MCRows
  TypeLists <- MCTypeLists
  Requests <- MCRequests
  MaxRows = 3
  RowLimit = 2
  CacheSize = 1
  MaxLookups = 3
  MaxIssued = 2
  MaxChanges = 1
  MaxAsks = 2
INVARIANTS
  BoundAsNamed
  MeantAsAsked
PROPERTIES
  OneMeaning
CHECK_DEADLOCK FALSE
