CONSTANTS
  CoreKinds = {"kF", "kG", "kM"}
  ExtKinds = {"xF", "xU"}
  CoreFormats = {"f1", "f2", "m1"}
  ExtFormats = {"e1", "e2"}
  DefaultFormat <- MCDefaultFormat
  FormatType <- MCFormatType
  Space <- MCSpace
  RoleKinds <- MCRoleKinds
  RoleSpaces <- MCRoleSpaces
  None = None
  Providers = {"pA", "pB"}
  Default = "pA"
  Contracts <- MCContracts
  Implements = {"pA", "pB"}
  Datasets = {"d1", "d2"}
  Names = {"a", "b"}
  Imports <- MCImports
  Outputs <- MCOutputs
  Answers <- MCAnswers
  Requests <- MCRequests
  MaxJobs = 3
  MaxCrashes = 1
  MaxRoutes = 1
  MaxPurges = 1
SPECIFICATION Spec
CHECK_DEADLOCK FALSE
INVARIANTS RowsMatchOutputs ConversionDelivers
