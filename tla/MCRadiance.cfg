CONSTANTS
  Later = {"e1"}
  MaxSeq = 2
  MaxItems = 2
  MaxCrashes = 1
  MaxResumes = 1
  MaxToggles = 1
SPECIFICATION Spec
CHECK_DEADLOCK FALSE
INVARIANT RowsAgree
PROPERTIES FieldSettles ServedImmutable
