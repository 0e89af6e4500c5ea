CONSTANTS
  MapTasks = {"map"}
  DerivedTasks = {"geo"}
  Mandatory = {"points"}
  Optional = {"rigs"}
  MaxRuns = 3
  OverlapRuns = 2
  TileSeqs = {1}
  MaxLevel = 0
  DefaultLevel = 1
  Overlaps = {TRUE, FALSE}
SPECIFICATION Spec
CHECK_DEADLOCK FALSE
INVARIANTS SealedWhole PointerLag
PROPERTY SealedImmutable
