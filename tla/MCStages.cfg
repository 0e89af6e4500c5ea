SPECIFICATION Spec
CONSTANTS
  None = None
  Images = {1, 2}
  Providers = {p, q}
  Bodies <- MixedBodies
  Ops <- AllOps
  MaxTasks = 8
  MaxJobs = 2
  MaxEdits = 1
  MaxFaults = 1
  MaxSwitches = 1
  MaxEvents = 1
  Uploaded = {{1, 2}}
SYMMETRY Swap
CHECK_DEADLOCK FALSE
INVARIANT UniformSound
PROPERTY RerunHits
