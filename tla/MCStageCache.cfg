SPECIFICATION Spec
CONSTANTS
  None = None
  Images = {1, 2}
  Providers = {p}
  Bodies <- RecipeBodies
  Ops = {}
  MaxTasks = 8
  MaxJobs = 2
  MaxEdits = 0
  MaxFaults = 0
  MaxSwitches = 0
  MaxEvents = 0
  Uploaded = {{1, 2}}
INVARIANT CacheSound
CHECK_DEADLOCK FALSE
