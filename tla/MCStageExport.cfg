SPECIFICATION Spec
CONSTANTS
  None = None
  Images = {1, 2}
  Providers = {p}
  Bodies <- FastBodies
  Ops = {"export"}
  MaxTasks = 5
  MaxJobs = 4
  MaxEdits = 1
  MaxFaults = 0
  MaxSwitches = 0
  MaxEvents = 1
  Uploaded = {{1, 2}}
PROPERTY ExportCurrent
CHECK_DEADLOCK FALSE
