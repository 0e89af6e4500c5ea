SPECIFICATION Spec
CONSTANTS
  j1 = j1  j2 = j2  e1 = e1  e2 = e2  e3 = e3  s1 = s1  s2 = s2
  Job = {j1}
  Writer = {e1, e2}
  Emits <- MCEmits
  Stream = {s1}
  Watches <- MCWatchesOne
  Kind <- MCSse
  Page = 1
  Window = 2
  MaxTries = 2
  MaxEvents = 3
  MaxReconnects = 1
  Timeouts = FALSE
  Retention = FALSE
INVARIANT SseDrains
CHECK_DEADLOCK FALSE
