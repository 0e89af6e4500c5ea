SPECIFICATION Spec
CONSTANTS
  j1 = j1  j2 = j2  e1 = e1  e2 = e2  e3 = e3  s1 = s1  s2 = s2
  Job = {j1, j2}
  Writer = {e1, e2, e3}
  Emits <- MCEmitsTwo
  Stream = {s1}
  Watches <- MCWatchesOne
  Kind <- MCSse
  Page = 3
  Window = 2
  MaxTries = 2
  MaxEvents = 3
  MaxReconnects = 1
  Timeouts = FALSE
  Retention = TRUE
INVARIANT NoSkippedEvent
CHECK_DEADLOCK FALSE
