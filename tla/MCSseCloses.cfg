SPECIFICATION LiveSpec
CONSTANTS
  j1 = j1  j2 = j2  e1 = e1  e2 = e2  e3 = e3  s1 = s1  s2 = s2
  Job = {j1}
  Writer = {e1, e2}
  Emits <- MCEmits
  Stream = {s1}
  Watches <- MCWatchesOne
  Kind <- MCSse
  Page = 3
  Window = 2
  MaxTries = 2
  MaxEvents = 3
  MaxReconnects = 0
  Timeouts = TRUE
  Retention = FALSE
PROPERTY SseCloses
CHECK_DEADLOCK FALSE
