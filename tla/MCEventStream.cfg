SPECIFICATION LiveSpec
CONSTANTS
  j1 = j1  j2 = j2  e1 = e1  e2 = e2  e3 = e3  s1 = s1  s2 = s2
  Job = {j1}
  Writer = {e1, e2}
  Emits <- MCEmits
  Stream = {s1, s2}
  Watches <- MCWatches
  Kind <- MCKind
  Page = 2
  Window = 2
  MaxTries = 2
  MaxEvents = 2
  MaxReconnects = 1
  Timeouts = TRUE
  Retention = TRUE
CHECK_DEADLOCK FALSE
INVARIANTS NoSkippedEvent SseDrains
PROPERTY WsCloses
