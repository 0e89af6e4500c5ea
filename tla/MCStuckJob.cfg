SPECIFICATION LiveSpec
CONSTANTS
  j1 = j1  t1 = t1  t2 = t2  a1 = a1  a2 = a2  w1 = w1  w2 = w2
  Job <- MCJob
  Task <- MCTask
  JobOf <- MCJobOf
  Deps <- MCDeps
  Key <- MCKey
  Hooked = {t2}
  Attempt <- MCAttempt
  WorkerOf <- MCWorkerOf
  Resumer = {}
  NoWorker = NoWorker
  NoTask = NoTask
  NoJob = NoJob
  Retention = FALSE
  FaultKinds = {"crash"}
  MaxFaults = 1
  MaxRequests = 0
PROPERTY JobEnds
