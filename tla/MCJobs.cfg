SPECIFICATION Spec
CONSTANTS
  j1 = j1  j2 = j2  t1 = t1  t2 = t2  t3 = t3  a1 = a1  a2 = a2  w1 = w1  w2 = w2
  Job = {j1, j2}
  Task <- MCTask
  JobOf <- MCJobOf
  Deps <- MCDeps
  Key <- MCKey
  Hooked = {}
  Attempt <- MCAttempt
  WorkerOf <- MCWorkerOf
  Resumer = {}
  NoWorker = NoWorker
  NoTask = NoTask
  NoJob = NoJob
  Retention = TRUE
  FaultKinds = {"crash", "slow_commit"}
  MaxFaults = 1
  MaxRequests = 0
INVARIANT NoEarlyVerdict
PROPERTY DoomIsJustified
SYMMETRY MCSymmetry
