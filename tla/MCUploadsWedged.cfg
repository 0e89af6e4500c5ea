SPECIFICATION UploadsSpec
CONSTANTS
  u1 = u1  u2 = u2  u3 = u3
  Upload = {u1}
  Content <- MCContent
  Key <- MCKeys
  Backend = "fs"
  Request = {r1, r2}
  NoFile = NoFile
  NoUpload = NoUpload
  FaultKinds = {"abort"}
  MaxFaults = 1
INVARIANT Resumable
CHECK_DEADLOCK FALSE
