SPECIFICATION UploadsSpec
CONSTANTS
  u1 = u1  u2 = u2  u3 = u3
  Upload = {u1, u2, u3}
  Content <- MCContent
  Key <- MCKeys
  Request = {r1, r2}
  Backend = "s3"
  NoFile = NoFile
  NoUpload = NoUpload
  FaultKinds = {"abort", "write", "badsha", "push"}
  MaxFaults = 1
INVARIANTS TempIsPrefix SealedIsWhole OneUploadPerKey
SYMMETRY MCSymmetry
CHECK_DEADLOCK FALSE
