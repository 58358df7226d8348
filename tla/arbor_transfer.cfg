SPECIFICATION Spec
CONSTANTS
  dc01 = dc01
  dc02 = dc02
  full = full
  inc = inc
  other = other
  j1 = j1
  j2 = j2
  ActiveDcs <- MCActiveDcs
  DcOf <- MCDcOf
  NoFile = NoFile
  Files = {full, inc, other}
  Jobs = {j1, j2}
  Sites <- MCSites
  Failures = {"read", "upload", "archive", "release", "kill"}
SYMMETRY JobSymmetry
CHECK_DEADLOCK FALSE
INVARIANTS TypeOK Retrievable SuccessDelivers
PROPERTIES DeliveredStays ReleasedAfterDelivery
