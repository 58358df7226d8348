SPECIFICATION Spec
CONSTANTS
  j1 = j1
  j2 = j2
  j3 = j3
  h1 = h1
  h2 = h2
  s1 = s1
  s2 = s2
  s3 = s3
  Jobs = {j1, j2, j3}
  Hosts = {h1, h2}
  Stamps = {s1, s2, s3}
  NoName = NoName
  Failures = {"host", "fetch", "write", "send", "kill"}
SYMMETRY Symmetries
CHECK_DEADLOCK FALSE
INVARIANTS TypeOK RecordedOnlyIfNothingToSend
PROPERTIES AcceptedNotRefused KeepsContract
