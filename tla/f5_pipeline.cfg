SPECIFICATION Spec
CONSTANTS
  m1 = m1
  m2 = m2
  dn1 = dn1
  j1 = j1
  j2 = j2
  s1 = s1
  s2 = s2
  Jobs = {j1, j2}
  Peers <- MCPeers
  Standalone = {dn1}
  Hostname <- MCHostname
  Label <- MCLabel
  Stamps = {s1, s2}
  NoDevice = NoDevice
  NoName = NoName
  MaxFailovers = 1
  Failures = {"host", "ask", "hang", "row", "connect", "hostname", "save", "download",
              "delete", "channel", "upload", "kill"}
SYMMETRY Symmetries
CHECK_DEADLOCK FALSE
INVARIANTS TypeOK ActiveUnlessDisturbed LeftoverExplained
PROPERTIES AcceptedRuns DeletedAfterDownload KeepsContract
