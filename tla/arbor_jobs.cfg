SPECIFICATION ASpec
CONSTANTS
  e1 = e1
  daily = daily
  dc01 = dc01
  full = full
  inc = inc
  None = None
  NoFile = NoFile
  Equipments = {e1}
  Configs = {daily}
  BadConfigs = {}
  MaxJobs = 2
  Disruptions = {"web", "worker", "scheduler", "adapter"}
  BoundedRuns = FALSE
  ActiveDcs <- MCActiveDcs
  DcOf <- MCDcOf
  Files = {full, inc}
  Installations <- MCInstallations
  Failures = {"upload"}
SYMMETRY FileSymmetry
CHECK_DEADLOCK FALSE
INVARIANTS SuccessRowsDelivered NothingLost
PROPERTY JobsTakeTurns
