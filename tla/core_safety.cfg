SPECIFICATION ASpec
CONSTANTS
  e1 = e1
  e2 = e2
  daily = daily
  weekly = weekly
  day0 = day0
  None = None
  Equipments = {e1, e2}
  Configs = {daily}
  BadConfigs = {}
  MaxJobs = 2
  Disruptions = {"web", "worker", "delete"}
  BoundedRuns = TRUE
  MaxDates = 2
SYMMETRY EquipmentSymmetry
INVARIANTS OrphansHaveACause OneRunPerDateAndLoss
PROPERTIES TerminalFinal RecoverySparesLive DueClearedByRun HistoryFollowsLifecycle
  ServedInTurn
