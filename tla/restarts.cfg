SPECIFICATION FairSpec
CONSTANTS
  e1 = e1
  e2 = e2
  daily = daily
  weekly = weekly
  day0 = day0
  None = None
  Equipments = {e1}
  Configs = {daily, day0}
  BadConfigs = {day0}
  MaxJobs = 2
  Disruptions = {"web", "worker", "scheduler", "adapter", "admin", "delete"}
  BoundedRuns = FALSE
INVARIANTS TypeOK OneScheduledRun
PROPERTIES RecoverySparesLive HistoryFollowsLifecycle RunningCleared
