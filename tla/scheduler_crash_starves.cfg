SPECIFICATION FairSpec
CONSTANTS
  e1 = e1
  e2 = e2
  daily = daily
  weekly = weekly
  day0 = day0
  None = None
  Equipments = {e1}
  Configs = {daily}
  BadConfigs = {}
  MaxJobs = 2
  Disruptions = {"scheduler"}
  BoundedRuns = TRUE
PROPERTIES DueServed
