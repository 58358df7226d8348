SPECIFICATION FairSpec
CONSTANTS
  MaxJobs = 2
  Limit = 1
  Addresses = {a1}
  NoHost = NoHost
  Late = TRUE
INVARIANTS TypeOK WatchedWhileOpen ClosedRowsComplete
PROPERTIES NeverReopens OutcomeShown ScheduledPageCatchesUp
