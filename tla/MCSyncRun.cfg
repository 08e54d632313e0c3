SPECIFICATION Spec
CONSTANTS
  Callers = {cron, manual}
  Scheduler = cron
  MaxRuns = 2
  MaxCrashes = 1
INVARIANTS OpenRunsHaveAnOwner ClosedRowsTellTheTruth LastRunIsWhole AlertsHearTheTruth
PROPERTIES LastRunMovesForward OpenRunsEnd
