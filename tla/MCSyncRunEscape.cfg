SPECIFICATION Spec
CONSTANTS
  Callers = {cron}
  Scheduler = cron
  MaxRuns = 1
  MaxCrashes = 0
INVARIANT EscapedIsNotSuccess
