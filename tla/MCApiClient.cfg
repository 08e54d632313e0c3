SPECIFICATION HealingSpec
CONSTANTS
  Requests = {r1, r2, r3}
  Mobile = {r3}
  Nobody = Nobody
  MaxConcurrent = 1
  RetryAttempts = 2
  MaxKey = 1
INVARIANTS ResourcesAccounted
PROPERTIES RetryHasNewerKey CallsEnd KeyHeals
