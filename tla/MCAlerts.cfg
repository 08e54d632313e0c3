SPECIFICATION Spec
CONSTANTS
  MinPriority = 2
  Cooldown = 2
  Many = 3
INVARIANTS CountIsStreak OperatorKnows
PROPERTIES ToldOnce FailuresKeepCooldown
