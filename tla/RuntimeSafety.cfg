CONSTANTS
  Workers = {w1, w2}
  Maint = maint
  ActiveTargets = {"UI_ACTIVE", "BACKGROUND_ACTIVE"}
  QueueCap = 1
  MaintCap = 1
  MaxRespawns = 1
SYMMETRY WorkerSymmetry
SPECIFICATION Spec
INVARIANTS TypeOK DeadlineArmed SleepQuiet WatchdogOwned AbortDelivered CountExact
PROPERTIES EarlySleepDrains RunsDutyCycle
