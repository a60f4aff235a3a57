CONSTANTS
  Workers = {w1}
  Maint = maint
  ActiveTargets = {"UI_ACTIVE"}
  QueueCap = 1
  MaintCap = 1
  MaxRespawns = 1
SPECIFICATION FairSpec
PROPERTIES QuietSleeps StuckHandlerReclaimed HeldItemResolved
