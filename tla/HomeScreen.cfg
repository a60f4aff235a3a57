CONSTANTS
  MaxStartKeys = 2
  MaxBelow = 2
SPECIFICATION FairSpec
INVARIANTS TypeOK TickTouchesLiveLabels PagesExclusive
PROPERTIES PressTakenOnce FaceKeepsTicking
