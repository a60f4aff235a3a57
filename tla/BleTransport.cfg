CONSTANTS
  Messages <- MCMessages
  Cap = 1
  Mtus = {20, 22}
SPECIFICATION FairSpec
INVARIANT TypeOK
PROPERTIES StreamComplete StreamInOrder LossHeals HookEnds
