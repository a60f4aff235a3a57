CONSTANTS
  Messages <- MCMessages
  Cap = 1
  Mtus = {20}
SPECIFICATION Spec
INVARIANT HeaderOnce
