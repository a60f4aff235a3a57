CONSTANTS
  BLE_FIFO_SIZE = 3
  Msgs = {m1, m2}
  NoMsg = NoMsg
  Added = Added
SPECIFICATION Spec
INVARIANT TypeOK
PROPERTY FifosAreQueues
