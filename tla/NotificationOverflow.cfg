CONSTANTS
  MAX_NOTIFICATION = 3
  VISIBLE_CARDS = 2
  UINT_MAX = 255
  Msgs = {m1, m2, m3, m4}
  NoMsg = NoMsg
SPECIFICATION Spec
PROPERTY OverflowDropsOne
