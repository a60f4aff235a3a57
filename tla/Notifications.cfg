CONSTANTS
  MAX_NOTIFICATION = 4
  VISIBLE_CARDS = 2
  UINT_MAX = 255
  Msgs = {m1, m2}
  ActionMsgs = {m1}
  MaxDetails = 2
  NoMsg = NoMsg
SPECIFICATION ScreenSpec
INVARIANTS TypeOK BaseInList CardsHoldNotifications ScreenCurrent SearchesAgree DetailOfCard
PROPERTIES OneAtATime DismissHitsCard
