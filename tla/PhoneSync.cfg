CONSTANTS
  Cap = 2
  HOURS = 2
  PhoneOffset = 3
  MaxUptime = 2
  NameMax = 2
  BodyMax = 3
  ActionMax = 2
  DismissMax = 1
  Payloads <- MCPayloads
SPECIFICATION FairSpec
INVARIANTS TypeOK TickExplained NotificationDecoded
PROPERTIES SyncCompletes
