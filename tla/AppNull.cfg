CONSTANTS
  Workers = {w1}
  TOTAL_HOURS = 2
  MaxDays = 1
  MaxAsked = 1
SPECIFICATION Spec
INVARIANT NoAppIsHandled
