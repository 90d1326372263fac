CONSTANTS
  Proc = {c1, c2, cli}
  Cmd = {cli}
  Handle = {h1}
  Budget = 1
  Gone = Gone
  None = None
  Torn = Torn
  Absent = Absent
  MaxFaults = 2
SPECIFICATION FairSpec
CHECK_DEADLOCK FALSE
INVARIANT TypeOK
INVARIANT StoreIsLedger
INVARIANT DeliveredAsMeant
PROPERTY EveryRequestAnswered
