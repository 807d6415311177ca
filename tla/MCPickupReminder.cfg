SPECIFICATION ReminderFairSpec
CONSTANTS
  Steps = {"request-received", "pickup-scheduled"}
  Resends = {}
  Staff = {s1}
  Customer = {c1}
  Pass = {p1}
  Ops = {"send"}
  MaxAsks = 1
  MaxOffers = 0
  MaxMails = 1
  MaxFaults = 0
  MaxPassFaults = 0
PROPERTY PickupIsReminded
CHECK_DEADLOCK FALSE
