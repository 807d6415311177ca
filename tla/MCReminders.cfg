SPECIFICATION ReminderSpec
CONSTANTS
  Steps = {"request-received", "pickup-scheduled", "inspection-underway", "offer-ready"}
  Resends = {"offer-ready"}
  Staff = {s1}
  Customer = {c1}
  Pass = {p1, p2}
  Ops = {"send", "resend", "cancel"}
  MaxAsks = 1
  MaxOffers = 2
  MaxMails = 2
  MaxFaults = 1
  MaxPassFaults = 1
SYMMETRY Symmetry
VIEW View
INVARIANT ReminderTypeOK
PROPERTY ReminderClaimedOnce
PROPERTY ClosedAfterReminders
PROPERTY ReminderOnTime
CHECK_DEADLOCK FALSE
