SPECIFICATION Spec
CONSTANTS
  Steps = {"booking-confirmed", "pickup-scheduled", "device-received", "diagnosing", "quote-ready", "repair-in-progress"}
  Resends = {"quote-ready"}
  Staff = {s1}
  Customer = {c1}
  Ops = {"send", "resend"}
  Answers <- MCAgrees
  c1 = c1
  c2 = c2
  MaxBookings = 1
  MaxQuotes = 2
  MaxDetours = 1
  MaxFaults = 0
INVARIANT NextActionIsAccepted
CHECK_DEADLOCK FALSE
