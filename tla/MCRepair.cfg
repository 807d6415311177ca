SPECIFICATION Spec
CONSTANTS
  Steps = {"booking-confirmed", "pickup-scheduled", "device-received", "diagnosing", "quote-ready", "repair-in-progress", "device-ready", "device-returned", "courier-dispatched", "device-return-unrepaired"}
  Resends = {"booking-confirmed", "quote-ready", "device-ready"}
  Staff = {s1}
  Customer = {c1, c2}
  Ops = {"send", "resend", "edit", "cancel", "decline"}
  Answers <- MCAnswers
  c1 = c1
  c2 = c2
  MaxBookings = 2
  MaxQuotes = 2
  MaxDetours = 1
  MaxFaults = 1
INVARIANT TypeOK
INVARIANT AskedForReturn
PROPERTY BookingGateSpec
PROPERTY QuoteGateSpec
PROPERTY ReturnedAsChosen
PROPERTY AcceptanceStands
CHECK_DEADLOCK FALSE
