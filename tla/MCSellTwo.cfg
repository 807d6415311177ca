SPECIFICATION Spec
CONSTANTS
  Steps = {"request-received", "pickup-scheduled", "inspection-underway", "offer-ready", "payment-sent"}
  Resends = {"offer-ready"}
  Staff = {s1, s2}
  Customer = {c1}
  Ops = {"send", "resend", "reship"}
  MaxAsks = 1
  MaxOffers = 2
  MaxMails = 2
  MaxFaults = 0
SYMMETRY Symmetry
INVARIANT StepsInOrder
INVARIANT CompletedMeansClosed
PROPERTY PaymentWasAccepted
CHECK_DEADLOCK FALSE
