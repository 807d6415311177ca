SPECIFICATION Spec
CONSTANTS
  Steps = {"request-received", "pickup-scheduled", "inspection-underway", "offer-ready", "payment-sent", "completed"}
  Resends = {"request-received", "pickup-scheduled", "inspection-underway", "offer-ready", "payment-sent", "completed"}
  Staff = {s1}
  Customer = {c1}
  Ops = {"send", "resend", "reship", "cancel", "decline", "edit", "remove"}
  MaxAsks = 2
  MaxOffers = 2
  MaxMails = 2
  MaxFaults = 1
SYMMETRY Symmetry
INVARIANT TypeOK
INVARIANT OnlyLastLinksWork
INVARIANT ConsoleOffersAccepted
PROPERTY AnswerIsForCurrentRound
PROPERTY PickupWasRequested
CHECK_DEADLOCK FALSE
