SPECIFICATION Spec
CONSTANTS
  Steps = {"rent-request", "rent-agreement", "rent-ready-pickup", "rent-handover"}
  Resends = {"rent-request", "rent-agreement"}
  Staff = {s1}
  Customer = {c1}
  Job = {}
  Ops = {"send", "resend"}
  Answers = {"confirm", "refuse", "sign", "decline"}
  Modes = {"pickup"}
  Days = {1}
  MaxRequests = 1
  MaxQuotes = 1
  MaxMails = 1
  MaxDay = 0
  MaxReminders = 0
  MaxFaults = 0
INVARIANT DeclinedRequestCanBeResent
CHECK_DEADLOCK FALSE
