SPECIFICATION Spec
CONSTANTS
  Steps = {"rent-request", "rent-agreement", "rent-ready-pickup", "rent-handover"}
  Resends = {"rent-agreement"}
  Staff = {s1}
  Customer = {c1}
  Job = {}
  Ops = {"send", "resend", "decline", "resume"}
  Answers = {"confirm", "refuse", "sign", "decline"}
  Modes = {"pickup"}
  Days = {3}
  MaxRequests = 1
  MaxQuotes = 3
  MaxMails = 3
  MaxDay = 0
  MaxReminders = 0
  MaxFaults = 0
INVARIANTS
  TypeOK
  SignedByCustomer
  HandoverWasAgreed
  EmailsInOrder
  ConsoleSendsAccepted
  ConsoleResendsAccepted
CHECK_DEADLOCK FALSE
