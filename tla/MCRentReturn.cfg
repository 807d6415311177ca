SPECIFICATION FairSpec
CONSTANTS
  Steps = {"rent-request", "rent-agreement", "rent-ready-pickup", "rent-handover", "rent-return-reminder"}
  Resends = {"rent-return-reminder"}
  Staff = {s1}
  Customer = {c1}
  Job = {p1, p2}
  Ops = {"send", "edit", "cancel"}
  Answers = {"confirm", "sign"}
  Modes = {"pickup"}
  Days = {2}
  MaxRequests = 1
  MaxQuotes = 1
  MaxMails = 1
  MaxDay = 1
  MaxReminders = 2
  MaxFaults = 1
INVARIANT OneReminder
PROPERTY ReminderArrives
CHECK_DEADLOCK FALSE
