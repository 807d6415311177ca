SPECIFICATION FairSpec
CONSTANTS
  Log = {l1, l2}
  Recipient = {r1}
  NoOne = NoOne
  Vertical = "recycle"
  Env = {"RECYCLE_USE_BULL_QUEUE"}
  HasFallback = FALSE
  MaxAttempts = 2
  MaxStalled = 1
  Concurrency = 1
  MaxFaults = 0
  MaxCrashes = 0
PROPERTY LogsSettle
CHECK_DEADLOCK FALSE
