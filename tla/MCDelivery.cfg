SPECIFICATION FairSpec
CONSTANTS
  Log = {l1, l2}
  Recipient = {r1}
  NoOne = NoOne
  Vertical = "sell"
  Env = {"SELL_USE_BULL_QUEUE"}
  HasFallback = TRUE
  MaxAttempts = 2
  MaxStalled = 1
  Concurrency = 1
  MaxFaults = 1
  MaxCrashes = 1
INVARIANT TypeOK
INVARIANT ExtraCopiesHadLostOutcome
INVARIANT FailedMeansUndelivered
INVARIANT SentCopyIsTrackable
INVARIANT SettledIsFinal
INVARIANT OpenLogIsOwned
INVARIANT ResendIsNoDuplicate
PROPERTY QueuedSendRespectsSuppression
PROPERTY LedgerSpec
PROPERTY LogsSettle
CHECK_DEADLOCK FALSE
