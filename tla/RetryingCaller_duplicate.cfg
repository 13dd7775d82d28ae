SPECIFICATION RetryingSpec
CONSTANTS
  Intents = {"comment"}
  MaxAttempts = 2
  Calls <- CallsOfIntents
  Statuses = {200, 503}
  Offered <- AddComment
  Absent = Absent
  MaxForeign = 0
INVARIANT SafeToRetry
CHECK_DEADLOCK FALSE
