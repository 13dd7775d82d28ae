SPECIFICATION RetryingSpec
CONSTANTS
  Intents = {"one"}
  MaxAttempts = 3
  Calls <- CallsOfIntents
  Statuses = {200, 404, 503}
  Offered <- OneOfEachKind
  Absent = Absent
  MaxForeign = 1
INVARIANTS
  OutcomesBracketChanges
  RepeatIsHarmless
CHECK_DEADLOCK FALSE
