SPECIFICATION Spec
CONSTANTS
  c1 = c1
  c2 = c2
  Calls = {c1, c2}
  Statuses <- FewStatuses
INVARIANTS
  TypeOK
  AtMostOnce
  TruthfulOutcome
  MetricsAccount
PROPERTIES
  LateExecutionOnlyIfTransient
  EveryCallReturns
  KeepsPromise
CHECK_DEADLOCK FALSE
