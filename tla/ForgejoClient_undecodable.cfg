SPECIFICATION Spec
CONSTANTS
  c1 = c1
  Calls = {c1}
  Statuses <- AllStatuses
INVARIANT ValidationMapsTo422
CHECK_DEADLOCK FALSE
