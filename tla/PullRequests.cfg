SPECIFICATION Spec
CONSTANTS
  o1 = o1
  o2 = o2
  Ops = {o1, o2}
  Tools = {"get", "merge", "review"}
  MaxPushes = 1
INVARIANTS
  MergeCredit
  ShownFitsTogether
  ReviewsBelongToTheirCalls
PROPERTIES
  KeepsPromise
  EveryToolReturns
CHECK_DEADLOCK FALSE
