SPECIFICATION Spec
CONSTANTS
  o1 = o1
  o2 = o2
  Ops = {o1, o2}
  Plays <- ReaderAndAny
  Edits <- EditsOfEachField
  Branches = {"main", "dev"}
  Main = "main"
  Gone = Gone
  MaxForeign = 1
INVARIANTS
  TypeOK
  ShownIssueHasItsComments
  EditsTouchOnlyTheirFields
  DefaultAskedForOnlyInRace
PROPERTIES
  KeepsPromise
  EveryToolReturns
CHECK_DEADLOCK FALSE
