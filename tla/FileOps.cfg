SPECIFICATION Spec
CONSTANTS
  o1 = o1
  o2 = o2
  a = a
  b = b
  Ops = {o1, o2}
  Texts = {a, b}
  Absent = Absent
  MaxForeign = 1
INVARIANTS
  TypeOK
  ReplacesWhatItProbed
  ConflictMeansInterference
PROPERTIES
  KeepsPromise
  EveryToolReturns
CHECK_DEADLOCK FALSE
