SPECIFICATION Spec
CONSTANTS
  MaxLen = 5
  Inputs <- Texts
INVARIANTS
  TypeOK
  OutputIsSafeText
  DropsWholeSequences
PROPERTY Terminates
CHECK_DEADLOCK FALSE
