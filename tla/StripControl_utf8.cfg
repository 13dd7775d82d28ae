SPECIFICATION Spec
CONSTANTS
  MaxLen = 3
  Inputs <- Texts
INVARIANT OutputIsUTF8
CHECK_DEADLOCK FALSE
