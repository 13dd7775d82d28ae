SPECIFICATION Spec
CONSTANTS
  Calls = {c1, c2}
  Sessions = {s1, s2}
  Tokens = {t1, t2}
  Config = Config
  Headers = {h1}
  None = None
  Plans <- PlansOfTools
SYMMETRY Symmetric
INVARIANTS
  TokensStayWithTheirCalls
  OneIdPerCall
  IdsTellCallsApart
  
CHECK_DEADLOCK FALSE
