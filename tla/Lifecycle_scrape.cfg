SPECIFICATION Spec
CONSTANTS
  r1 = r1
  r2 = r2
  Requests = {r1, r2}
  Streams = {r2}
INVARIANT ScrapesGetTheirGrace
CHECK_DEADLOCK FALSE
