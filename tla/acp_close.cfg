\* A message is queued, the session closed, and the worker starts it again.
CONSTANTS
  s1 = s1
  Sessions = {s1}
  MaxParallel = 1
  MaxCalls = 1
  MaxLines = 1
  Verdicts <- Obliging
SPECIFICATION Spec
PROPERTIES
  ClosedStaysClosed
CHECK_DEADLOCK FALSE
