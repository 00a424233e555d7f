\* A start that fails leaves its child running, out of every list.
CONSTANTS
  s1 = s1
  Sessions = {s1}
  MaxParallel = 1
  MaxCalls = 1
  MaxLines = 1
  Verdicts <- Obliging
SPECIFICATION Spec
INVARIANTS
  EveryChildOwned
CHECK_DEADLOCK FALSE
