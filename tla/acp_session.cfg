\* One session, every interleaving of its calls, its worker, its readers and its
\* child: two calls and two permission requests, so that a second request can
\* meet the answer to the first.
CONSTANTS
  s1 = s1
  Sessions = {s1}
  MaxParallel = 1
  MaxCalls = 2
  MaxLines = 2
  Verdicts <- Arbitrary
SPECIFICATION Spec
INVARIANTS
  TypeOK
  OneTurnPerChild
  TurnOverWhenIdle
  GrantedOnce
  PermissionKept
  OneChildPerSession
PROPERTIES
  KeepsContract
CHECK_DEADLOCK FALSE
