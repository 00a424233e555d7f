\* Two sessions over one slot and one worker, under fairness: the limit, jobs that
\* wait behind the job of a closed session, and jobs and calls that end although
\* children fall silent or die.
CONSTANTS
  s1 = s1
  s2 = s2
  Sessions = {s1, s2}
  MaxParallel = 1
  MaxCalls = 0
  MaxLines = 0
  Verdicts <- Obliging
SPECIFICATION FairSpec
INVARIANTS
  PoolBounded
PROPERTIES
  JobsFinish
  MainReturns
CHECK_DEADLOCK FALSE
