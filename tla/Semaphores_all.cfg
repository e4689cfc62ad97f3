SPECIFICATION SemFairSpec
CONSTANTS
  root = root
  Thread = {root, t1, t2}
  Code = {1}
  s1 = s1
  WaitList = {s1}
  Initial <- Start
  MaxValue = 2
  ready_list = ready_list
  free_list = free_list
  join_list = join_list
  NULL = NULL
  FREED = FREED
CHECK_DEADLOCK FALSE
INVARIANTS
  NoLostWakeup
  StuckMeansNothingAvailable
PROPERTIES
  ReadyRuns
  UnitsAreClaimed
