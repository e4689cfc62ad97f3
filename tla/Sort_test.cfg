SPECIFICATION SortFairSpec
CONSTANTS
  root = root
  Thread = {root, t1, t2, t3}
  Code = {0}
  WaitList = {}
  N = 5
  CUTOFF = 1
  Value = {1, 2, 3}
  ready_list = ready_list
  free_list = free_list
  join_list = join_list
  NULL = NULL
  FREED = FREED
CHECK_DEADLOCK FALSE
INVARIANTS
  RangesDisjoint
  FinalPlaces
  SortTestPasses
PROPERTIES
  SortEnds
