SPECIFICATION ThreadsSpec
CONSTANTS
  root = root
  Thread = {root, t1, t2, t3}
  Code = {1, 2}
  WaitList = {}
  ready_list = ready_list
  free_list = free_list
  join_list = join_list
  NULL = NULL
  FREED = FREED
SYMMETRY Symmetry
CHECK_DEADLOCK FALSE
INVARIANTS
  ThreadsTypeOK
  AssertsHold
  NoUseAfterFree
  NoLeak
  NoLostThread
  StuckOnlyInDeadlock
PROPERTIES
  JoinAllReturnsAlone
  KeepsPromise
