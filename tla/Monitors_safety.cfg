SPECIFICATION MonitorSpec
CONSTANTS
  root = root
  t1 = t1
  t2 = t2
  w0 = w0
  w1 = w1
  w2 = w2
  mutex = mutex
  changed = changed
  Thread = {root, t1, t2}
  Code = {1}
  WaitList = {mutex, w0, w1, w2}
  Lock = {mutex}
  Cond = {changed}
  lock_of <- LockOf
  waiter <- Waiter
  Initial <- Start
  MaxValue = 2
  ready_list = ready_list
  free_list = free_list
  join_list = join_list
  NULL = NULL
  FREED = FREED
CHECK_DEADLOCK FALSE
INVARIANTS
  MutualExclusion
  WaiterFramesLive
  NoLostSignal
  StuckMonitors
