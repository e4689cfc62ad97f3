SPECIFICATION SieveSpec
CONSTANTS
  root = root
  Thread = {root, t1, t2, t3, t4}
  Code = {0}
  WaitList <- Semaphore
  Initial <- Start
  MaxValue = 2
  Chan <- Channel
  send <- SendField
  recv <- RecvField
  sync <- SyncField
  MaxSize = 1
  SoleSender = FALSE
  PER = 3
  LAST = 20
  frame_chan <- FrameChan
  ready_list = ready_list
  free_list = free_list
  join_list = join_list
  NULL = NULL
  FREED = FREED
CHECK_DEADLOCK FALSE
INVARIANTS
  PrimesInOrder
  SoleUsers
  FramesAlive
PROPERTIES
  SieveEnds
  KeepsRendezvous
