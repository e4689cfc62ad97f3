SPECIFICATION ChanSpec
CONSTANTS
  root = root
  Thread = {root, t1}
  Code = {1}
  c1 = c1
  s_send = s_send
  s_recv = s_recv
  s_sync = s_sync
  WaitList = {s_send, s_recv, s_sync}
  Initial <- Start
  MaxValue = 2
  Chan = {c1}
  send <- Send
  recv <- Recv
  sync <- Sync
  MaxSize = 1
  SoleSender = FALSE
  ready_list = ready_list
  free_list = free_list
  join_list = join_list
  NULL = NULL
  FREED = FREED
CHECK_DEADLOCK FALSE
PROPERTIES
  SendAwaitsReceiver
