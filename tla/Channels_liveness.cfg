SPECIFICATION ChanFairSpec
CONSTANTS
  root = root
  Thread = {root, t1, t2}
  Code = {1}
  c1 = c1
  s_send = s_send
  s_recv = s_recv
  s_sync = s_sync
  WaitList = {s_send, s_recv, s_sync}
  Initial <- Start
  MaxValue = 2
  Chan = {c1}
  send <- Send
  recv <- Recv
  sync <- Sync
  MaxSize = 0
  SoleSender = FALSE
  ready_list = ready_list
  free_list = free_list
  join_list = join_list
  NULL = NULL
  FREED = FREED
CHECK_DEADLOCK FALSE
INVARIANTS
  OneMessage
PROPERTIES
  MessagesArrive
