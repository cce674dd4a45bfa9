SPECIFICATION TimedSpec
CONSTANTS
  Senders = {a}
  W = W
  NoThread = NoThread
  max_buffer_size_ = 1
  Capacity = 2
PROPERTY SyncSendReturns
CHECK_DEADLOCK FALSE
