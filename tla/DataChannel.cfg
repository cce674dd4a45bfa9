SPECIFICATION FairSpec
CONSTANTS
  Senders = {a, b, W}
  W = W
  NoThread = NoThread
  max_buffer_size_ = 1
  Capacity = 2
INVARIANTS TypeOK NoLostWakeup
PROPERTY DrainWakes
CHECK_DEADLOCK FALSE
