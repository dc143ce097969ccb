SPECIFICATION Spec
CONSTANTS
  QpTypes <- OnlyRC
  MaxSendWr = 1
  MaxRecvWr = 1
  MaxPostRecv = 1
  MaxPost = 2
  MaxEpoch = 1
INVARIANT NeverBug
CHECK_DEADLOCK FALSE
