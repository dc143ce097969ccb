SPECIFICATION Spec
CONSTANTS
  QpTypes <- BothTypes
  MaxSendWr = 2
  MaxRecvWr = 1
  MaxPostRecv = 1
  MaxPost = 3
  MaxEpoch = 1
INVARIANTS TypeOK WqesConserved PostedOrder ResetForgets ErrorFlushes DrainIsNoticed
PROPERTY SqdStartsNothing
CHECK_DEADLOCK FALSE
