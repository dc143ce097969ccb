SPECIFICATION Spec
CONSTANTS
  CQs = {"c1", "c2"}
  QPs = {"q1", "q2"}
  SendCq <- SendCqs
  RecvCq <- RecvCqs
  Notify <- Flags
  Solicited = {"q1"}
  CqEntries = 1
  MaxSrqWr = 1
  Limits = {1}
  MaxPost = 2
  MaxPostSrq = 2
  MaxModify = 1
INVARIANTS TypeOK CqesConserved SrqWqesConserved NoLostWakeup WorksAreLive LimitEventOnce OverflowIsReported
CHECK_DEADLOCK FALSE
