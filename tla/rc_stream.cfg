SPECIFICATION Spec
CONSTANTS
  PsnMod = 16
  InitPsn = 14
  AttrBeyondTable = {}
  WRs <- StreamWRs
  MaxWR = 2
  RecvSizes = {4}
  MaxRecv = 0
  Preposted <- BigBuffers
  RetryCnt = 1
  RnrRetry = 7
  MaxRdAtomic = 1
  MaxDestRdAtomic = 1
  MaxContigReqs = 1
  MaxContigReads = 4
  MaxFaults = 1
  WireCap = 3
  AckCap = 3
  MayDereg = FALSE
INVARIANTS TypeOK QueueOrder ExactlyOnceInOrder SuccessMeansExecuted ReceivesWholeMessages SurvivesFaults
PROPERTY NoProgressLost ImplementsService
CHECK_DEADLOCK FALSE
