SPECIFICATION Spec
CONSTANTS
  PsnMod = 16
  InitPsn = 14
  AttrBeyondTable = {}
  WRs <- LongWRs
  MaxWR = 1
  RecvSizes = {4}
  MaxRecv = 0
  Preposted <- BigBuffer
  RetryCnt = 1
  RnrRetry = 7
  MaxRdAtomic = 1
  MaxDestRdAtomic = 1
  MaxContigReqs = 1
  MaxContigReads = 4
  MaxFaults = 2
  WireCap = 3
  AckCap = 3
  MayDereg = FALSE
INVARIANT NoStall
CHECK_DEADLOCK FALSE
