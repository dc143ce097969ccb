SPECIFICATION Spec
CONSTANTS
  PsnMod = 16
  InitPsn = 14
  AttrBeyondTable = {}
  WRs <- ReadSendWRs
  MaxWR = 2
  RecvSizes = {2}
  MaxRecv = 0
  Preposted <- TwoBuffers
  RetryCnt = 1
  RnrRetry = 7
  MaxRdAtomic = 1
  MaxDestRdAtomic = 1
  MaxContigReqs = 8
  MaxContigReads = 4
  MaxFaults = 1
  WireCap = 3
  AckCap = 3
  MayDereg = FALSE
INVARIANT LostResponseIsRetried
CHECK_DEADLOCK FALSE
