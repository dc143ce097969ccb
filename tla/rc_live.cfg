SPECIFICATION FairSpec
CONSTANTS
  PsnMod = 16
  InitPsn = 14
  AttrBeyondTable = {}
  WRs <- LiveWRs
  MaxWR = 2
  RecvSizes = {2}
  MaxRecv = 2
  Preposted <- OneBuffer
  RetryCnt = 1
  RnrRetry = 1
  MaxRdAtomic = 1
  MaxDestRdAtomic = 1
  MaxContigReqs = 8
  MaxContigReads = 4
  MaxFaults = 1
  WireCap = 3
  AckCap = 4
  MayDereg = TRUE
PROPERTY EveryPostCompletes
CHECK_DEADLOCK FALSE
