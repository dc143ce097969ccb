SPECIFICATION Spec
CONSTANTS
  PsnMod = 16
  InitPsn = 14
  AttrBeyondTable = {}
  WRs <- LongReadWRs
  MaxWR = 1
  RecvSizes = {2}
  MaxRecv = 0
  Preposted <- TwoBuffers
  RetryCnt = 1
  RnrRetry = 7
  MaxRdAtomic = 1
  MaxDestRdAtomic = 1
  MaxContigReqs = 8
  MaxContigReads = 4
  MaxFaults = 0
  WireCap = 3
  AckCap = 3
  MayDereg = FALSE
INVARIANT ResultsAreExact
CHECK_DEADLOCK FALSE
