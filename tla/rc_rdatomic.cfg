SPECIFICATION Spec
CONSTANTS
  PsnMod = 16
  InitPsn = 14
  AttrBeyondTable = {}
  WRs <- MixedWRs
  MaxWR = 3
  RecvSizes = {2}
  MaxRecv = 0
  Preposted <- ThreeBuffers
  RetryCnt = 1
  RnrRetry = 7
  MaxRdAtomic = 2
  MaxDestRdAtomic = 2
  MaxContigReqs = 8
  MaxContigReads = 1
  MaxFaults = 1
  WireCap = 3
  AckCap = 3
  MayDereg = FALSE
INVARIANTS PsnChain RdAtomicCount ResultsAreExact FenceHolds
CHECK_DEADLOCK FALSE
