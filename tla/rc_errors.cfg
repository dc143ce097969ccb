SPECIFICATION Spec
CONSTANTS
  PsnMod = 16
  InitPsn = 14
  AttrBeyondTable = {"STARTING", "ENDING"}
  WRs <- ErrorWRs
  MaxWR = 2
  RecvSizes = {1, 2}
  MaxRecv = 2
  Preposted <- NoBuffer
  RetryCnt = 0
  RnrRetry = 1
  MaxRdAtomic = 1
  MaxDestRdAtomic = 1
  MaxContigReqs = 8
  MaxContigReads = 1
  MaxFaults = 0
  WireCap = 2
  AckCap = 2
  MayDereg = FALSE
INVARIANTS ErrorEndsQueue NoStall
CHECK_DEADLOCK FALSE
