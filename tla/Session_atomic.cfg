SPECIFICATION SFairSpec
CONSTANTS
  SFCap = 3
  FFCap = 2
  CFCap = 3
  SeqWrap = 2
  MaxLen = 6
  ShortMax = 1
  d1 = d1
  d2 = d2
  d3 = d3
  va = va
  vb = vb
  vc = vc
  vd = vd
  lc = lc
  c1 = c1
  Did <- MCDid
  Known <- MCKnown
  Protected <- MCProtected
  ValByte <- MCValByte
  HighByte <- MCHighByte
  Ctr <- MCCtr
  HasErrors = FALSE
  HasDelay = TRUE
  InitStore <- MCInitStore
  RxFrame <- MCNoFrame
  Swallows = FALSE
  MaxQueue = 0
  MaxTx = 0
  Requests <- MCRequests
  LenCode = lc
  MaxCalls = 2
  MaxDrop = 2
  Patient = TRUE
PROPERTIES
  IsAtomicStore
  CallsEnd
CHECK_DEADLOCK FALSE
