SPECIFICATION SSpec
CONSTANTS
  SFCap = 3
  FFCap = 2
  CFCap = 3
  SeqWrap = 2
  MaxLen = 6
  ShortMax = 1
  d1 = d1
  d2 = d2
  d3 = d3
  va = va
  vb = vb
  vc = vc
  vd = vd
  lc = lc
  c1 = c1
  Did <- MCDid
  Known <- MCKnown
  Protected <- MCProtected
  ValByte <- MCValByte
  HighByte <- MCHighByte
  Ctr <- MCCtr
  HasErrors = TRUE
  HasDelay = TRUE
  InitStore <- MCInitStore
  RxFrame <- MCNoFrame
  Swallows = FALSE
  MaxQueue = 0
  MaxTx = 0
  Requests <- MCSplice
  LenCode = lc
  MaxCalls = 3
  MaxDrop = 2
  Patient = TRUE
INVARIANTS
  FaultsDoNotLinger
CHECK_DEADLOCK FALSE
