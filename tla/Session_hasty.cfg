SPECIFICATION SSpec
CONSTANTS
  SFCap = 3
  FFCap = 2
  CFCap = 3
  SeqWrap = 2
  MaxLen = 6
  ShortMax = 1
  d1 = d1
  d2 = d2
  d3 = d3
  va = va
  vb = vb
  vc = vc
  vd = vd
  lc = lc
  c1 = c1
  Did <- MCDid
  Known <- MCKnown
  Protected <- MCNone
  ValByte <- MCValByte
  HighByte <- MCHighByte
  Ctr <- MCCtr
  HasErrors = FALSE
  HasDelay = TRUE
  InitStore <- MCInitStore
  RxFrame <- MCNoFrame
  Swallows = FALSE
  MaxQueue = 0
  MaxTx = 0
  Requests <- MCCrossed
  LenCode = lc
  MaxCalls = 4
  MaxDrop = 0
  Patient = FALSE
INVARIANTS
  WholeValues
  WholeAnswers
CHECK_DEADLOCK FALSE
