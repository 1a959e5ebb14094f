SPECIFICATION FairSpec
CONSTANTS
  SFCap = 3
  FFCap = 2
  CFCap = 3
  SeqWrap = 2
  MaxLen = 6
  ShortMax = 1
  d1 = d1
  d2 = d2
  d3 = d3
  va = va
  vb = vb
  lc = lc
  c1 = c1
  Did <- MCDid
  Known <- MCKnown
  Protected <- MCProtected
  ValByte <- MCValByte
  HighByte <- MCHighByte
  Ctr <- MCCtr
  HasErrors = TRUE
  HasDelay = TRUE
  InitStore <- MCLongStore
  RxFrame <- MCFragile
  Swallows = TRUE
  MaxQueue = 1
  MaxTx = 0
PROPERTIES
  Serves
CHECK_DEADLOCK FALSE
