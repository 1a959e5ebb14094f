SPECIFICATION Spec
CONSTANTS
  SFCap = 3
  FFCap = 2
  CFCap = 3
  SeqWrap = 2
  MaxLen = 6
  ShortMax = 1
  d1 = d1
  d2 = d2
  d3 = d3
  va = va
  vb = vb
  lc = lc
  c1 = c1
  Did <- MCDid
  Known <- MCKnown
  Protected <- MCProtected
  ValByte <- MCValByte
  HighByte <- MCHighByte
  Ctr <- MCCtr
  HasErrors = FALSE
  HasDelay = FALSE
  InitStore <- MCInitStore
  RxFrame <- MCRich
  Swallows = TRUE
  MaxQueue = 2
  MaxTx = 0
INVARIANTS
  TypeOK
  NoWorkerDies
  LengthsOK
  StopCancelsAll
PROPERTIES
  ProtectedFromUds
CHECK_DEADLOCK FALSE
