SPECIFICATION FairSpec
CONSTANTS
  SFCap = 3
  FFCap = 2
  CFCap = 3
  SeqWrap = 2
  MaxLen = 6
  ShortMax = 1
  ca = ca
  cb = cb
  e1 = e1
  e2 = e2
  e3 = e3
  d1 = d1
  d2 = d2
  va = va
  vb = vb
  vc = vc
  Did <- MCDid
  Known <- MCDid
  Protected <- MCProtected
  ValByte <- MCValByte
  HighByte <- MCNone
  Ctr <- MCNone
  HasErrors = FALSE
  Conn <- MCConn
  Ecu <- MCEcu
  Addr <- MCAddr
  InitStore <- MCInitStore
  Delayed <- MCDelayed
  Waits <- MCWaits
  SockRoom <- MCSockRoom
  HighWater = 0
  Requests <- MCRequests
  Eager <- MCEager
  MaxCalls <- MCCalls
  MaxNoise <- MCNoise
INVARIANTS
  TypeOK
  ProtectedKeepTheirValue
PROPERTIES
  IsAtomicStore
  CallsEnd
  StopEnds
CHECK_DEADLOCK FALSE
