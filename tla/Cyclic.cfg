SPECIFICATION FairSpec
CONSTANTS
  Message <- MCMessage
  DidOf <- MCDidOf
  Encoder <- MCEncoder
  Fixed <- MCFixed
  Known <- MCKnown
  Loaded <- MCLoaded
  Written <- MCWritten
  Times <- MCTimes
  MeterFrame <- MCMeterFrame
  MaxChanges = 2
  Room = 1
  MaxDrop = 1
INVARIANTS
  TypeOK
  EveryLength
PROPERTIES
  IsBroadcast
  UpToDate
CHECK_DEADLOCK FALSE
