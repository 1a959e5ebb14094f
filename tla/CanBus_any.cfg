SPECIFICATION FairSpec
CONSTANTS
  i1 = i1
  i2 = i2
  i3 = i3
  oa = oa
  ob = ob
  Id <- MCId
  Owner <- MCOwner
  Registrations <- MCRegistrations
  MaxRetry = 2
  MaxBusy = 3
  Outcomes <- MCAnyOutcome
  MaxPuts = 3
  MaxArrivals = 2
INVARIANTS
  TypeOK
  DeliversInOrder
  NothingLost
  RxOutlivesBus
PROPERTIES
  KeepsOrder
  NeverSendsToClosed
  Drains
  Delivers
  StopEnds
CHECK_DEADLOCK FALSE
