SPECIFICATION Spec
CONSTANTS
  Unset = Unset
  Files <- MCFiles
  S77Offset = 2
  CliDelay = 300
  DelayMax = 200
  Swallows = TRUE
INVARIANTS
  TypeOK
  SameDeviceEitherWay
  ConsumerLast
  LeavesNothing
PROPERTIES
  SignalEnds
CHECK_DEADLOCK FALSE
