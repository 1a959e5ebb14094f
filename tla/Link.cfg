SPECIFICATION LSpec
CONSTANTS
  SFCap = 7
  FFCap = 6
  CFCap = 7
  SeqWrap = 16
  MaxLen = 4095
  ShortMax = 3
  HasErrors = TRUE
  Did = {"d1"}
  Known = {"d1"}
  Protected = {}
  ValByte <- Symbol
  HighByte = {}
  Ctr = {}
  Responses <- MCResponses
INVARIANTS
  RoundTrip
  StructuralFaultsAreSeen
  RewritingFaultsDeliver
  SameOverDoIP
  DoIPSeesLossOnly
CHECK_DEADLOCK FALSE
