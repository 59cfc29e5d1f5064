CONSTANTS
  Value <- TwoValues
  Write <- TwoValues
  WrDescDepth = 2
  WLenDepth = 2
  WDataDepth = 2
  RdDescDepth = 1
  RDescDepth = 1
  RDataDepth = 1
  OrderDepth = 2
  MaxWrites = 2
  MaxExpected = 2
  MaxStores = 2

SPECIFICATION RunSpec

INVARIANTS
  TypeOK
  StoresOnTheWay
  CompletionBehindStores
  VerdictRight
  BeatsMatch

PROPERTIES
  GivesWay
