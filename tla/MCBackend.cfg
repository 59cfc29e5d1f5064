CONSTANTS
  NumEblocks = 2
  CountMod = 4
  MaxThreads = 2
  MaxPorts = 1
  MaxReadRetire = 2
  DispatchMod = 2

SPECIFICATION LiveSpec

INVARIANTS
  TypeOK
  CommitOnlyWhenRetired
  RetiresLand
  NoDoubleInsert
  RequestsTaggedRight
  Accounting

PROPERTIES
  TokenNotLost
  BackendGoesOn
