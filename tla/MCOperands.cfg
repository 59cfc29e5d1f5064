CONSTANTS
  NumThreads = 3
  Reg = {"x", "y"}
  LaneDepth = 2
  RerouteDepth = 1
  ThreadDepth = 1
  ReadyDepth = 2
  DispatchMod = 4
  BufDepth = 8
  Blocks <- LoadBlocks

SPECIFICATION LiveSpec

INVARIANTS
  TypeOK
  ThreadsConserved
  ReservedUntilAnswered

PROPERTIES
  IssueRefined
  OperandsLoaded
  WrittenIfApart
  EveryBlockDispatched
