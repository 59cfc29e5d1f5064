CONSTANTS
  NumThreads = 3
  Reg = {"x"}
  LaneDepth = 2
  RerouteDepth = 2
  ThreadDepth = 2
  ReadyDepth = 2
  DispatchMod = 4
  BufDepth = 8
  Blocks <- InPlaceBlocks

SPECIFICATION Spec

PROPERTIES
  OperandsWritten
