CONSTANTS
  NumThreads = 3
  NumBlocks = 5
  Depth = 5
  Kernels <- StructuredKernels

SPECIFICATION LiveSpec

INVARIANTS
  TypeOK
  PathsOnStack
  MasksNest
  ThreadsMeet
  RoomToWrite

PROPERTIES
  EveryCtaRetires
