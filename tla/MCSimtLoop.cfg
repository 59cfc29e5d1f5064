CONSTANTS
  NumThreads = 3
  NumBlocks = 2
  Depth = 4
  Kernels <- LoopKernel

SPECIFICATION Spec

PROPERTIES
  ReturnPops
