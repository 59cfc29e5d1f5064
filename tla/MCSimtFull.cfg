CONSTANTS
  NumThreads = 4
  NumBlocks = 6
  Depth = 3
  Kernels <- NestedIfKernel

SPECIFICATION Spec

PROPERTIES
  ModifyUpdatesTop
