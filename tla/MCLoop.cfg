CONSTANTS
  NumThreads = 2
  NumBlocks = 3
  Depth = 4
  NumIds = 2
  PrefetchEnabled = TRUE
  MetaBeats = 2
  BitstreamBeats = 2
  PredReg <- Alternating
  Kernels <- LoopKernel

SPECIFICATION Spec

PROPERTIES
  FiredOnPath
