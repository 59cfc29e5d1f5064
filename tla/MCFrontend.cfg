CONSTANTS
  NumThreads = 2
  NumBlocks = 5
  Depth = 5
  NumIds = 2
  PrefetchEnabled = TRUE
  MetaBeats = 2
  BitstreamBeats = 2
  PredReg <- Alternating
  Kernels <- PlainKernels

SPECIFICATION LiveSpec

INVARIANTS
  IdsInUse
  RetiredEmpty
  ConfiguredRight
  TableInStep

PROPERTIES
  RunsKernel
  CtaRetires
