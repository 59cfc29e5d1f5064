CONSTANTS
  NumPorts = 3
  Depth = 4
  Kernels <- TwoKernels

SPECIFICATION LiveSpec

INVARIANTS
  TypeOK
  CreditsConserved

PROPERTIES
  GrantHeld
  PortsGoOn
