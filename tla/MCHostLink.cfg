CONSTANTS
  Beats <- ShortBursts
  Word <- Words
  LinkDepth = 3
  WrDescDepth = 2
  WDataDepth = 3
  RdDescDepth = 2
  RDescDepth = 2
  RDataDepth = 2
  NumCtas = 2
  MaxPolls = 2
  MaxReads = 1
  WriteAhead = TRUE
  HostResets = TRUE

SPECIFICATION LiveSpec

INVARIANTS
  LaunchesAsWritten
  InStep

PROPERTIES
  RunsInSequence
