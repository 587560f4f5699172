SPECIFICATION FairSpec
CONSTANTS
  t1 = t1
  t2 = t2
  Target <- MCTarget
  MaxYield = 1
  PipeCap = 2
  Prompt = FALSE
  MaxCycle = 2
  MaxFaults = 1
INVARIANT TypeOK
INVARIANT WholeCycleExported
PROPERTY NeverReexported
PROPERTY CycleCompletes
