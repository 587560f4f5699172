SPECIFICATION Spec
CONSTANTS
  t1 = t1
  t2 = t2
  Target <- MCTarget
  MaxYield = 2
  PipeCap = 1
  Prompt = TRUE
  MaxCycle = 2
  MaxFaults = 0
INVARIANT FittingCycleExported
