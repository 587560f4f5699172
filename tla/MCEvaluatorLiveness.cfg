SPECIFICATION FairSpec
CONSTANTS
  a1 = a1
  a2 = a2
  NaN = NaN
  Malformed = Malformed
  Alarm <- MCAlarm
  Operation <- MCOperation
  Threshold <- MCMalformedThreshold
  Sample = {}
  PipeCap = 1
  MaxCycle = 3
  MaxFaults = 1
PROPERTY CycleCompletes
PROPERTY StoredAlarmEvaluated
PROPERTY VerdictHandedOver
