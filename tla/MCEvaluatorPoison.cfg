SPECIFICATION FairSpec
CONSTANTS
  a1 = a1
  a2 = a2
  NaN = NaN
  Malformed = Malformed
  Alarm <- MCAlarm
  Operation <- MCOperation
  Threshold <- MCMalformedThreshold
  Sample <- MCSample
  PipeCap = 1
  MaxCycle = 2
  MaxFaults = 0
PROPERTY EveryStoredAlarmEvaluated
