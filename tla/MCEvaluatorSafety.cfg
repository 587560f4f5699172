SPECIFICATION Spec
CONSTANTS
  a1 = a1
  a2 = a2
  NaN = NaN
  Malformed = Malformed
  Alarm <- MCAlarm
  Operation <- MCOtherOperation
  Threshold <- MCThreshold
  Sample <- MCSample
  PipeCap = 1
  MaxCycle = 2
  MaxFaults = 1
INVARIANT TypeOK
INVARIANT NotifiedOnce
INVARIANT OrderedWhileClean
PROPERTY ChannelSpec
