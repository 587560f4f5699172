SPECIFICATION FairSpec
CONSTANTS
  a1 = a1
  a2 = a2
  p1 = p1
  p2 = p2
  number = number
  text = text
  None = None
  NaN = NaN
  Malformed = Malformed
  Alarm <- MCAlarm
  Body <- MCBody
  Asked <- MCAsked
  Operation <- MCOperation
  Threshold <- MCThreshold
  Sample = {}
  PipeCap = 1
  Sendable = {"create", "delete"}
  MaxSent = 2
  MaxCreates = 1
  MaxCrashes = 1
  MaxErrors = 0
  MaxCycle = 1
  MaxFaults = 1
PROPERTY DeletedGoesQuiet
PROPERTY EvaluatorSpec
PROPERTY AcknowledgedAlarmEvaluated
