SPECIFICATION FairSpec
CONSTANTS
  a1 = a1
  a2 = a2
  a3 = a3
  a4 = a4
  None = None
  full = full
  Alarm <- MCAlarm
  Body = {full}
  Asked <- MCAsked
  Sendable <- Kind
  MaxSent = 2
  MaxCreates = 2
  MaxCrashes = 0
  MaxErrors = 0
PROPERTY EveryRequestAnswered
CHECK_DEADLOCK FALSE
