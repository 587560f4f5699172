SPECIFICATION FairSpec
CONSTANTS
  a1 = a1
  a2 = a2
  a3 = a3
  a4 = a4
  None = None
  full = full
  Alarm <- MCAlarm
  Body = {full}
  Asked <- MCAsked
  Sendable <- Kind
  MaxSent = 3
  MaxCreates = 2
  MaxCrashes = 1
  MaxErrors = 1
INVARIANT TypeOK
INVARIANT AnswersTruthful
INVARIANT DeletedStaysDeleted
INVARIANT OneAlarmPerDelivery
INVARIANT UntoldAlarmsBounded
INVARIANT CommittedIsHandled
PROPERTY RequestAnswered
CHECK_DEADLOCK FALSE
