SPECIFICATION Spec
CONSTANTS
  ud1 = ud1
  Forever = Forever
  UserData <- OneUserData
  Offset <- ShortOffsets
  WaitTime <- OnlyForever
  Size = 2
  MaxTimers = 2
  ClockRange = 16
  MaxBatch = 2
  MaxOps = 3
  MaxTime = 2
  MaxInput = 1
PROPERTIES
  WaitForeverDelivers
CHECK_DEADLOCK FALSE
