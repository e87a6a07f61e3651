SPECIFICATION FairSpec
CONSTANTS
  ud1 = ud1
  Forever = Forever
  UserData <- OneUserData
  Offset <- ShortOffsets
  WaitTime <- OnlyForever
  Size = 2
  MaxTimers = 1
  ClockRange = 16
  MaxBatch = 1
  MaxOps = 1
  MaxTime = 2
  MaxInput = 0
PROPERTIES
  WaitSeesTimer
CHECK_DEADLOCK FALSE
