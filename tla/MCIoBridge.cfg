SPECIFICATION FairSpec
CONSTANTS
  ud1 = ud1
  Forever = Forever
  Size = 1
  MaxTimers = 2
  UserData <- OneUserData
  Offset <- WrapOffsets
  ClockRange = 16
  WaitTime <- FiniteWaits
  MaxBatch = 2
  MaxOps = 3
  MaxTime = 1
  MaxInput = 1
INVARIANTS
  TypeOK
  EveryOpAccounted
  CompletesOnce
PROPERTIES
  NeverEarly
  TimerFires
  CallReturns
