SPECIFICATION FairSpec
CONSTANTS
  s1 = s1
  s2 = s2
  None = None
  Stream <- Streams
  NewSize <- Rings
  DeviceSize = 2
  CounterRange = 4
  MaxStreams = 2
  Buffer = 1
  Block = 1
  Packet = 1
  MaxPut = 2
  MaxUnits <- Units
  MaxPackets = 2
CHECK_DEADLOCK FALSE
INVARIANTS
  TypeOK
  UnitsKept
  WorkerServesBound
  SafeUse
PROPERTIES
  PutReturns
