SPECIFICATION Spec
CONSTANTS
  e1 = e1
  e2 = e2
  e3 = e3
  tIo = tIo
  tKey = tKey
  AllTypes = AllTypes
  Zeroed = Zeroed
  Size = 4
  Event <- MCEvent
  EventType <- MCEventType
  TypeOf <- MCTypeOf
INVARIANTS
  TypeOK
  RingOK
PROPERTIES
  RefinesFifo
