SPECIFICATION Spec
CONSTANTS
  k1 = k1
  k2 = k2
  NoKey = NoKey
  NoSlot = NoSlot
  NoFn = NoFn
  Key <- OneKey
  HandleType <- ModuleAndOther
  First = 4
  Limit = 7
  MaxSlots = 2
  MaxServices = 2
  MaxFuncs = 1
  MaxDepth = 2
  MaxInst = 3
PROPERTIES
  CallReachesItsInstance
