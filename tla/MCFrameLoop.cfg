SPECIFICATION Spec
CONSTANTS
  k = k
  b = b
  c1 = c1
  c2 = c2
  x = x
  Key = {k}
  Button = {b}
  Contact = {c1, c2}
  Text = {x}
  NoText = NoText
  None = None
  MaxFingers = 1
  NumPads = 2
  RingCap = 2
  QueueCap = 2
  Batch = 1
  Fixed = 1
  GenRange = 2
  First = 4
  Limit = 6
  HandleType = {"fixed", "pad"}
  MaxEvents = 3
INVARIANTS
  TypeOK
  EventsInOrder
  GuestCatchesUp
  CompositionEnds
  ControllersKnown
  OneFrameAfterQuit
