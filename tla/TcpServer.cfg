SPECIFICATION Spec
CONSTANTS
  c1 = c1
  c2 = c2
  Clients = {c1, c2}
INVARIANTS TypeOK FrameWhole
PROPERTY SlotServed
CHECK_DEADLOCK FALSE
