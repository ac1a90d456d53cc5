SPECIFICATION Spec
CONSTANTS
  Size = 36
  RxSize = 16
  Types = {"a"}
  Values = {"x", "y", "H", "T"}
  Foreign = {"H", "T", "junk"}
  MaxFrames = 3
INVARIANTS TypeOK SegmentServed TakenInOrder SearchStaysInside
PROPERTY CallReturns
CHECK_DEADLOCK FALSE
