SPECIFICATION Spec
CONSTANTS
  Top = 65535
  Limit = 3
  Counts = {0, 1}
  MaxOver = 5
INVARIANTS TypeOK MeasuresTrue LostTrue
PROPERTY SilenceFound
