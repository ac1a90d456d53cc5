SPECIFICATION Spec
CONSTANTS
  Len = 7
  Samples = {50, 1900, 3800}
  Beyond = 4096
  Zero = 1900
  High = 3700
  Low = 100
INVARIANTS TypeOK MeasuresBlock OneEdgeOnly GoodIsSticky
