SPECIFICATION Spec
CONSTANTS
  Rates = {100, 101}
  Periods = {1000, 6000}
  MaxWord = 99999
PROPERTY SamplingRestarts
