SPECIFICATION Spec
CONSTANTS
  Gains = {"10x", "2x"}
  IdCount = 5
  Late = 3
INVARIANTS TypeOK ResultsOfGain
PROPERTY ResultsCome
