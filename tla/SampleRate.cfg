SPECIFICATION Spec
CONSTANTS
  Rates = {1, 100, 101, 105}
  Periods = {1000, 2000, 2080, 6000, 99999}
  MaxWord = 99999
INVARIANTS TypeOK AppliedRateKept RegistersAgree
PROPERTIES AutoFollows AutoSettles
