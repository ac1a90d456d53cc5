\* One scale other than the one in use is enough for two requests to cross.
CONSTANTS
  Scales = {"1V", "5V"}
  MaxPending = 1
SPECIFICATION Spec
INVARIANT OneCalibration
