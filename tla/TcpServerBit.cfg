SPECIFICATION SafeSpec
CONSTANTS
  c1 = c1
  Clients = {c1}
INVARIANT DataBit
CHECK_DEADLOCK FALSE
