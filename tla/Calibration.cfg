\* Two scales whose gains differ in both pins, so that a gain that is half
\* set is neither; two commands, so that clearing a group clears another one.
CONSTANTS
  Scales = {"1V", "5V"}
  MaxPending = 2
SPECIFICATION Spec
INVARIANTS
  TypeOK
  ModeHeldWhileUsed
  NoTypeOutsideMode
PROPERTIES
  CommandsServed
  EndCaliEnds
  EnterCalibrates
