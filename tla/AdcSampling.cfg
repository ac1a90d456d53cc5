\* Blocks of three samples: the task and the stream can each be inside a block.
\* Six numbers: one more than the smallest IdCount the assumption admits.
CONSTANTS
  BlockSize = 3
  IdCount = 6
SPECIFICATION Spec
INVARIANTS
  TypeOK
  BufferExclusive
  FlagTracksDMA
  TimerServesDMA
PROPERTIES
  ImplementsBlockQueue
  EveryBlockDelivered
  SamplingGoesOn
