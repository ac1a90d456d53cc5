------------------------ MODULE AdcSampling_proofs ------------------------
(* Proofs about the double-buffered acquisition, for every block size and  *)
(* every number of acquisition numbers.                                    *)
EXTENDS AdcSampling, TLAPS

USE SamplingAssumption

\* Every step of the task, the hardware and the interrupt keeps the control
\* invariant.
LEMMA CtrlStep == CtrlInv /\ [Next]_vars => CtrlInv'
<1> SUFFICES ASSUME CtrlInv, [Next]_vars PROVE CtrlInv'
  OBVIOUS
<1> USE DEF CtrlInv, TypeOK, TaskInv, DMAInv, TimerInv, FlagTracksDMA,
            TimerServesDMA, Buffers, Ids, Busy, Holding, InStart
<1>1. CASE StartRefused
  BY <1>1 DEF StartRefused, ReturnFromStart, NextBuffer, flags, dma, timer, ghost
<1>2. CASE StartAccepted
  BY <1>2 DEF StartAccepted, flags, dma, timer, ghost
<1>3. CASE Arm
  <2>1. CASE Free # {}
    <3>1. Pick \in Buffers /\ ~ready[Pick]
      BY <2>1 DEF Pick, Free
    <3>2. /\ sampling' = TRUE /\ blocked' = FALSE /\ ovr' = FALSE
          /\ dmaState = "READY"
      BY <1>3, <2>1 DEF Arm, StartDMA
    <3>3. dst' = Pick /\ left' = BlockSize /\ dmaState' = "BUSY" /\ tcif' = FALSE
      BY <1>3, <2>1, <3>2 DEF Arm, StartDMA
    <3>4. TypeOK'
      <4>1. dst' \in Buffers /\ left' \in 0 .. BlockSize
        BY <3>1, <3>3
      <4>2. QED
        BY <1>3, <2>1, <3>2, <3>3, <4>1 DEF Arm, StopTimer, ghost
    <3>5. TaskInv'
      BY <1>3, <3>1, <3>2, <3>3 DEF Arm, StopTimer, ghost
    <3>6. DMAInv'
      BY <1>3, <3>1, <3>2, <3>3 DEF Arm, StopTimer, ghost
    <3>7. TimerInv'
      BY <1>3, <3>1, <3>2, <3>3 DEF Arm, StopTimer, ghost
    <3>8. QED
      BY <3>4, <3>5, <3>6, <3>7
  <2>2. CASE Free = {}
    <3>1. TypeOK'
      BY <1>3, <2>2 DEF Arm, StopTimer, dma, ghost
    <3>2. TaskInv'
      BY <1>3, <2>2 DEF Arm, StopTimer, dma, ghost
    <3>3. DMAInv'
      BY <1>3, <2>2 DEF Arm, StopTimer, dma, ghost
    <3>4. TimerInv'
      BY <1>3, <2>2 DEF Arm, StopTimer, dma, ghost
    <3>5. QED
      BY <3>1, <3>2, <3>3, <3>4
  <2>3. QED
    BY <2>1, <2>2
<1>4. CASE ClaimChannel
  BY <1>4 DEF ClaimChannel, ReturnFromStart, NextBuffer, flags, dma, ghost
<1>5. CASE EnableTimer
  BY <1>5 DEF EnableTimer, ReturnFromStart, NextBuffer, flags, dma, ghost
<1>6. CASE CheckReady
  BY <1>6 DEF CheckReady, CallStart, dma, timer, ghost
<1>7. CASE CheckNotReady
  BY <1>7 DEF CheckNotReady, flags, dma, timer, ghost
<1>8. CASE PollIdle
  BY <1>8 DEF PollIdle, CallStart, flags, dma, timer, ghost
<1>9. CASE PollSampling
  BY <1>9 DEF PollSampling, NextBuffer, flags, dma, timer, ghost
<1>10. CASE Measure
  <2>1. rd + 1 \in 1 .. BlockSize /\ rd' \in 0 .. BlockSize
    BY <1>10 DEF Measure
  <2>2. buffer[i][rd + 1] \in Ids
    BY <2>1
  <2>3. measured' \in SUBSET Ids
    BY <1>10, <2>2 DEF Measure
  <2>4. QED
    BY <1>10, <2>1, <2>3 DEF Measure, flags, dma, timer
<1>11. CASE ClearProcessing
  BY <1>11 DEF ClearProcessing, dma, timer, ghost
<1>12. CASE Release
  BY <1>12 DEF Release, NextBuffer, dma, timer
<1>13. CASE Delay
  BY <1>13 DEF Delay, flags, dma, timer, ghost
<1>14. CASE Transfer
  BY <1>14 DEF Transfer, task, flags, timer, ghost
<1>15. CASE Overrun
  BY <1>15 DEF Overrun, task, flags, dma, timer, ghost
<1>16. CASE ConvCplt
  <2>1. seq' \in Ids
    BY <1>16 DEF ConvCplt, Succ
  <2>2. sampling /\ left = 0 /\ pc \notin {"claim", "enable"} /\ (i # dst \/ ~Holding)
    BY <1>16 DEF ConvCplt
  <2>3. TypeOK'
    BY <1>16, <2>1 DEF ConvCplt, StopTimer, task, ghost
  <2>4. TaskInv'
    BY <1>16 DEF ConvCplt, StopTimer, task, ghost
  <2>5. DMAInv'
    BY <1>16 DEF ConvCplt, StopTimer, task, ghost
  <2>6. TimerInv'
    BY <1>16 DEF ConvCplt, StopTimer, task, ghost
  <2>7. QED
    BY <2>3, <2>4, <2>5, <2>6
<1>17. CASE UNCHANGED vars
  BY <1>17 DEF vars, task, flags, dma, timer, ghost
<1>18. QED
  BY <1>1, <1>2, <1>3, <1>4, <1>5, <1>6, <1>7, <1>8, <1>9, <1>10, <1>11,
     <1>12, <1>13, <1>14, <1>15, <1>16, <1>17 DEF Next, AdcTask

-----------------------------------------------------------------------------
\* The steps that touch neither a sample nor the stream nor the measure.
LEMMA DataQuiet ==
  ASSUME DataInv,
         UNCHANGED <<ready, sampling, dst, left, buffer, seq, rd, measured, i>>,
         pc = "release" <=> pc' = "release",
         pc' # "measure" => rd = 0
  PROVE  DataInv'
BY DEF DataInv, Id

\* Every step keeps the blocks in the buffers whole.
LEMMA DataStep == CtrlInv /\ DataInv /\ [Next]_vars => DataInv'
<1> SUFFICES ASSUME CtrlInv, DataInv, [Next]_vars PROVE DataInv'
  OBVIOUS
<1> USE DEF CtrlInv, TypeOK, Buffers
<1>1. CASE StartRefused
  <2>1. CASE caller = "idle"
    BY <1>1, <2>1 DEF DataInv, StartRefused, ReturnFromStart, NextBuffer,
                      flags, dma, timer, ghost, Id
  <2>2. CASE caller # "idle"
    BY <1>1, <2>2, DataQuiet DEF DataInv, StartRefused, ReturnFromStart,
                                 flags, dma, timer, ghost
  <2>3. QED
    BY <2>1, <2>2
<1>2. CASE StartAccepted
  BY <1>2, DataQuiet DEF DataInv, StartAccepted, flags, dma, timer, ghost
<1>3. CASE Arm
  <2>1. CASE Free # {}
    <3>1. dmaState = "READY" /\ left' = BlockSize
      BY <1>3, <2>1 DEF Arm, StartDMA, DMAInv, FlagTracksDMA, TaskInv
    <3>2. QED
      BY <1>3, <3>1 DEF Arm, DataInv, Id, ghost
  <2>2. CASE Free = {}
    BY <1>3, <2>2, DataQuiet DEF DataInv, Arm, dma, ghost
  <2>3. QED
    BY <2>1, <2>2
<1>4. CASE ClaimChannel
  BY <1>4, DataQuiet DEF DataInv, ClaimChannel, TimerInv, flags, dma, ghost
<1>5. CASE EnableTimer
  <2>1. CASE caller = "idle"
    BY <1>5, <2>1 DEF DataInv, EnableTimer, ReturnFromStart, NextBuffer,
                      flags, dma, ghost, Id
  <2>2. CASE caller # "idle"
    BY <1>5, <2>2, DataQuiet DEF DataInv, EnableTimer, ReturnFromStart,
                                 flags, dma, ghost
  <2>3. QED
    BY <2>1, <2>2
<1>6. CASE CheckReady
  BY <1>6, DataQuiet DEF DataInv, CheckReady, CallStart, dma, timer, ghost
<1>7. CASE CheckNotReady
  BY <1>7, DataQuiet DEF DataInv, CheckNotReady, flags, dma, timer, ghost
<1>8. CASE PollIdle
  BY <1>8, DataQuiet DEF DataInv, PollIdle, CallStart, flags, dma, timer, ghost
<1>9. CASE PollSampling
  BY <1>9 DEF DataInv, PollSampling, NextBuffer, flags, dma, timer, ghost, Id
<1>10. CASE Measure
  <2>1. rd + 1 \in 1 .. BlockSize /\ ready[i]
    BY <1>10 DEF Measure, TaskInv, Holding, Busy
  <2>2. buffer[i][rd + 1] = Id(i)
    BY <2>1 DEF DataInv
  <2>3. measured' = {Id(i)} /\ rd' > 0
    BY <1>10, <2>2 DEF Measure, DataInv
  <2>4. QED
    BY <1>10, <2>3 DEF Measure, DataInv, Id, flags, dma, timer
<1>11. CASE ClearProcessing
  BY <1>11 DEF ClearProcessing, DataInv, dma, timer, ghost, Id
<1>12. CASE Release
  BY <1>12 DEF Release, NextBuffer, DataInv, dma, timer, Id
<1>13. CASE Delay
  BY <1>13, DataQuiet DEF DataInv, Delay, flags, dma, timer, ghost
<1>14. CASE Transfer
  <2>1. sampling /\ ~ready[dst]
    BY <1>14 DEF Transfer, DMAInv, FlagTracksDMA
  <2>2. \A b \in Buffers : ready[b] => b # dst /\ buffer'[b] = buffer[b]
    BY <1>14, <2>1 DEF Transfer
  <2>3. \A k \in 1 .. BlockSize - left' : buffer'[dst][k] = seq
    BY <1>14, <2>1 DEF Transfer, DataInv, Ids
  <2>4. rd > 0 \/ pc = "release" => ready[i]
    BY DEF DataInv, TaskInv, Holding, Busy
  <2>5. measured' = IF rd' > 0 \/ pc' = "release" THEN {Id(i)'} ELSE {}
    BY <1>14, <2>2, <2>4 DEF Transfer, DataInv, task, ghost, Id
  <2>6. QED
    BY <1>14, <2>2, <2>3, <2>5 DEF Transfer, DataInv, task, flags, ghost, Id
<1>15. CASE Overrun
  BY <1>15, DataQuiet DEF DataInv, Overrun, task, flags, dma, timer, ghost
<1>16. CASE ConvCplt
  <2>1. sampling /\ left = 0
    BY <1>16 DEF ConvCplt, DMAInv, FlagTracksDMA
  <2>2. \A k \in 1 .. BlockSize : buffer[dst][k] = seq
    BY <2>1 DEF DataInv
  <2>3. 1 \in 1 .. BlockSize
    OBVIOUS
  <2>4. \A k \in 1 .. BlockSize : buffer[dst][k] = Id(dst)
    BY <2>2, <2>3 DEF Id
  <2>5. QED
    BY <1>16, <2>4 DEF ConvCplt, DataInv, task, ghost, Id
<1>17. CASE UNCHANGED vars
  BY <1>17, DataQuiet DEF DataInv, vars, task, flags, dma, timer, ghost
<1>18. QED
  BY <1>1, <1>2, <1>3, <1>4, <1>5, <1>6, <1>7, <1>8, <1>9, <1>10, <1>11,
     <1>12, <1>13, <1>14, <1>15, <1>16, <1>17 DEF Next, AdcTask

-----------------------------------------------------------------------------
\* One more acquisition makes every other one a step older, and the one that
\* has just ended the youngest.
LEMMA AgeGrows ==
  ASSUME seq \in Ids, seq' = Succ(seq), NEW x \in Ids
  PROVE  /\ x # seq => Age(x)' = Age(x) + 1
         /\ x = seq => Age(x)' = 1
BY DEF Age, Succ, Ids

\* Acquisitions that follow each other differ by one in age.
LEMMA AgeOfSucc ==
  ASSUME seq \in Ids, NEW x \in Ids, NEW y \in Ids, Age(x) = Age(y) + 1
  PROVE  y = Succ(x)
BY DEF Age, Succ, Ids

\* The range of an age; only the acquisition numbered seq has the oldest.
LEMMA AgeType ==
  ASSUME seq \in Ids, NEW x \in Ids
  PROVE  /\ Age(x) \in 1 .. IdCount
         /\ Age(x) = IdCount <=> x = seq
         /\ Succ(x) \in Ids
         /\ Age(x) > 1 => Age(Succ(x)) = Age(x) - 1
BY DEF Age, Succ, Ids

\* Steps that hand no block over and take none in.
LEMMA OrderQuiet ==
  ASSUME CtrlInv, AgeInv, OvertakenInv,
         UNCHANGED <<ready, seq, delivered>>,
         \A b \in Buffers : ready[b] => UNCHANGED buffer[b],
         \A b \in Buffers : ready[b] /\ NextIs(b) => NextIs(b)'
  PROVE  AgeInv' /\ OvertakenInv'
<1> USE DEF Buffers
<1>1. \A b \in Buffers : ready[b] => Id(b)' = Id(b)
  BY DEF Id
<1>2. \A x : Age(x)' = Age(x)
  BY DEF Age
<1>3. AgeInv'
  BY <1>1, <1>2 DEF AgeInv, DeliveredAge
<1>4. OvertakenInv'
  BY <1>1 DEF OvertakenInv
<1>5. QED
  BY <1>3, <1>4

\* The task's steps but the release of a buffer leave the order alone.
LEMMA OrderTaskStep ==
  ASSUME CtrlInv, AgeInv, OvertakenInv, AdcTask, ~Release
  PROVE  AgeInv' /\ OvertakenInv'
<1> USE DEF Buffers, NextIs, Holding, Busy, InStart
<1>1. UNCHANGED <<ready, seq, delivered, buffer>>
  BY DEF AdcTask, StartRefused, StartAccepted, Arm, ClaimChannel, EnableTimer,
         CheckReady, CheckNotReady, PollIdle, PollSampling, Measure,
         ClearProcessing, Delay, flags, ghost
<1>2. ASSUME NEW b \in Buffers, ready[b], NextIs(b)
      PROVE  NextIs(b)'
  BY <1>2 DEF AdcTask, StartRefused, StartAccepted, Arm, ClaimChannel,
         EnableTimer, CheckReady, CheckNotReady, PollIdle, PollSampling,
         Measure, ClearProcessing, Delay, CallStart, ReturnFromStart,
         NextBuffer
<1>3. QED
  BY <1>1, <1>2, OrderQuiet

\* The interrupt appends the block just captured.
LEMMA OrderConvCplt ==
  ASSUME CtrlInv, DataInv, AgeInv, OvertakenInv, ConvCplt
  PROVE  AgeInv' /\ OvertakenInv'
<1>0. dst \in Buffers /\ 1 - dst \in Buffers /\ seq \in Ids
  BY DEF CtrlInv, TypeOK, Buffers
<1> SUFFICES ASSUME NEW d \in Buffers, NEW o \in Buffers, NEW s \in Ids,
                    d = dst, o = 1 - d, s = seq
             PROVE  AgeInv' /\ OvertakenInv'
  BY <1>0
<1> USE DEF CtrlInv, TypeOK, Buffers
<1>1. /\ o # d /\ d = 1 - o
      /\ ~ready[d] /\ ready'[d] /\ ready'[o] = ready[o]
      /\ seq' = Succ(s) /\ delivered' = delivered /\ buffer' = buffer
  <2>1. o # d /\ d = 1 - o
    BY DEF Buffers
  <2>2. ~ready[d]
    BY DEF ConvCplt, DMAInv, FlagTracksDMA
  <2>3. ready'[d] /\ ready'[o] = ready[o]
    BY <2>1 DEF ConvCplt
  <2>4. seq' = Succ(s) /\ delivered' = delivered /\ buffer' = buffer
    BY DEF ConvCplt, ghost
  <2>5. QED
    BY <2>1, <2>2, <2>3, <2>4
<1>2. Id(d)' = s /\ Id(o)' = Id(o) /\ Id(o) \in Ids
  <2>1. 1 \in 1 .. BlockSize
    OBVIOUS
  <2>2. Id(d) = s
    BY <2>1 DEF ConvCplt, DMAInv, FlagTracksDMA, DataInv, Id
  <2>3. QED
    BY <1>1, <2>1, <2>2 DEF Id
<1>3. ASSUME NEW id \in Ids, Age(id) \in 1 .. 4
      PROVE  Age(id)' = Age(id) + 1
  BY <1>1, <1>3, AgeGrows, AgeType
<1>4. Age(s)' = 1
  BY <1>1, AgeGrows
<1>5. /\ DeliveredAge({1, 2}) => DeliveredAge({2, 3})'
      /\ DeliveredAge({2, 3}) => DeliveredAge({3, 4})'
  BY <1>1, <1>3 DEF DeliveredAge
<1>6. ASSUME NEW id \in Ids, delivered' = {id}, id = Succ(s)
      PROVE  Age(id)' = IdCount
  BY <1>1, <1>6 DEF Age, Succ, Ids
<1>7. CASE ~ready[o]
  <2>1. DeliveredAge({2, 3})'
    BY <1>1, <1>5, <1>7 DEF AgeInv
  <2>2. AgeInv'
    BY <1>1, <1>2, <1>4, <1>7, <2>1 DEF AgeInv
  <2>3. delivered' # {Succ(s)}
    <3>1. ASSUME NEW id \in Ids, delivered' = {id}, Age(id)' \in {2, 3}
          PROVE  id # Succ(s)
      BY <1>6, <3>1
    <3>2. QED
      BY <2>1, <3>1 DEF DeliveredAge
  <2>4. OvertakenInv'
    BY <1>1, <1>2, <1>7, <2>3 DEF OvertakenInv
  <2>5. QED
    BY <2>2, <2>4
<1>8. CASE ready[o]
  <2>1. \/ Age(Id(o)) = 1 /\ DeliveredAge({2, 3})
        \/ Age(Id(o)) = 2 /\ delivered = {Succ(Id(o))}
    BY <1>1, <1>8 DEF AgeInv
  <2>2. Age(Id(o))' = Age(Id(o)) + 1
    BY <1>1, <1>2, <1>3, <2>1 DEF Age
  <2>3. \/ Age(Id(o))' = 2 /\ DeliveredAge({3, 4})'
        \/ Age(Id(o))' = 3 /\ delivered' = {Succ(Id(o))'}
    BY <1>1, <1>2, <1>5, <2>1, <2>2 DEF Succ
  <2>4. AgeInv'
    BY <1>1, <1>2, <1>4, <1>8, <2>3 DEF AgeInv
  <2>5. delivered' # {Succ(s)}
    <3>1. CASE DeliveredAge({3, 4})'
      <4>1. ASSUME NEW id \in Ids, delivered' = {id}, Age(id)' \in {3, 4}
            PROVE  id # Succ(s)
        BY <1>6, <4>1
      <4>2. QED
        BY <3>1, <4>1 DEF DeliveredAge
    <3>2. CASE Age(Id(o)) = 2 /\ delivered = {Succ(Id(o))}
      <4>1. Id(o) # s
        BY <1>2, <3>2, AgeType
      <4>2. Succ(Id(o)) # Succ(s)
        BY <1>2, <4>1 DEF Succ, Ids
      <4>3. QED
        BY <1>1, <3>2, <4>2
    <3>3. QED
      BY <1>5, <2>1, <3>1, <3>2
  <2>6. NextIs(o) => NextIs(o)'
    BY DEF ConvCplt, task, NextIs, Holding, Busy, InStart
  <2>7. OvertakenInv'
    BY <1>1, <1>2, <2>5, <2>6 DEF OvertakenInv, Succ
  <2>8. QED
    BY <2>4, <2>7
<1>9. QED
  BY <1>7, <1>8

\* The release of buffer i hands its block over.
LEMMA OrderRelease ==
  ASSUME CtrlInv, DataInv, AgeInv, OvertakenInv, Release
  PROVE  AgeInv' /\ OvertakenInv'
<1>0. i \in Buffers /\ 1 - i \in Buffers
  BY DEF CtrlInv, TypeOK, Buffers
<1> SUFFICES ASSUME NEW h \in Buffers, NEW o \in Buffers, h = i, o = 1 - h
             PROVE  AgeInv' /\ OvertakenInv'
  BY <1>0
<1> USE DEF CtrlInv, TypeOK, Buffers
<1>1. /\ o # h /\ h = 1 - o
      /\ ready[h] /\ ~ready'[h] /\ ready'[o] = ready[o]
      /\ seq \in Ids /\ seq' = seq /\ buffer' = buffer
      /\ i' = o
  <2>1. o # h /\ h = 1 - o
    BY DEF Buffers
  <2>2. ready[h]
    BY DEF Release, TaskInv, Holding
  <2>3. ~ready'[h] /\ ready'[o] = ready[o]
    BY <2>1 DEF Release
  <2>4. seq \in Ids /\ seq' = seq /\ buffer' = buffer
    BY DEF Release
  <2>5. i' = o
    BY DEF Release, NextBuffer
  <2>6. QED
    BY <2>1, <2>2, <2>3, <2>4, <2>5
<1>2. delivered' = {Id(h)}
  BY DEF Release, DataInv
<1>3. /\ Id(h) \in Ids /\ Id(o) \in Ids /\ Id(o)' = Id(o)
      /\ \A id : Age(id)' = Age(id)
  <2>1. 1 \in 1 .. BlockSize
    OBVIOUS
  <2>2. QED
    BY <1>1, <2>1 DEF Id, Age
<1>4. NextIs(o)'
  BY <1>1 DEF Release, NextBuffer, NextIs
<1>5. OvertakenInv'
  BY <1>1, <1>4 DEF OvertakenInv
<1>6. CASE ~ready[o]
  <2>1. Age(Id(h)) \in {1, 2}
    BY <1>1, <1>6 DEF AgeInv
  <2>2. DeliveredAge({1, 2})'
    BY <1>2, <1>3, <2>1 DEF DeliveredAge
  <2>3. AgeInv'
    BY <1>1, <1>6, <2>2 DEF AgeInv
  <2>4. QED
    BY <1>5, <2>3
<1>7. CASE ready[o]
  <2>1. \/ Age(Id(o)) = 1 /\ Age(Id(h)) \in {2, 3}
        \/ /\ Age(Id(h)) = 1
           /\ Age(Id(o)) = 2 \/ (Age(Id(o)) = 3 /\ delivered = {Succ(Id(o))})
    <3>1. PICK b \in Buffers :
            /\ Age(Id(1 - b)) = 1
            /\ \/ Age(Id(b)) = 2 /\ DeliveredAge({3, 4})
               \/ Age(Id(b)) = 3 /\ delivered = {Succ(Id(b))}
      BY <1>1, <1>7 DEF AgeInv
    <3>2. QED
      BY <1>1, <3>1
  <2>2. delivered # {Succ(Id(o))}
    BY <1>1, <1>7 DEF OvertakenInv, NextIs
  <2>3. \/ Age(Id(o)) = 1 /\ DeliveredAge({2, 3})'
        \/ Age(Id(o)) = 2 /\ delivered' = {Succ(Id(o))}
    BY <1>1, <1>2, <1>3, <2>1, <2>2, AgeOfSucc DEF DeliveredAge
  <2>4. Age(Id(o))' = Age(Id(o)) /\ Succ(Id(o))' = Succ(Id(o))
    BY <1>1, <1>3 DEF Age, Succ
  <2>5. AgeInv'
    BY <1>1, <1>7, <2>3, <2>4 DEF AgeInv
  <2>6. QED
    BY <1>5, <2>5
<1>8. QED
  BY <1>6, <1>7

\* Every step keeps the pending blocks and the last delivered one in order.
LEMMA OrderStep ==
  CtrlInv /\ DataInv /\ AgeInv /\ OvertakenInv /\ [Next]_vars
    => AgeInv' /\ OvertakenInv'
<1> SUFFICES ASSUME CtrlInv, DataInv, AgeInv, OvertakenInv, [Next]_vars
             PROVE  AgeInv' /\ OvertakenInv'
  OBVIOUS
<1>1. CASE AdcTask /\ ~Release
  BY <1>1, OrderTaskStep
<1>2. CASE Release
  BY <1>2, OrderRelease
<1>3. CASE Transfer
  <2>1. \A b \in Buffers : ready[b] => UNCHANGED buffer[b]
    BY <1>3 DEF Transfer, CtrlInv, TypeOK, DMAInv, FlagTracksDMA
  <2>2. \A b \in Buffers : NextIs(b) => NextIs(b)'
    BY <1>3 DEF Transfer, task, NextIs, Holding, Busy, InStart
  <2>3. QED
    BY <1>3, <2>1, <2>2, OrderQuiet DEF Transfer, flags, ghost
<1>4. CASE Overrun \/ UNCHANGED vars
  <2>1. UNCHANGED <<task, flags, buffer, seq, ghost>>
    BY <1>4 DEF Overrun, vars
  <2>2. \A b \in Buffers : NextIs(b) => NextIs(b)'
    BY <2>1 DEF task, NextIs, Holding, Busy, InStart
  <2>3. QED
    BY <2>1, <2>2, OrderQuiet DEF flags, ghost
<1>5. CASE ConvCplt
  BY <1>5, OrderConvCplt
<1>6. QED
  BY <1>1, <1>2, <1>3, <1>4, <1>5 DEF Next

-----------------------------------------------------------------------------
\* The program starts with nothing armed, ready or counted.
LEMMA InitInv == Init => IInv
<1> SUFFICES ASSUME Init PROVE IInv
  OBVIOUS
<1> USE DEF Init, Buffers
<1>1. TypeOK
  <2>1. 0 \in Ids
    BY DEF Ids
  <2>2. buffer \in [Buffers -> [1 .. BlockSize -> Ids]]
    BY <2>1
  <2>3. 0 \in 0 .. BlockSize
    OBVIOUS
  <2>4. ready \in [Buffers -> BOOLEAN] /\ processing \in [Buffers -> BOOLEAN]
    OBVIOUS
  <2>5. QED
    BY <2>1, <2>2, <2>3, <2>4 DEF TypeOK
<1>2. TaskInv /\ DMAInv /\ TimerInv
  BY DEF TaskInv, DMAInv, TimerInv, FlagTracksDMA, TimerServesDMA, Holding,
         Busy, InStart
<1>3. DataInv /\ AgeInv /\ OvertakenInv
  BY DEF DataInv, AgeInv, OvertakenInv, DeliveredAge
<1>4. QED
  BY <1>1, <1>2, <1>3 DEF IInv, CtrlInv

\* The parts of the invariant together are preserved by every step.
LEMMA StepInv == IInv /\ [Next]_vars => IInv'
BY CtrlStep, DataStep, OrderStep DEF IInv

\* The invariant holds in every state of every behaviour, whatever the block
\* size and the cycle of acquisition numbers.
THEOREM Invariance == Spec => []IInv
<1>1. Init => IInv
  BY InitInv
<1>2. IInv /\ [Next]_vars => IInv'
  BY StepInv
<1>3. QED
  BY <1>1, <1>2, PTL DEF Spec, SafeSpec

\* Every variable of the acquisition stays in its type.
THEOREM TypeCorrect == Spec => []TypeOK
<1>1. IInv => TypeOK
  BY DEF IInv, CtrlInv
<1>2. QED
  BY <1>1, Invariance, PTL

\* The DMA stream never writes a buffer that waits for the ADC task or that
\* the task is measuring (flag_adc_buffer_ready, flag_adc_buffer_processing).
THEOREM Exclusion == Spec => []BufferExclusive
<1>1. IInv => BufferExclusive
  <2> SUFFICES ASSUME IInv, NEW b \in Buffers
               PROVE  /\ (left > 0 \/ tcif) /\ dst = b => ~ready[b] /\ ~processing[b]
                      /\ processing[b] => ready[b]
    BY DEF BufferExclusive
  <2>1. processing[b] => ready[b]
    BY DEF IInv, CtrlInv, TaskInv, Holding
  <2>2. left > 0 \/ tcif => ~ready[dst]
    BY DEF IInv, CtrlInv, DMAInv, FlagTracksDMA
  <2>3. QED
    BY <2>1, <2>2
<1>2. QED
  BY <1>1, Invariance, PTL

\* flag_adc_sampling is set exactly while the DMA stream is busy.
THEOREM FlagAgreement == Spec => []FlagTracksDMA
<1>1. IInv => FlagTracksDMA
  BY DEF IInv, CtrlInv, DMAInv
<1>2. QED
  BY <1>1, Invariance, PTL

\* The trigger timer runs for an armed stream or after a blocked start only.
THEOREM TimerAgreement == Spec => []TimerServesDMA
<1>1. IInv => TimerServesDMA
  BY DEF IInv, CtrlInv, TimerInv
<1>2. QED
  BY <1>1, Invariance, PTL

-----------------------------------------------------------------------------
(* The acquisition implements the block queue.                             *)

\* The first samples of the buffers that wait determine the queue.
LEMMA QueueFrame ==
  ASSUME UNCHANGED <<ready, seq>>,
         \A b \in Buffers : ready[b] => UNCHANGED buffer[b]
  PROVE  UNCHANGED Queue
<1> USE DEF Buffers
<1>1. \A b \in Buffers : ready[b] => Id(b)' = Id(b)
  BY DEF Id
<1>2. \A x : Age(x)' = Age(x)
  BY DEF Age
<1>3. QED
  BY <1>1, <1>2 DEF Queue

\* The program starts with an empty queue.
LEMMA InitRefines == Init => Abs!Init
BY DEF Init, Abs!Init, Queue, Buffers

\* The steps of the task but Arm and Release are invisible to the queue.
LEMMA TaskRefines ==
  ASSUME IInv, AdcTask, ~Arm, ~Release
  PROVE  UNCHANGED Abs!vars
<1>1. UNCHANGED <<ready, seq, delivered, buffer, sampling>>
  BY DEF AdcTask, StartRefused, StartAccepted, ClaimChannel, EnableTimer,
         CheckReady, CheckNotReady, PollIdle, PollSampling, Measure,
         ClearProcessing, Delay, flags, ghost
<1>2. QED
  BY <1>1, QueueFrame DEF Abs!vars

\* A start that finds a free buffer begins a block, a blocked one does nothing.
LEMMA ArmRefines ==
  ASSUME IInv, Arm
  PROVE  [Abs!Next]_Abs!vars
<1>1. UNCHANGED <<ready, seq, delivered, buffer>> /\ UNCHANGED Queue
  BY QueueFrame DEF Arm, ghost
<1>2. CASE Free = {}
  BY <1>1, <1>2 DEF Arm, Abs!vars
<1>3. CASE Free # {}
  <2>1. ~sampling /\ sampling' = TRUE
    BY <1>3 DEF Arm, IInv, CtrlInv, TaskInv
  <2>2. Len(Queue) < 2
    BY <1>3 DEF Free, Buffers, Queue
  <2>3. Abs!Begin
    BY <1>1, <2>1, <2>2 DEF Abs!Begin
  <2>4. QED
    BY <2>3 DEF Abs!Next
<1>4. QED
  BY <1>2, <1>3

\* The interrupt appends the block it completes to the queue.
LEMMA ConvCpltRefines ==
  ASSUME IInv, IInv', ConvCplt
  PROVE  [Abs!Next]_Abs!vars
<1>0. dst \in Buffers /\ 1 - dst \in Buffers /\ seq \in Ids
  BY DEF IInv, CtrlInv, TypeOK, Buffers
<1> SUFFICES ASSUME NEW d \in Buffers, NEW o \in Buffers, NEW s \in Ids,
                    d = dst, o = 1 - d, s = seq
             PROVE  [Abs!Next]_Abs!vars
  BY <1>0
<1> USE DEF IInv, CtrlInv, TypeOK, Buffers
<1>1. sampling /\ sampling' = FALSE /\ delivered' = delivered
  BY DEF ConvCplt, DMAInv, FlagTracksDMA, ghost
<1>2. o # d /\ ~ready[d] /\ ready'[d] /\ ready'[o] = ready[o]
  <2>1. o # d
    BY DEF Buffers
  <2>2. ~ready[d]
    BY DEF ConvCplt, DMAInv, FlagTracksDMA
  <2>3. ready'[d] /\ ready'[o] = ready[o]
    BY <2>1 DEF ConvCplt
  <2>4. QED
    BY <2>1, <2>2, <2>3
<1>3. Id(d)' = s /\ Id(o)' = Id(o) /\ Id(o) \in Ids
  <2>1. 1 \in 1 .. BlockSize
    OBVIOUS
  <2>2. QED
    BY <2>1 DEF ConvCplt, DMAInv, FlagTracksDMA, DataInv, Id
<1>4. seq' = Succ(s) /\ Abs!Succ(s) = Succ(s)
  BY DEF ConvCplt, Succ, Abs!Succ
<1>5. Queue' = Append(Queue, s)
  <2>1. CASE ~ready[o]
    <3>1. Queue = <<>> /\ Queue' = <<s>>
      BY <1>2, <1>3, <2>1 DEF Queue
    <3>2. QED
      BY <3>1
  <2>2. CASE ready[o]
    <3>1. Queue = <<Id(o)>>
      BY <1>2, <2>2 DEF Queue
    <3>2. Age(Id(o)) \in {1, 2}
      BY <1>2, <2>2 DEF AgeInv
    <3>3. Age(Id(o))' = Age(Id(o)) + 1 /\ Age(s)' = 1
      BY <1>3, <1>4, <3>2, AgeGrows, AgeType DEF Age
    <3>4. Age(Id(o))' > Age(Id(d))' /\ ~(Age(Id(d))' > Age(Id(o))')
      <4>1. Age(Id(d))' = Age(s)'
        BY <1>3 DEF Age
      <4>2. QED
        BY <3>2, <3>3, <4>1
    <3>5. Queue' = <<Id(o), s>>
      <4>1. CASE o = 0
        BY <1>2, <1>3, <2>2, <3>4, <4>1 DEF Queue
      <4>2. CASE o = 1
        BY <1>2, <1>3, <2>2, <3>4, <4>2 DEF Queue
      <4>3. QED
        BY <4>1, <4>2
    <3>6. QED
      BY <3>1, <3>5
  <2>3. QED
    BY <2>1, <2>2
<1>6. Abs!Complete
  BY <1>1, <1>4, <1>5 DEF Abs!Complete
<1>7. QED
  BY <1>6 DEF Abs!Next

\* The release hands over the oldest block, or overtakes it once.
LEMMA ReleaseRefines ==
  ASSUME IInv, Release
  PROVE  [Abs!Next]_Abs!vars
<1>0. i \in Buffers /\ 1 - i \in Buffers
  BY DEF IInv, CtrlInv, TypeOK, Buffers
<1> SUFFICES ASSUME NEW h \in Buffers, NEW o \in Buffers, h = i, o = 1 - h
             PROVE  [Abs!Next]_Abs!vars
  BY <1>0
<1> USE DEF IInv, CtrlInv, TypeOK, Buffers
<1>1. UNCHANGED <<sampling, seq, buffer>> /\ delivered' = {Id(h)}
  BY DEF Release, DataInv
<1>2. o # h /\ ready[h] /\ ~ready'[h] /\ ready'[o] = ready[o]
  <2>1. o # h
    BY DEF Buffers
  <2>2. ready[h]
    BY DEF Release, TaskInv, Holding
  <2>3. ~ready'[h] /\ ready'[o] = ready[o]
    BY <2>1 DEF Release
  <2>4. QED
    BY <2>1, <2>2, <2>3
<1>3. Id(o)' = Id(o) /\ Id(h) \in Ids /\ Id(o) \in Ids
  <2>1. 1 \in 1 .. BlockSize
    OBVIOUS
  <2>2. QED
    BY <1>1, <2>1 DEF Id
<1>4. CASE ~ready[o]
  <2>1. Queue = <<Id(h)>> /\ Queue' = <<>>
    BY <1>2, <1>4 DEF Queue
  <2>2. Abs!DeliverOldest
    BY <1>1, <2>1 DEF Abs!DeliverOldest
  <2>3. QED
    BY <2>2 DEF Abs!Next
<1>5. CASE ready[o]
  <2>1. Queue' = <<Id(o)>>
    BY <1>2, <1>3, <1>5 DEF Queue
  <2>2. Queue = <<Id(h), Id(o)>> \/ Queue = <<Id(o), Id(h)>>
    BY <1>2, <1>5 DEF Queue
  <2>3. CASE Queue = <<Id(h), Id(o)>>
    <3>1. Abs!DeliverOldest
      BY <1>1, <2>1, <2>3 DEF Abs!DeliverOldest
    <3>2. QED
      BY <3>1 DEF Abs!Next
  <2>4. CASE Queue = <<Id(o), Id(h)>>
    <3>1. delivered # {Succ(Id(o))}
      BY <1>5 DEF OvertakenInv, NextIs
    <3>2. Abs!Overtake
      BY <1>1, <2>1, <2>4, <3>1 DEF Abs!Overtake, Abs!Succ, Succ
    <3>3. QED
      BY <3>2 DEF Abs!Next
  <2>5. QED
    BY <2>2, <2>3, <2>4
<1>6. QED
  BY <1>4, <1>5

\* Blocks reach the measuring code whole, each exactly once, in the order of
\* capture up to one overtaking: every step of task, hardware and interrupt is
\* a step of the block queue or invisible to it.
THEOREM Refinement == Spec => ImplementsBlockQueue
<1>1. Init => Abs!Init
  BY InitRefines
<1>2. IInv /\ IInv' /\ [Next]_vars => [Abs!Next]_Abs!vars
  <2> SUFFICES ASSUME IInv, IInv', [Next]_vars PROVE [Abs!Next]_Abs!vars
    OBVIOUS
  <2>1. CASE AdcTask /\ ~Arm /\ ~Release
    BY <2>1, TaskRefines
  <2>2. CASE Arm
    BY <2>2, ArmRefines
  <2>3. CASE Release
    BY <2>3, ReleaseRefines
  <2>4. CASE ConvCplt
    BY <2>4, ConvCpltRefines
  <2>5. CASE Transfer
    <3>1. \A b \in Buffers : ready[b] => UNCHANGED buffer[b]
      BY <2>5 DEF Transfer, IInv, CtrlInv, TypeOK, DMAInv, FlagTracksDMA
    <3>2. UNCHANGED <<ready, seq, sampling, delivered>>
      BY <2>5 DEF Transfer, flags, ghost
    <3>3. QED
      BY <3>1, <3>2, QueueFrame DEF Abs!vars
  <2>6. CASE Overrun \/ UNCHANGED vars
    <3>1. UNCHANGED <<ready, seq, sampling, delivered, buffer>>
      BY <2>6 DEF Overrun, vars, flags, ghost
    <3>2. QED
      BY <3>1, QueueFrame DEF Abs!vars
  <2>7. QED
    BY <2>1, <2>2, <2>3, <2>4, <2>5, <2>6 DEF Next
<1>3. QED
  BY <1>1, <1>2, Invariance, PTL DEF Spec, SafeSpec, ImplementsBlockQueue, Abs!Spec
=============================================================================
