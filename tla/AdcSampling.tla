---------------------------- MODULE AdcSampling ----------------------------
(***************************************************************************)
(* Double-buffered acquisition of the oscilloscope: the ADC task           *)
(* (ADCHandleTaskFunction, usertask.c), Start_TIM_tiggered_ADC_DMA and     *)
(* HAL_ADC_ConvCpltCallback (adc_control.c), and the HAL routines and the  *)
(* hardware they drive: timer TIM2 triggers the ADC, each conversion is    *)
(* moved by a DMA stream in normal mode into one of two buffers, and the   *)
(* end of the transfer raises an interrupt.                                *)
(*                                                                         *)
(* The task is preempted between any two of its steps, by the hardware, by *)
(* the interrupt and by the tasks of higher priority; the stretch inside   *)
(* portENTER_CRITICAL/portEXIT_CRITICAL is one step, because it masks the  *)
(* interrupt of the DMA stream.                                            *)
(*                                                                         *)
(* A sample is represented by the number of the acquisition that wrote it, *)
(* counted modulo IdCount, so that a torn, overwritten, repeated or lost   *)
(* block shows in the numbers the measuring code reads.                    *)
(***************************************************************************)
EXTENDS Naturals, Sequences

CONSTANTS BlockSize,  \* ADC_BUFFER_SIZE, samples of one acquisition
          IdCount     \* acquisitions are numbered 0 .. IdCount - 1

ASSUME SamplingAssumption ==
  /\ BlockSize \in Nat \ {0}
  /\ IdCount \in Nat
  /\ IdCount > 4

Buffers == {0, 1}
Ids     == 0 .. IdCount - 1

Succ(id) == IF id = IdCount - 1 THEN 0 ELSE id + 1

VARIABLES
  pc,          \* next statement of the ADC task
  i,           \* buffer its scan is at
  caller,      \* where Start_TIM_tiggered_ADC_DMA returns to
  rd,          \* samples of buffer i RegularMeasure has read
  ready,       \* flag_adc_buffer_ready
  processing,  \* flag_adc_buffer_processing
  sampling,    \* flag_adc_sampling
  blocked,     \* the last start incremented buffer_blocked_count
  dst,         \* buffer the DMA stream's M0AR points to
  left,        \* NDTR: transfers left, 0 when the stream is disabled
  dmaState,    \* hdma->State
  tcif,        \* transfer complete interrupt pending
  chan,        \* HAL channel state of TIM2 channel 2
  counting,    \* TIM2 runs and triggers conversions
  ovr,         \* ADC overrun flag: no DMA request until it is cleared
  buffer,      \* adc_buffer_0, adc_buffer_1
  seq,         \* number of the acquisition armed now, or next
  measured,    \* acquisitions whose samples the running measure has read
  delivered    \* the same for the last measure that finished

task  == <<pc, i, caller, rd>>
flags == <<ready, processing, sampling, blocked>>
dma   == <<dst, left, dmaState, tcif>>
timer == <<chan, counting>>
ghost == <<measured, delivered>>
vars  == <<task, flags, dma, timer, ovr, buffer, seq, ghost>>

Init ==
  /\ pc = "start" /\ i = 0 /\ caller = "boot" /\ rd = 0
  /\ ready = [b \in Buffers |-> FALSE]
  /\ processing = [b \in Buffers |-> FALSE]
  /\ sampling = FALSE
  /\ blocked = FALSE
  /\ dst = 0 /\ left = 0 /\ dmaState = "READY" /\ tcif = FALSE
  /\ chan = "READY" /\ counting = FALSE
  /\ ovr = FALSE
  /\ buffer = [b \in Buffers |-> [k \in 1 .. BlockSize |-> 0]]
  /\ seq = 0
  /\ measured = {} /\ delivered = {}

-----------------------------------------------------------------------------
(* Start_TIM_tiggered_ADC_DMA, called at boot, for a buffer that is ready  *)
(* ("busy") and for one that is not while nothing is sampled ("idle").     *)

\* Bug: the loop ends after the first buffer.
NextBuffer_FirstOnly == UNCHANGED i /\ pc' = "delay"

\* The next round of the for loop over the two buffers, or the delay.
NextBuffer ==
  \/ i = 0 /\ i' = 1 /\ pc' = "check"
  \/ i = 1 /\ i' = 0 /\ pc' = "delay"

CallStart(from) ==
  /\ pc' = "start"
  /\ caller' = from
  /\ UNCHANGED <<i, rd>>

ReturnFromStart ==
  /\ \/ caller = "boot" /\ pc' = "check" /\ UNCHANGED i
     \/ caller = "busy" /\ pc' = "measure" /\ UNCHANGED i
     \/ caller = "idle" /\ NextBuffer
  /\ UNCHANGED <<caller, rd>>

\* Early return of an acquisition that is still running.
StartRefused ==
  /\ pc = "start" /\ sampling
  /\ ReturnFromStart
  /\ UNCHANGED <<flags, dma, timer, ovr, buffer, seq, ghost>>

StartAccepted ==
  /\ pc = "start" /\ ~sampling
  /\ pc' = "arm"
  /\ UNCHANGED <<i, caller, rd, flags, dma, timer, ovr, buffer, seq, ghost>>

\* Bug: the counter is stopped behind the HAL's back, its channel stays BUSY.
StopTimer_BaseOnly == UNCHANGED chan /\ counting' = FALSE

\* HAL_TIM_Base_Stop and HAL_TIM_PWM_Stop.
StopTimer == chan' = "READY" /\ counting' = FALSE

Free == {b \in Buffers : ~ready[b]}

\* Bug: the buffers alternate, whether the next one is free or not.
Pick_PingPong == 1 - dst

\* The buffer the critical section picks: the first that is not ready.
Pick == IF ~ready[0] THEN 0 ELSE 1

\* Bug: the length given to the DMA is that of the block and its header.
StartDMA_TooLong(b) ==
  /\ ovr' = FALSE
  /\ IF dmaState = "READY"
     THEN dst' = b /\ left' = BlockSize + 1 /\ dmaState' = "BUSY" /\ tcif' = FALSE
     ELSE UNCHANGED dma

\* Bug: the overrun of the idle time is not cleared.
StartDMA_KeepsOverrun(b) ==
  /\ UNCHANGED ovr
  /\ IF dmaState = "READY"
     THEN dst' = b /\ left' = BlockSize /\ dmaState' = "BUSY" /\ tcif' = FALSE
     ELSE UNCHANGED dma

\* HAL_ADC_Start_DMA: the overrun is cleared; HAL_DMA_Start_IT arms the
\* stream only from HAL_DMA_STATE_READY and its HAL_BUSY is not looked at.
StartDMA(b) ==
  /\ ovr' = FALSE
  /\ IF dmaState = "READY"
     THEN dst' = b /\ left' = BlockSize /\ dmaState' = "BUSY" /\ tcif' = FALSE
     ELSE UNCHANGED dma

Arm ==
  /\ pc = "arm"
  /\ StopTimer
  /\ \/ /\ Free # {}
        /\ StartDMA(Pick)
        /\ sampling' = TRUE
        /\ blocked' = FALSE
     \/ /\ Free = {}
        /\ blocked' = TRUE
        /\ UNCHANGED <<sampling, dma, ovr>>
  /\ pc' = "claim"
  /\ UNCHANGED <<i, caller, rd, ready, processing, buffer, seq, ghost>>

\* HAL_TIM_PWM_Start: HAL_ERROR, not looked at, unless the channel is READY;
\* it becomes BUSY ...
ClaimChannel ==
  /\ pc = "claim"
  /\ IF chan = "READY"
     THEN pc' = "enable" /\ chan' = "BUSY" /\ UNCHANGED <<i, caller, rd>>
     ELSE ReturnFromStart /\ UNCHANGED chan
  /\ UNCHANGED <<flags, dma, counting, ovr, buffer, seq, ghost>>

\* ... and the counter runs.
EnableTimer ==
  /\ pc = "enable"
  /\ counting' = TRUE
  /\ ReturnFromStart
  /\ UNCHANGED <<flags, dma, chan, ovr, buffer, seq, ghost>>

-----------------------------------------------------------------------------
(* The loop of ADCHandleTaskFunction over the two buffers.                 *)

CheckReady ==
  /\ pc = "check" /\ ready[i]
  /\ processing' = [processing EXCEPT ![i] = TRUE]
  /\ CallStart("busy")
  /\ UNCHANGED <<ready, sampling, blocked, dma, timer, ovr, buffer, seq, ghost>>

CheckNotReady ==
  /\ pc = "check" /\ ~ready[i]
  /\ pc' = "poll"
  /\ UNCHANGED <<i, caller, rd, flags, dma, timer, ovr, buffer, seq, ghost>>

\* flag_adc_sampling is a second read: the interrupt may come in between.
PollIdle ==
  /\ pc = "poll" /\ ~sampling
  /\ CallStart("idle")
  /\ UNCHANGED <<flags, dma, timer, ovr, buffer, seq, ghost>>

PollSampling ==
  /\ pc = "poll" /\ sampling
  /\ NextBuffer
  /\ UNCHANGED <<caller, rd, flags, dma, timer, ovr, buffer, seq, ghost>>

\* RegularMeasure (and the memcpy before it) reads the block sample by sample.
Measure ==
  /\ pc = "measure" /\ rd < BlockSize
  /\ measured' = measured \cup {buffer[i][rd + 1]}
  /\ rd' = rd + 1
  /\ UNCHANGED <<pc, i, caller, flags, dma, timer, ovr, buffer, seq, delivered>>

ClearProcessing ==
  /\ pc = "measure" /\ rd = BlockSize
  /\ processing' = [processing EXCEPT ![i] = FALSE]
  /\ rd' = 0
  /\ pc' = "release"
  /\ UNCHANGED <<i, caller, ready, sampling, blocked,
                 dma, timer, ovr, buffer, seq, ghost>>

\* Bug: flag_adc_buffer_ready[i] is not cleared.
Release_KeepsReady ==
  /\ pc = "release"
  /\ delivered' = measured
  /\ measured' = {}
  /\ NextBuffer
  /\ UNCHANGED <<caller, rd, ready, processing, sampling, blocked,
                 dma, timer, ovr, buffer, seq>>

Release ==
  /\ pc = "release"
  /\ ready' = [ready EXCEPT ![i] = FALSE]
  /\ delivered' = measured
  /\ measured' = {}
  /\ NextBuffer
  /\ UNCHANGED <<caller, rd, processing, sampling, blocked,
                 dma, timer, ovr, buffer, seq>>

\* osDelayUntil, and the next round of the task's endless loop.
Delay ==
  /\ pc = "delay"
  /\ pc' = "check"
  /\ UNCHANGED <<i, caller, rd, flags, dma, timer, ovr, buffer, seq, ghost>>

-----------------------------------------------------------------------------
(* The hardware and the interrupt.                                         *)

\* A trigger of TIM2 starts a conversion whose result the DMA moves; with no
\* stream to take it the next one overruns the data register.
Transfer ==
  /\ counting /\ ~ovr /\ left > 0
  /\ buffer' = [buffer EXCEPT ![dst][BlockSize - left + 1] = seq]
  /\ left' = left - 1
  /\ tcif' = (left = 1)
  /\ UNCHANGED <<task, flags, dst, dmaState, timer, ovr, seq, ghost>>

Overrun ==
  /\ counting /\ left = 0
  /\ ovr' = TRUE
  /\ UNCHANGED <<task, flags, dma, timer, buffer, seq, ghost>>

\* Bug: flag_adc_sampling is not cleared by the callback.
ConvCplt_KeepsSampling ==
  /\ tcif
  /\ tcif' = FALSE
  /\ dmaState' = "READY"
  /\ ready' = [ready EXCEPT ![dst] = TRUE]
  /\ StopTimer
  /\ seq' = Succ(seq)
  /\ UNCHANGED <<task, processing, sampling, blocked, dst, left, ovr,
                 buffer, ghost>>

\* HAL_DMA_IRQHandler, ADC_DMAConvCplt and HAL_ADC_ConvCpltCallback.
ConvCplt ==
  /\ tcif
  /\ tcif' = FALSE
  /\ dmaState' = "READY"
  /\ ready' = [ready EXCEPT ![dst] = TRUE]
  /\ sampling' = FALSE
  /\ StopTimer
  /\ seq' = Succ(seq)
  /\ UNCHANGED <<task, processing, blocked, dst, left, ovr, buffer, ghost>>

-----------------------------------------------------------------------------
AdcTask ==
  \/ StartRefused \/ StartAccepted \/ Arm
  \/ ClaimChannel \/ EnableTimer
  \/ CheckReady \/ CheckNotReady \/ PollIdle \/ PollSampling
  \/ Measure \/ ClearProcessing \/ Release \/ Delay

Next == AdcTask \/ Transfer \/ Overrun \/ ConvCplt

\* The task is scheduled again and again, the timer triggers, and an
\* interrupt that is pending is served.
Fairness == WF_vars(AdcTask) /\ WF_vars(Transfer) /\ WF_vars(ConvCplt)

SafeSpec == Init /\ [][Next]_vars
Spec     == SafeSpec /\ Fairness

-----------------------------------------------------------------------------
\* Types of the variables; left and rd stay within a block.
TypeOK ==
  /\ pc \in {"start", "arm", "claim", "enable", "check", "poll", "measure",
             "release", "delay"}
  /\ i \in Buffers
  /\ caller \in {"boot", "busy", "idle"}
  /\ rd \in 0 .. BlockSize
  /\ ready \in [Buffers -> BOOLEAN]
  /\ processing \in [Buffers -> BOOLEAN]
  /\ sampling \in BOOLEAN
  /\ blocked \in BOOLEAN
  /\ dst \in Buffers
  /\ left \in 0 .. BlockSize
  /\ dmaState \in {"READY", "BUSY"}
  /\ tcif \in BOOLEAN
  /\ chan \in {"READY", "BUSY"}
  /\ counting \in BOOLEAN
  /\ ovr \in BOOLEAN
  /\ buffer \in [Buffers -> [1 .. BlockSize -> Ids]]
  /\ seq \in Ids
  /\ measured \in SUBSET Ids
  /\ delivered \in SUBSET Ids

\* The DMA stream owns its target until the interrupt hands the block over,
\* and no buffer is given to the stream before the task has released it: a
\* block is never overwritten while it waits or while it is measured.
BufferExclusive ==
  \A b \in Buffers :
    /\ (left > 0 \/ tcif) /\ dst = b => ~ready[b] /\ ~processing[b]
    /\ processing[b] => ready[b]

\* flag_adc_sampling, which Start_TIM_tiggered_ADC_DMA trusts without looking
\* at the HAL, is set exactly while the stream is busy: a start is never
\* answered HAL_BUSY, which nobody would notice, and never refused for ever.
FlagTracksDMA ==
  /\ sampling <=> dmaState = "BUSY"
  /\ sampling <=> left > 0 \/ tcif

\* The interrupt stops the timer although the task may be about to start it:
\* an armed stream is always driven by a running timer once the start is over,
\* and the timer runs for nothing only after a start that found no free buffer.
TimerServesDMA ==
  /\ sampling /\ pc \notin {"claim", "enable"} => counting
  /\ counting /\ ~sampling => blocked
  /\ counting <=> chan = "BUSY" /\ pc # "enable"

-----------------------------------------------------------------------------
(* The inductive invariant behind these properties.                       *)

\* The acquisition a filled buffer holds, and how many were numbered since.
Id(b) == buffer[b][1]
Age(id) == IF id < seq THEN seq - id ELSE seq - id + IdCount

InStart == pc \in {"start", "arm", "claim", "enable"}

\* The task is between the two assignments to processing[i] ...
Busy == pc = "measure" \/ (InStart /\ caller = "busy")

\* ... or has still to clear ready[i].
Holding == Busy \/ pc = "release"

TaskInv ==
  /\ \A b \in Buffers : processing[b] <=> Busy /\ b = i
  /\ Holding => ready[i]
  /\ pc = "delay" => i = 0
  /\ pc = "arm" => ~sampling

DMAInv ==
  /\ FlagTracksDMA
  /\ tcif => left = 0
  /\ sampling => ~ready[dst]

TimerInv ==
  /\ TimerServesDMA
  /\ pc = "claim" => chan = "READY"
  /\ pc = "enable" => chan = "BUSY"
  /\ pc \in {"claim", "enable"} => ~tcif /\ (sampling \/ blocked)

\* A buffer that is ready holds one acquisition, the stream's target the
\* samples of the running one as far as it got, and the measure has read
\* nothing but the block at hand.
DataInv ==
  /\ \A b \in Buffers : ready[b] => \A k \in 1 .. BlockSize : buffer[b][k] = Id(b)
  /\ sampling => \A k \in 1 .. BlockSize - left : buffer[dst][k] = seq
  /\ pc # "measure" => rd = 0
  /\ measured = IF rd > 0 \/ pc = "release" THEN {Id(i)} ELSE {}

DeliveredAge(A) == delivered = {} \/ \E id \in Ids : delivered = {id} /\ Age(id) \in A

\* How far the pending blocks and the last delivered one lie behind seq.
AgeInv ==
  /\ (\A b \in Buffers : ~ready[b]) => DeliveredAge({1, 2})
  /\ \A b \in Buffers : ready[b] /\ ~ready[1 - b] =>
       \/ Age(Id(b)) = 1 /\ DeliveredAge({2, 3})
       \/ Age(Id(b)) = 2 /\ delivered = {Succ(Id(b))}
  /\ (\A b \in Buffers : ready[b]) => \E b \in Buffers :
       /\ Age(Id(1 - b)) = 1
       /\ \/ Age(Id(b)) = 2 /\ DeliveredAge({3, 4})
          \/ Age(Id(b)) = 3 /\ delivered = {Succ(Id(b))}

\* The task comes to buffer b before it comes to the other one.
NextIs(b) == i = b /\ (pc \in {"check", "delay"} \/ Holding)

OvertakenInv ==
  \A b \in Buffers : ready[b] /\ delivered = {Succ(Id(b))} => NextIs(b)

\* What the task, the stream and the timer know of each other.
CtrlInv == TypeOK /\ TaskInv /\ DMAInv /\ TimerInv

\* The inductive invariant of the acquisition.
IInv == CtrlInv /\ DataInv /\ AgeInv /\ OvertakenInv

-----------------------------------------------------------------------------
(* The abstract queue.                                                     *)

Queue ==
  IF ready[0] /\ ready[1]
  THEN IF Age(Id(0)) > Age(Id(1)) THEN <<Id(0), Id(1)>> ELSE <<Id(1), Id(0)>>
  ELSE IF ready[0] THEN <<Id(0)>>
  ELSE IF ready[1] THEN <<Id(1)>> ELSE <<>>

Abs == INSTANCE BlockQueue WITH
         Capacity <- 2, capturing <- sampling, next <- seq, queue <- Queue

\* The acquisition implements the block queue: every acquisition is handed to
\* the measuring code whole, once, and in order up to one overtaking.
ImplementsBlockQueue == Abs!Spec

\* No block waits for ever: a buffer that is ready is measured and released,
\* whatever the interrupt does to the scan meanwhile.
EveryBlockDelivered == \A b \in Buffers : ready[b] ~> ~ready[b]

\* The acquisition never stops: there is always a next one and it completes,
\* even after a start that found no buffer and after the overrun it causes.
SamplingGoesOn == []<>sampling /\ []<>~sampling
=============================================================================
