# TLA+ models of the self-calibrating oscilloscope

The program in `src/project` runs on an STM32F407 under FreeRTOS: it samples a
signal with a timer, the ADC and a DMA stream into two buffers, measures each
block, shows the result on an LCD, sends it to a host over TCP, and calibrates
gain and bias on the request of the user or of the host.  This directory holds
TLA+ models of it, the TLC runs that check them and TLAPS proofs about them.
`PROJECT.json` maps every definition to the lines it models.

## 1. Inventory

Paths are relative to `src/project`.

| Component | Source | State | Operations | Must hold |
|---|---|---|---|---|
| Acquisition | `UserFiles/Source/adc_control.c` 106-188, `usertask.c` 102-255, HAL ADC/DMA/TIM | `flag_adc_buffer_ready/processing`, `flag_adc_sampling`, the buffers; HAL states; TIM2, ADC1, DMA2 stream 4 | start, completion interrupt, buffer loop | no block torn, overwritten or lost; acquisition never stops |
| Calibration mode | `adc_control.c` 625-710, `usertask.c` 77-101 and 178-191, `gui.c` 296-364 | `flag_in_calibration`, `global_cali_type`, `manual_cali_flag`, `cali_scale`, `GlobalConf.offset` | request, get, reset, command scan, ENTER | one calibration at a time; a request is carried out; commands are served |
| Gain and rate | `adc_control.c` 196-263, `usertask.c` 108-135, `gui.c` 129-287 | pins A, B, `gain_level`, TIM2 period, `freq_Autoflag` | `ConfigGain`, `ConfigFreqDiv`, `ConfigFreqDivAuto`, automatic rate | hardware and `GlobalConf` agree; a block has one gain and one rate |
| Frequency meter | `Core/Src/main.c` 193-256 | `caliFreqStruct`, `GlobalWave.period/freq` | capture, overflow | the period is the time between two edges, or "no signal" |
| Waveform analysis | `adc_control.c` 273-538 | `GlobalWave` | `WaveformDataAnalyze` | indices in range, no division by zero |
| Sliding filter | `adc_control.c` 564-623 | `wave_buffer` | feed, get, initialise | the output is the sum of the last `WAVE_SLIDE_LENGTH` blocks |
| Frame protocol | `tansmitt.c` | `mybuffer`, `start_point`, `safe_buffer(_pending)` | `TranmittDataPointsAna` | every frame in the stream is found once |
| TCP server | `myLWIPAPP.c` | `tcp_server_flag`, `dataSend`, `tcp_server_struct` | lwIP callbacks, `ETH_SendData` | the flags tell the truth; data accepted is sent once |
| GUI and keys | `gui.c`, `key.c` | menu selections, `key_up` | menu loops | what is shown is what is applied; one press, one action |
| LCD bus | `gui.c` 49-127, `ILI93xx.c` | LCD address and data registers | drawing by two tasks | a command and its data are not separated |
| DAC waveform | `main.c` 175-192, 238-246 | `out_val` | TIM7 interrupt | - |
| Tasks | `Core/Src/freertos.c` 112-155 | priorities | creation | - |

How they interact.  All components share global variables; there is no queue,
semaphore or mutex.  The ADC task and the TCP/IP thread have priority Normal,
the UI and display tasks priority High, so a handler of the UI runs whole
between two steps of the ADC task and never the other way round.  The
interrupts of the DMA stream and of the timers preempt every task, except
inside `portENTER_CRITICAL`, which the program uses once
(`adc_control.c:115`).  The TCP/IP thread hands commands to the ADC task through
`safe_buffer_pending`, the ADC task and the UI hand data to it through
`dataSend` and bit 7 of `tcp_server_flag`.

The hard behaviours are therefore interleavings: the task against the
completion interrupt and the running hardware; the ADC task against the UI on
the calibration mode and the gain; three tasks on `tcp_server_flag`; three
on the LCD.  `PROJECT.json` lists them under "hazards" with their lines.

## 2. Modules

| Module | What it is |
|---|---|
| `BlockQueue` | abstract: blocks are captured one at a time, wait in a queue of two places, and are handed over whole and once; the second may overtake the first, never twice the same block |
| `AdcSampling` | the acquisition: ADC task, HAL, timer, DMA stream, interrupt, step by step; implements `BlockQueue` |
| `Calibration` | the calibration mode: ADC task step by step, UI handlers, arrival of commands |
| `GainChange` | `BlockQueue` composed with `ConfigGain` of two tasks and the reads of the measurement |
| `SampleRate` | the rate of TIM2: the user's ENTER and the automatic mode of the ADC task, register by register |
| `FreqMeter` | TIM9 and the two callbacks of its interrupt |
| `WaveAnalyze` | the measurement of a block, one pass of a loop per step |
| `TcpServer` | lwIP callbacks, `tcp_server_flag` and the one send slot, with loads and stores |
| `FrameParser` | the receive buffer and the search for frames in a stream that is cut between any two halfwords |
| `LcdBus` | three tasks on the registers of one LCD panel |
| `AdcSampling_proofs`, `Calibration_proofs`, `GainChange_proofs`, `FreqMeter_proofs`, `SampleRate_proofs`, `WaveAnalyze_proofs`, `FrameParser_proofs` | the theorems of section 4 about the module of that name |
| `ServerAndLcd_proofs` | the theorems about `TcpServer` and `LcdBus`, the two things the TCP/IP thread shares with the other tasks |

Where one module needs another component, it takes what that one's module
shows of it: `Calibration` and `SampleRate` take blocks that come again and
again, `GainChange` takes `BlockQueue`, `WaveAnalyze` a block that does not change
(`BufferExclusive`), `SampleRate` a period and a lost signal as `FreqMeter` reports
them.

### AdcSampling

The program counter `pc` names the next shared access of the ADC task:
`start`, `arm`, `claim`, `enable` are inside `Start_TIM_tiggered_ADC_DMA`
(test of `flag_adc_sampling`; the critical section; the two effects of
`HAL_TIM_PWM_Start`), and `caller` says which of its three call sites it returns
to; `check` and `poll` are the two conditions of the loop in
`ADCHandleTaskFunction`, `measure` the reads of the samples and the clearing of
`processing`, `release` the clearing of `ready`, `delay` the `osDelayUntil`.
The critical section is one action, because the completion interrupt has a
priority FreeRTOS masks; everything else interleaves with `Transfer` (one
conversion moved by the DMA), `Overrun` (a conversion nobody fetches) and
`ConvCplt` (the interrupt with the callback).  `HAL_DMA_Start_IT` and
`HAL_TIM_PWM_Start` keep their state tests and their results are dropped, as in
the code.

A sample is the number of the acquisition that wrote it.  `measured` collects
the numbers a measure reads and `delivered` keeps them when the buffer is
released: a torn block would deliver two numbers, a repeated or lost block
would break the order `BlockQueue` demands.

Abstractions: the values of samples; a conversion and its transfer are one step
(a conversion still in flight when the timer stops, whose value the hardware may
keep for the first sample of the next block, is not represented);
`buffer_blocked_count` is kept as whether the last start increased it; the
period of the timer; the time stamps.  Reconfiguration of the timer by the same
task, the commands and the network are other components.

### Calibration

`pc` again names the next shared access of the ADC task: the scan of
`safe_buffer_pending`, the steps of `RequestCalibration` and `ConfigGain` (two
pins, `gain_level`, flag, type), the label `cali_scale`, the clearing of the
group; then, for each buffer, the tests of `flag_in_calibration` and
`manual_cali_flag`, `GetCalibration`, `ResetCalibration` (flag, type) and the
clearing of `manual_cali_flag`.  `ApplyGain` and `PressEnter` are whole handlers
of the UI, `Receive` is `ParameterAna`.  Frames to the host are represented by
the moment their type is read (`pc = "send"`); the connection they go out on is
not modelled.

Of `GlobalConf.offset` the level written last is kept; the values, and the
automatic rate, are left out.  `entered` is a history variable: the type of a
request of the UI that was accepted and has neither been carried out, as a
calibration of that type, nor ended by `END_CALI`.  Requests in two windows are
not entered: while the ADC task is inside `RequestCalibration`, between its test of
the flag and its writing of the type (`Requesting`), where it overwrites gain and
type of the UI's request (the finding of `calibration_one`), and between the first
write of `ResetCalibration` and the clearing of `manual_cali_flag` (`Resetting`), where
the request loses its type or its flag.

### GainChange

`BlockQueue` is instantiated on the module's own variables, so the acquisition
is exactly what `AdcSampling` was shown to implement.  `Sample` records the pins
at each conversion in `shot`: one setting, or `AllPins` if the block saw more
than one.  `ConfigGain` is three steps per task; the UI, of higher priority,
may start one inside that of the ADC task and then runs to its end (`Runs`).
`ReadLevel` is one of the reads of `gain_level` in a measurement.  `torn` says
that two changes overlapped, which leaves pins and level apart.

### SampleRate

`pc` is the ADC task between its test of `freq_Autoflag` and the last register of
`ConfigFreqDiv`; `Apply` is ENTER of `LcdHorizontal`, whole.  The integer divisions
and the sums of 32 bits are those of the code.  `blocks` is how many buffers
wait; a block only comes while the compare value is not above the reload value.
`chosen` and `overtaken` are history: the rate applied last, and whether that was
while the ADC task was changing it.  The emptying of the sliding window, which
nothing feeds, is left out.

### FreqMeter

A period is kept as its two halves of 16 bits, so nothing grows beyond TLC's
integers.  `Compare`, `Overflow` and `Edge` are the timer, and set the flags that
wait for the interrupt; `Enter`, `TestCapture`, `Restart` or `Measure`, and
`Elapsed` are `HAL_TIM_IRQHandler` with the two callbacks, and the timer may do
anything between them.  `truth` is the real time between the last two edges and
`settled` counts the edges since a service last met two events at once: there
the flags cannot tell how many there were, and the code promises nothing.

### WaveAnalyze

Each pass of a loop of `WaveformDataAnalyze`, `RmS_RawWaveform` and
`Average_RawWaveformRawWaveform` is an action; the two sums run over the same
indices and are done in one pass.  Whether the meter reports a frequency is
free in each block.  A result is kept as its integer sum and its divisor.

### TcpServer

`|=` and `&=` of the TCP/IP thread and of the ADC task are a load and a store
each (`treg`, `areg`); handlers of the UI are one step.  What becomes of a frame in
`tcp_server_senddata` (`Outcomes`) is free: all of it is taken by lwIP, or some of its
pbufs, or nothing, when the send buffer is full, `tcp_write` fails or there was no
pbuf; the poll goes on in the same way.  In `tcp_Connect`, `tcp_bind` and `tcp_new` may
fail (`ListenFails`, `NoPCB`); `tcp_listen` may not: the one PCB that listens comes
from a pool of eight of its own.  `conn` is what lwIP knows
of each connection, `server` what `tcp_Echoserver_PCB` points to, including a PCB
that was given back to the pool.  Closing such a PCB (`cut`) damages lwIP and
ends the behaviour.  `len` and `data` name the buffer whose length and whose
address the slot holds.

### FrameParser

A cell is a halfword; frames are eight cells as the compiler lays
`ONE_PARAMETER_TO_SEND` out, padding included.  `Receive` is `tcp_server_recv`: of a
segment of any length the first `RxSize` cells are copied to `tcp_client_recvbuf`, but
the whole length is passed on, so what is then copied to `mybuffer` ends with
`Foreign` cells, whatever lies in memory behind that buffer, headers and tails
included.  `start_point` advances by bytes, as in the code; `TakeFrame` and `NoFrame`
are the passes of the loop.  A value may read as a header (`"H"`) or as a tail
(`"T"`); one halfword of the value and one of the type are told apart, the others
are plain.  `spilt` is history: foreign cells were copied.  A frame put together
from foreign memory may have any type, with which `ParameterAna` indexes
`safe_buffer` without a test; what that does to other data is not followed.  A
frame of data points has its tail at index 501 and `mybuffer` has 100 halfwords on
the target, so `Find_Data_Header` never answers with one; it is left out.

### LcdBus

A drawing is the list of its bus accesses, and every access of every task is a
step of its own.  The panel is the NT35510: high and low byte of x and of y have
a register each, so the cursor can be left with bytes of two drawings.  Its y has
two high bytes (the display task's lines and the menu's) and two low bytes; the
columns are those of one low byte, `Width` of them; a text is one point.  As on
the panel, the menu's selection has the low byte of the AVG value's line.
The UI and the display task have the same priority and interleave at every
access, the TCP/IP thread runs when both wait, and `SuspendAll` leaves only the
display task running.  Of the panel's contents the two points of values are
kept.  The names of its specification (`BusInit`, `BusNext`, `BusSpec`)
keep it apart from `TcpServer`, next to which it is proved.

## 3. Runs

| Run | Instance | Shows |
|---|---|---|
| `acquisition` | 3 samples per block, 6 numbers | blocks are whole, once, delivered; flags, stream and timer agree; refines `BlockQueue` |
| `calibration` | scales 1V and 5V, 2 waiting commands | what holds of the mode; which commands are worked on; END_CALI and ENTER take effect |
| `calibration_one` | scales 1V and 5V, 1 command | `OneCalibration` is violated |
| `gain_change` | gains 10x and 2x, 5 numbers, `Late` = 3 | at most three results after a change are of another gain |
| `sample_rate` | rates 1, 100, 101, 105; five periods | the applied rate stays; the automatic one follows and comes to rest |
| `rate_stop` | rates 100, 101; two periods | `SamplingRestarts` is violated |
| `freq_meter` | 16-bit counter, limit 3 for 64, captured values 0 and 1, 5 overflows | the period is the true one; a silence is found |
| `analysis` | 7 samples out of 3 values | extremes, edges, exact sums and squares; division by zero; sticky flags |
| `tcp_server` | 2 clients | frames are copied whole; what is in the slot is taken |
| `tcp_bit` | 1 client | `DataBit` is violated |
| `frames` | buffer of 36 cells, receive buffer of 16, 3 frames, 4 values | segments that fit are understood; nothing is made up of a clean stream |
| `lcd` | lines of 2 points | the refresh arrives, whatever it cut |

### Bounds

- `acquisition`: three samples give a first, an inner and a last transfer, and
  let the measure and the stream be inside a block at the same time.  The
  numbers are counted modulo `IdCount`: at most two blocks wait, one is captured
  and the last delivered one is at most four behind, so five numbers tell all
  of them apart (`SamplingAssumption`); the run takes six.
- `calibration`: the gains of 1V and 5V differ in both pins, so a half-set gain
  is neither.  Two waiting commands are enough for a command to be cleared with
  another of its group, and for one to arrive behind or before the scan.
- `gain_change`: the two gains differ in both pins.  `Late` = 3 is tight, 2 is
  violated: one block was being measured, one waited, one was being captured,
  and the second can overtake the first.
- `sample_rate`: rates below, at and above the automatic one, which 101 means
  and above which only the automatic mode comes; periods too short, in range on
  both sides of the difference of 100, and too long; `MaxWord` stands for
  0xFFFFFFFF and is itself a period, so the sums wrap.
- `freq_meter`: with the limit at 3 the counter reaches, passes and saturates;
  the number of overflows only enters comparisons with the limit.
- `analysis`: four samples are seen by the search for edges, so that none, one
  and two edges occur, at the borders and inside; the values are below, at and
  above the middle and on both sides of the two criteria.
- `tcp_server`: with two clients one can be polled while the other comes and
  goes, and a freed PCB can be taken by the next connection.
- `frames`: 16 cells are the 32 bytes of `TCP_CLIENT_RX_BUFSIZE`, two frames.  A
  segment of n cells is accepted while 2n is below the size of `mybuffer`: with
  36 cells up to 17, so the instance has segments that fill the receive buffer,
  one that passes it by a foreign cell and is accepted, and refused ones.  Three
  frames let a frame end one segment and begin the next; the values are two
  plain ones, a header and a tail.
- `lcd`: two columns are the values' and another.  What a cut
  can mix are the bytes of coordinates; the width enters only the length of a
  fill.

### What the runs show

- `BufferExclusive`, `FlagTracksDMA`, `TimerServesDMA`: the design holds although
  the flags are not protected outside the critical section.  The window between
  `portEXIT_CRITICAL` and `HAL_TIM_PWM_Start` is harmless: the timer is off, so the
  armed stream cannot complete.  A start that finds both buffers full leaves the
  timer running for nothing; the overrun this causes is cleared by the next
  start.
- `ImplementsBlockQueue`: blocks are handed over whole and once, but not always
  in order.  If the interrupt comes between the two conditions of the loop, the
  other buffer can be handed over first.  `EveryBlockDelivered`, `SamplingGoesOn`:
  the acquisition never stops.
- `ModeHeldWhileUsed`, `NoTypeOutsideMode`: what the calibration mode can rely on.
  `CommandsServed`: every pending command comes to be worked on (`WorksOn`), or a
  command of its group is: the code clears a group as a whole, so one that
  arrives while another of its group is handled, or waits with it, is cleared
  without being carried out.  `EndCaliEnds`: END_CALI ends the mode, with the same
  exception.  `EnterCalibrates`: a request of the UI is carried out with its own
  type, or ended by END_CALI, unless it fell into one of the two windows of
  section 2.
- `ResultsOfGain`, `ResultsCome`: the measurement does not know the gain of a block,
  so results computed with the wrong one do go out after a change, but never
  more than three.  Two `ConfigGain` that overlap leave pins and `gain_level` apart
  until the next one; the property excepts them.
- `AppliedRateKept`, `RegistersAgree`: except for the window in which the ADC task
  is already past its test of the mode.  `AutoSettles` excepts the period
  0xFFFFFFFF, for which 100 more wraps and every block counts as a change.
- `MeasuresTrue`, `LostTrue`, `SilenceFound`: serving the capture before the update
  makes the subtraction of 1 right.  When two events share one service the
  period can be wrong once.
- `MeasuresBlock`: the extremes bound the samples and are samples; the sums of
  samples and of squares are exactly those of the window.  They hold one sample
  more than they are divided by.  `OneEdgeOnly`: with a single edge the average is
  a division by zero.  `GoodIsSticky`: GOOD never comes back once a block was
  clipped.
- `FrameWhole`: the flag byte has two writers without a lock and still protects
  the buffers, for frames of senders that ask.  `SlotServed`: what is visible in
  the slot is taken by a poll, after the client closed its side and while others
  come and go, as long as some connection is left to poll and no freed PCB was
  closed.  Whether lwIP then takes it is another matter (`Outcomes`): the code
  clears the slot either way.
- `SegmentServed`: a segment of whole frames that fits both buffers is understood,
  whatever is left of earlier ones.  `TakenInOrder`, `SearchStaysInside`: on a clean
  stream (no value reads as a mark, no foreign cell was copied) what an earlier
  segment left in the buffer costs frames, but makes none.  On others the search
  can take what is no frame, subtract more than was received and leave the
  buffer; the model stops there.  `CallReturns`: up to there the loop ends.
- `RefreshInPlace`: suspending the scheduler around the refresh is enough for the
  refresh: what it draws is on the panel when the others go on.  It is not enough
  for the drawings it cuts (see below).
- The three violations are findings about the code, explained in `PROJECT.json`:
  two requests accepted at once; bit 7 set with nothing to send, after which
  nothing is sent until an unasked send; a compare value above the reload value,
  after which nothing is ever sampled.

### Further counterexamples

Three more properties are stated in the modules, of which the code breaks each.
They are in no cfg; TLC finds the behaviour within a minute when they are put
into one.

- `FrameKept` (INVARIANT of `TcpServerBit.cfg`): a callback loads the flag byte to set
  bit 6 or 5, a frame is put into the slot and bit 7 set, and the callback's store
  takes bit 7 away.  The frame stays in the slot unseen until another replaces it.
- `NewDataServed` (INVARIANT of `FrameParser.cfg`, with the target's `Size` = 100, one
  value and one foreign cell): a segment of three frames is accepted with its
  whole length, though only the two that fit into `tcp_client_recvbuf` were copied.
  The third is lost, and foreign memory is searched in its place.
- `OthersSpareValues` (PROPERTY of `LcdBus.cfg`): a refresh comes between the high and
  the low byte of the menu's y and leaves its own high byte; the menu goes on with
  its low byte and draws the selection (380 = 0x17C) at y = 124, over the AVG
  value.  src/doc/Overview.md:47 says that conflicts are avoided.  The next refresh
  repairs the value.

### Fairness

`AdcSampling`: weak fairness of the ADC task (of priority Normal; the tasks above
it and its equals delay in every round), of the transfer (the timer triggers
periodically) and of the interrupt.  There is no fairness of the overrun.
`Calibration`: weak fairness of the ADC task, and strong fairness of finding a
ready block: by `EveryBlockDelivered` and `SamplingGoesOn` blocks become ready, and are
found so, again and again.  `GainChange`: weak fairness of the steps of the
acquisition and of the measurement, and of a `ConfigGain` that has begun.
`SampleRate`: of the ADC task and of the blocks the timer triggers.  `FreqMeter`: of
the timer and of the interrupt handler; the signal may stop.  `TcpServer`: weak
fairness of a callback and of a send that has begun, and strong fairness of
each connection's poll, since the coarse timer of lwIP calls it again and again
between other callbacks.  `FrameParser`: the call that searches goes on.  Nobody
has to press a key, connect or send.  `WaveAnalyze` and `LcdBus` have no fairness
and no liveness property.

### Deadlock

It is checked in every run but three.  `TcpServer` stops when a freed PCB was
closed (`tcp_server`, `tcp_bit`); in `frames` the host has sent what it had to
send, or the search has left the buffer.

## 4. Proofs

All theorems hold for every value of the constants under the assumptions named
in the modules.

`AdcSampling_proofs`.  The properties are not inductive: `BufferExclusive` needs to
know which buffer the task holds and that the stream's target is not ready,
`TimerServesDMA` that nothing completes before the timer is on, and the
refinement how old each waiting block is.  `IInv` is the conjunction of

- `CtrlInv`: types; what the task holds (`TaskInv`); flag, HAL state and remaining
  transfers of the stream (`DMAInv`); timer and channel (`TimerInv`);
- `DataInv`: a ready buffer holds one acquisition; the target holds the running
  one as far as it got; the measure has read nothing else;
- `AgeInv`: the ages (numbers since) of the waiting blocks and of the last
  delivered one take four patterns;
- `OvertakenInv`: a block that was overtaken is the one the task comes to next.

The lemmas follow that order (`CtrlStep`, `DataStep`, `OrderStep`), each with one
case per action; arithmetic modulo `IdCount` is confined to `AgeGrows`,
`AgeOfSucc` and `AgeType`.  `Invariance` gives the five safety theorems.
`Refinement` maps `sampling`, `seq`, the ready buffers sorted by age and
`delivered` to the abstract queue; `Arm` maps to `Begin`, `ConvCplt` to `Complete`,
`Release` to `DeliverOldest` or `Overtake`, and every other step to a stutter.

`Calibration_proofs`.  The two invariants of the mode are inductive together: the
UI never clears the flag, so what the ADC task saw stays true until it resets
the mode itself.  Types of the variables are not needed.  The types in turn need
`LabelInv`: between the acceptance of a request and its label the scan is at a
command that starts a calibration, and only such a command has a scale.  The
scan goes from a command to the one with the next number (`NextTo`), so there
is nothing recursive to reason about.  `RequestKept` is the safe part of
`EnterCalibrates`: while a request waits (`entered`), the flag and `manual_cali_flag`
are set, `global_cali_type` is the type it was made with, and the ADC task is in
neither window.  It is inductive together with the invariants of the mode and
the types: those keep `PressEnter` out of the step before the flag is cleared, and
the ADC task, which only enters `RequestCalibration` with the flag down, out of the
window while a request waits.

`GainChange_proofs`.  `ResultsOfGain` counts results since the last change and says
nothing of the blocks on their way.  `OldInv` does: the first result after a
change leaves at most one block in flight with samples of another gain, the
older of the two; the second leaves it only if its block overtook that one
(`delivered` names it); the third must then be that block.  It rests on `QueueInv`
(what the numbers of the waiting blocks say of their order), `MeasureInv` (one
block is measured, one the scan may take, and the ADC task changes no gain
meanwhile) and `ConfigInv` (a `ConfigGain` that is not cut takes the pins, then the
level, along).  For any gains and numbering, and every `Late` of 3 and more, the
assumption of `ResultsAreOfGain`; for `Late` = 2 TLC finds it violated.
`QueueIsImplemented`: no step of the composition is one the queue does not have, so
what is shown of results holds for the acquisition of `AdcSampling`, which
implements the same queue.  `MeasuredGoes`: the block that is handed over with a
result is the one it was computed from.

`FreqMeter_proofs`.  `MeasuresTrue` speaks of two edges; what makes it inductive is
what the handler has counted at every moment between them: `CountInv` (updates
seen, against `over`, before and after the update of the edge itself) and
`PendingInv` (what was counted when an edge is not served yet is the period it
ends).  For every counter range, limit and set of captured values.

`SampleRate_proofs`.  `TaskInv` says what the ADC task has seen of the mode and what
the registers are at each of its steps, unless `overtaken`; `ChosenInv` is
`AppliedRateKept`; `BlockInv` keeps `blocks` from falling below 0.  The bounds of the
divisions are lemmas.

`WaveAnalyze_proofs`.  One invariant per loop: `ExtremesOf(n)` and `EdgesBefore(n)` for
the samples seen so far, `CountInv` for the count of edges, `WindowInv` for the sums,
`FlagInv` for the flags.  The reference sums are recursive functions (`Total`);
what is proved of them needs no induction over data: a list of partial sums
(`Partial`) starts at 0 and adds one sample per index.  `SumsInv` says that there is
one up to the loop's index and that every such list ends with the sum computed
so far; a pass of the loop extends it (`AddsOne`), and the function that defines
`Total` is one (`AddsTotal`).  For every block
length and all samples.

`TcpServer` in `ServerAndLcd_proofs`.  `FrameWhole` rests on `RegInv`: the data bit is only ever taken
away by the thread that also loads and stores the other bits, so no stored
flag restores it or loses it; and on `AskedInv`: a sender that asked has the slot
to itself until the UI takes it.  `ServerPointer`: what `tcp_Echoserver_PCB` may name.
For any set of clients.

`FrameParser_proofs`.  `ServeInv`: the frames of a segment that fits (`Fits`) and are
still due lie whole at the front of the buffer, after the padding the last frame
left, no header is before them, and `start_point` is far enough behind.  For every
size of the two buffers, all types, values and foreign cells, any number of
frames.  `SearchInv`, for clean streams (`Clean`), cut between any halfwords: there
is a cell of the stream up to which it has been searched (`TakenBefore`: what was
taken are frames that end before it, each once and in order) and the front of
the buffer is the stream from there on (`Unsearched`), with no tail behind it that
a header could be counted back from.  `TakenInOrder` follows, and
`SearchStaysInside`: what is found then lies in the part that was received.
`PassesBounded`, for all streams, bounds the loop of a call by what each frame
takes off `start_point`.

`LcdBus` in `ServerAndLcd_proofs`.  `ScriptInv`: what the display task has left of a
refresh is the end of that refresh (`LeftOf`), so its length says which access is
next.  `RefreshInv` follows it from access to access: after each register is
written, that byte of the cursor is the refresh's, and nobody else runs, so it
needs to know nothing of what was cut.  For every width of the panel.

Only model-checked: all liveness (`EveryBlockDelivered`, `SamplingGoesOn`,
`CommandsServed`, `EndCaliEnds`, `EnterCalibrates`, `SilenceFound`, `AutoFollows`, `AutoSettles`,
`SlotServed`, `CallReturns`, `ResultsCome`), which is beyond TLAPS.  Every invariant,
every action property and the refinement the passing runs check are theorems.
`RequestKept`, `PassesBounded`, `MeasuredIsDelivered` and `ImplementsBlockQueue` of
`GainChange` have no run of their own; TLC found no violation of them on the
instances of `calibration`, `frames` and `gain_change`.  The
violated properties are TLC's counterexamples.  `Late` = 3 being the least bound,
and the windows the properties except being necessary, were found with TLC and
are not theorems.

## 5. Plan

What is left, in order:

1. A mailbox as the abstract specification of the send slot, which `TcpServer`
   implements for the frames that are sent after asking.
2. The safety parts of the remaining liveness properties as theorems, as
   `RequestKept` and `PassesBounded` are: that the slot's data bit is only lost to the
   store of a callback that was under way when a frame was put there.
3. The submenus on the LCD bus, and the selections of the menus with `KEY_Scan`.

## 6. Not modelled

- Float arithmetic: RMS and averages in volts, the values of the offsets, the
  DAC's sine.  TLC has no reals; the integer sums they are made of are modelled.
- The sliding filter and `FeedCalibration`: nothing in the program calls them.
- The frames of data points in `tansmitt.c`: not reachable on the target.
- Segments cut between the two bytes of a halfword: `memcpy` takes them, and the
  frames behind are then found at no index of halfwords.
- What `ParameterAna` stores outside `safe_buffer` when a frame made of foreign
  memory names a type that does not exist.
- The branches of the LCD driver for other controllers, which write both bytes of
  a coordinate to one register; a refresh can cut them as well.
- `tcp_write` without a copy: the pbuf is given back before lwIP has sent its data
  (myLWIPAPP.c 139), and what then lies there is not represented.
- Keys, labels and selections of the menus: local to one task, in reach of a
  test.  What a key does to shared state is in the module of that state.
- The fonts and the start of the LCD, the generated initialisation, the lwIP
  stack, FreeRTOS, CMSIS and the HAL beyond the routines named above: vendored
  or generated.  They are almost all of the repository's lines; the program's
  own code is some 3000 lines in `UserFiles` and `Core/Src/main.c`, besides the LCD
  driver.
- Calls of lwIP's raw functions from the UI task, which lwIP does not allow: what
  they do to lwIP's own lists is not represented, except for closing a PCB that
  was given back.

The flags are not `volatile`; the models take every access in the source as one
access to memory, which is what the compiler does with globals across the
calls that separate them.
