------------------------------ MODULE GainChange ------------------------------
(***************************************************************************)
(* Blocks of samples and changes of the gain.  The acquisition is what     *)
(* BlockQueue promises of it; the hardware converts each sample with the   *)
(* gain that the two pins select at that moment; the measurement           *)
(* (adc_control.c) reads GlobalConf.gain_level several times, and knows    *)
(* nothing of the gain the block was captured with.                        *)
(*                                                                         *)
(* ConfigGain is called by the UI task (gui.c), and by the ADC task when   *)
(* it accepts a command of the host between two blocks.  The UI task has   *)
(* the higher priority: it interrupts the ADC task between any two steps,  *)
(* and the ADC task takes none before it is through.  Samples are taken    *)
(* all the while.                                                          *)
(***************************************************************************)
EXTENDS Naturals, Sequences

CONSTANTS Gains,    \* the gains in use, of {"10x", "1x", "2x", "5x"}
          IdCount,  \* of BlockQueue
          Late      \* results after a change that need not be of the new gain

ASSUME GainAssumption ==
  /\ Gains \subseteq {"10x", "1x", "2x", "5x"} /\ "10x" \in Gains
  /\ IdCount \in Nat /\ IdCount >= 5
  /\ Late \in Nat

VARIABLES
  capturing, next, queue, delivered,  \* of BlockQueue
  shot,       \* the pins the samples of each block were converted with, AllPins
              \* when they were not the same for all of them
  pins, gain_level,
  cfg,        \* per task: its next step in ConfigGain
  gain,       \* per task: selection_number
  measured,   \* {} or {the block the ADC task measures}
  read,       \* the values of gain_level its result was computed with so far
  since,      \* results since the last change of the gain, up to Late
  torn        \* the two tasks have changed the gain at the same time

acquisition == <<capturing, next, queue, delivered, shot>>
config      == <<pins, gain_level, cfg, gain, torn>>
measurement == <<measured, read>>
vars        == <<acquisition, config, measurement, since>>

Q == INSTANCE BlockQueue WITH Capacity <- 2

AllPins == {<<a, b>> : a, b \in {0, 1}}

Pins(g) == CASE g = "10x" -> <<0, 0>> [] g = "1x" -> <<1, 0>>
             [] g = "2x" -> <<1, 1>> [] g = "5x" -> <<0, 1>>

Tasks == {"ADC", "UI"}

\* The ADC task has called ConfigGain(Gain_10x).
Init ==
  /\ Q!Init
  /\ shot = [b \in Q!Ids |-> {}]
  /\ pins = Pins("10x") /\ gain_level = "10x"
  /\ cfg = [t \in Tasks |-> "idle"] /\ gain = [t \in Tasks |-> "10x"]
  /\ measured = {} /\ read = {}
  /\ since = 0 /\ torn = FALSE

-----------------------------------------------------------------------------
(* The acquisition.                                                        *)

Begin ==
  /\ Q!Begin
  /\ UNCHANGED <<shot, config, measurement, since>>

Sample ==
  /\ capturing
  /\ shot' = [shot EXCEPT ![next] = IF @ \subseteq {pins} THEN {pins} ELSE AllPins]
  /\ UNCHANGED <<capturing, next, queue, delivered, config, measurement, since>>

Complete ==
  /\ Q!Complete
  /\ shot[next] # {}
  /\ UNCHANGED <<shot, config, measurement, since>>

-----------------------------------------------------------------------------
(* ConfigGain: two pins and then the level.                                *)

\* What a task does next; the UI task keeps the ADC task from running.
Runs(t) == t = "ADC" => cfg["UI"] = "idle"

CallConfigGain(t, g) ==
  /\ cfg[t] = "idle" /\ Runs(t)
  /\ t = "ADC" => measured = {}
  /\ cfg' = [cfg EXCEPT ![t] = "pinA"] /\ gain' = [gain EXCEPT ![t] = g]
  /\ torn' = (t = "UI" /\ cfg["ADC"] # "idle")
  /\ UNCHANGED <<pins, gain_level, acquisition, measurement, since>>

WritePinA(t) ==
  /\ cfg[t] = "pinA" /\ Runs(t)
  /\ pins' = [pins EXCEPT ![1] = Pins(gain[t])[1]]
  /\ cfg' = [cfg EXCEPT ![t] = "pinB"]
  /\ UNCHANGED <<gain_level, gain, torn, acquisition, measurement, since>>

\* Bug: the second pin is only ever set.
WritePinB_Sets(t) ==
  /\ cfg[t] = "pinB" /\ Runs(t)
  /\ pins' = IF Pins(gain[t])[2] = 1 THEN [pins EXCEPT ![2] = 1] ELSE pins
  /\ cfg' = [cfg EXCEPT ![t] = "level"]
  /\ UNCHANGED <<gain_level, gain, torn, acquisition, measurement, since>>

WritePinB(t) ==
  /\ cfg[t] = "pinB" /\ Runs(t)
  /\ pins' = [pins EXCEPT ![2] = Pins(gain[t])[2]]
  /\ cfg' = [cfg EXCEPT ![t] = "level"]
  /\ UNCHANGED <<gain_level, gain, torn, acquisition, measurement, since>>

\* Bug: the number of the menu line is taken for the gain, and the last one
\* is none.
SetLevel_Line(t) ==
  /\ cfg[t] = "level" /\ Runs(t)
  /\ gain_level' = IF gain[t] = "2x" THEN "END_OF_GAIN_LEVEL" ELSE gain[t]
  /\ gain' = [gain EXCEPT ![t] = "10x"]
  /\ cfg' = [cfg EXCEPT ![t] = "idle"]
  /\ since' = 0
  /\ UNCHANGED <<pins, torn, acquisition, measurement>>

SetLevel(t) ==
  /\ cfg[t] = "level" /\ Runs(t)
  /\ gain_level' = gain[t] /\ gain' = [gain EXCEPT ![t] = "10x"]
  /\ cfg' = [cfg EXCEPT ![t] = "idle"]
  /\ since' = 0
  /\ UNCHANGED <<pins, torn, acquisition, measurement>>

ConfigGain(t) == WritePinA(t) \/ WritePinB(t) \/ SetLevel(t)

-----------------------------------------------------------------------------
(* The ADC task.                                                           *)

\* Bug: the scan ends with the block it comes to first.
Waiting_First(b) ==
  /\ Len(queue) = 2 /\ delivered # {Q!Succ(queue[1])} /\ b = queue[2]

\* The oldest block, or the other one if both buffers are full and the oldest
\* has not just been overtaken: the two ready flags are looked at in turn.
Waiting(b) ==
  \/ queue # <<>> /\ b = Head(queue)
  \/ Len(queue) = 2 /\ delivered # {Q!Succ(queue[1])} /\ b = queue[2]

TakeBlock(b) ==
  /\ cfg["ADC"] = "idle" /\ Runs("ADC")
  /\ measured = {} /\ Waiting(b)
  /\ measured' = {b} /\ read' = {}
  /\ UNCHANGED <<acquisition, config, since>>

\* Each use of conf->gain_level in RmS_RawWaveform, the average and the
\* extremes is a read of its own.
ReadLevel ==
  /\ measured # {} /\ Runs("ADC")
  /\ read' = read \cup {gain_level}
  /\ UNCHANGED <<acquisition, config, measured, since>>

Finish(b) ==
  /\ measured = {b} /\ Runs("ADC") /\ read # {}
  /\ IF b = Head(queue) THEN Q!DeliverOldest ELSE Q!Overtake
  /\ shot' = [shot EXCEPT ![b] = {}]
  /\ since' = IF since < Late THEN since + 1 ELSE since
  /\ measured' = {} /\ read' = {}
  /\ UNCHANGED config

Acquire == Begin \/ Sample \/ Complete
Measure == ReadLevel \/ \E b \in Q!Ids : TakeBlock(b) \/ Finish(b)
Change  == \E t \in Tasks : ConfigGain(t)

Next ==
  \/ Acquire \/ Measure \/ Change
  \/ \E t \in Tasks, g \in Gains : CallConfigGain(t, g)

Fairness ==
  /\ WF_vars(Begin) /\ WF_vars(Sample) /\ WF_vars(Complete)
  /\ WF_vars(ReadLevel) /\ WF_vars(\E b \in Q!Ids : TakeBlock(b))
  /\ WF_vars(\E b \in Q!Ids : Finish(b))
  /\ WF_vars(Change)

Spec == Init /\ [][Next]_vars /\ Fairness

-----------------------------------------------------------------------------

\* Types of the variables; at most two blocks wait, and gain_level is a gain.
TypeOK ==
  /\ capturing \in BOOLEAN /\ next \in Q!Ids
  /\ queue \in Seq(Q!Ids) /\ Len(queue) <= 2 /\ delivered \subseteq Q!Ids
  /\ shot \in [Q!Ids -> SUBSET AllPins]
  /\ pins \in AllPins /\ gain_level \in Gains
  /\ cfg \in [Tasks -> {"idle", "pinA", "pinB", "level"}] /\ gain \in [Tasks -> Gains]
  /\ measured \subseteq Q!Ids /\ read \subseteq Gains
  /\ since \in 0 .. Late /\ torn \in BOOLEAN

Steady == \A t \in Tasks : cfg[t] = "idle"

\* After a change of the gain at most Late results are of another gain than
\* the one that is set: a block that waits, or that is being captured, was or
\* is converted with the old gain or with both, and a measurement may have
\* read both levels (usertask.c:228, adc_control.c:308-310).
ResultsOfGain ==
  \A b \in measured :
    Steady /\ ~torn /\ since >= Late =>
      shot[b] = {Pins(gain_level)} /\ read \subseteq {gain_level}

\* The blocks come and go as BlockQueue promises, whatever the two tasks do to
\* the gain meanwhile, ...
ImplementsBlockQueue == Q!Spec

\* ... and what is handed over then is the block that was measured: it cannot
\* lose its place in the queue to the blocks completed since it was taken
\* (usertask.c:228).
MeasuredIsDelivered == [][\A b \in measured : measured' = {} => delivered' = {b}]_vars

\* Such results come, unless the gain is changed again.
ResultsCome == []<>(since >= Late \/ ~Steady)

-----------------------------------------------------------------------------
(* The inductive invariant behind ResultsOfGain, for Late >= 3.            *)

\* Waiting and captured blocks have two buffers between them, and the numbers
\* say which of them were overtaken.
QueueInv ==
  /\ Len(queue) + (IF capturing THEN 1 ELSE 0) <= 2
  /\ Len(queue) = 1 =>
       \/ next = Q!Succ(queue[1])
       \/ next = Q!Succ(Q!Succ(queue[1])) /\ delivered = {Q!Succ(queue[1])}
  /\ Len(queue) = 2 =>
       /\ next = Q!Succ(queue[2])
       /\ \/ queue[2] = Q!Succ(queue[1])
          \/ queue[2] = Q!Succ(Q!Succ(queue[1])) /\ delivered = {Q!Succ(queue[1])}

Queued   == {queue[k] : k \in 1 .. Len(queue)}
InFlight == Queued \cup (IF capturing THEN {next} ELSE {})

\* What is measured is a block the scan may take, and the ADC task does not
\* change the gain meanwhile.
MeasureInv ==
  /\ \A b \in measured : Waiting(b) /\ measured = {b}
  /\ cfg["ADC"] # "idle" => measured = {}
  /\ measured = {} => read = {}
  /\ \A b \in Queued : shot[b] # {}
  /\ \A b \in Q!Ids \ InFlight : shot[b] = {}

\* One change at a time takes the pins and then the level along.
ConfigInv ==
  /\ \A t \in Tasks : cfg[t] = "idle" => gain[t] = "10x"
  /\ ~torn =>
       /\ cfg["ADC"] = "idle" \/ cfg["UI"] = "idle"
       /\ Steady => pins = Pins(gain_level)
       /\ \A t \in Tasks :
            /\ cfg[t] = "pinB" => pins[1] = Pins(gain[t])[1]
            /\ cfg[t] = "level" => pins = Pins(gain[t])

\* A block with samples of another gain than the one that is set.
Old(b) == ~(shot[b] \subseteq {Pins(gain_level)})

\* The first result after a change leaves one such block, the older of the two
\* in flight; the second leaves it only by overtaking it, and the third is it.
OldInv ==
  Steady /\ ~torn =>
    /\ since >= 1 => read \subseteq {gain_level}
    /\ \A b \in InFlight : Old(b) =>
         /\ since >= 1 => b \notin {queue[k] : k \in 2 .. Len(queue)}
                          /\ (b \in Queued \/ queue = <<>>)
         /\ since >= 2 => b \in Queued /\ delivered = {Q!Succ(b)}
         /\ since < 3

IInv == TypeOK /\ QueueInv /\ MeasureInv /\ ConfigInv /\ OldInv
===============================================================================
