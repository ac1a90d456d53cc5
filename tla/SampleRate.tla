------------------------------ MODULE SampleRate ------------------------------
(***************************************************************************)
(* The sampling rate: TIM2 counts microseconds from 0 to ARR, and its      *)
(* compare event at CCR2 triggers one conversion.  The UI's HORIZONTAL     *)
(* menu sets a rate or turns the automatic mode on, and in this mode the   *)
(* ADC task adapts the rate to the period of the signal before it measures *)
(* a block (usertask.c).                                                   *)
(*                                                                         *)
(* The UI task has the higher priority and runs between any two statements *)
(* of the ADC task; the meter's interrupt too.  The acquisition is what    *)
(* AdcSampling shows of it: blocks of samples come while the timer         *)
(* triggers, two at most wait, and the ADC task takes them.                *)
(***************************************************************************)
EXTENDS Integers

CONSTANTS Rates,    \* kHz, what the menu applies: 101 is the automatic mode, and more
                    \* than that is what this mode had set when the menu was entered
          Periods,  \* values of GlobalWave.period, in ticks of 8 MHz
          MaxWord   \* the largest number of 32 bits, reported after a silence

ASSUME RateAssumption ==
  /\ Rates \subseteq 1 .. 105
  /\ MaxWord \in Nat /\ MaxWord > 65600
  /\ Periods \subseteq 0 .. MaxWord

VARIABLES
  freq_Autoflag,
  sampling_freq_kHz,
  arr, ccr,          \* registers of TIM2
  period,            \* GlobalWave.period
  lostSignal,        \* GlobalWave.freq < 0
  wave_Period_Last, lostfreqflag,
  blocks,            \* full buffers that wait for the ADC task
  pc, kHz, n,        \* of the ADC task, with its arguments and locals
  chosen,            \* the rate that was applied last in the menu
  overtaken          \* it was applied while the ADC task was changing the rate

conf  == <<freq_Autoflag, sampling_freq_kHz, arr, ccr>>
meter == <<period, lostSignal>>
auto  == <<wave_Period_Last, lostfreqflag>>
task  == <<pc, kHz, n>>
ghost == <<chosen, overtaken>>
vars  == <<conf, meter, auto, blocks, task, ghost>>

Reload(f)  == (1000 \div f) - 1
Compare(m) == (m - 1) \div 2

\* The ADC task has called ConfigFreqDiv(f100kSaps).
Init ==
  /\ freq_Autoflag = 0 /\ sampling_freq_kHz = 100
  /\ arr = Reload(100) /\ ccr = Compare(Reload(100))
  /\ period = 0 /\ lostSignal = FALSE
  /\ wave_Period_Last = 0 /\ lostfreqflag = 0
  /\ blocks = 0
  /\ pc = "idle" /\ kHz = 100 /\ n = Reload(100)
  /\ chosen = 100 /\ overtaken = FALSE

-----------------------------------------------------------------------------
(* The signal and the acquisition.                                         *)

Measured(p) ==
  /\ period' = p /\ lostSignal' = FALSE
  /\ UNCHANGED <<conf, auto, blocks, task, ghost>>

Lost ==
  /\ lostSignal' = TRUE
  /\ UNCHANGED <<conf, period, auto, blocks, task, ghost>>

\* A buffer is full.  The timer never reaches a compare value above ARR.
Block ==
  /\ ccr <= arr
  /\ blocks < 2
  /\ blocks' = blocks + 1
  /\ UNCHANGED <<conf, meter, auto, task, ghost>>

-----------------------------------------------------------------------------
(* The UI task: ENTER in LcdHorizontal.                                    *)

Apply(f) ==
  /\ freq_Autoflag' = IF f = 101 THEN 1 ELSE 0
  /\ sampling_freq_kHz' = f
  /\ arr' = Reload(f) /\ ccr' = Compare(Reload(f))
  /\ chosen' = f
  /\ overtaken' = (pc # "idle")
  /\ UNCHANGED <<meter, auto, blocks, task>>

-----------------------------------------------------------------------------
(* The ADC task, once for each block.                                      *)

\* Bug: the automatic mode is not asked for.
TestAuto_Always ==
  /\ pc = "idle" /\ blocks > 0
  /\ pc' = "compare"
  /\ UNCHANGED <<conf, meter, auto, blocks, kHz, n, ghost>>

TestAuto ==
  /\ pc = "idle" /\ blocks > 0
  /\ IF freq_Autoflag = 1
     THEN pc' = "compare" /\ UNCHANGED <<lostfreqflag, blocks>>
     ELSE lostfreqflag' = 0 /\ blocks' = blocks - 1 /\ UNCHANGED pc
  /\ UNCHANGED <<conf, meter, wave_Period_Last, kHz, n, ghost>>

\* The sums are of 32 bits.
Plus100(p) == (p + 100) % (MaxWord + 1)

\* Bug: a period that has become longer is not seen.
Changed_Shorter == wave_Period_Last > Plus100(period)

Changed == wave_Period_Last > Plus100(period) \/ Plus100(wave_Period_Last) < period

ComparePeriod ==
  /\ pc = "compare" /\ Changed
  /\ pc' = "take"
  /\ UNCHANGED <<conf, meter, auto, blocks, kHz, n, ghost>>

\* A signal was lost: 10 kHz, once.
NoSignal ==
  /\ pc = "compare" /\ ~Changed /\ lostSignal /\ lostfreqflag = 0
  /\ lostfreqflag' = 1
  /\ pc' = "rate" /\ kHz' = 10 /\ n' = Reload(10)
  /\ UNCHANGED <<conf, meter, wave_Period_Last, blocks, ghost>>

\* The rate is kept.
Keep ==
  /\ pc = "compare" /\ ~Changed /\ ~(lostSignal /\ lostfreqflag = 0)
  /\ pc' = "idle"
  /\ blocks' = blocks - 1
  /\ UNCHANGED <<conf, meter, auto, kHz, n, ghost>>

\* Bug: any short period gets a rate of its own.
InRange_Short(p) == p < 65500

InRange(p) == p > 1900 /\ p < 65500

\* Bug: the period is not kept.
TakePeriod_Forgets ==
  /\ pc = "take"
  /\ lostfreqflag' = 0
  /\ pc' = "rate"
  /\ IF InRange(period)
     THEN kHz' = 200000 \div period /\ n' = (period \div 200) - 1
     ELSE kHz' = 10 /\ n' = Reload(10)
  /\ UNCHANGED <<conf, meter, wave_Period_Last, blocks, ghost>>

\* The new period is read again, and kept; ConfigFreqDivAuto or
\* ConfigFreqDiv(f10kSaps) is called ...
TakePeriod ==
  /\ pc = "take"
  /\ lostfreqflag' = 0
  /\ wave_Period_Last' = period
  /\ pc' = "rate"
  /\ IF InRange(period)
     THEN kHz' = 200000 \div period /\ n' = (period \div 200) - 1
     ELSE kHz' = 10 /\ n' = Reload(10)
  /\ UNCHANGED <<conf, meter, blocks, ghost>>

\* ... and writes the rate and one register after the other.
ConfigRate ==
  /\ pc = "rate"
  /\ sampling_freq_kHz' = kHz
  /\ pc' = "arr"
  /\ UNCHANGED <<freq_Autoflag, arr, ccr, meter, auto, blocks, kHz, n, ghost>>

ConfigReload ==
  /\ pc = "arr"
  /\ arr' = n
  /\ pc' = "ccr"
  /\ UNCHANGED <<freq_Autoflag, sampling_freq_kHz, ccr, meter, auto, blocks, kHz, n, ghost>>

\* Bug: the compare value stays.
ConfigCompare_Keeps ==
  /\ pc = "ccr"
  /\ pc' = "idle"
  /\ blocks' = blocks - 1
  /\ UNCHANGED <<conf, meter, auto, kHz, n, ghost>>

ConfigCompare ==
  /\ pc = "ccr"
  /\ ccr' = Compare(n)
  /\ pc' = "idle"
  /\ blocks' = blocks - 1
  /\ UNCHANGED <<freq_Autoflag, sampling_freq_kHz, arr, meter, auto, kHz, n, ghost>>

-----------------------------------------------------------------------------
AdcTask ==
  \/ TestAuto \/ ComparePeriod \/ NoSignal \/ Keep \/ TakePeriod
  \/ ConfigRate \/ ConfigReload \/ ConfigCompare

UITask == \E f \in Rates : Apply(f)

Signal == Lost \/ \E p \in Periods : Measured(p)

Next == AdcTask \/ Block \/ UITask \/ Signal

\* The ADC task runs, and the timer.
Spec == Init /\ [][Next]_vars /\ WF_vars(AdcTask) /\ WF_vars(Block)

-----------------------------------------------------------------------------
\* Types of the flags.
FlagTypes == lostSignal \in BOOLEAN /\ overtaken \in BOOLEAN

\* Types of the variables: no divider is 0 and no register wraps.
TypeOK ==
  /\ FlagTypes
  /\ freq_Autoflag \in {0, 1}
  /\ sampling_freq_kHz \in 1 .. 105
  /\ arr \in 8 .. 999
  /\ ccr \in 3 .. 499
  /\ period \in 0 .. MaxWord
  /\ wave_Period_Last \in 0 .. MaxWord
  /\ lostfreqflag \in {0, 1}
  /\ blocks \in 0 .. 2
  /\ pc \in {"idle", "compare", "take", "rate", "arr", "ccr"}
  /\ kHz \in 1 .. 105
  /\ n \in 8 .. 999
  /\ chosen \in 1 .. 105

\* The rate a user has applied is the rate that is used, until the next one is
\* applied, unless the ADC task was between its test of freq_Autoflag and its
\* last write: blocks that come later leave it alone.
AppliedRateKept ==
  freq_Autoflag = 0 /\ ~overtaken =>
    /\ sampling_freq_kHz = chosen
    /\ arr = Reload(chosen) /\ ccr = Compare(Reload(chosen))

\* Between two changes the registers belong together, and the timer triggers,
\* unless an ENTER of the user fell into the middle of the first.
RegistersAgree ==
  ~overtaken /\ pc # "ccr" => ccr = Compare(arr) /\ ccr <= arr

\* The reload value is the one for period p; p is far from the one kept last.
Fits(p) == arr = IF InRange(p) THEN (p \div 200) - 1 ELSE Reload(10)
Far(p)  == wave_Period_Last > p + 100 \/ wave_Period_Last + 100 < p

\* The automatic rate follows: a period that has changed by more than 100 is
\* answered with the rate for it, unless it changes again, the user turns to
\* the menu, or the trigger has stopped.
AutoFollows ==
  \A p \in Periods :
    (freq_Autoflag = 1 /\ period = p /\ Far(p)) ~>
      Fits(p) \/ period # p \/ freq_Autoflag = 0 \/ overtaken \/ ccr > arr

\* A period that stays is answered once: the sliding window is not emptied for
\* every block.  The period reported after a silence is the exception: 100 more
\* than it is a small number again.
AutoSettles ==
  \A p \in Periods :
    <>[](period = p /\ p + 100 <= MaxWord) => <>[](pc # "take")

-----------------------------------------------------------------------------
(* The inductive invariant behind AppliedRateKept and RegistersAgree.      *)

\* The task that goes on changing the rate has seen the automatic mode, and
\* it is still on unless the menu was used.
TaskInv ==
  ~overtaken =>
    /\ pc # "idle" => freq_Autoflag = 1
    /\ pc # "ccr" => ccr = Compare(arr)
    /\ pc = "ccr" => arr = n

ChosenInv ==
  freq_Autoflag = 0 /\ ~overtaken =>
    /\ sampling_freq_kHz = chosen
    /\ arr = Reload(chosen) /\ ccr = Compare(Reload(chosen))

\* The block that is handled is not released yet.
BlockInv == pc # "idle" => blocks > 0

IInv == TypeOK /\ TaskInv /\ ChosenInv /\ BlockInv

-----------------------------------------------------------------------------
(* What the overview says and the code refutes.                            *)

\* "adapts the rate of the next sampling to the data and starts the sampling
\* again": blocks go on coming.
SamplingRestarts == []<>(blocks > 0)
=============================================================================
