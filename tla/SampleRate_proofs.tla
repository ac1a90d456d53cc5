-------------------------- MODULE SampleRate_proofs --------------------------
(***************************************************************************)
(* The rate and the registers of TIM2, for any rates the menu offers and   *)
(* any periods the meter reports.                                          *)
(***************************************************************************)
EXTENDS SampleRate, TLAPS

\* What the menu's rates and the automatic mode's fixed one are divided into.
LEMMA ReloadType ==
  ASSUME NEW f \in 1 .. 105
  PROVE  Reload(f) \in 8 .. 999
<1> DEFINE q == 1000 \div f
<1>1. q \in Int /\ f * q <= 1000 /\ 1000 < f * q + f
  OBVIOUS
<1>2. q >= 9
  <2> SUFFICES ASSUME q <= 8 PROVE FALSE
    BY <1>1
  <2>1. f * q <= f * 8
    BY <1>1
  <2> QED
    BY <1>1, <2>1
<1>3. q <= 1000
  <2> SUFFICES ASSUME q > 1000 PROVE FALSE
    BY <1>1
  <2>1. f * q >= 1 * q
    BY <1>1
  <2> QED
    BY <1>1, <2>1
<1> QED
  BY <1>1, <1>2, <1>3 DEF Reload

\* The pulse is half of the period and never longer.
LEMMA CompareType ==
  ASSUME NEW m \in 8 .. 999
  PROVE  Compare(m) \in 3 .. 499 /\ Compare(m) <= m
BY DEF Compare

\* The rate and the divider for a period the automatic mode follows.
LEMMA PeriodType ==
  ASSUME NEW p \in Nat, InRange(p)
  PROVE  (p \div 200) - 1 \in 8 .. 999 /\ 200000 \div p \in 1 .. 105
<1>1. (p \div 200) - 1 \in 8 .. 999
  BY DEF InRange
<1> DEFINE q == 200000 \div p
<1>2. q \in Int /\ p * q <= 200000 /\ 200000 < p * q + p
  BY DEF InRange
<1>3. q >= 1
  <2> SUFFICES ASSUME q <= 0 PROVE FALSE
    BY <1>2
  <2>1. p * q <= p * 0
    BY <1>2
  <2> QED
    BY <1>2, <2>1 DEF InRange
<1>4. q <= 105
  <2> SUFFICES ASSUME q >= 106 PROVE FALSE
    BY <1>2
  <2>1. p * q >= p * 106
    BY <1>2
  <2> QED
    BY <1>2, <2>1 DEF InRange
<1> QED
  BY <1>1, <1>2, <1>3, <1>4

\* The task has set 100 kHz.
LEMMA InitIInv == Init => IInv
<1> SUFFICES ASSUME Init PROVE IInv
  OBVIOUS
<1>1. Reload(100) = 9 /\ Compare(9) = 4
  BY DEF Reload, Compare
<1>2. FlagTypes
  BY Zenon DEF Init, FlagTypes
<1>3. TypeOK
  BY <1>1, <1>2, RateAssumption DEF Init, TypeOK
<1>4. TaskInv /\ ChosenInv /\ BlockInv
  BY <1>1 DEF Init, TaskInv, ChosenInv, BlockInv
<1> QED
  BY <1>3, <1>4 DEF IInv

\* Neither the signal nor the acquisition touches the rate.
LEMMA SignalKeepsIInv == IInv /\ (Signal \/ Block) => IInv'
<1> SUFFICES ASSUME IInv, Signal \/ Block PROVE IInv'
  OBVIOUS
<1>1. UNCHANGED <<conf, auto, task, ghost>>
  BY DEF Signal, Lost, Measured, Block
<1>2. FlagTypes'
  BY Zenon DEF Signal, Lost, Measured, Block, meter, ghost, FlagTypes, IInv, TypeOK
<1>3. period' \in 0 .. MaxWord
  BY RateAssumption DEF Signal, Lost, Measured, Block, meter, IInv, TypeOK
<1>4. blocks' \in 0 .. 2 /\ blocks' >= blocks
  BY DEF Signal, Lost, Measured, Block, IInv, TypeOK
<1>5. TypeOK'
  BY <1>1, <1>2, <1>3, <1>4 DEF IInv, TypeOK, conf, auto, task, ghost
<1>6. BlockInv'
  BY <1>1, <1>4 DEF IInv, TypeOK, BlockInv, task
<1>7. TaskInv' /\ ChosenInv'
  BY <1>1 DEF IInv, TaskInv, ChosenInv, conf, auto, task, ghost
<1> QED
  BY <1>5, <1>6, <1>7 DEF IInv

\* ENTER sets everything, and the task may be about to set it again.
LEMMA ApplyKeepsIInv == ASSUME IInv, NEW f \in Rates, Apply(f) PROVE IInv'
<1>1. f \in 1 .. 105
  BY RateAssumption
<1>2. Reload(f) \in 8 .. 999 /\ Compare(Reload(f)) \in 3 .. 499
  BY <1>1, ReloadType, CompareType
<1>3. FlagTypes'
  BY Zenon DEF Apply, meter, FlagTypes, IInv, TypeOK
<1>4. freq_Autoflag' \in {0, 1}
  BY DEF Apply
<1>5. TypeOK'
  BY <1>1, <1>2, <1>3, <1>4 DEF IInv, TypeOK, Apply, meter, auto, task
<1>6. TaskInv' /\ ChosenInv' /\ BlockInv'
  BY DEF IInv, TaskInv, ChosenInv, BlockInv, Apply, task
<1> QED
  BY <1>5, <1>6 DEF IInv

\* The task tests and compares before it changes the rate.
LEMMA TestKeepsIInv ==
  IInv /\ (TestAuto \/ ComparePeriod \/ NoSignal \/ Keep \/ TakePeriod) => IInv'
<1> SUFFICES ASSUME IInv, TestAuto \/ ComparePeriod \/ NoSignal \/ Keep \/ TakePeriod
             PROVE  IInv'
  OBVIOUS
<1>1. UNCHANGED <<conf, meter, ghost>> /\ pc # "ccr" /\ pc' # "ccr"
  BY DEF TestAuto, ComparePeriod, NoSignal, Keep, TakePeriod
<1>2. pc' # "idle" => freq_Autoflag = 1 \/ pc # "idle"
  BY DEF TestAuto, ComparePeriod, NoSignal, Keep, TakePeriod
<1>3. TaskInv' /\ ChosenInv'
  BY <1>1, <1>2 DEF IInv, TaskInv, ChosenInv, conf, ghost
<1>4. blocks' \in 0 .. 2 /\ BlockInv'
  BY DEF TestAuto, ComparePeriod, NoSignal, Keep, TakePeriod, IInv, TypeOK, BlockInv
<1>5. kHz' \in 1 .. 105 /\ n' \in 8 .. 999
  <2>0. Reload(10) = 99
    BY DEF Reload
  <2>1. CASE TakePeriod
    <3>1. CASE InRange(period)
      <4>1. period \in Nat
        BY DEF IInv, TypeOK
      <4> QED
        BY <2>1, <3>1, <4>1, PeriodType DEF TakePeriod
    <3>2. CASE ~InRange(period)
      BY <2>0, <2>1, <3>2 DEF TakePeriod
    <3> QED
      BY <3>1, <3>2
  <2>2. CASE NoSignal
    BY <2>0, <2>2 DEF NoSignal
  <2>3. CASE TestAuto \/ ComparePeriod \/ Keep
    BY <2>3 DEF TestAuto, ComparePeriod, Keep, IInv, TypeOK
  <2> QED
    BY <2>1, <2>2, <2>3
<1>6. /\ wave_Period_Last' \in 0 .. MaxWord /\ lostfreqflag' \in {0, 1}
      /\ pc' \in {"idle", "compare", "take", "rate", "arr", "ccr"}
  BY DEF TestAuto, ComparePeriod, NoSignal, Keep, TakePeriod, auto, IInv, TypeOK
<1>7. FlagTypes'
  BY <1>1, Zenon DEF meter, ghost, FlagTypes, IInv, TypeOK
<1>8. TypeOK'
  BY <1>1, <1>4, <1>5, <1>6, <1>7 DEF IInv, TypeOK, conf, meter, ghost
<1> QED
  BY <1>3, <1>4, <1>8 DEF IInv

\* The rate and the two registers are written one after the other.
LEMMA ConfigKeepsIInv == IInv /\ (ConfigRate \/ ConfigReload \/ ConfigCompare) => IInv'
<1> SUFFICES ASSUME IInv, ConfigRate \/ ConfigReload \/ ConfigCompare PROVE IInv'
  OBVIOUS
<1>1. UNCHANGED <<freq_Autoflag, meter, auto, kHz, n, ghost>>
  BY DEF ConfigRate, ConfigReload, ConfigCompare
<1>2. Compare(n) \in 3 .. 499
  BY CompareType DEF IInv, TypeOK
<1>3. sampling_freq_kHz' \in 1 .. 105 /\ arr' \in 8 .. 999 /\ ccr' \in 3 .. 499
  BY <1>2 DEF ConfigRate, ConfigReload, ConfigCompare, IInv, TypeOK
<1>4. blocks' \in 0 .. 2 /\ BlockInv'
  BY DEF ConfigRate, ConfigReload, ConfigCompare, IInv, TypeOK, BlockInv
<1>5. pc # "idle" /\ pc' \in {"idle", "arr", "ccr"}
  BY DEF ConfigRate, ConfigReload, ConfigCompare
<1>6. FlagTypes'
  BY <1>1, Zenon DEF meter, ghost, FlagTypes, IInv, TypeOK
<1>7. TypeOK'
  BY <1>1, <1>3, <1>4, <1>5, <1>6 DEF IInv, TypeOK, meter, auto, ghost
<1>8. TaskInv'
  BY DEF IInv, TaskInv, ConfigRate, ConfigReload, ConfigCompare, ghost
<1>9. ChosenInv'
  BY <1>1, <1>5 DEF IInv, TaskInv, ChosenInv, ghost
<1> QED
  BY <1>4, <1>7, <1>8, <1>9 DEF IInv
-----------------------------------------------------------------------------
\* Every step keeps the inductive invariant: whoever is changing the rate has
\* found the automatic mode on, unless ENTER came in between.
THEOREM RateInvariant == Spec => []IInv
<1>1. IInv /\ [Next]_vars => IInv'
  <2> SUFFICES ASSUME IInv, [Next]_vars PROVE IInv'
    OBVIOUS
  <2>1. CASE AdcTask
    BY <2>1, TestKeepsIInv, ConfigKeepsIInv DEF AdcTask
  <2>2. CASE Block \/ Signal
    BY <2>2, SignalKeepsIInv
  <2>3. CASE UITask
    BY <2>3, ApplyKeepsIInv DEF UITask
  <2>4. CASE UNCHANGED vars
    <3>1. FlagTypes'
      BY <2>4, Zenon DEF vars, meter, ghost, FlagTypes, IInv, TypeOK
    <3>2. TypeOK'
      BY <2>4, <3>1 DEF vars, conf, meter, auto, task, ghost, IInv, TypeOK
    <3>3. TaskInv' /\ ChosenInv' /\ BlockInv'
      BY <2>4 DEF vars, conf, task, ghost, IInv, TaskInv, ChosenInv, BlockInv
    <3> QED
      BY <3>2, <3>3 DEF IInv
  <2> QED
    BY <2>1, <2>2, <2>3, <2>4 DEF Next
<1> QED
  BY InitIInv, <1>1, PTL DEF Spec

\* The variables keep their types: no rate divides by 0, and no register of the
\* timer is given a value that wraps.
THEOREM RateTypes == Spec => []TypeOK
<1>1. IInv => TypeOK
  BY DEF IInv
<1> QED
  BY <1>1, RateInvariant, PTL

\* A rate that was applied between two blocks is kept while the automatic mode
\* is off.
THEOREM AppliedRateIsKept == Spec => []AppliedRateKept
<1>1. IInv => AppliedRateKept
  BY DEF IInv, ChosenInv, AppliedRateKept
<1> QED
  BY <1>1, RateInvariant, PTL

\* The compare value belongs to the reload value and the timer triggers, unless
\* ENTER was pressed while the task was changing them.
THEOREM RegistersDoAgree == Spec => []RegistersAgree
<1>1. IInv => RegistersAgree
  BY CompareType DEF IInv, TypeOK, TaskInv, RegistersAgree
<1> QED
  BY <1>1, RateInvariant, PTL
=============================================================================
