------------------------------ MODULE FreqMeter ------------------------------
(***************************************************************************)
(* The frequency meter: TIM9 counts at 8 MHz up to Top, and an edge of     *)
(* the signal captures the counter into CCR2 and resets it, which raises   *)
(* the update flag as an overflow does.  HAL_TIM_IRQHandler serves the     *)
(* capture first and the update after it (main.c: the two callbacks).      *)
(*                                                                         *)
(* A number of 32 bits is kept as its two halves.  The timer runs on while *)
(* the interrupt waits and while its handler runs.                         *)
(***************************************************************************)
EXTENDS Integers

CONSTANTS Top,     \* the largest value of the counter (65535)
          Limit,   \* overflows that mean that there is no signal (64)
          Counts,  \* values of the counter an edge may capture
          MaxOver  \* overflows the model tells apart: bound of the model

ASSUME MeterAssumption ==
  /\ Top \in Nat
  /\ Limit \in 1 .. Top
  /\ Counts \subseteq 0 .. Top
  /\ MaxOver \in Nat /\ MaxOver > Limit

VARIABLES
  over,     \* overflows since the last edge, MaxOver when there were more
  atTop,      \* the counter is at Top
  truth,    \* the time between the last two edges
  settled,  \* edges since two events last fell into one service, up to 2
  cc1, cc2, uif,  \* flags of the timer: compare 1, capture 2, update
  ccr,      \* CCR2
  pc,       \* of the interrupt handler
  longTimeNum, overTime,
  period,   \* GlobalWave.period
  freq      \* GlobalWave.freq: "lost" (-1), "zero" or "known" (8 MHz / period)

signal  == <<over, atTop, truth, settled>>
flags   == <<cc1, cc2, uif, ccr>>
results == <<longTimeNum, overTime, period, freq>>
vars    == <<signal, flags, pc, results>>

Never == [hi |-> Top, lo |-> Top]

\* The timer was initialised with an update event and never cleared its flag.
Init ==
  /\ over = 0 /\ atTop = FALSE /\ truth = [hi |-> 0, lo |-> 0] /\ settled = 0
  /\ cc1 = FALSE /\ cc2 = FALSE /\ uif = TRUE /\ ccr = 0
  /\ pc = "idle"
  /\ longTimeNum = 0 /\ overTime = FALSE
  /\ period = [hi |-> 0, lo |-> 0] /\ freq = "zero"

-----------------------------------------------------------------------------
(* The timer.                                                              *)

\* CCR1 is Top, and the compare interrupt is enabled: the handler is entered
\* just before an overflow, and has nothing to do.
Compare ==
  /\ ~atTop
  /\ atTop' = TRUE /\ cc1' = TRUE
  /\ UNCHANGED <<over, truth, settled, cc2, uif, ccr, pc, results>>

Overflow ==
  /\ atTop
  /\ atTop' = FALSE
  /\ over' = IF over < MaxOver THEN over + 1 ELSE over
  /\ uif' = TRUE
  /\ settled' = IF uif THEN 0 ELSE settled
  /\ UNCHANGED <<truth, cc1, cc2, ccr, pc, results>>

\* The handler may see the update of the edge before its capture, or an update
\* of two events.
Disturbed == uif \/ cc2 \/ pc \in {"capture", "update"}

Edge(n) ==
  /\ ccr' = n
  /\ truth' = [hi |-> over, lo |-> n]
  /\ over' = 0 /\ atTop' = FALSE
  /\ cc2' = TRUE /\ uif' = TRUE
  /\ settled' = IF Disturbed THEN 0 ELSE IF settled < 2 THEN settled + 1 ELSE 2
  /\ UNCHANGED <<cc1, pc, results>>

-----------------------------------------------------------------------------
(* HAL_TIM_IRQHandler.                                                     *)

\* Channel 1 has no callback of the program.
Enter ==
  /\ pc = "idle"
  /\ cc1 \/ cc2 \/ uif
  /\ cc1' = FALSE
  /\ pc' = "cc2"
  /\ UNCHANGED <<signal, cc2, uif, ccr, results>>

TestCapture ==
  /\ pc = "cc2"
  /\ pc' = IF cc2 THEN "capture" ELSE "update"
  /\ cc2' = FALSE
  /\ UNCHANGED <<signal, cc1, uif, ccr, results>>

\* HAL_TIM_IC_CaptureCallback: the first edge after a silence starts anew ...
Restart ==
  /\ pc = "capture" /\ overTime
  /\ overTime' = FALSE
  /\ longTimeNum' = 0
  /\ period' = Never /\ freq' = "zero"
  /\ pc' = "update"
  /\ UNCHANGED <<signal, flags>>

\* Bug: the update of the edge itself is not taken off.
Measure_Raw ==
  /\ pc = "capture" /\ ~overTime
  /\ period' = [hi |-> longTimeNum, lo |-> ccr]
  /\ freq' = "known"
  /\ longTimeNum' = 0
  /\ cc2' = FALSE
  /\ pc' = "update"
  /\ UNCHANGED <<signal, cc1, uif, ccr, overTime>>

\* ... and the others measure: shortTimeNum + ((longTimeNum - 1) << 16), where
\* the shift keeps the low half of what may be below 0.  Reading CCR2 clears the
\* flag of an edge that has come since.
Measure ==
  /\ pc = "capture" /\ ~overTime
  /\ period' = [hi |-> IF longTimeNum = 0 THEN Top ELSE longTimeNum - 1, lo |-> ccr]
  /\ freq' = "known"
  /\ longTimeNum' = 0
  /\ cc2' = FALSE
  /\ pc' = "update"
  /\ UNCHANGED <<signal, cc1, uif, ccr, overTime>>

\* Bug: the overflow that reaches the limit is counted, and not reported.
Elapsed_Counts ==
  /\ pc = "update"
  /\ uif' = FALSE
  /\ pc' = "idle"
  /\ IF uif /\ longTimeNum <= Limit
     THEN longTimeNum' = longTimeNum + 1 /\ UNCHANGED <<overTime, freq>>
     ELSE IF uif
     THEN overTime' = TRUE /\ freq' = "lost" /\ UNCHANGED longTimeNum
     ELSE UNCHANGED <<longTimeNum, overTime, freq>>
  /\ UNCHANGED <<signal, cc1, cc2, ccr, period>>

\* Bug: the counter starts anew when the limit is reached.
Elapsed_Wraps ==
  /\ pc = "update"
  /\ uif' = FALSE
  /\ pc' = "idle"
  /\ longTimeNum' = IF uif THEN (longTimeNum + 1) % Limit ELSE longTimeNum
  /\ UNCHANGED <<signal, cc1, cc2, ccr, overTime, period, freq>>

\* HAL_TIM_PeriodElapsedCallback, when the update flag is up.
Elapsed ==
  /\ pc = "update"
  /\ uif' = FALSE
  /\ pc' = "idle"
  /\ IF uif /\ longTimeNum < Limit
     THEN longTimeNum' = longTimeNum + 1 /\ UNCHANGED <<overTime, freq>>
     ELSE IF uif
     THEN overTime' = TRUE /\ freq' = "lost" /\ UNCHANGED longTimeNum
     ELSE UNCHANGED <<longTimeNum, overTime, freq>>
  /\ UNCHANGED <<signal, cc1, cc2, ccr, period>>

-----------------------------------------------------------------------------
Captured == IF atTop THEN {Top} ELSE Counts

Timer   == Compare \/ Overflow
Handler == Enter \/ TestCapture \/ Restart \/ Measure \/ Elapsed
Next    == Timer \/ Handler \/ \E n \in Captured : Edge(n)

\* The timer counts and its interrupt is served; the signal may stop.
Spec == Init /\ [][Next]_vars /\ WF_vars(Timer) /\ WF_vars(Handler)

-----------------------------------------------------------------------------
\* Types of the flags.
FlagTypes ==
  /\ atTop \in BOOLEAN /\ overTime \in BOOLEAN
  /\ cc1 \in BOOLEAN /\ cc2 \in BOOLEAN /\ uif \in BOOLEAN

\* Types of the variables; neither count of overflows leaves its range.
TypeOK ==
  /\ FlagTypes
  /\ over \in 0 .. MaxOver
  /\ truth \in [hi : 0 .. MaxOver, lo : 0 .. Top]
  /\ settled \in 0 .. 2
  /\ ccr \in 0 .. Top
  /\ pc \in {"idle", "cc2", "capture", "update"}
  /\ longTimeNum \in 0 .. Limit
  /\ period \in [hi : 0 .. Limit - 1 \cup {Top}, lo : 0 .. Top]
  /\ freq \in {"lost", "zero", "known"}

\* The edge that was captured last is served.
Served == ~cc2 /\ pc # "capture"

\* What is to be reported of a period.
Reported(p) == IF p.hi < Limit THEN p ELSE Never

\* From the second edge on that the handler has served apart from other events,
\* the period is the time between the last two edges, to the tick and over any
\* number of overflows: no overflow is counted twice, none is missed, and the
\* update of the edge itself is not counted.
MeasuresTrue == settled = 2 /\ Served => period = Reported(truth)

\* No signal is reported just when the counter has overflown Limit times since
\* the last edge, whatever was counted before that edge.
LostTrue ==
  settled > 0 /\ Served /\ pc = "idle" /\ ~uif => (freq = "lost" <=> over >= Limit)

\* A signal that has stopped is found out, even when overflows were missed.
SilenceFound == over = MaxOver ~> freq = "lost" \/ over = 0

-----------------------------------------------------------------------------
(* The inductive invariant behind MeasuresTrue and LostTrue.               *)

AtMost(n, m) == IF n < m THEN n ELSE m

\* The callback of overflows has seen n updates since an edge.
Counted(n) ==
  /\ longTimeNum = AtMost(n, Limit)
  /\ overTime <=> n > Limit
  /\ freq = "lost" <=> n > Limit

\* What has been counted, between the services of the last edge: its own update
\* comes first, and an overflow may be waiting.
CountInv ==
  settled > 0 =>
    /\ cc2 => uif /\ pc \in {"idle", "cc2"} /\ over = 0
    /\ pc = "capture" => uif /\ over = 0
    /\ Served /\ pc = "update" /\ uif /\ over = 0 => Counted(0)
    /\ Served /\ ~(pc = "update" /\ uif /\ over = 0) =>
         IF uif THEN over > 0 /\ Counted(over) ELSE Counted(over + 1)

\* Before an edge is served, what was counted is the period it ends.
PendingInv ==
  /\ settled = 2 /\ ~Served =>
       /\ ccr = truth.lo
       /\ Counted(truth.hi + 1)
  /\ settled > 0 /\ ~Served => ccr = truth.lo

IInv == TypeOK /\ CountInv /\ PendingInv /\ MeasuresTrue
=============================================================================
