--------------------------- MODULE FreqMeter_proofs ---------------------------
(***************************************************************************)
(* What the frequency meter measures, for any limit, any values of the     *)
(* counter and any timing of the interrupt.                                *)
(***************************************************************************)
EXTENDS FreqMeter, TLAPS

\* The program starts with the update of the initialisation waiting.
LEMMA InitIInv == Init => IInv
<1> SUFFICES ASSUME Init PROVE IInv
  OBVIOUS
<1>1. TypeOK
  <2>1. FlagTypes
    BY Zenon DEF Init, FlagTypes
  <2> QED
    BY <2>1, MeterAssumption DEF Init, TypeOK
<1>2. CountInv /\ PendingInv /\ MeasuresTrue
  BY DEF Init, CountInv, PendingInv, MeasuresTrue, Served
<1> QED
  BY <1>1, <1>2 DEF IInv

\* The compare interrupt does not disturb what is counted.
LEMMA CompareKeepsIInv == IInv /\ Compare => IInv'
<1> SUFFICES ASSUME IInv, Compare PROVE IInv'
  OBVIOUS
<1>1. FlagTypes'
  BY ZenonT(20) DEF IInv, TypeOK, FlagTypes, Compare, results
<1>2. TypeOK'
  BY <1>1 DEF IInv, TypeOK, Compare, results
<1>3. CountInv' /\ PendingInv' /\ MeasuresTrue'
  BY DEF IInv, CountInv, PendingInv, MeasuresTrue, Compare, Served, Counted, AtMost,
     Reported, Never, results
<1> QED
  BY <1>2, <1>3 DEF IInv

\* An overflow waits to be counted, or disturbs the service of another event.
LEMMA OverflowKeepsIInv == IInv /\ Overflow => IInv'
<1> SUFFICES ASSUME IInv, Overflow PROVE IInv'
  OBVIOUS
<1>1. TypeOK'
  <2>1. FlagTypes'
    BY ZenonT(20) DEF IInv, TypeOK, FlagTypes, Overflow, results
  <2> QED
    BY <2>1, MeterAssumption DEF IInv, TypeOK, Overflow, results
<1>2. CountInv'
  BY MeterAssumption DEF IInv, TypeOK, CountInv, Overflow, Served, Counted, AtMost, results
<1>3. PendingInv' /\ MeasuresTrue'
  BY MeterAssumption DEF IInv, TypeOK, CountInv, PendingInv, MeasuresTrue, Overflow,
     Served, Counted, AtMost, Reported, Never, results
<1> QED
  BY <1>1, <1>2, <1>3 DEF IInv

\* An edge ends a period all of which was counted, or disturbs a service.
LEMMA EdgeKeepsIInv == ASSUME NEW n \in Captured, IInv, Edge(n) PROVE IInv'
<1>1. n \in 0 .. Top
  BY MeterAssumption DEF Captured
<1>2. TypeOK'
  <2>1. FlagTypes'
    BY <1>1, ZenonT(20) DEF IInv, TypeOK, FlagTypes, Edge, results
  <2> QED
    BY <1>1, <2>1, MeterAssumption DEF IInv, TypeOK, Edge, results
<1>3. CASE Disturbed
  BY <1>2, <1>3 DEF IInv, CountInv, PendingInv, MeasuresTrue, Edge
<1>4. CASE ~Disturbed
  BY <1>1, <1>2, <1>4, MeterAssumption
  DEF IInv, TypeOK, CountInv, PendingInv, MeasuresTrue, Edge, Disturbed,
      Served, Counted, AtMost, results
<1> QED
  BY <1>3, <1>4

\* The handler serves the capture, if there is one, before the update.
LEMMA EnterKeepsIInv == IInv /\ (Enter \/ TestCapture) => IInv'
<1>1. ASSUME IInv, Enter PROVE IInv'
  <2>1. FlagTypes'
    BY <1>1, ZenonT(20) DEF IInv, TypeOK, FlagTypes, Enter, results, signal
  <2>2. TypeOK'
    BY <1>1, <2>1 DEF IInv, TypeOK, Enter, results, signal
  <2>3. CountInv' /\ PendingInv' /\ MeasuresTrue'
    BY <1>1 DEF IInv, CountInv, PendingInv, MeasuresTrue, Enter, Served, Counted,
       AtMost, Reported, Never, results, signal
  <2> QED
    BY <2>2, <2>3 DEF IInv
<1>2. ASSUME IInv, TestCapture PROVE IInv'
  <2>1. FlagTypes'
    BY <1>2, ZenonT(20) DEF IInv, TypeOK, FlagTypes, TestCapture, results, signal
  <2>2. TypeOK'
    BY <1>2, <2>1 DEF IInv, TypeOK, TestCapture, results, signal
  <2>3. CountInv' /\ PendingInv' /\ MeasuresTrue'
    BY <1>2 DEF IInv, CountInv, PendingInv, MeasuresTrue, TestCapture, Served, Counted,
       AtMost, Reported, Never, results, signal
  <2> QED
    BY <2>2, <2>3 DEF IInv
<1> QED
  BY <1>1, <1>2

\* The callback of captures reports the period and starts the count anew.
LEMMA CaptureKeepsIInv == IInv /\ (Restart \/ Measure) => IInv'
<1>1. ASSUME IInv, Restart PROVE IInv'
  <2>1. TypeOK'
    <3>1. FlagTypes'
      BY <1>1, ZenonT(20) DEF IInv, TypeOK, FlagTypes, Restart, Never, signal, flags
    <3> QED
      BY <1>1, <3>1, MeterAssumption DEF IInv, TypeOK, Restart, Never, signal, flags
  <2>2. CountInv' /\ PendingInv' /\ MeasuresTrue'
    BY <1>1, MeterAssumption DEF IInv, TypeOK, CountInv, PendingInv, MeasuresTrue, Restart,
       Served, Counted, AtMost, Reported, Never, signal, flags
  <2> QED
    BY <2>1, <2>2 DEF IInv
<1>2. ASSUME IInv, Measure PROVE IInv'
  <2>1. TypeOK'
    <3>1. FlagTypes'
      BY <1>2, ZenonT(20) DEF IInv, TypeOK, FlagTypes, Measure, signal
    <3> QED
      BY <1>2, <3>1, MeterAssumption DEF IInv, TypeOK, Measure, signal
  <2>2. CountInv' /\ PendingInv'
    BY <1>2, MeterAssumption DEF IInv, TypeOK, CountInv, PendingInv, Measure,
       Served, Counted, AtMost, signal
  <2>3. MeasuresTrue'
    <3> SUFFICES ASSUME settled = 2 PROVE period' = Reported(truth')
      BY <1>2 DEF MeasuresTrue, Measure, signal
    <3>1. ccr = truth.lo /\ Counted(truth.hi + 1) /\ ~overTime /\ truth' = truth
      BY <1>2 DEF IInv, PendingInv, Served, Measure, signal
    <3>2. truth.hi \in Nat /\ truth.hi < Limit /\ longTimeNum = truth.hi + 1
      BY <1>2, <3>1, MeterAssumption DEF IInv, TypeOK, Counted, AtMost
    <3>3. period' = [hi |-> truth.hi, lo |-> truth.lo]
      BY <1>2, <3>1, <3>2, MeterAssumption DEF Measure
    <3>4. truth = [hi |-> truth.hi, lo |-> truth.lo]
      BY <1>2 DEF IInv, TypeOK
    <3> QED
      BY <3>1, <3>2, <3>3, <3>4 DEF Reported
  <2> QED
    BY <2>1, <2>2, <2>3 DEF IInv
<1> QED
  BY <1>1, <1>2

\* The callback of updates counts up to the limit.
LEMMA ElapsedKeepsIInv == IInv /\ Elapsed => IInv'
<1> SUFFICES ASSUME IInv, Elapsed PROVE IInv'
  OBVIOUS
<1>1. TypeOK'
  <2>1. FlagTypes'
    BY ZenonT(20) DEF IInv, TypeOK, FlagTypes, Elapsed, signal
  <2> QED
    BY <2>1, MeterAssumption DEF IInv, TypeOK, Elapsed, signal
<1>2. CountInv'
  BY MeterAssumption DEF IInv, TypeOK, CountInv, Elapsed, Served, Counted, AtMost, signal
<1>3. PendingInv' /\ MeasuresTrue'
  BY MeterAssumption DEF IInv, TypeOK, CountInv, PendingInv, MeasuresTrue, Elapsed,
     Served, Counted, AtMost, Reported, Never, signal
<1> QED
  BY <1>1, <1>2, <1>3 DEF IInv
-----------------------------------------------------------------------------
\* Every step of the timer, of the signal and of the handler keeps the
\* inductive invariant: between two services, longTimeNum is the number of
\* overflows the counter has had since the edge, plus one, up to the limit.
THEOREM MeterInvariant == Spec => []IInv
<1>1. IInv /\ [Next]_vars => IInv'
  <2> SUFFICES ASSUME IInv, [Next]_vars PROVE IInv'
    OBVIOUS
  <2>1. CASE Timer
    BY <2>1, CompareKeepsIInv, OverflowKeepsIInv DEF Timer
  <2>2. CASE Handler
    BY <2>2, EnterKeepsIInv, CaptureKeepsIInv, ElapsedKeepsIInv DEF Handler
  <2>3. ASSUME NEW n \in Captured, Edge(n) PROVE IInv'
    BY <2>3, EdgeKeepsIInv
  <2>4. CASE UNCHANGED vars
    <3>1. TypeOK'
      BY <2>4, ZenonT(20) DEF vars, signal, flags, results, IInv, TypeOK, FlagTypes
    <3>2. CountInv' /\ PendingInv' /\ MeasuresTrue'
      BY <2>4 DEF vars, signal, flags, results, IInv, CountInv, PendingInv,
         MeasuresTrue, Served, Counted
    <3> QED
      BY <3>1, <3>2 DEF IInv
  <2> QED
    BY <2>1, <2>2, <2>3, <2>4 DEF Next
<1> QED
  BY InitIInv, <1>1, PTL DEF Spec

\* The variables keep their types: longTimeNum never passes the limit, and a
\* period that is reported has fewer overflows than that, or is garbage from
\* longTimeNum - 1 below zero.
THEOREM MeterTypes == Spec => []TypeOK
<1>1. IInv => TypeOK
  BY DEF IInv
<1> QED
  BY <1>1, MeterInvariant, PTL

\* Two edges after an overlap of events, GlobalWave.period is right.
THEOREM MeasuresAreTrue == Spec => []MeasuresTrue
<1>1. IInv => MeasuresTrue
  BY DEF IInv
<1> QED
  BY <1>1, MeterInvariant, PTL

\* GlobalWave.freq is -1 when, and only when, the signal is lost.
THEOREM LostIsTrue == Spec => []LostTrue
<1>1. IInv => LostTrue
  BY MeterAssumption DEF IInv, TypeOK, CountInv, LostTrue, Counted
<1> QED
  BY <1>1, MeterInvariant, PTL
=============================================================================
