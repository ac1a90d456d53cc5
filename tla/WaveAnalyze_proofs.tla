-------------------------- MODULE WaveAnalyze_proofs --------------------------
(***************************************************************************)
(* The loops of the measurement, for blocks of any length and any values   *)
(* of the ADC.                                                             *)
(***************************************************************************)
EXTENDS WaveAnalyze, TLAPS

\* What the loops read is a value of the ADC.
LEMMA SampleType ==
  ASSUME TypeOK, pc # "idle", NEW k \in Index
  PROVE  block[k] \in 0 .. (Beyond - 1)
BY AnalyzeAssumption DEF TypeOK

\* The flags between two blocks say whether one of them left the range.
LEMMA JudgeKeepsFlags ==
  ASSUME FlagInv, Judge
  PROVE  FlagInv'
<1>1. clipped' <=> HIGH' \/ LOW'
  BY Zenon DEF FlagInv, Judge
<1>2. GOOD' <=> ~clipped'
  BY <1>1, Zenon DEF Judge
<1> QED
  BY <1>1, <1>2, Zenon DEF FlagInv

\* Every other action leaves the flags alone, and only Judge comes to "window".
LEMMA OthersKeepFlags ==
  ASSUME FlagInv, UNCHANGED evalue,
         pc' \in {"window", "sum", "done"} => pc \in {"window", "sum", "done"}
  PROVE  FlagInv'
BY Zenon DEF FlagInv, evalue

\* The crossings are those of the block and of its extremes.
LEMMA SameCrossings ==
  ASSUME UNCHANGED <<block, extremes>>
  PROVE  /\ Crossings' = Crossings
         /\ \A n : ExtremesOf(n)' <=> ExtremesOf(n)
BY DEF Crossings, Rises, trig_voltage, ExtremesOf, extremes

\* No loop has begun.
LEMMA InitIInv == Init => IInv
<1> SUFFICES ASSUME Init PROVE IInv
  OBVIOUS
<1>0. /\ pc = "idle" /\ i = 0 /\ sampled_max = 0 /\ sampled_min = 0
      /\ cnt_of_risedge = 0 /\ first_edging_index = -1 /\ last_edging_index = -1
      /\ ACDCType = "UNKNOWN" /\ from = 0 /\ to = 0
  BY DEF Init
<1>1. TypeOK
  <2>1. i \in 0 .. Len /\ cnt_of_risedge \in 0 .. Len /\ from \in Index /\ to \in Index
    BY <1>0, AnalyzeAssumption DEF Index
  <2>2. sampled_max \in 0 .. (Beyond - 1) /\ sampled_min \in 0 .. Beyond
    <3> PICK s \in Samples : TRUE
      BY AnalyzeAssumption
    <3>1. s \in 0 .. (Beyond - 1)
      BY AnalyzeAssumption
    <3> QED
      BY <1>0, <3>1, AnalyzeAssumption
  <2>3. first_edging_index \in -1 .. Len - 2 /\ last_edging_index \in -1 .. Len - 2
    BY <1>0, AnalyzeAssumption
  <2> QED
    BY <1>0, <2>1, <2>2, <2>3 DEF TypeOK
<1>2. LoopInv /\ CountInv /\ WindowInv
  BY DEF Init, LoopInv, CountInv, WindowInv
<1>3. FlagInv
  BY Zenon DEF Init, FlagInv
<1> QED
  BY <1>1, <1>2, <1>3 DEF IInv

\* A call begins with nothing seen.
LEMMA CallKeepsIInv ==
  ASSUME IInv, NEW b \in [Index -> Samples], Call(b)
  PROVE  IInv'
<1> USE AnalyzeAssumption
<1>1. TypeOK'
  BY DEF IInv, TypeOK, Call, Index, edges, stats, sums
<1>2. LoopInv'
  BY DEF Call, LoopInv, ExtremesOf
<1>3. CountInv' /\ WindowInv'
  BY DEF IInv, Call, CountInv, WindowInv, edges
<1>4. FlagInv'
  BY OthersKeepFlags DEF IInv, Call, stats
<1> QED
  BY <1>1, <1>2, <1>3, <1>4 DEF IInv

\* One more sample has been compared with the extremes.
LEMMA ExtremesKeepsIInv ==
  ASSUME IInv, Extremes
  PROVE  IInv'
<1> USE AnalyzeAssumption
<1>0. i \in 3 .. Len - 1 /\ block[i] \in 0 .. (Beyond - 1)
  BY SampleType DEF IInv, TypeOK, LoopInv, Extremes, Index
<1>1. TypeOK'
  BY <1>0 DEF IInv, TypeOK, Extremes, Index, edges, stats, sums
<1>2. LoopInv'
  <2>1. ExtremesOf(i - 1)
    BY DEF IInv, LoopInv, Extremes
  <2>2. \A k \in 3 .. i - 1 : block[k] \in 0 .. (Beyond - 1)
    BY <1>0, SampleType DEF IInv, Extremes, TypeOK, Index
  <2>3. \A k \in 3 .. i : sampled_min' <= block[k] /\ block[k] <= sampled_max'
    <3> TAKE k \in 3 .. i
    <3>1. CASE k = i
      BY <1>0, <3>1 DEF IInv, TypeOK, Extremes
    <3>2. CASE k # i
      <4>1. k \in 3 .. i - 1
        BY <1>0, <3>2
      <4>2. sampled_min <= block[k] /\ block[k] <= sampled_max
        BY <2>1, <4>1 DEF ExtremesOf
      <4> QED
        BY <1>0, <2>2, <4>1, <4>2 DEF IInv, TypeOK, Extremes
    <3> QED
      BY <3>1, <3>2
  <2>4. \E k \in 3 .. i : sampled_min' = block[k]
    <3>1. CASE i = 3
      <4>1. sampled_min' = block[i]
        BY <1>0, <2>1, <3>1 DEF Extremes, ExtremesOf
      <4> QED
        BY <1>0, <4>1
    <3>2. CASE i # 3
      BY <1>0, <2>1, <3>2 DEF Extremes, ExtremesOf
    <3> QED
      BY <3>1, <3>2
  <2>5. sampled_max' = 0 \/ \E k \in 3 .. i : sampled_max' = block[k]
    BY <1>0, <2>1 DEF Extremes, ExtremesOf
  <2> QED
    BY <1>0, <2>3, <2>4, <2>5 DEF Extremes, LoopInv, ExtremesOf
<1>3. CountInv' /\ WindowInv'
  BY DEF IInv, Extremes, CountInv, WindowInv, edges
<1>4. FlagInv'
  BY OthersKeepFlags DEF IInv, Extremes, stats
<1> QED
  BY <1>1, <1>2, <1>3, <1>4 DEF IInv

\* The loop for the edges begins with the extremes of the whole block.
LEMMA ExtremesDoneKeepsIInv ==
  ASSUME IInv, ExtremesDone
  PROVE  IInv'
<1> USE AnalyzeAssumption
<1>0. i = Len
  BY DEF IInv, TypeOK, LoopInv, ExtremesDone
<1>1. TypeOK'
  BY DEF IInv, TypeOK, ExtremesDone, extremes, edges, stats, sums
<1>2. LoopInv'
  <2>1. ExtremesOf(Len - 1)'
    BY <1>0, SameCrossings DEF IInv, LoopInv, ExtremesDone
  <2>2. first_edging_index = -1 /\ last_edging_index = -1
    BY DEF IInv, CountInv, ExtremesDone
  <2>3. EdgesBefore(3)'
    BY <2>2 DEF EdgesBefore, Crossings, ExtremesDone, edges
  <2> QED
    BY <2>1, <2>3 DEF LoopInv, ExtremesDone
<1>3. CountInv' /\ WindowInv'
  BY DEF IInv, ExtremesDone, CountInv, WindowInv, edges
<1>4. FlagInv'
  BY OthersKeepFlags DEF IInv, ExtremesDone, stats
<1> QED
  BY <1>1, <1>2, <1>3, <1>4 DEF IInv

\* A crossing at i is the last one so far, and the first if there was none.
LEMMA RiseKeepsIInv ==
  ASSUME IInv, Rise
  PROVE  IInv'
<1> USE AnalyzeAssumption
<1>0. i \in 3 .. Len - 2 /\ i \in Crossings /\ EdgesBefore(i) /\ ExtremesOf(Len - 1)
  BY DEF IInv, TypeOK, LoopInv, Rise, Crossings
<1>1. TypeOK'
  BY <1>0 DEF IInv, TypeOK, LoopInv, CountInv, Rise, Index, extremes, stats, sums
<1>a. Crossings' = Crossings /\ ExtremesOf(Len - 1)'
  BY <1>0, SameCrossings DEF Rise
<1>2. LoopInv'
  <2>1. first_edging_index' \in Crossings /\ first_edging_index' <= i
    BY <1>0 DEF IInv, TypeOK, EdgesBefore, Rise
  <2>2. \A k \in Crossings : k < i + 1 => first_edging_index' \in 3 .. k /\ k <= i
    <3> TAKE k \in Crossings
    <3> HAVE k < i + 1
    <3>1. k \in 3 .. Len - 2
      BY DEF Crossings
    <3>2. CASE k = i
      BY <1>0, <2>1, <3>1, <3>2 DEF Crossings
    <3>3. CASE k # i
      <4>1. first_edging_index \in 3 .. k
        BY <1>0, <3>1, <3>3 DEF EdgesBefore
      <4> QED
        BY <1>0, <3>1, <3>3, <4>1 DEF Rise
    <3> QED
      BY <3>2, <3>3
  <2>3. EdgesBefore(i)'
    BY <1>0, <1>a, <2>1, <2>2 DEF EdgesBefore, Rise, Crossings
  <2> QED
    BY <1>0, <1>a, <2>3 DEF LoopInv, Rise
<1>3. CountInv'
  BY <1>0 DEF IInv, TypeOK, CountInv, EdgesBefore, Rise, Crossings
<1>4. WindowInv' /\ FlagInv'
  BY OthersKeepFlags DEF IInv, WindowInv, Rise, stats
<1> QED
  BY <1>1, <1>2, <1>3, <1>4 DEF IInv

\* No crossing at i.
LEMMA NoRiseKeepsIInv ==
  ASSUME IInv, NoRise
  PROVE  IInv'
<1> USE AnalyzeAssumption
<1>0. i \in 3 .. Len - 2 /\ i \notin Crossings /\ EdgesBefore(i) /\ ExtremesOf(Len - 1)
  BY DEF IInv, TypeOK, LoopInv, NoRise, Crossings
<1>1. TypeOK'
  BY <1>0 DEF IInv, TypeOK, NoRise, Index, extremes, edges, stats, sums
<1>a. Crossings' = Crossings /\ ExtremesOf(Len - 1)'
  BY <1>0, SameCrossings DEF NoRise
<1>2. LoopInv'
  <2>1. \A k \in Crossings : k < i + 1 => k < i
    BY <1>0 DEF Crossings
  <2>2. EdgesBefore(i)'
    BY <1>0, <1>a, <2>1 DEF EdgesBefore, NoRise, edges, Crossings
  <2> QED
    BY <1>0, <1>a, <2>2 DEF LoopInv, NoRise
<1>3. CountInv'
  BY <1>0 DEF IInv, TypeOK, CountInv, NoRise, edges
<1>4. WindowInv' /\ FlagInv'
  BY OthersKeepFlags DEF IInv, WindowInv, NoRise, stats
<1> QED
  BY <1>1, <1>2, <1>3, <1>4 DEF IInv

\* The whole block has been looked through.
LEMMA JudgeKeepsIInv ==
  ASSUME IInv, Judge
  PROVE  IInv'
<1> USE AnalyzeAssumption
<1>0. i = Len - 1 /\ EdgesBefore(Len - 1) /\ ExtremesOf(Len - 1)
  BY DEF IInv, TypeOK, LoopInv, Judge
<1>1. TypeOK'
  BY <1>0 DEF IInv, TypeOK, Judge, Index, extremes, sums
<1>2. LoopInv'
  <2>1. Crossings' = Crossings /\ ExtremesOf(Len - 1)'
    BY <1>0, SameCrossings DEF Judge
  <2>2. EdgesBefore(Len - 1)'
    BY <1>0, <2>1 DEF EdgesBefore, Judge
  <2> QED
    BY <2>1, <2>2 DEF LoopInv, Judge
<1>3. CountInv' /\ WindowInv'
  BY DEF CountInv, WindowInv, Judge
<1>4. FlagInv'
  BY JudgeKeepsFlags DEF IInv
<1> QED
  BY <1>1, <1>2, <1>3, <1>4 DEF IInv

\* Sums are taken from one crossing to another, or over the whole block.
LEMMA WindowKeepsIInv ==
  ASSUME IInv, WindowAC \/ WindowDC
  PROVE  IInv'
<1> USE AnalyzeAssumption
<1>0. EdgesBefore(Len - 1) /\ ExtremesOf(Len - 1)
  BY DEF IInv, TypeOK, LoopInv, WindowAC, WindowDC
<1>a. /\ first_edging_index = -1 <=> last_edging_index = -1
      /\ first_edging_index # -1 =>
           /\ first_edging_index \in 3 .. Len - 2 /\ last_edging_index \in 3 .. Len - 2
           /\ first_edging_index <= last_edging_index
  BY <1>0 DEF EdgesBefore, Crossings
<1>1. TypeOK'
  BY <1>a DEF IInv, TypeOK, WindowAC, WindowDC, Index, extremes, edges
<1>2. LoopInv'
  <2>1. Crossings' = Crossings /\ ExtremesOf(Len - 1)'
    BY <1>0, SameCrossings DEF WindowAC, WindowDC
  <2>2. EdgesBefore(Len - 1)'
    BY <1>0, <2>1 DEF EdgesBefore, WindowAC, WindowDC, edges
  <2> QED
    BY <2>1, <2>2 DEF LoopInv, WindowAC, WindowDC
<1>3. CountInv'
  BY DEF CountInv, WindowAC, WindowDC
<1>4. WindowInv'
  BY <1>a DEF WindowInv, WindowAC, WindowDC, edges
<1>5. FlagInv'
  BY OthersKeepFlags DEF IInv, WindowAC, WindowDC
<1> QED
  BY <1>1, <1>2, <1>3, <1>4, <1>5 DEF IInv

\* The sums stay inside the block.
LEMMA SumKeepsIInv ==
  ASSUME IInv, Sum \/ SumDone
  PROVE  IInv'
<1> USE AnalyzeAssumption
<1>0. EdgesBefore(Len - 1) /\ ExtremesOf(Len - 1)
  BY DEF IInv, TypeOK, LoopInv, Sum, SumDone
<1>1. TypeOK'
  <2>1. i' \in 0 .. Len
    BY DEF IInv, TypeOK, Index, Sum, SumDone
  <2> QED
    BY <2>1 DEF IInv, TypeOK, Sum, SumDone, Index, extremes, edges, stats, sums
<1>2. LoopInv'
  <2>1. Crossings' = Crossings /\ ExtremesOf(Len - 1)'
    BY <1>0, SameCrossings DEF Sum, SumDone
  <2>2. EdgesBefore(Len - 1)'
    BY <1>0, <2>1 DEF EdgesBefore, Sum, SumDone, edges
  <2> QED
    BY <2>1, <2>2 DEF LoopInv, Sum, SumDone
<1>3. CountInv'
  BY DEF CountInv, Sum, SumDone
<1>4. WindowInv'
  <2>0. i \in from .. to + 1 /\ from \in Int /\ to \in Int
    BY DEF IInv, WindowInv, TypeOK, Index, Sum, SumDone
  <2>1. CASE Sum
    <3>1. i \in from .. to /\ i' = i + 1 /\ pc' = "sum" /\ from' = from /\ to' = to
      BY <2>0, <2>1 DEF Sum
    <3> QED
      BY <2>0, <2>1, <3>1 DEF IInv, WindowInv, Sum, edges, stats
  <2>2. CASE SumDone
    <3>1. i = to + 1
      BY <2>0, <2>2 DEF SumDone
    <3> QED
      BY <2>0, <2>2, <3>1 DEF IInv, WindowInv, SumDone, edges, stats, sums
  <2> QED
    BY <2>1, <2>2
<1>5. FlagInv'
  BY OthersKeepFlags DEF IInv, Sum, SumDone, stats
<1> QED
  BY <1>1, <1>2, <1>3, <1>4, <1>5 DEF IInv

\* The result is kept for the next block.
LEMMA ReturnKeepsIInv ==
  ASSUME IInv, Return
  PROVE  IInv'
<1> USE AnalyzeAssumption
<1>1. TypeOK'
  BY DEF IInv, TypeOK, Return, NoLocals, Index, extremes, stats
<1>2. LoopInv' /\ CountInv' /\ WindowInv'
  BY DEF Return, NoLocals, LoopInv, CountInv, WindowInv
<1>3. FlagInv'
  BY OthersKeepFlags DEF IInv, Return, stats
<1> QED
  BY <1>1, <1>2, <1>3 DEF IInv

\* Nothing happens.
LEMMA StutterKeepsIInv ==
  ASSUME IInv, UNCHANGED vars
  PROVE  IInv'
<1>1. TypeOK'
  BY DEF IInv, TypeOK, vars, extremes, edges, stats, sums
<1>2. LoopInv'
  BY SameCrossings DEF IInv, LoopInv, EdgesBefore, vars, edges
<1>3. CountInv' /\ WindowInv'
  BY DEF IInv, CountInv, WindowInv, vars, edges, stats, sums
<1>4. FlagInv'
  BY OthersKeepFlags DEF IInv, vars, stats
<1> QED
  BY <1>1, <1>2, <1>3, <1>4 DEF IInv

\* The measurement keeps its loop invariants, for every length of a block and
\* every set of values of the ADC (adc_control.c:372).
THEOREM AnalysisInvariant == Spec => []IInv
<1>1. IInv /\ [Next]_vars => IInv'
  <2> SUFFICES ASSUME IInv, [Next]_vars PROVE IInv'
    OBVIOUS
  <2>1. ASSUME NEW b \in [Index -> Samples], Call(b) PROVE IInv'
    BY <2>1, CallKeepsIInv
  <2>2. CASE Extremes
    BY <2>2, ExtremesKeepsIInv
  <2>3. CASE ExtremesDone
    BY <2>3, ExtremesDoneKeepsIInv
  <2>4. CASE Rise
    BY <2>4, RiseKeepsIInv
  <2>5. CASE NoRise
    BY <2>5, NoRiseKeepsIInv
  <2>6. CASE Judge
    BY <2>6, JudgeKeepsIInv
  <2>7. CASE WindowAC \/ WindowDC
    BY <2>7, WindowKeepsIInv
  <2>8. CASE Sum \/ SumDone
    BY <2>8, SumKeepsIInv
  <2>9. CASE Return
    BY <2>9, ReturnKeepsIInv
  <2>10. CASE UNCHANGED vars
    BY <2>10, StutterKeepsIInv
  <2> QED
    BY <2>1, <2>2, <2>3, <2>4, <2>5, <2>6, <2>7, <2>8, <2>9, <2>10 DEF Next, Analyze
<1> QED
  BY InitIInv, <1>1, PTL DEF Spec

\* Every index the measurement reads is one of the block (adc_control.c:302-359).
THEOREM AnalysisTypes == Spec => []TypeOK
<1>1. IInv => TypeOK
  BY DEF IInv
<1> QED
  BY <1>1, AnalysisInvariant, PTL

-----------------------------------------------------------------------------
(* The sums.  Total is defined by recursion; what the loop has added up is   *)
(* the last of the partial sums it went through, which exist and are unique. *)

\* S[k] is the sum of term from a to k, for every k up to n.
Partial(S, term, a, n) ==
  /\ S[a - 1] = 0
  /\ \A k \in a .. n : S[k] = S[k - 1] + term[k]

\* The terms from a to n - 1, of those up to b, have been added up to s.
Adds(term, a, b, n, s) ==
  /\ \E S : S = [k \in a - 1 .. b |-> S[k]] /\ Partial(S, term, a, n - 1)
  /\ \A S : Partial(S, term, a, n - 1) => S[n - 1] = s

SumsInv ==
  pc \in {"sum", "done"} => /\ Adds(Deviations, from, to, i, sum)
                            /\ Adds(Squares, from, to, i, squares)

\* All terms added up are their total.
LEMMA AddsTotal ==
  ASSUME NEW term, NEW a \in Int, NEW b \in Int, a <= b + 1, NEW s,
         Adds(term, a, b, b + 1, s)
  PROVE  s = Total(term, a, b)
<1> DEFINE Step(f) == [k \in a - 1 .. b |-> IF k < a THEN 0 ELSE f[k - 1] + term[k]]
           upTo == CHOOSE f : f = Step(f)
<1>1. PICK S : S = [k \in a - 1 .. b |-> S[k]] /\ Partial(S, term, a, b)
  BY DEF Adds
<1>2. S = Step(S)
  <2>1. \A k \in a - 1 .. b : S[k] = IF k < a THEN 0 ELSE S[k - 1] + term[k]
    <3> TAKE k \in a - 1 .. b
    <3>1. CASE k < a
      <4>1. k = a - 1
        BY <3>1
      <4> QED
        BY <1>1, <3>1, <4>1 DEF Partial
    <3>2. CASE ~(k < a)
      <4>1. k \in a .. b
        BY <3>2
      <4> QED
        BY <1>1, <3>2, <4>1 DEF Partial
    <3> QED
      BY <3>1, <3>2
  <2> QED
    BY <1>1, <2>1
<1>3. upTo = Step(upTo)
  BY <1>2
<1>4. Total(term, a, b) = upTo[b]
  BY DEF Total
<1> HIDE DEF upTo
<1>5. Partial(upTo, term, a, b)
  BY <1>3 DEF Partial
<1> QED
  BY <1>4, <1>5 DEF Adds

\* One more term.
LEMMA AddsOne ==
  ASSUME NEW term, NEW a \in Int, NEW b \in Int, NEW n \in a .. b, NEW s,
         Adds(term, a, b, n, s)
  PROVE  Adds(term, a, b, n + 1, s + term[n])
<1>1. PICK S : S = [k \in a - 1 .. b |-> S[k]] /\ Partial(S, term, a, n - 1)
  BY DEF Adds
<1> DEFINE T == [k \in a - 1 .. b |-> IF k = n THEN s + term[n] ELSE S[k]]
<1>2. S[n - 1] = s
  BY <1>1 DEF Adds
<1>3. Partial(T, term, a, n)
  <2>1. T[a - 1] = 0
    BY <1>1 DEF Partial
  <2>2. \A k \in a .. n : T[k] = T[k - 1] + term[k]
    <3> TAKE k \in a .. n
    <3>1. k \in a - 1 .. b /\ k - 1 \in a - 1 .. b /\ k - 1 # n
      OBVIOUS
    <3>2. CASE k = n
      BY <1>2, <3>1, <3>2
    <3>3. CASE k # n
      <4>1. k \in a .. n - 1
        BY <3>3
      <4> QED
        BY <1>1, <3>1, <3>3, <4>1 DEF Partial
    <3> QED
      BY <3>2, <3>3
  <2> QED
    BY <2>1, <2>2 DEF Partial
<1>4. T = [k \in a - 1 .. b |-> T[k]]
  OBVIOUS
<1>5. \A R : Partial(R, term, a, n) => R[n] = s + term[n]
  <2> TAKE R
  <2> HAVE Partial(R, term, a, n)
  <2>1. Partial(R, term, a, n - 1) /\ R[n] = R[n - 1] + term[n]
    BY DEF Partial
  <2>2. R[n - 1] = s
    BY <2>1 DEF Adds
  <2> QED
    BY <2>1, <2>2
<1>6. (n + 1) - 1 = n
  OBVIOUS
<1> HIDE DEF T
<1> QED
  BY <1>3, <1>4, <1>5, <1>6 DEF Adds

\* No term yet.
LEMMA AddsNone ==
  ASSUME NEW term, NEW a \in Int, NEW b \in Int, a <= b + 1
  PROVE  Adds(term, a, b, a, 0)
<1> DEFINE S == [k \in a - 1 .. b |-> 0]
<1>1. S = [k \in a - 1 .. b |-> S[k]] /\ Partial(S, term, a, a - 1)
  BY DEF Partial
<1>2. \A R : Partial(R, term, a, a - 1) => R[a - 1] = 0
  BY DEF Partial
<1> HIDE DEF S
<1> QED
  BY <1>1, <1>2 DEF Adds

\* Every pass of the loop adds the deviation of a sample, and its square.
LEMMA SumsKept == IInv /\ SumsInv /\ [Next]_vars => SumsInv'
<1> SUFFICES ASSUME IInv, SumsInv, [Next]_vars PROVE SumsInv'
  OBVIOUS
<1>1. CASE WindowAC \/ WindowDC
  <2>1. sum' = 0 /\ squares' = 0 /\ i' = from'
    BY <1>1 DEF WindowAC, WindowDC
  <2>2. from' \in Int /\ to' \in Int /\ from' <= to' + 1
    <3>1. TypeOK' /\ WindowInv' /\ pc' = "sum"
      BY <1>1, WindowKeepsIInv DEF IInv, WindowAC, WindowDC
    <3>2. from' \in Int /\ to' \in Int
      BY <3>1 DEF TypeOK, Index
    <3>3. i' \in from' .. to' + 1
      BY <3>1 DEF WindowInv
    <3>4. from' \in from' .. to' + 1
      BY <2>1, <3>3, Zenon
    <3>5. \A x, y \in Int : x \in x .. y + 1 => x <= y + 1
      OBVIOUS
    <3> QED
      BY <3>2, <3>4, <3>5, Zenon
  <2> QED
    BY <2>1, <2>2, AddsNone DEF SumsInv
<1>2. CASE Sum
  <2>0. /\ from \in Int /\ to \in Int /\ i \in from .. to + 1 /\ i <= to
        /\ from >= 0 /\ to <= Len - 1
    BY <1>2, AnalyzeAssumption DEF IInv, TypeOK, WindowInv, Index, Sum
  <2>1. /\ i \in from .. to /\ i \in Index /\ from \in Int /\ to \in Int
        /\ from' = from /\ to' = to /\ block' = block /\ i' = i + 1
        /\ sum' = sum + (block[i] - Zero)
        /\ squares' = squares + (block[i] - Zero) * (block[i] - Zero)
    BY <1>2, <2>0, AnalyzeAssumption DEF Index, Sum
  <2>2. /\ Adds(Deviations, from, to, i, sum)
        /\ Adds(Squares, from, to, i, squares)
    BY <1>2 DEF SumsInv, Sum
  <2>3. /\ sum' = sum + Deviations[i] /\ squares' = squares + Squares[i]
        /\ Deviations' = Deviations /\ Squares' = Squares
    BY <2>1 DEF Deviations, Squares
  <2>4. /\ Adds(Deviations, from, to, i + 1, sum + Deviations[i])
        /\ Adds(Squares, from, to, i + 1, squares + Squares[i])
    BY <2>1, <2>2, AddsOne
  <2> QED
    BY <2>1, <2>3, <2>4 DEF SumsInv
<1>3. CASE SumDone \/ UNCHANGED vars
  <2>1. /\ pc' \in {"sum", "done"} => pc \in {"sum", "done"}
        /\ from' = from /\ to' = to /\ i' = i /\ sum' = sum /\ squares' = squares
        /\ Deviations' = Deviations /\ Squares' = Squares
    BY <1>3 DEF SumDone, vars, sums, Deviations, Squares
  <2> QED
    BY <2>1 DEF SumsInv
<1>4. CASE \/ Extremes \/ ExtremesDone \/ Rise \/ NoRise \/ Judge \/ Return
           \/ \E b \in [Index -> Samples] : Call(b)
  <2>1. pc' \notin {"sum", "done"}
    BY <1>4 DEF Extremes, ExtremesDone, Rise, NoRise, Judge, Return, Call
  <2> QED
    BY <2>1 DEF SumsInv
<1> QED
  BY <1>1, <1>2, <1>3, <1>4 DEF Next, Analyze

\* What a finished measurement has found is what the block holds: its extremes,
\* its first and last edge, and the exact sums from one to the other
\* (adc_control.c:302-359, 377-427 and 516-535).
THEOREM BlockIsMeasured == Spec => []MeasuresBlock
<1>1. Init => SumsInv
  BY DEF Init, SumsInv
<1>2. IInv /\ SumsInv => MeasuresBlock
  <2> SUFFICES ASSUME IInv, SumsInv, pc = "done" PROVE MeasuresBlock
    BY DEF MeasuresBlock
  <2>1. ExtremesOf(Len - 1) /\ EdgesBefore(Len - 1)
    BY DEF IInv, LoopInv
  <2>2. \A k \in Crossings : k \in 3 .. Len - 2
    BY DEF Crossings
  <2>3. \A k \in Crossings : first_edging_index \in 3 .. k /\ k <= last_edging_index
    BY <2>1, <2>2, AnalyzeAssumption DEF EdgesBefore
  <2>4. first_edging_index = -1 <=> Crossings = {}
    <3>1. CASE first_edging_index = -1
      BY <2>2, <2>3, <3>1, AnalyzeAssumption
    <3>2. CASE first_edging_index # -1
      BY <2>1, <3>2 DEF EdgesBefore
    <3> QED
      BY <3>1, <3>2
  <2>5. Crossings # {} => {first_edging_index, last_edging_index} \subseteq Crossings
    BY <2>1, <2>4 DEF EdgesBefore
  <2>6. IF ACDCType = "AC" /\ Crossings # {}
        THEN from = first_edging_index /\ to = last_edging_index
        ELSE from = 0 /\ to = Len - 1
    <3>1. CASE from = 0 /\ to = Len - 1 /\ (ACDCType = "AC" => first_edging_index = -1)
      BY <2>4, <3>1
    <3>2. CASE /\ from = first_edging_index /\ to = last_edging_index /\ from # -1
               /\ ACDCType = "AC"
      BY <2>4, <3>2
    <3> QED
      BY <3>1, <3>2 DEF IInv, WindowInv
  <2>7. \A k \in Seen : sampled_min <= block[k] /\ block[k] <= sampled_max
    BY <2>1 DEF ExtremesOf, Seen
  <2>8. \A k \in Crossings : first_edging_index <= k /\ k <= last_edging_index
    BY <2>2, <2>3
  <2>9. {sampled_min, sampled_max} \subseteq {block[k] : k \in Seen}
    <3>1. \A k \in Seen : block[k] \in 0 .. (Beyond - 1)
      BY SampleType DEF IInv, Seen, Index
    <3>2. 3 \in Seen /\ \E k \in Seen : sampled_min = block[k]
      BY <2>1, AnalyzeAssumption DEF ExtremesOf, Seen
    <3>3. \E k \in Seen : sampled_max = block[k]
      <4>1. CASE sampled_max = 0
        <5>1. block[3] \in 0 .. (Beyond - 1) /\ block[3] <= 0
          BY <2>7, <3>1, <3>2, <4>1
        <5>2. block[3] = 0
          BY <5>1, AnalyzeAssumption
        <5> QED
          BY <3>2, <4>1, <5>2
      <4>2. CASE sampled_max # 0
        BY <2>1, <4>2, AnalyzeAssumption DEF ExtremesOf, Seen
      <4> QED
        BY <4>1, <4>2
    <3> QED
      BY <3>2, <3>3
  <2>10. sum = Total(Deviations, from, to) /\ squares = Total(Squares, from, to)
    <3>1. i = to + 1 /\ from \in Int /\ to \in Int /\ from <= to + 1
      BY DEF IInv, WindowInv, TypeOK, Index
    <3> QED
      BY <3>1, AddsTotal DEF SumsInv
  <2> QED
    BY <2>5, <2>6, <2>7, <2>8, <2>9, <2>10 DEF MeasuresBlock
<1> QED
  BY <1>1, <1>2, SumsKept, AnalysisInvariant, PTL DEF Spec

\* The average is divided by zero for one kind of block only
\* (adc_control.c:352).
THEOREM DivisorIsZero == Spec => []OneEdgeOnly
<1>1. IInv => OneEdgeOnly
  <2> SUFFICES ASSUME IInv, pc = "done" PROVE OneEdgeOnly
    BY DEF OneEdgeOnly
  <2>1. EdgesBefore(Len - 1)
    BY DEF IInv, LoopInv
  <2>2. \A k \in Crossings : k \in 3 .. Len - 2
    BY DEF Crossings
  <2>3. \A k \in Crossings : first_edging_index \in 3 .. k /\ k <= last_edging_index
    BY <2>1, <2>2, AnalyzeAssumption DEF EdgesBefore
  <2>4. /\ from \in Int /\ to \in Int
        /\ first_edging_index \in Int /\ last_edging_index \in Int
    BY AnalyzeAssumption DEF IInv, TypeOK, Index
  <2>5. ASSUME ~AverageDefined
        PROVE  ACDCType = "AC" /\ \E k \in Crossings : Crossings = {k}
    <3>1. from = to
      BY <2>4, <2>5 DEF AverageDefined, cnt
    <3>2. from = first_edging_index /\ to = last_edging_index /\ from # -1 /\ ACDCType = "AC"
      BY <3>1, AnalyzeAssumption DEF IInv, WindowInv
    <3>3. from \in Crossings
      BY <2>1, <3>2 DEF EdgesBefore
    <3>4. \A k \in Crossings : k = from
      <4> TAKE k \in Crossings
      <4>1. k \in Int /\ first_edging_index <= k /\ k <= last_edging_index
        BY <2>2, <2>3
      <4>2. from \in Int /\ from <= k /\ k <= from
        BY <2>4, <3>1, <3>2, <4>1
      <4> QED
        BY <4>1, <4>2
    <3> QED
      BY <3>2, <3>3, <3>4
  <2>6. ASSUME ACDCType = "AC", NEW k \in Crossings, Crossings = {k}
        PROVE  ~AverageDefined
    <3>1. first_edging_index # -1
      BY <2>2, <2>3
    <3>2. first_edging_index = k /\ last_edging_index = k
      BY <2>1, <2>6, <3>1 DEF EdgesBefore
    <3>3. from = to
      BY <2>6, <3>1, <3>2 DEF IInv, WindowInv
    <3> QED
      BY <2>4, <3>3 DEF AverageDefined, cnt
  <2> QED
    BY <2>5, <2>6 DEF OneEdgeOnly
<1> QED
  BY <1>1, AnalysisInvariant, PTL

\* GOOD is lost with the first block that leaves the range, for good
\* (adc_control.c:446-463).
THEOREM GoodNeverReturns == Spec => []GoodIsSticky
<1>1. IInv => GoodIsSticky
  BY DEF IInv, FlagInv, GoodIsSticky
<1> QED
  BY <1>1, AnalysisInvariant, PTL
===============================================================================
