----------------------------- MODULE WaveAnalyze -----------------------------
(***************************************************************************)
(* The measurement of a block (adc_control.c: WaveformDataAnalyze with     *)
(* RmS_RawWaveform and Average_RawWaveformRawWaveform), one action per     *)
(* pass of a loop.  Extremes and edges are looked for from the fourth      *)
(* sample on; the sums run over the samples between the first and the last *)
(* rising edge when the meter reports a frequency, and over the whole      *)
(* block when it does not.                                                 *)
(*                                                                         *)
(* The block does not change meanwhile (AdcSampling!BufferExclusive).  The *)
(* meter's interrupt may change the frequency at any time, and it is read  *)
(* once.  Volts are left out: a result is its sum and its divisor.         *)
(***************************************************************************)
EXTENDS Integers

CONSTANTS Len,      \* buf_length, ADC_BUFFER_SIZE
          Samples,  \* values of the ADC
          Beyond,   \* 4096, above every value of the ADC
          Zero,     \* ADC_MID + integer_bias
          High, Low \* HIGH_VALUE_CRITERIA, LOW_VALUE_EDGES_CRITERIA

ASSUME AnalyzeAssumption ==
  /\ Len \in Nat /\ Len >= 4
  /\ Beyond \in Nat /\ Samples \subseteq 0 .. (Beyond - 1) /\ Samples # {}
  /\ Zero \in Int
  /\ High \in Nat /\ Low \in Nat

VARIABLES
  block,                       \* pbuffer, <<>> between two calls
  pc, i,                       \* the loop and its index
  sampled_max, sampled_min,
  cnt_of_risedge, first_edging_index, last_edging_index,
  dots_per_edges,              \* -1 for 0xFFFF
  HIGH, LOW, GOOD,             \* of wave->Evalue
  ACDCType,                    \* of wave, "UNKNOWN" before the first block
  from, to,                    \* the indices the sums run over
  sum, squares,
  clipped                      \* a block has left the range

extremes == <<sampled_max, sampled_min>>
edges    == <<cnt_of_risedge, first_edging_index, last_edging_index>>
evalue   == <<HIGH, LOW, GOOD, clipped>>
sums     == <<from, to, sum, squares>>
stats    == <<dots_per_edges, evalue, ACDCType>>
vars     == <<block, pc, i, extremes, edges, stats, sums>>

Index == 0 .. Len - 1

\* Locals between two calls.
NoLocals ==
  /\ block' = <<>>
  /\ i' = 0 /\ from' = 0 /\ to' = 0 /\ sum' = 0 /\ squares' = 0
  /\ cnt_of_risedge' = 0 /\ first_edging_index' = -1 /\ last_edging_index' = -1

Init ==
  /\ block = <<>>
  /\ pc = "idle" /\ i = 0
  /\ sampled_max = 0 /\ sampled_min = 0
  /\ cnt_of_risedge = 0 /\ first_edging_index = -1 /\ last_edging_index = -1
  /\ dots_per_edges = 0
  /\ HIGH = FALSE /\ LOW = FALSE /\ GOOD = FALSE /\ clipped = FALSE
  /\ ACDCType = "UNKNOWN"
  /\ from = 0 /\ to = 0 /\ sum = 0 /\ squares = 0

\* RegularMeasure is called with a block.
Call(b) ==
  /\ pc = "idle"
  /\ block' = b
  /\ pc' = "extremes" /\ i' = 3
  /\ sampled_max' = 0 /\ sampled_min' = Beyond
  /\ UNCHANGED <<edges, stats, sums>>

-----------------------------------------------------------------------------
(* Extremes and edges.                                                     *)

\* Bug: the first value that is seen is only taken as the largest.
Extremes_Either ==
  /\ pc = "extremes" /\ i < Len
  /\ IF block[i] > sampled_max
     THEN sampled_max' = block[i] /\ UNCHANGED sampled_min
     ELSE /\ sampled_min' = IF block[i] < sampled_min THEN block[i] ELSE sampled_min
          /\ UNCHANGED sampled_max
  /\ i' = i + 1
  /\ UNCHANGED <<block, pc, edges, stats, sums>>

Extremes ==
  /\ pc = "extremes" /\ i < Len
  /\ sampled_max' = IF block[i] > sampled_max THEN block[i] ELSE sampled_max
  /\ sampled_min' = IF block[i] < sampled_min THEN block[i] ELSE sampled_min
  /\ i' = i + 1
  /\ UNCHANGED <<block, pc, edges, stats, sums>>

trig_voltage == (sampled_max + sampled_min) \div 2

ExtremesDone ==
  /\ pc = "extremes" /\ i >= Len
  /\ pc' = "edges" /\ i' = 3
  /\ UNCHANGED <<block, extremes, edges, stats, sums>>

Rises(k) == block[k] <= trig_voltage /\ block[k + 1] > trig_voltage

\* Bug: an edge is placed at the sample after it.
Rise_Late ==
  /\ pc = "edges" /\ i < Len - 1 /\ Rises(i)
  /\ cnt_of_risedge' = cnt_of_risedge + 1
  /\ first_edging_index' = IF first_edging_index = -1 THEN i ELSE first_edging_index
  /\ last_edging_index' = i + 1
  /\ i' = i + 1
  /\ UNCHANGED <<block, pc, extremes, stats, sums>>

Rise ==
  /\ pc = "edges" /\ i < Len - 1 /\ Rises(i)
  /\ cnt_of_risedge' = cnt_of_risedge + 1
  /\ first_edging_index' = IF first_edging_index = -1 THEN i ELSE first_edging_index
  /\ last_edging_index' = i
  /\ i' = i + 1
  /\ UNCHANGED <<block, pc, extremes, stats, sums>>

NoRise ==
  /\ pc = "edges" /\ i < Len - 1 /\ ~Rises(i)
  /\ i' = i + 1
  /\ UNCHANGED <<block, pc, extremes, edges, stats, sums>>

-----------------------------------------------------------------------------
(* Flags, and the samples that are summed.                                 *)

TooHigh == sampled_max > High
TooLow  == sampled_min < Low

\* Bug (what the commented call of InitializeWaveformStats did): each block
\* begins with clear flags.
Judge_Clears ==
  /\ pc = "edges" /\ i >= Len - 1
  /\ cnt_of_risedge' = IF cnt_of_risedge = 0 THEN 1 ELSE cnt_of_risedge
  /\ dots_per_edges' = IF first_edging_index # -1
                       THEN (last_edging_index - first_edging_index) \div cnt_of_risedge
                       ELSE -1
  /\ HIGH' = TooHigh /\ LOW' = TooLow
  /\ GOOD' = ~(HIGH' \/ LOW')
  /\ clipped' = (clipped \/ TooHigh \/ TooLow)
  /\ pc' = "window"
  /\ UNCHANGED <<block, i, extremes, first_edging_index, last_edging_index, ACDCType, sums>>

\* HIGH and LOW are set and never cleared.
Judge ==
  /\ pc = "edges" /\ i >= Len - 1
  /\ cnt_of_risedge' = IF cnt_of_risedge = 0 THEN 1 ELSE cnt_of_risedge
  /\ dots_per_edges' = IF first_edging_index # -1
                       THEN (last_edging_index - first_edging_index) \div cnt_of_risedge
                       ELSE -1
  /\ HIGH' = (HIGH \/ TooHigh) /\ LOW' = (LOW \/ TooLow)
  /\ GOOD' = ~(HIGH' \/ LOW')
  /\ clipped' = (clipped \/ TooHigh \/ TooLow)
  /\ pc' = "window"
  /\ UNCHANGED <<block, i, extremes, first_edging_index, last_edging_index, ACDCType, sums>>

\* Bug: a block without an edge is summed from the index of the first edge.
WindowAC_NoEdge ==
  /\ pc = "window"
  /\ from' = first_edging_index /\ to' = last_edging_index
  /\ i' = from'
  /\ sum' = 0 /\ squares' = 0
  /\ ACDCType' = "AC"
  /\ pc' = "sum"
  /\ UNCHANGED <<block, extremes, edges, dots_per_edges, evalue>>

\* wave->freq > 10.
WindowAC ==
  /\ pc = "window"
  /\ from' = IF first_edging_index = -1 THEN 0 ELSE first_edging_index
  /\ to' = IF last_edging_index = -1 THEN Len - 1 ELSE last_edging_index
  /\ i' = from'
  /\ sum' = 0 /\ squares' = 0
  /\ ACDCType' = "AC"
  /\ pc' = "sum"
  /\ UNCHANGED <<block, extremes, edges, dots_per_edges, evalue>>

WindowDC ==
  /\ pc = "window"
  /\ from' = 0 /\ to' = Len - 1
  /\ i' = 0
  /\ sum' = 0 /\ squares' = 0
  /\ ACDCType' = "DC"
  /\ pc' = "sum"
  /\ UNCHANGED <<block, extremes, edges, dots_per_edges, evalue>>

\* Both functions sum over the same indices, and both ends are included.
Sum ==
  /\ pc = "sum" /\ i <= to
  /\ LET v == block[i] - Zero
     IN  sum' = sum + v /\ squares' = squares + v * v
  /\ i' = i + 1
  /\ UNCHANGED <<block, pc, extremes, edges, stats, from, to>>

SumDone ==
  /\ pc = "sum" /\ i > to
  /\ pc' = "done"
  /\ UNCHANGED <<block, i, extremes, edges, stats, sums>>

cnt == to - from

\* The average divides by cnt, the mean of the squares by 1 if this is 0.
AverageDefined == cnt # 0

Return ==
  /\ pc = "done"
  /\ pc' = "idle"
  /\ NoLocals
  /\ UNCHANGED <<extremes, stats>>

Analyze ==
  \/ Extremes \/ ExtremesDone
  \/ Rise \/ NoRise \/ Judge
  \/ WindowAC \/ WindowDC
  \/ Sum \/ SumDone \/ Return

Next == Analyze \/ \E b \in [Index -> Samples] : Call(b)

Spec == Init /\ [][Next]_vars

-----------------------------------------------------------------------------

Seen      == 3 .. Len - 1
Crossings == {k \in 3 .. Len - 2 : Rises(k)}

\* term[a] + ... + term[b].
Total(term, a, b) ==
  LET upTo[k \in a - 1 .. b] == IF k < a THEN 0 ELSE upTo[k - 1] + term[k]
  IN  upTo[b]

Deviations == [k \in Index |-> block[k] - Zero]
Squares    == [k \in Index |-> (block[k] - Zero) * (block[k] - Zero)]

\* Types of the variables: the indices that are summed lie in the block, and
\* the extremes are values of the ADC or what they start from.
TypeOK ==
  /\ block \in [Index -> Samples] \/ pc = "idle"
  /\ pc \in {"idle", "extremes", "edges", "window", "sum", "done"}
  /\ i \in 0 .. Len
  /\ sampled_max \in 0 .. (Beyond - 1) /\ sampled_min \in 0 .. Beyond
  /\ cnt_of_risedge \in 0 .. Len
  /\ first_edging_index \in -1 .. Len - 2 /\ last_edging_index \in -1 .. Len - 2
  /\ ACDCType \in {"UNKNOWN", "DC", "AC"}
  /\ from \in Index /\ to \in Index

\* The extremes are those of the samples seen so far.
ExtremesOf(n) ==
  /\ \A k \in 3 .. n : sampled_min <= block[k] /\ block[k] <= sampled_max
  /\ IF n < 3
     THEN sampled_min = Beyond /\ sampled_max = 0
     ELSE /\ \E k \in 3 .. n : sampled_min = block[k]
          /\ sampled_max = 0 \/ \E k \in 3 .. n : sampled_max = block[k]

\* The indices are those of the first and the last crossing before n.
EdgesBefore(n) ==
  /\ \A k \in Crossings : k < n => /\ first_edging_index \in 3 .. k
                                   /\ k <= last_edging_index
  /\ first_edging_index = -1 <=> last_edging_index = -1
  /\ first_edging_index # -1 =>
       /\ first_edging_index \in Crossings /\ last_edging_index \in Crossings
       /\ first_edging_index <= last_edging_index /\ last_edging_index < n

\* A single crossing is counted once.
CountInv ==
  /\ pc \in {"idle", "extremes"} => first_edging_index = -1 /\ last_edging_index = -1
  /\ pc \in {"idle", "extremes"} => cnt_of_risedge = 0
  /\ pc = "edges" =>
    /\ cnt_of_risedge = 0 <=> first_edging_index = -1
    /\ cnt_of_risedge = 1 <=> first_edging_index # -1 /\ first_edging_index = last_edging_index
    /\ cnt_of_risedge <= i - 3

LoopInv ==
  /\ pc = "extremes" => i >= 3 /\ ExtremesOf(i - 1)
  /\ pc = "edges" => i \in 3 .. Len - 1 /\ ExtremesOf(Len - 1) /\ EdgesBefore(i)
  /\ pc \in {"window", "sum", "done"} => ExtremesOf(Len - 1) /\ EdgesBefore(Len - 1)

WindowInv ==
  pc \in {"sum", "done"} =>
    /\ i \in from .. to + 1 /\ (pc = "done" => i = to + 1)
    /\ \/ from = 0 /\ to = Len - 1 /\ (ACDCType = "AC" => first_edging_index = -1)
       \/ /\ from = first_edging_index /\ to = last_edging_index /\ from # -1
          /\ ACDCType = "AC"

FlagInv ==
  /\ clipped <=> HIGH \/ LOW
  /\ pc \in {"window", "sum", "done"} => (GOOD <=> ~clipped)

IInv == TypeOK /\ LoopInv /\ CountInv /\ WindowInv /\ FlagInv

\* What the measurement of a block has found when it is done: the smallest and
\* the largest of the samples it has seen, both of them samples, and the first
\* and the last place where they rise above the middle; it has summed the
\* deviations and their squares from one to the other or over the whole block.
MeasuresBlock ==
  pc = "done" =>
    /\ \A k \in Seen : sampled_min <= block[k] /\ block[k] <= sampled_max
    /\ {sampled_min, sampled_max} \subseteq {block[k] : k \in Seen}
    /\ \A k \in Crossings : first_edging_index <= k /\ k <= last_edging_index
    /\ Crossings # {} => {first_edging_index, last_edging_index} \subseteq Crossings
    /\ IF ACDCType = "AC" /\ Crossings # {}
       THEN from = first_edging_index /\ to = last_edging_index
       ELSE from = 0 /\ to = Len - 1
    /\ sum = Total(Deviations, from, to)
    /\ squares = Total(Squares, from, to)

\* The average is a division by zero exactly when a frequency is reported and
\* the block rises once (adc_control.c:352).
OneEdgeOnly ==
  pc = "done" =>
    (~AverageDefined <=> ACDCType = "AC" /\ \E k \in Crossings : Crossings = {k})

\* GOOD is about every block since the start and not about the last one: the
\* flags it is made of are never cleared (adc_control.c:446).
GoodIsSticky == pc = "done" => (GOOD <=> ~clipped)
===============================================================================
