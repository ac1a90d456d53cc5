-------------------------- MODULE GainChange_proofs --------------------------
(***************************************************************************)
(* Results after a change of the gain, for any gains in use and any number *)
(* of block numbers: from the third one on they are of the gain that is    *)
(* set.                                                                    *)
(***************************************************************************)
EXTENDS GainChange, SequenceTheorems, TLAPS

\* Three blocks in a row have different numbers, since there are five or more.
LEMMA Succession ==
  ASSUME NEW b \in Q!Ids
  PROVE  /\ Q!Succ(b) \in Q!Ids /\ Q!Succ(b) # b
         /\ Q!Succ(Q!Succ(b)) \in Q!Ids /\ Q!Succ(Q!Succ(b)) # b
         /\ Q!Succ(Q!Succ(b)) # Q!Succ(b)
         /\ Q!Succ(Q!Succ(Q!Succ(b))) # b
BY GainAssumption DEF Q!Succ, Q!Ids

\* Each gain has two pins of its own.
LEMMA PinsType ==
  ASSUME NEW g \in Gains
  PROVE  /\ Pins(g) \in AllPins
         /\ Pins(g) = <<Pins(g)[1], Pins(g)[2]>>
         /\ Pins(g)[1] \in {0, 1} /\ Pins(g)[2] \in {0, 1}
<1>1. g \in {"10x", "1x", "2x", "5x"}
  BY GainAssumption
<1>2. Pins(g) \in {<<0, 0>>, <<1, 0>>, <<1, 1>>, <<0, 1>>}
  BY <1>1 DEF Pins
<1> QED
  BY <1>2 DEF AllPins

\* What a length of at most two is.
LEMMA UpToTwo ==
  ASSUME NEW n \in Nat, n <= 2
  PROVE  n = 0 \/ n = 1 \/ n = 2
OBVIOUS

\* A sequence of two elements, and how one becomes it.
LEMMA TwoElements ==
  ASSUME NEW S, NEW s \in Seq(S), Len(s) = 2
  PROVE  s = <<s[1], s[2]>>
OBVIOUS

\* A block behind one that waits.
LEMMA AppendOne ==
  ASSUME NEW S, NEW s \in Seq(S), Len(s) = 1, NEW b \in S
  PROVE  Append(s, b) = <<s[1], b>>
<1> DEFINE u == Append(s, b)
<1>1. u \in Seq(S) /\ Len(u) = 2
  OBVIOUS
<1>2. u[1] = s[1] /\ u[2] = b
  <2>1. (\A k \in 1 .. Len(s) : u[k] = s[k]) /\ u[Len(s) + 1] = b
    BY AppendProperties
  <2>2. 1 \in 1 .. Len(s) /\ Len(s) + 1 = 2
    OBVIOUS
  <2> QED
    BY <2>1, <2>2, Zenon
<1> HIDE DEF u
<1>3. u = <<u[1], u[2]>>
  BY <1>1, TwoElements
<1>4. u = <<s[1], b>>
  BY <1>2, <1>3
<1> QED
  BY <1>4 DEF u

\* The queue holds none, one or two blocks, ...
LEMMA QueueShape ==
  ASSUME TypeOK
  PROVE  \/ queue = <<>> /\ Len(queue) = 0 /\ Queued = {}
         \/ \E a \in Q!Ids :
              queue = <<a>> /\ Len(queue) = 1 /\ Queued = {a} /\ Head(queue) = a
         \/ \E a, b \in Q!Ids :
              /\ queue = <<a, b>> /\ Len(queue) = 2 /\ Queued = {a, b}
              /\ Head(queue) = a
<1>1. queue \in Seq(Q!Ids) /\ (Len(queue) = 0 \/ Len(queue) = 1 \/ Len(queue) = 2)
  <2>1. queue \in Seq(Q!Ids)
    BY DEF TypeOK
  <2>2. Len(queue) \in Nat
    BY <2>1
  <2>3. Len(queue) <= 2
    BY DEF TypeOK
  <2> QED
    BY <2>1, <2>2, <2>3, UpToTwo, Zenon
<1>2. CASE Len(queue) = 0
  BY <1>1, <1>2 DEF Queued
<1>3. CASE Len(queue) = 1
  <2>1. queue[1] \in Q!Ids /\ queue = <<queue[1]>> /\ Head(queue) = queue[1]
    BY <1>1, <1>3
  <2>2. Queued = {queue[1]}
    BY <1>1, <1>3 DEF Queued
  <2> QED
    BY <1>3, <2>1, <2>2
<1>4. CASE Len(queue) = 2
  <2>1. /\ queue[1] \in Q!Ids /\ queue[2] \in Q!Ids
        /\ queue = <<queue[1], queue[2]>> /\ Head(queue) = queue[1]
    BY <1>1, <1>4
  <2>2. Queued = {queue[1], queue[2]}
    BY <1>1, <1>4 DEF Queued
  <2> QED
    BY <1>4, <2>1, <2>2
<1> QED
  BY <1>1, <1>2, <1>3, <1>4

\* ... all different, and different from the one that is captured.
LEMMA Distinct ==
  ASSUME TypeOK, QueueInv
  PROVE  /\ Len(queue) = 2 => queue[1] # queue[2]
         /\ Len(queue) < 2 => next \notin Queued
<1>1. CASE Len(queue) = 2
  BY <1>1, Succession, QueueShape DEF QueueInv
<1>2. CASE Len(queue) < 2
  BY <1>2, Succession, QueueShape DEF QueueInv
<1> QED
  BY <1>1, <1>2 DEF TypeOK

\* ADCHandleTaskFunction has set the gain 10x and measures nothing.
LEMMA InitIInv == Init => IInv
<1> SUFFICES ASSUME Init PROVE IInv
  OBVIOUS
<1> USE GainAssumption DEF Init, Q!Init
<1>1. TypeOK
  <2>1. "10x" \in Gains /\ Pins("10x") \in AllPins
    BY PinsType
  <2>2. next \in Q!Ids
    BY DEF Q!Ids
  <2>3. queue \in Seq(Q!Ids) /\ Len(queue) <= 2
    OBVIOUS
  <2>4. cfg \in [Tasks -> {"idle", "pinA", "pinB", "level"}] /\ gain \in [Tasks -> Gains]
    BY <2>1
  <2>5. since \in 0 .. Late
    OBVIOUS
  <2>6. shot \in [Q!Ids -> SUBSET AllPins]
    OBVIOUS
  <2> QED
    BY <2>1, <2>2, <2>3, <2>4, <2>5, <2>6 DEF TypeOK
<1>2. QueueInv
  BY DEF QueueInv
<1>3. MeasureInv
  BY DEF MeasureInv, Queued, InFlight
<1>4. ConfigInv
  BY DEF ConfigInv, Tasks, Steady
<1>5. OldInv
  BY DEF OldInv, InFlight, Queued
<1> QED
  BY <1>1, <1>2, <1>3, <1>4, <1>5 DEF IInv

\* A sample is taken: DMA and converter run while the tasks do.
LEMMA SampleKeepsIInv == IInv /\ Sample => IInv'
<1> SUFFICES ASSUME IInv, Sample PROVE IInv'
  OBVIOUS
<1> USE DEF IInv
<1>1. /\ capturing /\ next \in Q!Ids /\ Len(queue) < 2
      /\ UNCHANGED <<capturing, next, queue, delivered, config, measurement, since>>
      /\ shot' = [shot EXCEPT ![next] = IF @ \subseteq {pins} THEN {pins} ELSE AllPins]
  BY DEF Sample, TypeOK, QueueInv
<1>2. UNCHANGED <<pins, gain_level, cfg, gain, torn, measured, read>>
  BY <1>1 DEF config, measurement
<1>3. shot'[next] # {} /\ next \in InFlight
  BY <1>1 DEF TypeOK, AllPins, InFlight
<1>4. \A b \in Q!Ids \ {next} : shot'[b] = shot[b]
  BY <1>1 DEF TypeOK
<1>5. TypeOK'
  BY <1>1, <1>2 DEF TypeOK
<1>6. QueueInv'
  BY <1>1 DEF QueueInv
<1>7. Queued' = Queued /\ InFlight' = InFlight /\ Queued \subseteq Q!Ids
  BY <1>1, QueueShape DEF Queued, InFlight
<1>8. MeasureInv'
  BY <1>1, <1>2, <1>3, <1>4, <1>7 DEF MeasureInv, Waiting
<1>9. ConfigInv'
  BY <1>1, <1>2 DEF ConfigInv, Steady
<1>10. OldInv'
  <2> SUFFICES ASSUME Steady, ~torn PROVE OldInv'
    BY <1>2 DEF OldInv, Steady
  <2>1. pins = Pins(gain_level)
    BY DEF ConfigInv
  <2>2. Old(next)' => Old(next)
    BY <1>1, <1>2, <2>1 DEF Old, TypeOK
  <2>3. \A b \in Q!Ids : Old(b)' => Old(b)
    BY <1>1, <1>2, <1>4, <2>2 DEF Old
  <2>4. InFlight \subseteq Q!Ids
    BY <1>1, <1>7 DEF InFlight
  <2> QED
    BY <1>1, <1>2, <1>7, <2>3, <2>4 DEF OldInv
<1> QED
  BY <1>5, <1>6, <1>8, <1>9, <1>10

\* A block is begun: it has no samples yet.
LEMMA BeginKeepsIInv == IInv /\ Begin => IInv'
<1> SUFFICES ASSUME IInv, Begin PROVE IInv'
  OBVIOUS
<1> USE DEF IInv
<1>1. /\ ~capturing /\ capturing' = TRUE /\ Len(queue) < 2
      /\ next \in Q!Ids
      /\ UNCHANGED <<next, queue, delivered, shot, pins, gain_level, cfg, gain, torn,
                     measured, read, since>>
  BY DEF Begin, Q!Begin, config, measurement, TypeOK
<1>2. TypeOK'
  BY <1>1 DEF TypeOK
<1>3. QueueInv'
  <2>1. Len(queue) = 0 \/ Len(queue) = 1
    BY <1>1, QueueShape
  <2> QED
    BY <1>1, <2>1 DEF QueueInv
<1>4. /\ Queued' = Queued /\ Queued \subseteq Q!Ids
      /\ InFlight = Queued /\ InFlight' = Queued \cup {next}
  BY <1>1, QueueShape DEF Queued, InFlight
<1>5. next \notin Queued /\ shot[next] = {}
  BY <1>1, <1>4, Distinct DEF MeasureInv
<1>6. MeasureInv'
  BY <1>1, <1>4, <1>5 DEF MeasureInv, Waiting
<1>7. ConfigInv'
  BY <1>1 DEF ConfigInv, Steady
<1>8. OldInv'
  <2>1. \A b \in Q!Ids : Old(b)' <=> Old(b)
    BY <1>1 DEF Old
  <2>2. ~Old(next)
    BY <1>5 DEF Old
  <2> QED
    BY <1>1, <1>4, <2>1, <2>2 DEF OldInv, Steady
<1> QED
  BY <1>2, <1>3, <1>6, <1>7, <1>8

\* The block that is captured is full and waits.
LEMMA CompleteKeepsIInv == IInv /\ Complete => IInv'
<1> SUFFICES ASSUME IInv, Complete PROVE IInv'
  OBVIOUS
<1> USE DEF IInv
<1>1. /\ capturing /\ capturing' = FALSE /\ next' = Q!Succ(next)
      /\ queue' = Append(queue, next) /\ shot[next] # {}
      /\ next \in Q!Ids /\ queue \in Seq(Q!Ids)
      /\ UNCHANGED <<delivered, shot, pins, gain_level, cfg, gain, torn,
                     measured, read, since>>
  BY DEF Complete, Q!Complete, config, measurement, TypeOK
<1>2. \/ queue = <<>> /\ queue' = <<next>> /\ Queued = {}
      \/ \E a \in Q!Ids :
           /\ queue = <<a>> /\ queue' = <<a, next>> /\ Queued = {a} /\ a # next
           /\ \/ next = Q!Succ(a)
              \/ next = Q!Succ(Q!Succ(a)) /\ delivered = {Q!Succ(a)}
  <2>1. Len(queue) < 2
    BY <1>1, QueueShape DEF QueueInv
  <2>2. next \notin Queued
    BY <2>1, Distinct
  <2>3. CASE queue = <<>> /\ Queued = {}
    BY <1>1, <2>3
  <2>4. ASSUME NEW a \in Q!Ids, queue = <<a>>, Len(queue) = 1, Queued = {a}
        PROVE  /\ queue' = <<a, next>> /\ a # next
               /\ \/ next = Q!Succ(a)
                  \/ next = Q!Succ(Q!Succ(a)) /\ delivered = {Q!Succ(a)}
    <3>1. queue[1] = a /\ Append(queue, next) = <<queue[1], next>>
      BY <1>1, <2>4, AppendOne
    <3>2. \/ next = Q!Succ(queue[1])
          \/ next = Q!Succ(Q!Succ(queue[1])) /\ delivered = {Q!Succ(queue[1])}
      BY <2>4 DEF QueueInv
    <3> QED
      BY <1>1, <2>2, <2>4, <3>1, <3>2
  <2> QED
    BY <2>1, <2>3, <2>4, QueueShape
<1>3. TypeOK'
  <2>1. next' \in Q!Ids
    BY <1>1, Succession
  <2>2. queue' \in Seq(Q!Ids) /\ Len(queue') <= 2
    BY <1>1, <1>2
  <2> QED
    BY <1>1, <2>1, <2>2 DEF TypeOK
<1>4. QueueInv'
  BY <1>1, <1>2 DEF QueueInv
<1>5. Queued' = Queued \cup {next} /\ InFlight = Queued \cup {next} /\ InFlight' = InFlight
  <2>1. Queued' = Queued \cup {next}
    <3>1. CASE queue = <<>> /\ queue' = <<next>> /\ Queued = {}
      BY <3>1 DEF Queued
    <3>2. ASSUME NEW a \in Q!Ids, queue' = <<a, next>>, Queued = {a}
          PROVE  Queued' = Queued \cup {next}
      BY <3>2 DEF Queued
    <3> QED
      BY <1>2, <3>1, <3>2
  <2> QED
    BY <1>1, <2>1 DEF InFlight
<1>6. MeasureInv'
  <2>1. \A b \in measured : Waiting(b)'
    BY <1>1, <1>2 DEF MeasureInv, Waiting
  <2> QED
    BY <1>1, <1>5, <2>1 DEF MeasureInv
<1>7. ConfigInv'
  BY <1>1 DEF ConfigInv, Steady
<1>8. OldInv'
  <2> SUFFICES ASSUME Steady, ~torn, NEW b \in InFlight, Old(b)
               PROVE  /\ since >= 1 => b \notin {queue'[k] : k \in 2 .. Len(queue')}
                                       /\ b \in Queued'
                      /\ since >= 2 => b \in Queued /\ delivered = {Q!Succ(b)}
                      /\ since < 3
    BY <1>1, <1>5 DEF OldInv, Steady, Old
  <2>1. /\ since >= 1 => b \in Queued \/ queue = <<>>
        /\ since >= 2 => b \in Queued /\ delivered = {Q!Succ(b)}
        /\ since < 3
    BY DEF OldInv
  <2>2. ASSUME since >= 1 PROVE b \notin {queue'[k] : k \in 2 .. Len(queue')}
    <3>1. CASE queue = <<>> /\ queue' = <<next>>
      BY <3>1
    <3>2. ASSUME NEW a \in Q!Ids, queue = <<a>>, queue' = <<a, next>>, Queued = {a}, a # next
          PROVE  b \notin {queue'[k] : k \in 2 .. Len(queue')}
      <4>1. b = a
        BY <2>1, <2>2, <3>2
      <4>2. {queue'[k] : k \in 2 .. Len(queue')} = {next}
        BY <3>2
      <4> QED
        BY <3>2, <4>1, <4>2
    <3> QED
      BY <1>2, <3>1, <3>2
  <2> QED
    BY <1>5, <2>1, <2>2
<1> QED
  BY <1>3, <1>4, <1>6, <1>7, <1>8

\* The steps of the tasks that leave the acquisition alone.
LEMMA AcquisitionQuiet ==
  ASSUME IInv, UNCHANGED acquisition
  PROVE  /\ QueueInv' /\ Queued' = Queued /\ InFlight' = InFlight
         /\ \A b \in Q!Ids : Waiting(b)' <=> Waiting(b)
BY DEF IInv, acquisition, QueueInv, Queued, InFlight, Waiting

\* The UI task interrupts the ADC task in the middle of ConfigGain only when
\* that is noted, and the ADC task only calls it between two blocks.
LEMMA CallKeepsIInv ==
  ASSUME IInv, NEW t \in Tasks, NEW g \in Gains, CallConfigGain(t, g)
  PROVE  IInv'
<1> USE DEF IInv
<1>1. /\ cfg[t] = "idle" /\ (t = "ADC" => cfg["UI"] = "idle" /\ measured = {})
      /\ cfg' = [cfg EXCEPT ![t] = "pinA"] /\ gain' = [gain EXCEPT ![t] = g]
      /\ torn' = (t = "UI" /\ cfg["ADC"] # "idle")
      /\ UNCHANGED <<acquisition, pins, gain_level, measured, read, since>>
      /\ UNCHANGED <<capturing, next, queue, delivered, shot>>
  BY DEF CallConfigGain, Runs, acquisition, measurement
<1>2. TypeOK'
  BY <1>1 DEF TypeOK
<1>3. cfg'[t] = "pinA" /\ \A u \in Tasks \ {t} : cfg'[u] = cfg[u] /\ gain'[u] = gain[u]
  BY <1>1 DEF TypeOK
<1>4. ~Steady'
  BY <1>3 DEF Steady
<1>5. QueueInv' /\ Queued' = Queued /\ InFlight' = InFlight
  BY <1>1, AcquisitionQuiet
<1>6. MeasureInv'
  BY <1>1, <1>3, <1>5 DEF MeasureInv, Waiting, Tasks
<1>7. ConfigInv'
  <2>1. \A u \in Tasks : cfg'[u] = "idle" => gain'[u] = "10x"
    BY <1>3 DEF ConfigInv
  <2>2. ~torn' => \A u \in Tasks \ {t} : cfg'[u] = "idle"
    BY <1>1, <1>3 DEF Tasks
  <2> QED
    BY <1>3, <1>4, <2>1, <2>2 DEF ConfigInv, Tasks
<1>8. OldInv'
  BY <1>4 DEF OldInv
<1> QED
  BY <1>2, <1>5, <1>6, <1>7, <1>8

\* ConfigGain sets one pin.
LEMMA WritePinAKeepsIInv ==
  ASSUME IInv, NEW t \in Tasks, WritePinA(t)
  PROVE  IInv'
<1> USE DEF IInv
<1>1. /\ cfg[t] = "pinA" /\ (t = "ADC" => cfg["UI"] = "idle")
      /\ cfg' = [cfg EXCEPT ![t] = "pinB"]
      /\ pins' = [pins EXCEPT ![1] = Pins(gain[t])[1]]
      /\ UNCHANGED <<acquisition, gain_level, gain, torn, measured, read, since>>
      /\ UNCHANGED <<capturing, next, queue, delivered, shot>>
  BY DEF WritePinA, Runs, acquisition, measurement
<1>2. gain[t] \in Gains /\ pins \in AllPins
  BY DEF TypeOK
<1>3. pins' = <<Pins(gain[t])[1], pins[2]>> /\ pins' \in AllPins
  BY <1>1, <1>2, PinsType DEF AllPins
<1>4. TypeOK'
  BY <1>1, <1>3 DEF TypeOK
<1>5. cfg'[t] = "pinB" /\ \A u \in Tasks \ {t} : cfg'[u] = cfg[u]
  BY <1>1 DEF TypeOK
<1>6. ~Steady'
  BY <1>5 DEF Steady
<1>7. QueueInv' /\ Queued' = Queued /\ InFlight' = InFlight
  BY <1>1, AcquisitionQuiet
<1>8. MeasureInv'
  BY <1>1, <1>5, <1>7 DEF MeasureInv, Waiting, Tasks
<1>9. ConfigInv'
  <2>1. ~torn => \A u \in Tasks \ {t} : cfg[u] = "idle"
    BY <1>1 DEF ConfigInv, Tasks
  <2> QED
    BY <1>1, <1>3, <1>5, <1>6, <2>1 DEF ConfigInv, Tasks
<1>10. OldInv'
  BY <1>6 DEF OldInv
<1> QED
  BY <1>4, <1>7, <1>8, <1>9, <1>10

\* ConfigGain sets the other pin, and the gain is selected.
LEMMA WritePinBKeepsIInv ==
  ASSUME IInv, NEW t \in Tasks, WritePinB(t)
  PROVE  IInv'
<1> USE DEF IInv
<1>1. /\ cfg[t] = "pinB" /\ (t = "ADC" => cfg["UI"] = "idle")
      /\ cfg' = [cfg EXCEPT ![t] = "level"]
      /\ pins' = [pins EXCEPT ![2] = Pins(gain[t])[2]]
      /\ UNCHANGED <<acquisition, gain_level, gain, torn, measured, read, since>>
      /\ UNCHANGED <<capturing, next, queue, delivered, shot>>
  BY DEF WritePinB, Runs, acquisition, measurement
<1>2. gain[t] \in Gains /\ pins \in AllPins
  BY DEF TypeOK
<1>3. pins' = <<pins[1], Pins(gain[t])[2]>> /\ pins' \in AllPins
  BY <1>1, <1>2, PinsType DEF AllPins
<1>4. TypeOK'
  BY <1>1, <1>3 DEF TypeOK
<1>5. cfg'[t] = "level" /\ \A u \in Tasks \ {t} : cfg'[u] = cfg[u]
  BY <1>1 DEF TypeOK
<1>6. ~Steady'
  BY <1>5 DEF Steady
<1>7. QueueInv' /\ Queued' = Queued /\ InFlight' = InFlight
  BY <1>1, AcquisitionQuiet
<1>8. MeasureInv'
  BY <1>1, <1>5, <1>7 DEF MeasureInv, Waiting, Tasks
<1>9. ConfigInv'
  <2>1. ~torn => \A u \in Tasks \ {t} : cfg[u] = "idle"
    BY <1>1 DEF ConfigInv, Tasks
  <2>2. ~torn => pins' = Pins(gain[t])
    <3>1. ~torn => pins[1] = Pins(gain[t])[1]
      BY <1>1 DEF ConfigInv
    <3> QED
      BY <1>2, <1>3, <3>1, PinsType
  <2> QED
    BY <1>1, <1>5, <1>6, <2>1, <2>2 DEF ConfigInv, Tasks
<1>10. OldInv'
  BY <1>6 DEF OldInv
<1> QED
  BY <1>4, <1>7, <1>8, <1>9, <1>10

\* ConfigGain ends with the level, and results are counted from there.
LEMMA SetLevelKeepsIInv ==
  ASSUME IInv, NEW t \in Tasks, SetLevel(t)
  PROVE  IInv'
<1> USE DEF IInv
<1>1. /\ cfg[t] = "level" /\ (t = "ADC" => cfg["UI"] = "idle")
      /\ cfg' = [cfg EXCEPT ![t] = "idle"] /\ gain' = [gain EXCEPT ![t] = "10x"]
      /\ gain_level' = gain[t] /\ since' = 0
      /\ UNCHANGED <<acquisition, pins, torn, measured, read>>
      /\ UNCHANGED <<capturing, next, queue, delivered, shot>>
  BY DEF SetLevel, Runs, acquisition, measurement
<1>2. TypeOK'
  BY <1>1, GainAssumption DEF TypeOK
<1>3. /\ cfg'[t] = "idle" /\ gain'[t] = "10x"
      /\ \A u \in Tasks \ {t} : cfg'[u] = cfg[u] /\ gain'[u] = gain[u]
  BY <1>1 DEF TypeOK
<1>4. QueueInv' /\ Queued' = Queued /\ InFlight' = InFlight
  BY <1>1, AcquisitionQuiet
<1>5. MeasureInv'
  BY <1>1, <1>3, <1>4 DEF MeasureInv, Waiting, Tasks
<1>6. ConfigInv'
  <2>1. ~torn => /\ \A u \in Tasks \ {t} : cfg[u] = "idle"
                 /\ pins = Pins(gain[t])
    BY <1>1 DEF ConfigInv, Tasks
  <2>2. \A u \in Tasks : cfg'[u] = "idle" => gain'[u] = "10x"
    BY <1>3 DEF ConfigInv
  <2> QED
    BY <1>1, <1>3, <2>1, <2>2 DEF ConfigInv, Tasks, Steady
<1>7. OldInv'
  BY <1>1 DEF OldInv
<1> QED
  BY <1>2, <1>4, <1>5, <1>6, <1>7

\* The scan finds a block; the ADC task is not in ConfigGain.
LEMMA TakeBlockKeepsIInv ==
  ASSUME IInv, NEW b \in Q!Ids, TakeBlock(b)
  PROVE  IInv'
<1> USE DEF IInv
<1>1. /\ cfg["ADC"] = "idle" /\ Waiting(b) /\ measured' = {b} /\ read' = {}
      /\ UNCHANGED <<acquisition, pins, gain_level, cfg, gain, torn, since>>
      /\ UNCHANGED <<capturing, next, queue, delivered, shot>>
  BY DEF TakeBlock, acquisition, config
<1>2. TypeOK'
  BY <1>1 DEF TypeOK
<1>3. QueueInv' /\ Queued' = Queued /\ InFlight' = InFlight /\ Waiting(b)'
  BY <1>1, AcquisitionQuiet
<1>4. MeasureInv'
  BY <1>1, <1>3 DEF MeasureInv
<1>5. ConfigInv'
  BY <1>1 DEF ConfigInv, Steady
<1>6. OldInv'
  BY <1>1, <1>3 DEF OldInv, Steady, Old
<1> QED
  BY <1>2, <1>3, <1>4, <1>5, <1>6

\* The measurement reads gain_level once more.
LEMMA ReadLevelKeepsIInv == IInv /\ ReadLevel => IInv'
<1> SUFFICES ASSUME IInv, ReadLevel PROVE IInv'
  OBVIOUS
<1> USE DEF IInv
<1>1. /\ measured # {} /\ read' = read \cup {gain_level}
      /\ UNCHANGED <<acquisition, pins, gain_level, cfg, gain, torn, measured, since>>
      /\ UNCHANGED <<capturing, next, queue, delivered, shot>>
  BY DEF ReadLevel, acquisition, config
<1>2. TypeOK'
  BY <1>1 DEF TypeOK
<1>3. /\ QueueInv' /\ Queued' = Queued /\ InFlight' = InFlight
  BY <1>1, AcquisitionQuiet
<1>4. MeasureInv'
  BY <1>1, <1>3 DEF MeasureInv, Waiting
<1>5. ConfigInv'
  BY <1>1 DEF ConfigInv, Steady
<1>6. OldInv'
  BY <1>1, <1>3 DEF OldInv, Steady, Old
<1> QED
  BY <1>2, <1>3, <1>4, <1>5, <1>6

\* What is measured is the oldest block, or the second of two that follow each
\* other.
LEMMA Finished ==
  ASSUME IInv, NEW b \in Q!Ids, Finish(b)
  PROVE  \/ /\ queue = <<b>> /\ queue' = <<>> /\ delivered' = {b}
            /\ UNCHANGED <<capturing, next>>
         \/ \E c \in Q!Ids :
              /\ queue = <<b, c>> /\ queue' = <<c>> /\ delivered' = {b}
              /\ b # c /\ ~capturing
              /\ UNCHANGED <<capturing, next>>
         \/ \E a \in Q!Ids :
              /\ queue = <<a, b>> /\ queue' = <<a>> /\ delivered' = {b}
              /\ a # b /\ ~capturing
              /\ b = Q!Succ(a) /\ delivered # {Q!Succ(a)}
              /\ UNCHANGED <<capturing, next>>
<1> USE DEF IInv
<1>1. measured = {b} /\ Waiting(b)
  BY DEF Finish, MeasureInv
<1>2. CASE b = Head(queue)
  <2>1. /\ queue # <<>> /\ queue' = Tail(queue) /\ delivered' = {Head(queue)}
        /\ UNCHANGED <<capturing, next>>
    BY <1>2 DEF Finish, Q!DeliverOldest
  <2>2. CASE Len(queue) = 1
    <3>1. queue = <<b>>
      BY <1>2, <2>2, QueueShape
    <3>2. queue' = <<>>
      BY <2>1, <2>2, <3>1
    <3> QED
      BY <1>2, <2>1, <3>1, <3>2
  <2>3. CASE Len(queue) = 2
    <3>1. PICK c \in Q!Ids : queue = <<b, c>> /\ b # c
      BY <1>2, <2>3, QueueShape, Distinct
    <3>2. queue' = <<c>>
      BY <2>1, <3>1
    <3>3. ~capturing
      BY <2>3 DEF QueueInv, TypeOK
    <3> QED
      BY <1>2, <2>1, <3>1, <3>2, <3>3
  <2> QED
    BY <2>1, <2>2, <2>3, QueueShape
<1>3. CASE b # Head(queue)
  <2>1. Len(queue) = 2 /\ delivered # {Q!Succ(queue[1])} /\ b = queue[2]
    BY <1>1, <1>3 DEF Waiting
  <2>2. PICK a \in Q!Ids : queue = <<a, b>> /\ a # b /\ queue[1] = a
    BY <2>1, QueueShape, Distinct
  <2>3. b = Q!Succ(a)
    BY <2>1, <2>2 DEF QueueInv
  <2>4. ~capturing
    BY <2>1 DEF QueueInv, TypeOK
  <2>5. Q!Overtake
    BY <1>3 DEF Finish
  <2>6. queue' = <<a>> /\ delivered' = {b} /\ UNCHANGED <<capturing, next>>
    BY <2>1, <2>2, <2>5 DEF Q!Overtake
  <2> QED
    BY <2>1, <2>2, <2>3, <2>4, <2>6
<1> QED
  BY <1>2, <1>3

\* A result is complete and its buffer free.
LEMMA FinishKeepsIInv ==
  ASSUME IInv, NEW b \in Q!Ids, Finish(b)
  PROVE  IInv'
<1> USE DEF IInv
<1>1. /\ measured = {b} /\ measured' = {} /\ read' = {}
      /\ shot' = [shot EXCEPT ![b] = {}]
      /\ since' = IF since < Late THEN since + 1 ELSE since
      /\ UNCHANGED <<pins, gain_level, cfg, gain, torn>>
  BY DEF Finish, config
<1>2. since \in 0 .. Late /\ since' \in 0 .. Late
  BY <1>1, GainAssumption DEF TypeOK
<1>3. next' = next /\ capturing' = capturing /\ next \in Q!Ids /\ delivered' = {b}
  BY Finished DEF TypeOK
<1>4. TypeOK'
  <2>1. queue' \in Seq(Q!Ids) /\ Len(queue') <= 2
    <3>1. ASSUME NEW c \in Q!Ids, queue' = <<c>>
          PROVE  queue' \in Seq(Q!Ids) /\ Len(queue') <= 2
      BY <3>1
    <3>2. CASE queue' = <<>>
      BY <3>2
    <3> QED
      BY <3>1, <3>2, Finished
  <2>2. shot' \in [Q!Ids -> SUBSET AllPins]
    BY <1>1 DEF TypeOK
  <2> QED
    BY <1>1, <1>2, <1>3, <2>1, <2>2 DEF TypeOK
<1>5. /\ Queued' = Queued \ {b} /\ InFlight' = InFlight \ {b}
      /\ Queued \subseteq Q!Ids /\ InFlight \subseteq Q!Ids
  <2>1. CASE queue = <<b>> /\ queue' = <<>>
    <3>1. Queued' = {} /\ Queued = {b} /\ Len(queue) < 2
      BY <2>1 DEF Queued
    <3>2. next # b
      BY <3>1, Distinct
    <3> QED
      BY <1>3, <3>1, <3>2 DEF InFlight
  <2>2. ASSUME NEW c \in Q!Ids, b # c, ~capturing,
               \/ queue = <<b, c>> /\ queue' = <<c>>
               \/ queue = <<c, b>> /\ queue' = <<c>>
        PROVE  /\ Queued' = Queued \ {b} /\ InFlight' = InFlight \ {b}
               /\ Queued \subseteq Q!Ids /\ InFlight \subseteq Q!Ids
    <3>1. Queued' = {c} /\ Queued = {b, c}
      BY <2>2 DEF Queued
    <3> QED
      BY <1>3, <2>2, <3>1 DEF InFlight
  <2> QED
    BY <2>1, <2>2, Finished
<1>6. /\ shot'[b] = {}
      /\ \A d \in Q!Ids \ {b} : shot'[d] = shot[d]
  BY <1>1 DEF TypeOK
<1>7. QueueInv'
  <2>1. CASE queue' = <<>>
    BY <2>1 DEF QueueInv
  <2>2. ASSUME NEW c \in Q!Ids, queue = <<b, c>>, queue' = <<c>>, ~capturing
        PROVE  QueueInv'
    <3>1. next = Q!Succ(c)
      BY <2>2 DEF QueueInv
    <3> QED
      BY <1>3, <2>2, <3>1 DEF QueueInv
  <2>3. ASSUME NEW a \in Q!Ids, queue = <<a, b>>, queue' = <<a>>, ~capturing, b = Q!Succ(a)
        PROVE  QueueInv'
    <3>1. next = Q!Succ(Q!Succ(a))
      BY <2>3 DEF QueueInv
    <3> QED
      BY <1>3, <2>3, <3>1 DEF QueueInv
  <2> QED
    BY <2>1, <2>2, <2>3, Finished
<1>8. MeasureInv'
  BY <1>1, <1>5, <1>6 DEF MeasureInv
<1>9. ConfigInv'
  BY <1>1 DEF ConfigInv, Steady
<1>10. OldInv'
  <2> SUFFICES ASSUME Steady, ~torn, NEW d \in InFlight', Old(d)'
               PROVE  /\ since' >= 1 => d \notin {queue'[k] : k \in 2 .. Len(queue')}
                                        /\ (d \in Queued' \/ queue' = <<>>)
                      /\ since' >= 2 => d \in Queued' /\ delivered' = {Q!Succ(d)}
                      /\ since' < 3
    BY <1>1 DEF OldInv, Steady
  <2>1. d \in InFlight /\ d # b /\ Old(d)
    BY <1>1, <1>5, <1>6 DEF Old
  <2>2. /\ since >= 1 => d \notin {queue[k] : k \in 2 .. Len(queue)}
                         /\ (d \in Queued \/ queue = <<>>)
        /\ since >= 2 => d \in Queued /\ delivered = {Q!Succ(d)}
        /\ since < 3
    BY <2>1 DEF OldInv
  <2>3. CASE queue = <<b>> /\ queue' = <<>>
    <3>1. ~(since >= 1)
      BY <2>1, <2>2, <2>3 DEF Queued
    <3> QED
      BY <1>1, <1>2, <2>3, <3>1
  <2>4. ASSUME NEW c \in Q!Ids, queue = <<b, c>>, queue' = <<c>>, ~capturing
        PROVE  /\ since' >= 1 => d \notin {queue'[k] : k \in 2 .. Len(queue')}
                                 /\ d \in Queued'
               /\ ~(since' >= 2)
    <3>1. d = c /\ d \in Queued'
      BY <1>3, <2>1, <2>4 DEF Queued, InFlight
    <3>2. c \in {queue[k] : k \in 2 .. Len(queue)}
      BY <2>4
    <3>3. ~(since >= 1)
      BY <2>2, <3>1, <3>2
    <3>4. {queue'[k] : k \in 2 .. Len(queue')} = {}
      BY <2>4
    <3>5. ~(since' >= 2)
      BY <1>1, <1>2, <3>3
    <3> QED
      BY <3>1, <3>4, <3>5
  <2>5. ASSUME NEW a \in Q!Ids, queue = <<a, b>>, queue' = <<a>>, ~capturing,
               b = Q!Succ(a), delivered # {Q!Succ(a)}
        PROVE  /\ d \notin {queue'[k] : k \in 2 .. Len(queue')}
               /\ d \in Queued' /\ delivered' = {Q!Succ(d)} /\ since' < 3
    <3>1. d = a /\ d \in Queued'
      BY <1>3, <2>1, <2>5 DEF Queued, InFlight
    <3>2. ~(since >= 2)
      BY <2>2, <2>5, <3>1
    <3>3. {queue'[k] : k \in 2 .. Len(queue')} = {}
      BY <2>5
    <3>4. since' < 3
      BY <1>1, <1>2, <3>2
    <3> QED
      BY <1>3, <2>5, <3>1, <3>3, <3>4
  <2>6. CASE \E c \in Q!Ids : queue = <<b, c>> /\ queue' = <<c>> /\ ~capturing
    BY <1>2, <2>4, <2>6
  <2> QED
    BY <2>3, <2>5, <2>6, Finished
<1> QED
  BY <1>4, <1>7, <1>8, <1>9, <1>10

-----------------------------------------------------------------------------
\* Every step of the hardware and of the two tasks keeps the inductive
\* invariant: which blocks still hold samples of the gain before the last
\* change follows from the number of results since.
THEOREM GainInvariant == Spec => []IInv
<1>1. IInv /\ [Next]_vars => IInv'
  <2> SUFFICES ASSUME IInv, [Next]_vars PROVE IInv'
    OBVIOUS
  <2>1. CASE Acquire
    BY <2>1, BeginKeepsIInv, SampleKeepsIInv, CompleteKeepsIInv DEF Acquire
  <2>2. CASE Measure
    BY <2>2, ReadLevelKeepsIInv, TakeBlockKeepsIInv, FinishKeepsIInv DEF Measure
  <2>3. CASE Change
    BY <2>3, WritePinAKeepsIInv, WritePinBKeepsIInv, SetLevelKeepsIInv
       DEF Change, ConfigGain
  <2>4. ASSUME NEW t \in Tasks, NEW g \in Gains, CallConfigGain(t, g) PROVE IInv'
    BY <2>4, CallKeepsIInv
  <2>5. CASE UNCHANGED vars
    BY <2>5 DEF vars, acquisition, config, measurement, IInv, TypeOK, QueueInv,
                MeasureInv, ConfigInv, OldInv, Queued, InFlight, Waiting, Steady, Old
  <2> QED
    BY <2>1, <2>2, <2>3, <2>4, <2>5 DEF Next
<1> QED
  BY InitIInv, <1>1, PTL DEF Spec

\* The variables keep their types; in particular ConfigGain leaves pins and
\* gain_level at a gain in use, whoever interrupts it.
THEOREM GainTypes == Spec => []TypeOK
<1>1. IInv => TypeOK
  BY DEF IInv
<1> QED
  BY <1>1, GainInvariant, PTL

\* From the third result after a change on, results are of the gain that is
\* set, samples and every level the measurement has read (usertask.c,
\* adc_control.c): with two buffers, two results may still be of the old one.
THEOREM ResultsAreOfGain ==
  ASSUME Late >= 3
  PROVE  Spec => []ResultsOfGain
<1>1. IInv => ResultsOfGain
  <2> SUFFICES ASSUME IInv, NEW b \in measured, Steady, ~torn, since >= Late
               PROVE  shot[b] = {Pins(gain_level)} /\ read \subseteq {gain_level}
    BY DEF ResultsOfGain
  <2> USE DEF IInv
  <2>1. since \in Nat /\ since >= 3
    BY GainAssumption DEF TypeOK
  <2>2. Waiting(b)
    BY DEF MeasureInv
  <2>3. b \in Queued
    BY <2>2, QueueShape DEF Waiting
  <2>4. ~Old(b) /\ read \subseteq {gain_level}
    BY <2>1, <2>3 DEF OldInv, InFlight
  <2>5. shot[b] # {}
    BY <2>3 DEF MeasureInv
  <2> QED
    BY <2>4, <2>5 DEF Old
<1> QED
  BY <1>1, GainInvariant, PTL

-----------------------------------------------------------------------------
\* What the tasks do to the gain, and a sample, are no steps of the queue.
LEMMA QueueStutters ==
  ASSUME UNCHANGED <<capturing, next, queue, delivered>>
  PROVE  [Q!Next]_(Q!vars)
BY DEF Q!vars

\* Every step is one of the queue or leaves it alone.  The queue of AdcSampling
\* takes the place of this one, so that whatever is shown here of results holds
\* for the acquisition the code has (adc_control.c, usertask.c).
THEOREM QueueIsImplemented == Spec => ImplementsBlockQueue
<1>1. Init => Q!Init
  BY DEF Init
<1>2. [Next]_vars => [Q!Next]_(Q!vars)
  <2> SUFFICES ASSUME [Next]_vars PROVE [Q!Next]_(Q!vars)
    OBVIOUS
  <2>1. CASE Begin \/ Complete
    BY <2>1 DEF Begin, Complete, Q!Next
  <2>2. CASE Sample
    BY <2>2, QueueStutters DEF Sample
  <2>3. CASE ReadLevel
    BY <2>3, QueueStutters DEF ReadLevel, acquisition
  <2>4. ASSUME NEW b \in Q!Ids, TakeBlock(b) PROVE [Q!Next]_(Q!vars)
    BY <2>4, QueueStutters DEF TakeBlock, acquisition
  <2>5. ASSUME NEW b \in Q!Ids, Finish(b) PROVE [Q!Next]_(Q!vars)
    BY <2>5 DEF Finish, Q!Next
  <2>6. ASSUME NEW t \in Tasks, ConfigGain(t) PROVE [Q!Next]_(Q!vars)
    BY <2>6, QueueStutters DEF ConfigGain, WritePinA, WritePinB, SetLevel, acquisition
  <2>7. ASSUME NEW t \in Tasks, NEW g \in Gains, CallConfigGain(t, g)
        PROVE  [Q!Next]_(Q!vars)
    BY <2>7, QueueStutters DEF CallConfigGain, acquisition
  <2>8. CASE UNCHANGED vars
    BY <2>8, QueueStutters DEF vars, acquisition
  <2> QED
    BY <2>1, <2>2, <2>3, <2>4, <2>5, <2>6, <2>7, <2>8
       DEF Next, Acquire, Measure, Change
<1> QED
  BY <1>1, <1>2, PTL DEF Spec, ImplementsBlockQueue, Q!Spec

\* The block a result was computed from is the one that is handed over with it,
\* although blocks may be completed, and the queue may grow, in between
\* (usertask.c:228).
THEOREM MeasuredGoes == Spec => MeasuredIsDelivered
<1>1. IInv /\ [Next]_vars => [\A b \in measured : measured' = {} => delivered' = {b}]_vars
  <2> SUFFICES ASSUME IInv, Next, NEW b \in measured, measured' = {}
               PROVE  delivered' = {b}
    OBVIOUS
  <2> USE DEF IInv
  <2>1. measured # {} /\ measured' # measured
    OBVIOUS
  <2>2. PICK c \in Q!Ids : Finish(c)
    <3>1. ~Acquire /\ ~Change
      BY <2>1 DEF Acquire, Begin, Sample, Complete, measurement, Change, ConfigGain,
                  WritePinA, WritePinB, SetLevel
    <3>2. ~(\E t \in Tasks, g \in Gains : CallConfigGain(t, g))
      BY <2>1 DEF CallConfigGain, measurement
    <3>3. ~ReadLevel /\ \A c \in Q!Ids : ~TakeBlock(c)
      BY <2>1 DEF ReadLevel, TakeBlock
    <3> QED
      BY <3>1, <3>2, <3>3 DEF Next, Measure
  <2>3. c = b /\ (IF b = Head(queue) THEN Q!DeliverOldest ELSE Q!Overtake)
    BY <2>2 DEF Finish
  <2>4. Waiting(b)
    BY DEF MeasureInv
  <2>5. CASE b = Head(queue)
    BY <2>3, <2>5 DEF Q!DeliverOldest
  <2>6. CASE b # Head(queue)
    BY <2>3, <2>4, <2>6 DEF Waiting, Q!Overtake
  <2> QED
    BY <2>5, <2>6
<1> QED
  BY <1>1, GainInvariant, PTL DEF Spec, MeasuredIsDelivered
=============================================================================
