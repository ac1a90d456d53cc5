-------------------------- MODULE FrameParser_proofs --------------------------
(***************************************************************************)
(* Segments that fit the buffers are understood, and a clean stream is     *)
(* taken as it was sent, for any size of the buffers, any number of frames *)
(* and any types and values.                                               *)
(***************************************************************************)
EXTENDS FrameParser, SequenceTheorems, TLAPS

\* The cells of a frame the search looks at, and the padding behind it.
LEMMA CellsOfFrame ==
  ASSUME NEW f \in Frames
  PROVE  /\ Cell(f, 1) = "H" /\ Cell(f, 7) = "T" /\ Cell(f, 8) = "0"
         /\ Cell(f, 3) = f.type /\ Cell(f, 6) = f.value
BY DEF Cell, Frames

\* All of them are cells.
LEMMA CellType ==
  ASSUME NEW f \in Frames, NEW k \in 1 .. FrameSize
  PROVE  Cell(f, k) \in Cells
BY DEF Cell, Frames, Cells, FrameSize

\* A frame is no other frame's type and value.
LEMMA FrameOfCells ==
  ASSUME NEW f \in Frames
  PROVE  [type |-> Cell(f, 3), value |-> Cell(f, 6)] = f
BY CellsOfFrame DEF Frames

\* Where cell k of the j-th frame behind a boundary of the stream comes from.
LEMMA StreamCell ==
  ASSUME NEW p \in Nat, p % FrameSize = 0, NEW j \in Nat \ {0}, NEW k \in 1 .. FrameSize
  PROVE  Stream(p + FrameSize * (j - 1) + k) = Cell(sent[(p \div FrameSize) + j], k)
<1>1. PICK q \in Nat : p = FrameSize * q /\ p \div FrameSize = q
  BY DEF FrameSize
<1> DEFINE i == p + FrameSize * (j - 1) + k
<1>2. ((i - 1) \div FrameSize) + 1 = q + j
  BY <1>1 DEF FrameSize
<1>3. ((i - 1) % FrameSize) + 1 = k
  BY <1>1 DEF FrameSize
<1>4. Stream(i) = Cell(sent[q + j], k)
  BY <1>2, <1>3, Zenon DEF Stream
<1> QED
  BY <1>1, <1>4

\* What is copied into the buffer are cells.
LEMMA ReceivedType ==
  ASSUME TypeOK, NEW n \in 1 .. MaxFrames * FrameSize, pos + n <= MaxFrames * FrameSize,
         NEW foreign \in [RxSize + 1 .. n -> Foreign], NEW k \in 1 .. n
  PROVE  Received(k, foreign) \in Cells
<1> USE ParserAssumption
<1>1. CASE k <= RxSize
  <2> DEFINE i == ((pos + k - 1) \div FrameSize) + 1
  <2>1. i \in 1 .. MaxFrames
    BY DEF TypeOK, FrameSize
  <2>2. ((pos + k - 1) % FrameSize) + 1 \in 1 .. FrameSize
    BY DEF TypeOK, FrameSize
  <2>3. Stream(pos + k) \in Cells
    BY <2>1, <2>2, CellType DEF Stream, TypeOK
  <2> QED
    BY <1>1, <2>3 DEF Received
<1>2. CASE ~(k <= RxSize)
  <2>1. k \in RxSize + 1 .. n
    BY <1>2 DEF FrameSize
  <2>2. foreign[k] \in Foreign
    BY <2>1
  <2> QED
    BY <1>2, <2>2 DEF Received, Cells
<1> QED
  BY <1>1, <1>2

\* The whole frames of a segment are frames, and fit into it.
LEMMA WholeType ==
  ASSUME TypeOK, NEW n \in 1 .. MaxFrames * FrameSize, pos + n <= MaxFrames * FrameSize
  PROVE  /\ Whole(n) \in Seq(Frames) /\ FrameSize * Len(Whole(n)) <= n
         /\ Whole(n) # <<>> => pos % FrameSize = 0
         /\ \A j \in 1 .. Len(Whole(n)) : Whole(n)[j] = sent[(pos \div FrameSize) + j]
<1> DEFINE m == n \div FrameSize
<1>1. m \in Nat /\ FrameSize * m <= n
  BY ParserAssumption DEF FrameSize
<1>2. CASE pos % FrameSize = 0
  <2>1. \A k \in 1 .. m : (pos \div FrameSize) + k \in 1 .. MaxFrames
    BY <1>1, <1>2, ParserAssumption DEF TypeOK, FrameSize
  <2>2. Whole(n) = [k \in 1 .. m |-> sent[(pos \div FrameSize) + k]]
    BY <1>2 DEF Whole
  <2> HIDE DEF m
  <2>3. Whole(n) \in Seq(Frames) /\ Len(Whole(n)) = m
    <3>1. [k \in 1 .. m |-> sent[(pos \div FrameSize) + k]] \in [1 .. m -> Frames]
      BY <2>1 DEF TypeOK
    <3> QED
      BY <1>1, <2>2, <3>1
  <2> QED
    BY <1>1, <1>2, <2>2, <2>3
<1>3. CASE pos % FrameSize # 0
  BY <1>3, ParserAssumption DEF Whole, FrameSize
<1> QED
  BY <1>2, <1>3
-----------------------------------------------------------------------------
\* Nothing was received.
LEMMA InitIInv == Init => IInv
<1> SUFFICES ASSUME Init PROVE IInv
  OBVIOUS
<1>1. TypeOK
  <2>1. mybuffer \in [Index -> Cells] /\ 0 \in 0 .. MaxFrames * FrameSize
    BY ParserAssumption DEF Init, Cells, FrameSize
  <2>2. due \in Seq(Frames) /\ taken \in Seq([type : Cells, value : Cells])
        /\ mark \in 0 .. Len(taken)
    BY DEF Init
  <2>3. start_point \in Int /\ start_point < Size
    BY ParserAssumption DEF Init
  <2>4. pc \in {"recv", "scan"} /\ (pc = "recv" => start_point = 0)
        /\ pos \in 0 .. MaxFrames * FrameSize /\ seg \in 0 .. MaxFrames * FrameSize
    BY <2>1 DEF Init
  <2>5. spilt \in BOOLEAN
    BY DEF Init
  <2> QED
    BY <2>1, <2>2, <2>3, <2>4, <2>5 DEF Init, TypeOK
<1>2. ServeInv
  BY DEF Init, ServeInv, Rest, Calls
<1> QED
  BY <1>1, <1>2 DEF IInv

\* A segment that fits puts its whole frames at the front of the buffer.
LEMMA ReceiveKeepsIInv ==
  ASSUME IInv, NEW n \in 1 .. MaxFrames * FrameSize, Receive(n)
  PROVE  IInv'
<1> USE ParserAssumption
<1>1. /\ TypeOK /\ pc = "recv" /\ start_point = 0 /\ pc' = "scan"
      /\ pos + n <= MaxFrames * FrameSize /\ pos' = pos + n
      /\ mark' = Len(taken) /\ sent' = sent /\ taken' = taken
      /\ seg' = n /\ due' = Whole(n)
      /\ Whole(n) \in Seq(Frames) /\ Len(Whole(n)) \in Nat /\ FrameSize * Len(Whole(n)) <= n
  BY WholeType DEF IInv, TypeOK, Receive
<1>2. Len(taken) \in Nat /\ Calls' = 0 /\ Offset' = 0 /\ Rest' = Len(due')
  <2>1. Len(taken) \in Nat
    BY <1>1 DEF TypeOK
  <2>2. Calls' = 0
    BY <1>1, <2>1 DEF Calls
  <2>3. Len(due') \in Nat
    BY <1>1
  <2> QED
    BY <2>1, <2>2, <2>3 DEF Offset, Rest
<1>3. CASE Accepted(n)
  <2>1. PICK foreign \in [RxSize + 1 .. n -> Foreign] : mybuffer' = Copied(n, foreign)
    BY <1>3 DEF Receive
  <2>2. start_point' = 2 * n /\ 2 * n < Size /\ spilt' \in BOOLEAN
    BY <1>1, <1>3 DEF Receive, Accepted, TypeOK
  <2>3. TypeOK'
    <3>1. \A k \in 1 .. n : Received(k, foreign) \in Cells
      BY <1>1, ReceivedType
    <3>2. \A k \in Index : k \in 0 .. 0 + n - 1 => k - 0 + 1 \in 1 .. n
      BY DEF Index, FrameSize
    <3>3. mybuffer' \in [Index -> Cells]
      BY <1>1, <2>1, <3>1, <3>2 DEF Copied, TypeOK
    <3> QED
      BY <1>1, <1>2, <2>2, <3>3 DEF TypeOK, FrameSize
  <2>4. ServeInv'
    <3> SUFFICES ASSUME n <= RxSize PROVE ServeInv'
      BY <1>1 DEF ServeInv, Fits
    <3>1. ASSUME NEW j \in 1 .. Len(due'), NEW k \in 1 .. FrameSize
          PROVE  mybuffer'[FrameSize * (j - 1) + k - 1] = Cell(due'[j], k)
      <4> DEFINE i == FrameSize * (j - 1) + k
      <4>1. i \in 1 .. n /\ i <= RxSize /\ i - 1 \in Index
        BY <1>1, <2>2 DEF FrameSize, Index
      <4>2. mybuffer'[i - 1] = Received(i, foreign)
        BY <1>1, <2>1, <4>1 DEF Copied
      <4>3. pos % FrameSize = 0 /\ due'[j] = sent[(pos \div FrameSize) + j]
        BY <1>1, WholeType
      <4>4. Stream(pos + i) = Cell(due'[j], k)
        <5>1. pos \in Nat /\ j \in Nat \ {0}
          BY <1>1 DEF TypeOK
        <5>2. Stream(pos + FrameSize * (j - 1) + k) = Cell(due'[j], k)
          BY <4>3, <5>1, StreamCell
        <5>3. pos + i = pos + FrameSize * (j - 1) + k
          BY <5>1 DEF FrameSize
        <5> QED
          BY <5>2, <5>3
      <4>5. FrameSize * (j - 1) + k - 1 = i - 1
        BY <1>1 DEF FrameSize
      <4>6. Received(i, foreign) = Stream(pos + i)
        BY <4>1 DEF Received
      <4> QED
        BY <4>2, <4>4, <4>5, <4>6
    <3>2. FrameSize * Len(due') <= n /\ Len(due') \in Nat
      BY <1>1
    <3>3. \A j \in 1 .. Rest', k \in 1 .. FrameSize :
            mybuffer'[Offset' + FrameSize * (j - 1) + k - 1] = Cell(due'[Calls' + j], k)
      <4> TAKE j \in 1 .. Rest', k \in 1 .. FrameSize
      <4>1. j \in 1 .. Len(due') /\ j \in Nat
        BY <1>2, <3>2
      <4>2. Offset' + FrameSize * (j - 1) + k - 1 = FrameSize * (j - 1) + k - 1
        BY <1>2, <4>1 DEF FrameSize
      <4>3. Calls' + j = j
        BY <1>2, <4>1
      <4> QED
        BY <3>1, <4>1, <4>2, <4>3
    <3>4. start_point' >= 2 * FrameSize * Rest' /\ Offset' + FrameSize * Rest' <= Size
      BY <1>2, <2>2, <3>2 DEF FrameSize
    <3> QED
      BY <1>1, <1>2, <3>2, <3>3, <3>4 DEF ServeInv
  <2> QED
    BY <2>3, <2>4 DEF IInv
<1>4. CASE ~Accepted(n)
  <2>1. mybuffer' = mybuffer /\ start_point' = start_point /\ spilt' = spilt
    BY <1>4 DEF Receive
  <2>2. TypeOK'
    BY <1>1, <1>2, <2>1 DEF TypeOK, FrameSize
  <2>3. ServeInv'
    <3>1. ~Fits'
      BY <1>1, <1>4 DEF Fits, Accepted
    <3> QED
      BY <3>1 DEF ServeInv
  <2> QED
    BY <2>2, <2>3 DEF IInv
<1> QED
  BY <1>3, <1>4

\* While frames of the segment are left, the next one is what the search finds.
LEMMA FrontFound ==
  ASSUME IInv, Fits, Rest > 0
  PROVE  /\ Calls \in Nat /\ Rest \in Nat /\ Offset \in {0, 1}
         /\ Offset \in Index /\ Found(Offset)
         /\ due[Calls + 1] \in Frames
         /\ \A k \in 1 .. FrameSize : mybuffer[Offset + k - 1] = Cell(due[Calls + 1], k)
<1> USE ParserAssumption
<1>1. Calls \in Nat /\ Rest \in Nat /\ Offset \in {0, 1} /\ Len(due) \in Nat
  BY DEF IInv, TypeOK, Calls, Rest, Offset
<1>2. Calls + 1 \in 1 .. Len(due)
  BY <1>1 DEF Rest
<1>3. due[Calls + 1] \in Frames
  BY <1>2 DEF IInv, TypeOK
<1>4. ASSUME NEW k \in 1 .. FrameSize
      PROVE  mybuffer[Offset + k - 1] = Cell(due[Calls + 1], k)
  <2>1. mybuffer[Offset + FrameSize * (1 - 1) + k - 1] = Cell(due[Calls + 1], k)
    BY <1>1, 1 \in 1 .. Rest DEF IInv, ServeInv
  <2>2. Offset + FrameSize * (1 - 1) + k - 1 = Offset + k - 1
    BY <1>1 DEF FrameSize
  <2> QED
    BY <2>1, <2>2
<1>5. mybuffer[Offset] = "H" /\ mybuffer[Offset + TailAt] = "T"
  <2>1. mybuffer[Offset + 1 - 1] = "H" /\ mybuffer[Offset + 7 - 1] = "T"
    BY <1>3, <1>4, CellsOfFrame DEF FrameSize
  <2>2. Offset + 1 - 1 = Offset /\ Offset + 7 - 1 = Offset + TailAt
    BY <1>1 DEF TailAt
  <2> QED
    BY <2>1, <2>2
<1>6. /\ start_point >= 2 * FrameSize * Rest /\ Offset + FrameSize * Rest <= Size
      /\ Offset = 1 => mybuffer[0] # "H"
      /\ start_point \in Int
  BY DEF IInv, TypeOK, ServeInv
<1>7. Offset \in Index /\ Offset + TailAt \in Index /\ Offset < start_point
  BY <1>1, <1>6 DEF Index, FrameSize, TailAt
<1>8. \A k \in 0 .. Offset - 1 : ~Header(k)
  BY <1>1, <1>6 DEF Header
<1> QED
  BY <1>1, <1>3, <1>4, <1>5, <1>7, <1>8 DEF Found, Header, Valid

\* A frame is taken: the one that was due, and the rest moves to the front.
LEMMA TakeKeepsIInv ==
  ASSUME IInv, NEW head \in Index, TakeFrame(head)
  PROVE  IInv'
<1> USE ParserAssumption
<1> DEFINE e == [type |-> mybuffer[head + 2], value |-> mybuffer[head + 5]]
<1>1. /\ TypeOK /\ pc = "scan" /\ pc' = "scan" /\ Found(head)
      /\ head \in Nat /\ head + TailAt \in Index
      /\ taken' = Append(taken, e) /\ mybuffer' = Cleared(head + TailAt)
      /\ start_point' = start_point - (head + TailAt)
      /\ sent' = sent /\ pos' = pos /\ due' = due /\ mark' = mark
      /\ seg' = seg /\ spilt' = spilt
  BY DEF IInv, TakeFrame, Found, Valid, Index
<1>2. /\ Len(taken) \in Nat /\ mark \in 0 .. Len(taken) /\ Len(due) \in Nat
      /\ Calls \in Nat /\ Rest \in Int /\ Offset \in {0, 1}
      /\ Len(taken') = Len(taken) + 1
      /\ Calls' = Calls + 1 /\ Rest' = Rest - 1 /\ Offset' = 1
  <2>1. Len(taken) \in Nat /\ mark \in 0 .. Len(taken) /\ Len(due) \in Nat
    BY <1>1 DEF TypeOK
  <2>2. Len(taken') = Len(taken) + 1
    BY <1>1 DEF TypeOK
  <2>3. Calls \in Nat /\ Calls' = Calls + 1
    BY <1>1, <2>1, <2>2 DEF Calls
  <2>4. Rest \in Int /\ Rest' = Rest - 1
    BY <1>1, <2>1, <2>3 DEF Rest
  <2>5. Offset \in {0, 1} /\ Offset' = 1
    BY <2>3 DEF Offset
  <2> QED
    BY <2>1, <2>2, <2>3, <2>4, <2>5
<1>3. TypeOK'
  <2>1. mybuffer \in [Index -> Cells] /\ start_point \in Int /\ start_point < Size
    BY <1>1 DEF TypeOK
  <2>2. head + 2 \in Index /\ head + 5 \in Index
    BY <1>1 DEF Index, TailAt
  <2>3. taken' \in Seq([type : Cells, value : Cells])
    BY <1>1, <2>1, <2>2 DEF TypeOK
  <2>4. mybuffer' \in [Index -> Cells]
    BY <1>1, <2>1 DEF Cleared, Cells
  <2>5. start_point' \in Int /\ start_point' < Size
    BY <1>1, <2>1 DEF TailAt
  <2> QED
    BY <1>1, <1>2, <2>3, <2>4, <2>5 DEF TypeOK
<1> SUFFICES ASSUME Fits PROVE IInv'
  BY <1>1, <1>3 DEF IInv, ServeInv, Fits
<1>4. ASSUME NEW k \in 1 .. Len(due), k <= Calls
      PROVE  taken'[mark + k] = due[k]
  <2>1. mark + k \in 1 .. Len(taken)
    BY <1>2, <1>4 DEF Calls
  <2>2. taken'[mark + k] = taken[mark + k]
    BY <1>1, <2>1 DEF TypeOK
  <2> QED
    BY <1>4, <2>2 DEF IInv, ServeInv
<1>5. CASE Rest <= 0
  <2>1. \A k \in 1 .. Len(due) : k <= Calls
    BY <1>2, <1>5 DEF Rest
  <2>2. ~(Rest' > 0) /\ ~(pc' = "recv")
    BY <1>1, <1>2, <1>5
  <2>3. \A k \in 1 .. Len(due') : k <= Calls' => taken'[mark' + k] = due'[k]
    BY <1>1, <1>4, <2>1
  <2>4. ServeInv'
    BY <2>2, <2>3 DEF ServeInv
  <2> QED
    BY <1>3, <2>4 DEF IInv
<1>6. CASE Rest > 0
  <2>1. /\ Found(Offset) /\ due[Calls + 1] \in Frames
        /\ \A k \in 1 .. FrameSize : mybuffer[Offset + k - 1] = Cell(due[Calls + 1], k)
    BY <1>6, FrontFound
  <2>2. head = Offset
    BY <1>1, <1>2, <2>1 DEF Found
  <2>3. /\ start_point >= 2 * FrameSize * Rest /\ Offset + FrameSize * Rest <= Size
        /\ start_point \in Int
        /\ \A j \in 1 .. Rest, k \in 1 .. FrameSize :
             mybuffer[Offset + FrameSize * (j - 1) + k - 1] = Cell(due[Calls + j], k)
    BY <1>6 DEF IInv, TypeOK, ServeInv
  <2>4. e = due[Calls + 1]
    <3>1. mybuffer[Offset + 3 - 1] = Cell(due[Calls + 1], 3)
      BY <2>1 DEF FrameSize
    <3>2. mybuffer[Offset + 6 - 1] = Cell(due[Calls + 1], 6)
      BY <2>1 DEF FrameSize
    <3>3. Offset + 3 - 1 = head + 2 /\ Offset + 6 - 1 = head + 5
      BY <1>2, <2>2
    <3> QED
      BY <2>1, <3>1, <3>2, <3>3, FrameOfCells
  <2>5. ASSUME NEW k \in 1 .. Len(due), k <= Calls'
        PROVE  taken'[mark + k] = due[k]
    <3>1. CASE k <= Calls
      BY <3>1, <1>4
    <3>2. CASE k = Calls + 1
      <4>1. mark + k = Len(taken) + 1
        BY <1>2, <3>2 DEF Calls
      <4>2. taken'[Len(taken) + 1] = e
        BY <1>1 DEF TypeOK
      <4> QED
        BY <2>4, <3>2, <4>1, <4>2
    <3> QED
      BY <1>2, <2>5, <3>1, <3>2
  <2>6. ASSUME NEW i \in Nat, i + head + TailAt + 1 \in Index
        PROVE  mybuffer'[i] = mybuffer[i + head + TailAt + 1]
    <3>1. i \in Index /\ i + (head + TailAt) + 1 \in Index
      BY <1>1, <2>6 DEF Index, TailAt
    <3>2. mybuffer'[i] = mybuffer[i + (head + TailAt) + 1]
      BY <1>1, <3>1 DEF Cleared
    <3>3. i + (head + TailAt) + 1 = i + head + TailAt + 1
      BY <1>1 DEF TailAt
    <3> QED
      BY <3>2, <3>3
  <2>7. mybuffer'[0] # "H"
    <3>1. 0 + head + TailAt + 1 \in Index /\ 0 + head + TailAt + 1 = Offset + 8 - 1
      BY <1>2, <1>6, <2>2, <2>3 DEF Index, TailAt, FrameSize
    <3>2. mybuffer'[0] = mybuffer[Offset + 8 - 1]
      BY <2>6, <3>1
    <3>3. mybuffer[Offset + 8 - 1] = "0"
      BY <2>1, CellsOfFrame DEF FrameSize
    <3> QED
      BY <3>2, <3>3
  <2>8. ASSUME NEW j \in 1 .. Rest', NEW k \in 1 .. FrameSize
        PROVE  mybuffer'[Offset' + FrameSize * (j - 1) + k - 1] = Cell(due[Calls' + j], k)
    <3> DEFINE i == Offset' + FrameSize * (j - 1) + k - 1
    <3>1. i \in Nat
      BY <1>2 DEF FrameSize
    <3>2. i + head + TailAt + 1 = Offset + FrameSize * ((j + 1) - 1) + k - 1
      BY <1>2, <2>2 DEF FrameSize, TailAt
    <3>3. j + 1 \in 1 .. Rest
      BY <1>2
    <3>4. Offset + FrameSize * ((j + 1) - 1) + k - 1 \in Index
      BY <1>2, <2>3, <3>3 DEF FrameSize, Index
    <3>5. mybuffer'[i] = mybuffer[Offset + FrameSize * ((j + 1) - 1) + k - 1]
      BY <2>6, <3>1, <3>2, <3>4
    <3>6. mybuffer'[i] = Cell(due[Calls + (j + 1)], k)
      BY <2>3, <3>3, <3>5
    <3>7. Calls + (j + 1) = Calls' + j
      BY <1>2
    <3> QED
      BY <3>6, <3>7
  <2>9. start_point' >= 2 * FrameSize * Rest' /\ Offset' + FrameSize * Rest' <= Size
    BY <1>1, <1>2, <2>2, <2>3 DEF FrameSize, TailAt
  <2>10. ServeInv'
    BY <1>1, <2>5, <2>7, <2>8, <2>9 DEF ServeInv
  <2> QED
    BY <1>3, <2>10 DEF IInv
<1> QED
  BY <1>2, <1>5, <1>6

\* The search ends: nothing was left of the segment.
LEMMA NoFrameKeepsIInv ==
  ASSUME IInv, NoFrame
  PROVE  IInv'
<1> USE ParserAssumption
<1>1. Fits => Rest <= 0
  <2>1. Rest \in Int
    BY DEF IInv, TypeOK, Rest, Calls
  <2>2. Fits => ~(Rest > 0)
    BY FrontFound DEF NoFrame
  <2> QED
    BY <2>1, <2>2
<1>2. /\ pc' = "recv" /\ start_point' = 0 /\ mybuffer' = mybuffer /\ sent' = sent
      /\ pos' = pos /\ due' = due /\ taken' = taken /\ mark' = mark
      /\ seg' = seg /\ spilt' = spilt
  BY DEF NoFrame
<1>3. Calls' = Calls /\ Rest' = Rest /\ Fits' = Fits
  BY <1>2 DEF Calls, Rest, Fits
<1>4. TypeOK'
  BY <1>2 DEF IInv, TypeOK
<1>5. ServeInv'
  <2>1. Fits => ~(Rest > 0)
    BY <1>1 DEF IInv, TypeOK, Rest, Calls
  <2> QED
    BY <1>1, <1>2, <1>3, <2>1 DEF IInv, ServeInv
<1> QED
  BY <1>4, <1>5 DEF IInv
-----------------------------------------------------------------------------
\* Every step keeps the inductive invariant: what is due of a segment that fits
\* stays whole at the front of mybuffer until TranmittDataPointsAna has taken it.
THEOREM ParserInvariant == Spec => []IInv
<1>1. IInv /\ [Next]_vars => IInv'
  <2> SUFFICES ASSUME IInv, [Next]_vars PROVE IInv'
    OBVIOUS
  <2>1. CASE Segment
    BY <2>1, ReceiveKeepsIInv DEF Segment
  <2>2. CASE NoFrame
    BY <2>2, NoFrameKeepsIInv
  <2>3. ASSUME NEW head \in Index, TakeFrame(head) PROVE IInv'
    BY <2>3, TakeKeepsIInv
  <2>4. CASE UNCHANGED vars
    BY <2>4 DEF vars, IInv, TypeOK, ServeInv, Fits, Rest, Calls, Offset
  <2> QED
    BY <2>1, <2>2, <2>3, <2>4 DEF Next, Scan
<1> QED
  BY InitIInv, <1>1, PTL DEF Spec

\* The variables keep their types: no write of the parser leaves mybuffer.
THEOREM ParserTypes == Spec => []TypeOK
<1>1. IInv => TypeOK
  BY DEF IInv
<1> QED
  BY <1>1, ParserInvariant, PTL

\* Frames that arrive whole, in a segment that starts with one and fits into
\* tcp_client_recvbuf and into mybuffer, are all taken, in order, whatever was
\* received before.  (NewDataServed, of longer segments, does not hold.)
THEOREM SegmentsServed == Spec => []SegmentServed
<1>1. IInv => SegmentServed
  <2> SUFFICES ASSUME IInv, pc = "recv", Fits
               PROVE  /\ Len(due) <= Len(taken) - mark
                      /\ \A k \in 1 .. Len(due) : taken[mark + k] = due[k]
    BY DEF SegmentServed, DueTaken
  <2>1. Rest <= 0 /\ Len(due) \in Nat /\ Calls \in Int /\ Calls = Len(taken) - mark
    BY DEF IInv, TypeOK, ServeInv, Calls
  <2>2. Len(due) <= Calls
    BY <2>1 DEF Rest
  <2>3. \A k \in 1 .. Len(due) : k <= Calls
    BY <2>1, <2>2
  <2> QED
    BY <2>1, <2>2, <2>3 DEF IInv, ServeInv
<1> QED
  BY <1>1, ParserInvariant, PTL

-----------------------------------------------------------------------------
(* A clean stream, cut between any two halfwords.                          *)

\* When no value reads as a mark, the first cell of a frame is its only
\* header, and the seventh its only tail, ...
LEMMA MarksOfFrame ==
  ASSUME NEW f \in Frames, f.value \notin {"H", "T"}, NEW c \in 1 .. FrameSize
  PROVE  /\ Cell(f, c) = "H" <=> c = 1
         /\ Cell(f, c) = "T" <=> c = 7
<1>1. f.type \in Types /\ f.value \in Values
  BY DEF Frames
<1>2. f.type # "H" /\ f.type # "T" /\ f.value # "T"
  BY <1>1, ParserAssumption
<1> QED
  BY <1>2 DEF Cell, FrameSize

\* ... so the place of a cell in the stream tells which it is.
LEMMA MarksOfStream ==
  ASSUME TypeOK, Plain, NEW i \in 1 .. MaxFrames * FrameSize
  PROVE  /\ Stream(i) = "H" <=> (i - 1) % FrameSize = 0
         /\ Stream(i) = "T" <=> (i - 1) % FrameSize = TailAt
<1> DEFINE j == ((i - 1) \div FrameSize) + 1
           c == ((i - 1) % FrameSize) + 1
<1>1. j \in 1 .. MaxFrames /\ c \in 1 .. FrameSize
  BY ParserAssumption DEF FrameSize
<1>2. sent[j] \in Frames /\ sent[j].value \notin {"H", "T"}
  BY <1>1 DEF TypeOK, Plain
<1>3. Stream(i) = Cell(sent[j], c)
  BY DEF Stream
<1>4. /\ Stream(i) = "H" <=> c = 1
      /\ Stream(i) = "T" <=> c = 7
  BY <1>1, <1>2, <1>3, MarksOfFrame
<1>5. /\ c = 1 <=> (i - 1) % FrameSize = 0
      /\ c = 7 <=> (i - 1) % FrameSize = TailAt
  BY DEF FrameSize, TailAt
<1> QED
  BY <1>4, <1>5

\* A frame that is found was sent as a frame: its tail is too far behind to be
\* left over from an earlier segment.
LEMMA FoundInStream ==
  ASSUME TypeOK, Plain, NEW p \in Nat, NEW g \in Nat, Unsearched(p, g),
         NEW head \in Index, Found(head)
  PROVE  /\ head + TailAt < g
         /\ \E m \in 1 .. MaxFrames :
              /\ p + head = FrameSize * (m - 1)
              /\ [type |-> mybuffer[head + 2], value |-> mybuffer[head + 5]] = sent[m]
<1>1. head \in Nat /\ head + TailAt \in Index /\ mybuffer[head + TailAt] = "T"
  BY DEF Found, Valid, Index
<1>2. head + TailAt < g
  BY <1>1 DEF Unsearched, TailAt
<1>3. pos \in 0 .. MaxFrames * FrameSize /\ p + g <= pos
  BY DEF TypeOK, Unsearched
<1>4. \A k \in 0 .. TailAt : /\ mybuffer[head + k] = Stream(p + head + k + 1)
                             /\ p + head + k + 1 \in 1 .. MaxFrames * FrameSize
  <2> TAKE k \in 0 .. TailAt
  <2>1. head + k \in 0 .. g - 1 /\ p + head + k + 1 \in 1 .. MaxFrames * FrameSize
    BY <1>1, <1>2, <1>3, ParserAssumption DEF TailAt, FrameSize
  <2>2. mybuffer[head + k] = Stream(p + (head + k) + 1)
    BY <2>1 DEF Unsearched
  <2>3. p + (head + k) + 1 = p + head + k + 1
    BY <1>1 DEF TailAt
  <2> QED
    BY <2>1, <2>2, <2>3
<1>5. (p + head) % FrameSize = 0
  <2> DEFINE i == p + head + TailAt + 1
  <2>1. Stream(i) = "T" /\ i \in 1 .. MaxFrames * FrameSize
    BY <1>1, <1>4 DEF TailAt
  <2>2. i = p + head + 7
    BY <1>1 DEF TailAt
  <2> HIDE DEF i
  <2>3. (i - 1) % FrameSize = TailAt
    BY <2>1, MarksOfStream, Zenon
  <2> QED
    BY <1>1, <2>2, <2>3 DEF TailAt, FrameSize
<1>6. PICK m \in Nat \ {0} : p + head = FrameSize * (m - 1)
  <2> DEFINE q == (p + head) \div FrameSize
  <2>1. q \in Nat /\ p + head = FrameSize * q
    BY <1>1, <1>5 DEF FrameSize
  <2>2. q + 1 \in Nat \ {0} /\ (q + 1) - 1 = q
    BY <2>1
  <2> QED
    BY <2>1, <2>2
<1>7. m \in 1 .. MaxFrames
  BY <1>1, <1>2, <1>3, <1>6, ParserAssumption DEF FrameSize, TailAt
<1>8. ASSUME NEW k \in 0 .. TailAt
      PROVE  mybuffer[head + k] = Cell(sent[m], k + 1)
  <2>1. k + 1 \in 1 .. FrameSize
    BY DEF TailAt, FrameSize
  <2>2. Stream(0 + FrameSize * (m - 1) + (k + 1)) = Cell(sent[(0 \div FrameSize) + m], k + 1)
    <3>1. 0 % FrameSize = 0
      BY DEF FrameSize
    <3> QED
      BY <2>1, <3>1, StreamCell
  <2>3. (0 \div FrameSize) + m = m
    BY DEF FrameSize
  <2>4. 0 + FrameSize * (m - 1) + (k + 1) = p + head + k + 1
    BY <1>1, <1>6 DEF FrameSize, TailAt
  <2> QED
    BY <1>4, <2>2, <2>3, <2>4
<1>9. mybuffer[head + 2] = Cell(sent[m], 3) /\ mybuffer[head + 5] = Cell(sent[m], 6)
  BY <1>8 DEF TailAt
<1>10. sent[m] \in Frames
  BY <1>7 DEF TypeOK
<1> QED
  BY <1>2, <1>6, <1>7, <1>9, <1>10, FrameOfCells

\* A search that ends has left no tail with a place for a header before it.
LEMMA NothingLeft ==
  ASSUME TypeOK, Plain, NEW p \in Nat, NEW g \in Nat, Unsearched(p, g), NoFrame,
         NEW k \in Index, k >= TailAt
  PROVE  mybuffer[k] # "T"
<1> SUFFICES ASSUME mybuffer[k] = "T" PROVE FALSE
  OBVIOUS
<1> USE ParserAssumption
<1>1. k \in Nat /\ k < g
  BY DEF Unsearched, Index
<1>2. /\ pos \in 0 .. MaxFrames * FrameSize /\ p + g <= pos
      /\ 2 * g < Size /\ g <= start_point /\ start_point \in Int
  BY DEF TypeOK, Unsearched
<1>3. \A j \in 0 .. g - 1 :
        /\ mybuffer[j] = "H" <=> (p + j) % FrameSize = 0
        /\ mybuffer[j] = "T" <=> (p + j) % FrameSize = TailAt
  <2> TAKE j \in 0 .. g - 1
  <2> DEFINE i == p + j + 1
  <2>1. mybuffer[j] = Stream(i)
    BY DEF Unsearched
  <2>2. i \in 1 .. MaxFrames * FrameSize /\ i - 1 = p + j
    BY <1>2 DEF FrameSize
  <2> HIDE DEF i
  <2>3. /\ Stream(i) = "H" <=> (i - 1) % FrameSize = 0
        /\ Stream(i) = "T" <=> (i - 1) % FrameSize = TailAt
    BY <2>2, MarksOfStream, Zenon
  <2> QED
    BY <2>1, <2>2, <2>3
<1> DEFINE h == (k - TailAt) % FrameSize
<1>4. (p + k) % FrameSize = TailAt
  BY <1>1, <1>3
<1>5. h \in 0 .. FrameSize - 1 /\ h + TailAt <= k /\ (p + h) % FrameSize = 0
  BY <1>1, <1>4 DEF FrameSize, TailAt
<1> HIDE DEF h
<1>6. (p + (h + TailAt)) % FrameSize = TailAt
  BY <1>5 DEF FrameSize, TailAt
<1>7. \A j \in 0 .. h - 1 : (p + j) % FrameSize # 0
  <2>1. h \in 0 .. 7 /\ (p + h) % 8 = 0
    BY <1>5 DEF FrameSize
  <2>2. \A j \in 0 .. h - 1 : (p + j) % 8 # 0
    BY <2>1
  <2> QED
    BY <2>2 DEF FrameSize
<1>8. Header(h)
  BY <1>1, <1>2, <1>3, <1>5 DEF Header, TailAt
<1>9. Valid(h)
  <2>1. h + TailAt \in 0 .. g - 1 /\ h + TailAt \in Index
    BY <1>1, <1>2, <1>5 DEF Index, TailAt
  <2> QED
    BY <1>3, <1>6, <2>1 DEF Valid
<1>10. \A j \in 0 .. h - 1 : ~Header(j)
  <2> TAKE j \in 0 .. h - 1
  <2>1. j \in 0 .. g - 1
    BY <1>1, <1>5 DEF TailAt
  <2> QED
    BY <1>3, <1>7, <2>1 DEF Header
<1>11. h \in Index
  BY <1>1, <1>2, <1>5 DEF Index, TailAt
<1> QED
  BY <1>8, <1>9, <1>10, <1>11 DEF NoFrame, Found

\* Nothing was received, nothing taken.
LEMMA InitSearch == Init => SearchInv
<1> SUFFICES ASSUME Init PROVE SearchInv
  OBVIOUS
<1>1. Unsearched(0, 0)
  BY ParserAssumption DEF Init, Unsearched, Index
<1>2. TakenBefore(0)
  <2> DEFINE at == [k \in DOMAIN taken |-> k]
  <2>1. DOMAIN taken = {}
    BY DEF Init
  <2>2. at \in [DOMAIN taken -> DOMAIN sent]
    BY <2>1
  <2> QED
    BY <2>1, <2>2 DEF TakenBefore
<1>3. 0 \in 0 .. pos /\ 0 \in 0 .. Size
  BY ParserAssumption DEF Init
<1> QED
  BY <1>1, <1>2, <1>3 DEF SearchInv

\* What was taken before cell p was taken before any later one.
LEMMA TakenLater ==
  ASSUME TypeOK, NEW p \in Nat, NEW q \in Nat, p <= q, TakenBefore(p),
         taken' = taken, sent' = sent
  PROVE  TakenBefore(q)'
<1>1. PICK at \in [DOMAIN taken -> DOMAIN sent] :
        /\ \A k \in DOMAIN taken : taken[k] = sent[at[k]] /\ FrameSize * at[k] <= p + 1
        /\ \A j, k \in DOMAIN taken : j < k => at[j] < at[k]
  BY DEF TakenBefore
<1>2. DOMAIN sent = 1 .. MaxFrames
  BY DEF TypeOK
<1>3. \A k \in DOMAIN taken : FrameSize * at[k] <= q + 1
  <2> TAKE k \in DOMAIN taken
  <2>1. at[k] \in Nat /\ FrameSize * at[k] <= p + 1
    BY <1>1, <1>2
  <2> QED
    BY <2>1 DEF FrameSize
<1> QED
  BY <1>1, <1>3 DEF TakenBefore

\* A segment is copied over what is left of earlier ones, or dropped.
LEMMA ReceiveKeepsSearch ==
  ASSUME TypeOK, Clean, SearchInv, NEW n \in 1 .. MaxFrames * FrameSize, Receive(n),
         Clean'
  PROVE  SearchInv'
<1> USE ParserAssumption
<1>1. PICK p \in 0 .. pos : Unsearched(p, 0) /\ TakenBefore(p)
  BY DEF SearchInv, Receive
<1>2. /\ pc' = "scan" /\ start_point = 0 /\ sent' = sent /\ taken' = taken
      /\ pos' = pos + n /\ pos \in Nat /\ n \in Nat
  BY DEF Receive, TypeOK
<1>3. \A k \in Index : k >= TailAt => mybuffer[k] # "T"
  BY <1>1 DEF Unsearched, Index
<1>4. CASE ~Accepted(n)
  <2>1. mybuffer' = mybuffer /\ start_point' = 0
    BY <1>2, <1>4 DEF Receive
  <2>2. Unsearched(p, 0)'
    BY <1>2, <1>3, <2>1 DEF Unsearched
  <2>3. TakenBefore(p)'
    BY <1>1, <1>2, TakenLater
  <2>4. p \in 0 .. pos' /\ 0 \in 0 .. Size
    BY <1>2
  <2> QED
    BY <1>2, <2>2, <2>3, <2>4 DEF SearchInv
<1>5. CASE Accepted(n)
  <2>0. PICK o \in 0 .. pos : o = pos
    BY <1>2
  <2>1. PICK foreign \in [RxSize + 1 .. n -> Foreign] : mybuffer' = Copied(n, foreign)
    BY <1>5 DEF Receive
  <2>2. start_point' = 2 * n /\ 2 * n < Size /\ n <= RxSize /\ n \in 0 .. Size
    <3>1. start_point' = start_point + 2 * n /\ spilt' = (spilt \/ n > RxSize)
      BY <1>5 DEF Receive
    <3>2. ~spilt'
      BY DEF Clean
    <3>3. 2 * n < Size /\ n \in 0 .. Size
      BY <1>2, <1>5 DEF Accepted
    <3>4. n <= RxSize
      <4>1. ~(n > RxSize)
        BY <3>1, <3>2
      <4> QED
        BY <1>2, <4>1
    <3>5. start_point' = 2 * n
      BY <1>2, <3>1
    <3> QED
      BY <3>3, <3>4, <3>5
  <2>3. \A k \in 0 .. n - 1 : mybuffer'[k] = Stream(o + k + 1)'
    <3> TAKE k \in 0 .. n - 1
    <3>1. k \in Index /\ k \in 0 .. 0 + n - 1 /\ k + 1 <= RxSize
      BY <1>2, <2>2 DEF Index
    <3>2. mybuffer'[k] = Received(k - 0 + 1, foreign)
      BY <1>2, <2>1, <3>1 DEF Copied
    <3>3. k - 0 + 1 = k + 1 /\ pos + (k + 1) = o + k + 1
      BY <1>2, <2>0, <3>1
    <3>4. Received(k + 1, foreign) = Stream(pos + (k + 1))
      BY <3>1 DEF Received
    <3>5. Stream(o + k + 1)' = Stream(o + k + 1)
      BY <1>2 DEF Stream
    <3> QED
      BY <3>2, <3>3, <3>4, <3>5
  <2>4. \A k \in Index : k >= n /\ k >= TailAt => mybuffer'[k] # "T"
    <3> SUFFICES ASSUME NEW k \in Index, k >= n, k >= TailAt
                 PROVE  mybuffer'[k] # "T"
      OBVIOUS
    <3>1. k \notin 0 .. 0 + n - 1
      BY <1>2 DEF Index
    <3>2. mybuffer'[k] = mybuffer[k]
      BY <1>2, <2>1, <3>1 DEF Copied
    <3> QED
      BY <1>3, <3>2
  <2>5. Unsearched(o, n)'
    BY <1>2, <2>0, <2>2, <2>3, <2>4 DEF Unsearched
  <2>6. TakenBefore(o)'
    BY <1>1, <1>2, <2>0, TakenLater
  <2>7. o \in 0 .. pos'
    BY <1>2, <2>0
  <2> QED
    BY <1>2, <2>2, <2>5, <2>6, <2>7 DEF SearchInv
<1> QED
  BY <1>4, <1>5

\* A frame is taken, and it is a later one than all before.
LEMMA TakeKeepsSearch ==
  ASSUME TypeOK, Clean, SearchInv, NEW head \in Index, TakeFrame(head)
  PROVE  SearchInv'
<1> USE ParserAssumption
<1>1. PICK p \in 0 .. pos, g \in 0 .. Size : Unsearched(p, g) /\ TakenBefore(p)
  BY DEF SearchInv
<1> DEFINE e == [type |-> mybuffer[head + 2], value |-> mybuffer[head + 5]]
<1>2. /\ Found(head) /\ head \in Nat
      /\ taken' = Append(taken, e) /\ mybuffer' = Cleared(head + TailAt)
      /\ start_point' = start_point - (head + TailAt)
      /\ pc' = pc /\ pc = "scan" /\ sent' = sent /\ pos' = pos
      /\ pos \in Nat /\ p \in Nat /\ g \in Nat
  BY DEF TakeFrame, Index, TypeOK
<1>3. /\ head + TailAt < g
      /\ \E m \in 1 .. MaxFrames : p + head = FrameSize * (m - 1) /\ e = sent[m]
  BY <1>1, <1>2, FoundInStream DEF Clean
<1>4. PICK m \in 1 .. MaxFrames : p + head = FrameSize * (m - 1) /\ e = sent[m]
  BY <1>3
<1> HIDE DEF e
<1> DEFINE q == p + head + TailAt + 1
           r == g - (head + TailAt + 1)
<1>5. /\ p + g <= pos /\ 2 * g < Size /\ g <= start_point /\ start_point \in Int
      /\ \A k \in 0 .. g - 1 : mybuffer[k] = Stream(p + k + 1)
      /\ \A k \in Index : k >= g /\ k >= TailAt => mybuffer[k] # "T"
  BY <1>1 DEF Unsearched, TypeOK
<1>6. q \in 0 .. pos /\ r \in 0 .. Size /\ q + r <= pos /\ 2 * r < Size /\ r <= start_point'
  BY <1>2, <1>3, <1>5 DEF TailAt
<1>7. \A k \in 0 .. r - 1 : mybuffer'[k] = Stream(q + k + 1)'
  <2> TAKE k \in 0 .. r - 1
  <2>1. /\ k \in Index /\ k + (head + TailAt) + 1 \in Index
        /\ k + (head + TailAt) + 1 \in 0 .. g - 1
    BY <1>2, <1>3, <1>5 DEF Index, TailAt
  <2>2. mybuffer'[k] = mybuffer[k + (head + TailAt) + 1]
    BY <1>2, <2>1 DEF Cleared
  <2>3. mybuffer[k + (head + TailAt) + 1] = Stream(p + (k + (head + TailAt) + 1) + 1)
    BY <1>5, <2>1
  <2>4. p + (k + (head + TailAt) + 1) + 1 = q + k + 1
    BY <1>2, <2>1 DEF TailAt, Index
  <2>5. Stream(q + k + 1)' = Stream(q + k + 1)
    BY <1>2 DEF Stream
  <2> QED
    BY <2>2, <2>3, <2>4, <2>5
<1>8. \A k \in Index : k >= r /\ k >= TailAt => mybuffer'[k] # "T"
  <2> SUFFICES ASSUME NEW k \in Index, k >= r, k >= TailAt
               PROVE  mybuffer'[k] # "T"
    OBVIOUS
  <2>1. k \in Nat
    BY DEF Index
  <2>2. CASE k + (head + TailAt) + 1 \in Index
    <3>1. mybuffer'[k] = mybuffer[k + (head + TailAt) + 1]
      BY <1>2, <2>2 DEF Cleared
    <3>2. k + (head + TailAt) + 1 >= g /\ k + (head + TailAt) + 1 >= TailAt
      BY <1>2, <2>1 DEF TailAt
    <3> QED
      BY <1>5, <2>2, <3>1, <3>2
  <2>3. CASE k + (head + TailAt) + 1 \notin Index /\ k < head + TailAt
    BY <1>2, <2>3 DEF Cleared
  <2>4. CASE k + (head + TailAt) + 1 \notin Index /\ ~(k < head + TailAt)
    <3>1. mybuffer'[k] = mybuffer[k]
      BY <1>2, <2>4 DEF Cleared
    <3>2. k >= g
      BY <1>2, <1>3, <1>5, <2>1, <2>4 DEF Index, TailAt
    <3> QED
      BY <1>5, <3>1, <3>2
  <2> QED
    BY <2>2, <2>3, <2>4
<1>9. TakenBefore(q)'
  <2>1. PICK at \in [DOMAIN taken -> DOMAIN sent] :
          /\ \A k \in DOMAIN taken : taken[k] = sent[at[k]] /\ FrameSize * at[k] <= p + 1
          /\ \A j, k \in DOMAIN taken : j < k => at[j] < at[k]
    BY <1>1 DEF TakenBefore
  <2>2. Len(taken) \in Nat /\ DOMAIN taken = 1 .. Len(taken) /\ DOMAIN sent = 1 .. MaxFrames
    BY DEF TypeOK
  <2>3. /\ DOMAIN taken' = 1 .. Len(taken) + 1
        /\ \A k \in DOMAIN taken : taken'[k] = taken[k]
        /\ taken'[Len(taken) + 1] = e
    <3>1. e \in [type : Cells, value : Cells]
      BY <1>4 DEF TypeOK, Frames, Cells
    <3> QED
      BY <1>2, <2>2, <3>1, AppendProperties DEF TypeOK
  <2> DEFINE new == [k \in 1 .. Len(taken) + 1 |-> IF k = Len(taken) + 1 THEN m ELSE at[k]]
  <2>4. \A k \in 1 .. Len(taken) : new[k] = at[k] /\ at[k] \in 1 .. MaxFrames
    BY <2>1, <2>2
  <2>5. new[Len(taken) + 1] = m
    BY <2>2
  <2>6. new \in [DOMAIN taken' -> DOMAIN sent]
    BY <2>1, <2>2, <2>3
  <2> HIDE DEF new
  <2>7. \A k \in 1 .. Len(taken) : new[k] < m
    <3> TAKE k \in 1 .. Len(taken)
    <3>1. FrameSize * at[k] <= p + 1 /\ at[k] \in Nat
      BY <2>1, <2>2, <2>4
    <3> QED
      BY <1>2, <1>4, <2>4, <3>1 DEF FrameSize
  <2>8. FrameSize * m <= q + 1
    BY <1>2, <1>4 DEF FrameSize, TailAt
  <2>9. \A k \in DOMAIN taken' : taken'[k] = sent[new[k]] /\ FrameSize * new[k] <= q + 1
    <3> TAKE k \in DOMAIN taken'
    <3>1. CASE k = Len(taken) + 1
      BY <1>4, <2>3, <2>5, <2>8, <3>1
    <3>2. CASE k \in 1 .. Len(taken)
      <4>1. taken'[k] = sent[new[k]]
        BY <2>1, <2>2, <2>3, <2>4, <3>2
      <4>2. new[k] < m /\ new[k] \in Nat
        BY <2>4, <2>7, <3>2
      <4>3. FrameSize * new[k] <= q + 1
        BY <1>2, <2>8, <4>2 DEF FrameSize, TailAt
      <4> QED
        BY <4>1, <4>3
    <3> QED
      BY <2>2, <2>3, <3>1, <3>2
  <2>10. \A j, k \in DOMAIN taken' : j < k => new[j] < new[k]
    <3> SUFFICES ASSUME NEW j \in DOMAIN taken', NEW k \in DOMAIN taken', j < k
                 PROVE  new[j] < new[k]
      OBVIOUS
    <3>1. j \in 1 .. Len(taken)
      BY <2>2, <2>3
    <3>2. CASE k = Len(taken) + 1
      BY <2>5, <2>7, <3>1, <3>2
    <3>3. CASE k \in 1 .. Len(taken)
      BY <2>1, <2>2, <2>4, <3>1, <3>3
    <3> QED
      BY <2>2, <2>3, <3>2, <3>3
  <2> QED
    BY <1>2, <2>6, <2>9, <2>10 DEF TakenBefore
<1> HIDE DEF q, r
<1>10. Unsearched(q, r)'
  BY <1>2, <1>6, <1>7, <1>8 DEF Unsearched
<1> QED
  BY <1>2, <1>6, <1>9, <1>10 DEF SearchInv

\* A search ends: no cell of the buffer matters any more.
LEMMA NoFrameKeepsSearch ==
  ASSUME TypeOK, Clean, SearchInv, NoFrame
  PROVE  SearchInv'
<1>1. PICK p \in 0 .. pos, g \in 0 .. Size : Unsearched(p, g) /\ TakenBefore(p)
  BY DEF SearchInv
<1>2. /\ pc' = "recv" /\ start_point' = 0 /\ mybuffer' = mybuffer /\ sent' = sent
      /\ pos' = pos /\ taken' = taken /\ pos \in Nat
  BY DEF NoFrame, TypeOK
<1>3. \A k \in Index : k >= TailAt => mybuffer[k] # "T"
  BY <1>1, <1>2, NothingLeft DEF Clean
<1>4. Unsearched(p, 0)'
  BY <1>2, <1>3, ParserAssumption DEF Unsearched
<1>5. TakenBefore(p)'
  BY <1>1, <1>2, TakenLater
<1> QED
  BY <1>2, <1>4, <1>5, ParserAssumption DEF SearchInv

\* Between whichever halfwords a clean stream is cut: the front of the buffer
\* is what the search has left of the current segment, and no tail behind it
\* can end a frame.
THEOREM SearchInvariant == Spec => []SearchInv
<1>1. TypeOK /\ SearchInv /\ [Next]_vars => SearchInv'
  <2> SUFFICES ASSUME TypeOK, SearchInv, [Next]_vars, Clean, Clean' PROVE SearchInv'
    <3>1. TypeOK /\ [Next]_vars => sent' = sent /\ (spilt => spilt')
      BY DEF Next, Segment, Scan, Receive, TakeFrame, NoFrame, vars, TypeOK
    <3> QED
      BY <3>1 DEF SearchInv, Clean, Plain
  <2>1. CASE Segment
    BY <2>1, ReceiveKeepsSearch DEF Segment
  <2>2. CASE NoFrame
    BY <2>2, NoFrameKeepsSearch
  <2>3. ASSUME NEW head \in Index, TakeFrame(head) PROVE SearchInv'
    BY <2>3, TakeKeepsSearch
  <2>4. CASE UNCHANGED vars
    BY <2>4 DEF vars, SearchInv, Clean, Plain, Unsearched, TakenBefore, Stream
  <2> QED
    BY <2>1, <2>2, <2>3, <2>4 DEF Next, Scan
<1> QED
  BY InitSearch, ParserTypes, <1>1, PTL DEF Spec

\* As long as the stream is clean, TranmittDataPointsAna never searches outside
\* the buffer, although it starts with a start_point of twice the cells that
\* came in.
THEOREM StaysInside == Spec => []SearchStaysInside
<1>1. TypeOK /\ SearchInv => SearchStaysInside
  <2> SUFFICES ASSUME TypeOK, SearchInv, Clean PROVE start_point >= 0
    BY DEF SearchStaysInside, InBuffer
  <2>1. PICK p \in 0 .. pos, g \in 0 .. Size : Unsearched(p, g)
    BY DEF SearchInv
  <2>2. g \in Nat /\ g <= start_point /\ start_point \in Int
    BY <2>1, ParserAssumption DEF Unsearched, TypeOK
  <2> QED
    BY <2>2
<1> QED
  BY <1>1, ParserTypes, SearchInvariant, PTL

\* Between whichever halfwords TCP cuts a clean stream, the host's frames are
\* taken as they were sent, each at most once and in order: parts of two never
\* make a third.
THEOREM FramesInOrder == Spec => []TakenInOrder
<1>1. SearchInv => TakenInOrder
  <2> SUFFICES ASSUME SearchInv, Clean
               PROVE  \E at \in [DOMAIN taken -> DOMAIN sent] :
                        /\ \A k \in DOMAIN taken : taken[k] = sent[at[k]]
                        /\ \A j, k \in DOMAIN taken : j < k => at[j] < at[k]
    BY DEF TakenInOrder
  <2>1. PICK p \in 0 .. pos : TakenBefore(p)
    BY DEF SearchInv
  <2> QED
    BY <2>1 DEF TakenBefore
<1> QED
  BY <1>1, SearchInvariant, PTL

-----------------------------------------------------------------------------
\* A call of TranmittDataPointsAna makes at most Size / TailAt + 2 passes: the
\* TCP/IP thread is held up for no longer, whatever the stream and the buffer
\* hold, as long as the search has not left the buffer (tansmitt.c 161-200).
THEOREM CallIsBounded == Spec => []PassesBounded
<1>1. Init => PassesBounded
  BY DEF Init, PassesBounded
<1>2. TypeOK /\ PassesBounded /\ [Next]_vars => PassesBounded'
  <2> SUFFICES ASSUME TypeOK, PassesBounded, [Next]_vars PROVE PassesBounded'
    OBVIOUS
  <2> USE DEF PassesBounded, Calls, TailAt
  <2>1. ASSUME NEW n \in 1 .. MaxFrames * FrameSize, Receive(n) PROVE PassesBounded'
    <3>1. start_point = 0 /\ Len(taken) \in Nat /\ Size \in Nat \ {0}
      BY <2>1, ParserAssumption DEF TypeOK, Receive
    <3>2. mark' = Len(taken) /\ taken' = taken
      BY <2>1 DEF Receive
    <3>3. n \in Nat
      BY ParserAssumption DEF FrameSize
    <3>4. start_point' \in Int /\ start_point' < Size
      BY <2>1, <3>1, <3>3 DEF Receive, Accepted
    <3>5. Len(taken') - mark' = 0
      BY <3>1, <3>2
    <3>6. start_point' + 6 * (Len(taken') - mark') < Size
      <4> HIDE DEF PassesBounded
      <4> QED
        BY <3>4, <3>5
    <3> QED
      BY <3>6
  <2>2. ASSUME NEW head \in Index, TakeFrame(head) PROVE PassesBounded'
    <3>1. head \in Nat /\ start_point \in Int /\ Size \in Nat /\ mark \in Nat
      BY ParserAssumption DEF Index, TypeOK
    <3>2. mark' = mark /\ Len(taken) \in Nat /\ Len(taken') = Len(taken) + 1
      BY <2>2 DEF TakeFrame, TypeOK
    <3>3. start_point' = start_point - (head + TailAt) /\ pc = "scan"
      BY <2>2 DEF TakeFrame
    <3>4. start_point + 6 * (Len(taken) - mark) < Size
      BY <3>3
    <3>5. start_point' + 6 * (Len(taken') - mark') < Size
      <4> HIDE DEF PassesBounded
      <4> QED
        BY <3>1, <3>2, <3>3, <3>4
    <3> QED
      BY <3>5
  <2>3. CASE NoFrame
    BY <2>3 DEF NoFrame
  <2>4. CASE UNCHANGED vars
    BY <2>4 DEF vars
  <2> QED
    BY <2>1, <2>2, <2>3, <2>4 DEF Next, Segment, Scan
<1> QED
  BY <1>1, <1>2, ParserTypes, PTL DEF Spec
=============================================================================
