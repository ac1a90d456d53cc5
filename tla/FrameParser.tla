----------------------------- MODULE FrameParser -----------------------------
(***************************************************************************)
(* How commands of the host get out of the TCP stream: tcp_server_recv     *)
(* (myLWIPAPP.c) copies a segment into tcp_client_recvbuf and hands it to  *)
(* TranmittDataPointsAna (tansmitt.c), which searches mybuffer for frames  *)
(* of type ONE_PARAMETER_TO_SEND.                                          *)
(*                                                                         *)
(* A cell is a halfword.  A frame is eight of them: the header "H"         *)
(* (0x4455), padding, the type (32 bits), the value (a float), the tail    *)
(* "T" (0xAABB) and padding.  One halfword of the type and one of the      *)
(* value are told apart; the others, and the padding, are "0": neither a   *)
(* header nor a tail.  The host writes whole frames, and TCP cuts the      *)
(* stream into segments between any two halfwords.  (A cut between the two *)
(* bytes of a halfword, which shifts all that follows, is left out.)       *)
(*                                                                         *)
(* A frame put together from foreign memory may have any type;             *)
(* ParameterAna then stores outside safe_buffer, and nothing is said of    *)
(* the rest of the program.                                                *)
(*                                                                         *)
(* A frame of data points has its tail at index 501, outside the 100       *)
(* halfwords mybuffer has on the target: Find_Data_Header never finds one, *)
(* and it is left out with its branches.                                   *)
(***************************************************************************)
EXTENDS Integers, Sequences

CONSTANTS Size,      \* mybuffer_length
          RxSize,    \* TCP_CLIENT_RX_BUFSIZE, in halfwords
          Types,     \* types of frames the host sends
          Values,    \* their values; "H" and "T" read as a header and a tail
          Foreign,   \* halfwords that lie in memory behind tcp_client_recvbuf
          MaxFrames  \* frames the host sends: bound of the model

ASSUME ParserAssumption ==
  /\ Size \in Nat \ {0}
  /\ RxSize \in Nat
  /\ MaxFrames \in Nat
  /\ "H" \notin Types /\ "T" \notin Types

TailAt    == 6  \* index of frame_tail in ONE_PARAMETER_TO_SEND
FrameSize == 8  \* its size

Frames == [type : Types, value : Values]
Cells  == {"H", "T", "0"} \cup Types \cup Values \cup Foreign
Index  == 0 .. Size - 1

\* LoadStruct.
Cell(f, k) == <<"H", "0", f.type, "0", "0", f.value, "T", "0">>[k]

VARIABLES
  mybuffer,    \* the buffer, indexed from 0
  start_point, \* as the code counts it
  pc,          \* "recv", or "scan" in the loop of TranmittDataPointsAna
  sent,        \* the frames the host sends
  pos,         \* cells of them that TCP has delivered
  seg,         \* cells of the current segment
  due,         \* frames it holds whole, from its first cell on
  taken,       \* frames given to ParameterAna, in order
  mark,        \* how many of them before the current call
  spilt        \* foreign memory was copied into mybuffer

vars == <<mybuffer, start_point, pc, sent, pos, seg, due, taken, mark, spilt>>

Stream(k) == Cell(sent[((k - 1) \div FrameSize) + 1], ((k - 1) % FrameSize) + 1)

Init ==
  /\ mybuffer = [k \in Index |-> "0"]
  /\ start_point = 0
  /\ pc = "recv"
  /\ sent \in [1 .. MaxFrames -> Frames]
  /\ pos = 0 /\ seg = 0
  /\ due = <<>> /\ taken = <<>> /\ mark = 0
  /\ spilt = FALSE

-----------------------------------------------------------------------------
\* Cell k of a segment as the parser is given it: data_len counts the cells
\* that did not fit into tcp_client_recvbuf, and for them TranmittDataPointsAna
\* copies what lies behind that buffer.
Received(k, foreign) == IF k <= RxSize THEN Stream(pos + k) ELSE foreign[k]

\* The frames a segment of n cells holds whole, when it starts with a frame.
Whole(n) ==
  IF pos % FrameSize = 0
  THEN [k \in 1 .. n \div FrameSize |-> sent[(pos \div FrameSize) + k]]
  ELSE <<>>

\* memcpy to the front of the buffer, where start_point is between two calls.
Copied(n, foreign) ==
  [k \in Index |-> IF k \in start_point .. start_point + n - 1
                   THEN Received(k - start_point + 1, foreign) ELSE mybuffer[k]]

\* TranmittDataPointsAna takes n cells: the length and start_point are in bytes,
\* mybuffer_length and the place in mybuffer in halfwords.
Accepted(n) == 2 * n + start_point < Size

\* A segment of n cells is received.
Receive(n) ==
  /\ pc = "recv"
  /\ pos + n <= MaxFrames * FrameSize
  /\ IF Accepted(n)
     THEN /\ \E foreign \in [RxSize + 1 .. n -> Foreign] : mybuffer' = Copied(n, foreign)
          /\ start_point' = start_point + 2 * n
          /\ spilt' = (spilt \/ n > RxSize)
     ELSE UNCHANGED <<mybuffer, start_point, spilt>>
  /\ pos' = pos + n
  /\ seg' = n
  /\ due' = Whole(n)
  /\ mark' = Len(taken)
  /\ pc' = "scan"
  /\ UNCHANGED <<sent, taken>>

\* Bug: the tail is looked for right behind the last member, not at its place.
Valid_Packed(k) == k + TailAt - 1 \in Index /\ mybuffer[k + TailAt - 1] = "T"

\* Find_Parameter_Header: only the first header counts, and only with a tail
\* inside the buffer.
Valid(k) == k + TailAt \in Index /\ mybuffer[k + TailAt] = "T"
Header(k)   == k < start_point /\ mybuffer[k] = "H"
Found(head) == Header(head) /\ Valid(head) /\ \A k \in 0 .. head - 1 : ~Header(k)

\* Bug: the frame is left where it is.
Cleared_Nothing(ender) == mybuffer

\* ClearFrameFromHeadTo: the cells behind the tail move to the front.
Cleared(ender) ==
  [k \in Index |-> IF k + ender + 1 \in Index THEN mybuffer[k + ender + 1]
                   ELSE IF k < ender THEN "0" ELSE mybuffer[k]]

\* A search from a start_point below 0 leaves the buffer: its length is
\* unsigned.  Nothing is said of what comes after it.
InBuffer == start_point >= 0

\* ParameterAna, and the frame is cleared.
TakeFrame(head) ==
  /\ pc = "scan" /\ InBuffer /\ Found(head)
  /\ taken' = Append(taken, [type |-> mybuffer[head + 2], value |-> mybuffer[head + 5]])
  /\ mybuffer' = Cleared(head + TailAt)
  /\ start_point' = start_point - (head + TailAt)
  /\ UNCHANGED <<pc, sent, pos, seg, due, mark, spilt>>

\* Frames the current call has found.
Calls == Len(taken) - mark

\* Bug: start_point is left behind the cells that were searched.
NoFrame_KeepsStart ==
  /\ pc = "scan" /\ InBuffer /\ ~\E k \in Index : Found(k)
  /\ pc' = "recv"
  /\ UNCHANGED <<mybuffer, start_point, sent, pos, seg, due, taken, mark, spilt>>

\* Bug: the loop goes on until there was a frame.
NoFrame_Loops ==
  /\ pc = "scan" /\ InBuffer /\ ~\E k \in Index : Found(k)
  /\ start_point' = 0
  /\ pc' = IF Calls > 0 THEN "recv" ELSE "scan"
  /\ UNCHANGED <<mybuffer, sent, pos, seg, due, taken, mark, spilt>>

\* No frame is found: the call is over.
NoFrame ==
  /\ pc = "scan" /\ InBuffer /\ ~\E k \in Index : Found(k)
  /\ start_point' = 0
  /\ pc' = "recv"
  /\ UNCHANGED <<mybuffer, sent, pos, seg, due, taken, mark, spilt>>

-----------------------------------------------------------------------------
Segment == \E n \in 1 .. MaxFrames * FrameSize : Receive(n)
Scan    == NoFrame \/ \E head \in Index : TakeFrame(head)
Next    == Segment \/ Scan

\* The TCP/IP thread finishes a call; nobody has to send.
Spec == Init /\ [][Next]_vars /\ WF_vars(Scan)

-----------------------------------------------------------------------------
\* Types of the variables.
TypeOK ==
  /\ mybuffer \in [Index -> Cells]
  /\ start_point \in Int /\ start_point < Size
  /\ pc \in {"recv", "scan"}
  /\ pc = "recv" => start_point = 0
  /\ sent \in [1 .. MaxFrames -> Frames]
  /\ pos \in 0 .. MaxFrames * FrameSize
  /\ seg \in 0 .. MaxFrames * FrameSize
  /\ due \in Seq(Frames)
  /\ taken \in Seq([type : Cells, value : Cells])
  /\ mark \in 0 .. Len(taken)
  /\ spilt \in BOOLEAN

\* The frames that are due have been taken by the current call.
DueTaken == /\ Len(due) <= Len(taken) - mark
            /\ \A k \in 1 .. Len(due) : taken[mark + k] = due[k]

\* The current segment fits into tcp_client_recvbuf and into mybuffer.
Fits == seg <= RxSize /\ 2 * seg < Size

\* A segment of whole frames that fits both buffers is understood, whatever
\* the segments before it have left in mybuffer, foreign memory and marks in
\* values included: its frames are found, all of them and in order.
SegmentServed == pc = "recv" /\ Fits => DueTaken

\* TranmittDataPointsAna finds the frames of what it is given as new data: the
\* whole frames of every segment it takes.  (They are lost when the segment
\* is longer than tcp_client_recvbuf.)
NewDataServed == pc = "recv" /\ 2 * seg < Size => DueTaken

\* None of the values the host sends reads as a header or as a tail.
Plain == \A k \in DOMAIN sent : sent[k].value \notin {"H", "T"}

\* Only what the host has sent was ever copied into mybuffer, and the marks in
\* it are those of frames.
Clean == Plain /\ ~spilt

\* Between whichever halfwords a clean stream is cut, no frame is put together
\* from the parts of two, none is taken twice and none out of order: what is
\* taken is a part of what was sent.
TakenInOrder ==
  Clean => \E at \in [DOMAIN taken -> DOMAIN sent] :
             /\ \A k \in DOMAIN taken : taken[k] = sent[at[k]]
             /\ \A j, k \in DOMAIN taken : j < k => at[j] < at[k]

\* Between whichever halfwords a clean stream is cut, the search, which starts
\* with twice the cells that came in, ends before it has subtracted more.
SearchStaysInside == Clean => InBuffer

\* The loop of a call, which blocks the TCP/IP thread, is bounded whatever the
\* buffer holds: each frame it finds takes at least TailAt off start_point.
\* (A search from below 0 leaves the buffer, see InBuffer.)
PassesBounded == pc = "scan" => start_point + TailAt * Calls < Size

\* Every call returns.
CallReturns == pc = "scan" ~> pc = "recv" \/ ~InBuffer

-----------------------------------------------------------------------------
(* The inductive invariant behind SegmentServed.                           *)

\* Frames of the segment that are not taken yet.
Rest == Len(due) - Calls

\* The padding of the frame taken last precedes the next one.
Offset == IF Calls = 0 THEN 0 ELSE 1

\* What is due of a segment that fits lies whole at the front of the buffer, no
\* header is before it, and start_point is far enough behind it.
ServeInv ==
  Fits =>
    /\ \A k \in 1 .. Len(due) : k <= Calls => taken[mark + k] = due[k]
    /\ pc = "recv" => Rest <= 0
    /\ Rest > 0 =>
         /\ start_point >= 2 * FrameSize * Rest
         /\ Offset + FrameSize * Rest <= Size
         /\ Offset = 1 => mybuffer[0] # "H"
         /\ \A j \in 1 .. Rest, k \in 1 .. FrameSize :
              mybuffer[Offset + FrameSize * (j - 1) + k - 1] = Cell(due[Calls + j], k)

IInv == TypeOK /\ ServeInv

-----------------------------------------------------------------------------
(* The invariant behind TakenInOrder and SearchStaysInside.                *)

\* What was taken are frames of the stream before its cell p, in order.
TakenBefore(p) ==
  \E at \in [DOMAIN taken -> DOMAIN sent] :
    /\ \A k \in DOMAIN taken : taken[k] = sent[at[k]] /\ FrameSize * at[k] <= p + 1
    /\ \A j, k \in DOMAIN taken : j < k => at[j] < at[k]

\* The first g cells of the buffer are those of the stream behind its cell p.
\* A tail behind them is too near to the front to have a header.
Unsearched(p, g) ==
  /\ p + g <= pos /\ 2 * g < Size /\ g <= start_point
  /\ \A k \in 0 .. g - 1 : mybuffer[k] = Stream(p + k + 1)
  /\ \A k \in Index : k >= g /\ k >= TailAt => mybuffer[k] # "T"

SearchInv ==
  Clean => \E p \in 0 .. pos, g \in 0 .. Size :
             /\ Unsearched(p, g) /\ TakenBefore(p)
             /\ pc = "recv" => g = 0
=============================================================================
