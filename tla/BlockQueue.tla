----------------------------- MODULE BlockQueue -----------------------------
(***************************************************************************)
(* What the double-buffered acquisition of adc_control.c and usertask.c    *)
(* promises to the measuring code, without saying how.  Blocks of samples  *)
(* are captured one at a time, wait in a queue of Capacity places and are  *)
(* handed over whole, each exactly once.  The order is almost that of the  *)
(* capture: the scan of the two ready flags may hand over the second block *)
(* of a full queue first, but never overtakes the same block twice.        *)
(*                                                                         *)
(* Blocks are numbered in the order of capture, modulo IdCount.            *)
(***************************************************************************)
EXTENDS Naturals, Sequences

CONSTANTS Capacity,  \* number of sample buffers (adc_buffer_0, adc_buffer_1)
          IdCount    \* block numbers are 0 .. IdCount - 1, then 0 again

VARIABLES capturing,  \* a block is being captured
          next,       \* number of the block captured now, or next
          queue,      \* captured blocks not handed over yet, oldest first
          delivered   \* {} or {the last block handed over}

vars == <<capturing, next, queue, delivered>>

Ids == 0 .. IdCount - 1

Succ(id) == IF id = IdCount - 1 THEN 0 ELSE id + 1

Init ==
  /\ capturing = FALSE
  /\ next = 0
  /\ queue = <<>>
  /\ delivered = {}

Begin ==
  /\ ~capturing
  /\ Len(queue) < Capacity
  /\ capturing' = TRUE
  /\ UNCHANGED <<next, queue, delivered>>

Complete ==
  /\ capturing
  /\ capturing' = FALSE
  /\ next' = Succ(next)
  /\ queue' = Append(queue, next)
  /\ UNCHANGED delivered

DeliverOldest ==
  /\ queue # <<>>
  /\ queue' = Tail(queue)
  /\ delivered' = {Head(queue)}
  /\ UNCHANGED <<capturing, next>>

\* The second block goes first, unless the oldest has just been overtaken.
Overtake ==
  /\ Len(queue) = 2
  /\ delivered # {Succ(queue[1])}
  /\ queue' = <<queue[1]>>
  /\ delivered' = {queue[2]}
  /\ UNCHANGED <<capturing, next>>

Next == Begin \/ Complete \/ DeliverOldest \/ Overtake

Spec == Init /\ [][Next]_vars
=============================================================================
