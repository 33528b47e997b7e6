------------------------------ MODULE FrameFifo ------------------------------
(***************************************************************************)
(* What a ring of video frames promises its two threads when the producer  *)
(* discards instead of flushing: a bounded first-in first-out buffer.      *)
(* Frames are numbered in the order they are committed; the consumer takes *)
(* them in that order, and a frame stays in the buffer, unchanged, for as  *)
(* long as the consumer works on it.                                       *)
(***************************************************************************)
EXTENDS Naturals, Sequences

CONSTANT Capacity

VARIABLES queue,     \* numbers of the frames in the buffer, oldest first
          put,       \* frames committed so far
          reading    \* number of the frame the consumer works on, 0: none

fifoVars == <<queue, put, reading>>

Init == queue = <<>> /\ put = 0 /\ reading = 0

Commit ==
  /\ Len(queue) < Capacity
  /\ put' = put + 1
  /\ queue' = Append(queue, put + 1)
  /\ UNCHANGED reading

Take ==
  /\ reading = 0
  /\ queue # <<>>
  /\ reading' = Head(queue)
  /\ UNCHANGED <<queue, put>>

Release ==
  /\ reading # 0
  /\ queue' = Tail(queue)
  /\ reading' = 0
  /\ UNCHANGED put

Next == Commit \/ Take \/ Release

Spec == Init /\ [][Next]_fifoVars
=============================================================================
