------------------------------ MODULE FrameRing ------------------------------
(***************************************************************************)
(* The ring of video frames of src/src/video_data_frame.c: the fields of   *)
(* video_frame_cq_t that steer it and the operations on them, in steps     *)
(* that make one access to the fields the two threads share (SharedRing).  *)
(* The frames themselves, the statistics and the error messages are left   *)
(* to the modules that use the ring.                                       *)
(*                                                                         *)
(* A thread that has begun an operation makes its steps until none is      *)
(* left: it is Busy until then.  flush_frames, which the producer calls,   *)
(* tests the state word, reads the front and stores both; it races when    *)
(* the ring is not full any more or the consumer is inside remove_frame.   *)
(***************************************************************************)
EXTENDS SharedRing

\* max is a uint8_t.
ASSUME ByteAssumption == Max <= 255

Rings == [rear: Slots, front: Slots, state: Words,
          in_process: BOOLEAN, out_process: BOOLEAN,
          putWord: {"OK", "FULL"}, putStores: SUBSET {"state", "rear"},
          removeWord: {"OK", "EMPTY"}, removeTo: Slots,
          removeStores: SUBSET {"state", "front"},
          flushing: BOOLEAN, flushTo: Slots, flushStores: SUBSET {"state", "front"},
          held: 0 .. Max, raced: BOOLEAN]

InitRing ==
  [rear |-> 0, front |-> 0, state |-> "EMPTY",
   in_process |-> FALSE, out_process |-> FALSE,
   putWord |-> "OK", putStores |-> {},
   removeWord |-> "OK", removeTo |-> 0, removeStores |-> {},
   flushing |-> FALSE, flushTo |-> 0, flushStores |-> {},
   held |-> 0, raced |-> FALSE]

Flushing(q) == q.flushing \/ q.flushStores # {}

ProducerBusy(q) == Putting(q) \/ Flushing(q)

ConsumerBusy(q) == Removing(q)

\* Mutant: the producer is let in without looking at the state word.
MayPutUnchecked(q) == TRUE

\* curr_in_frame returns NULL exactly when ~MayPut(q), frames[q.rear]
\* otherwise.
MayPut(q) == q.state # "FULL"

CurrIn(q) == [q EXCEPT !.in_process = TRUE]

\* Mutant: the state word is stored only when the ring gets full.
PutFrameStaysEmpty(q) ==
  LET c == PutCompare([q EXCEPT !.in_process = FALSE])
  IN  IF c.putWord = "OK" THEN [c EXCEPT !.putStores = {"rear"}] ELSE c

\* Mutant: the position is committed before anything is known of the front.
PutFrameNeverFull(q) ==
  [PutCompare([q EXCEPT !.in_process = FALSE]) EXCEPT !.putWord = "OK"]

\* put_frame up to its comparison.
PutFrame(q) ==
  IF q.in_process THEN PutCompare([q EXCEPT !.in_process = FALSE]) ELSE q

\* Mutant: the consumer is let in without looking at the state word.
MayTakeUnchecked(q) == TRUE

\* curr_out_frame returns NULL exactly when ~MayTake(q), frames[q.front]
\* otherwise.
MayTake(q) == q.state # "EMPTY"

CurrOut(q) == [q EXCEPT !.out_process = TRUE]

\* Mutant: the state word never becomes EMPTY again.
RemoveFrameNeverEmpty(q) ==
  [RemoveCompare([q EXCEPT !.out_process = FALSE], ProducerBusy(q))
     EXCEPT !.removeWord = "OK"]

\* remove_frame up to its comparison.
RemoveFrame(q) ==
  IF q.out_process
  THEN RemoveCompare([q EXCEPT !.out_process = FALSE], ProducerBusy(q))
  ELSE q

\* flush_frames: if (state == CQ_FULL) ...
FlushFrames(q) == IF q.state = "FULL" THEN [q EXCEPT !.flushing = TRUE] ELSE q

\* ... front + (max - 1) is computed ...
FlushRead(q) ==
  [q EXCEPT !.flushing = FALSE, !.flushTo = (q.front + (Max - 1)) % Max,
            !.flushStores = {"state", "front"}]

\* ... and both words are stored: all but the newest frame is forgotten.
FlushStore(q, w) ==
  LET full  == "front" \in q.flushStores
      races == Removing(q) \/ q.held # (IF full THEN Max ELSE 1)
      c     == [q EXCEPT !.flushStores = @ \ {w}]
  IN  IF w = "state"
      THEN [Counting(c, races, q.held) EXCEPT !.state = "OK"]
      ELSE [Counting(c, races, 1) EXCEPT !.front = q.flushTo, !.flushTo = 0]

\* What the producer's thread does next inside put_frame or flush_frames.
ProducerSteps(q) ==
  {PutStore(q, w) : w \in q.putStores}
    \union (IF q.flushing THEN {FlushRead(q)} ELSE {})
    \union {FlushStore(q, w) : w \in q.flushStores}

\* What the consumer's thread does next inside remove_frame.
ConsumerSteps(q) == {RemoveStore(q, w) : w \in q.removeStores}

-----------------------------------------------------------------------------
\* How many frames the words of the ring say it holds: the indices tell, and
\* the state word when they are equal.
Count(q) ==
  IF q.rear = q.front
  THEN IF q.state = "FULL" THEN Max ELSE 0
  ELSE (q.rear + Max - q.front) % Max

\* Where the front will be when the consumer's call is over, and the position
\* of the i-th oldest frame from there (i = 0 is the front).
FrontOf(q) == IF "front" \in q.removeStores THEN q.removeTo ELSE q.front

SlotAt(q, i) == (FrontOf(q) + i) % Max
=============================================================================
