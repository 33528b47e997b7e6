------------------------------ MODULE FrameQueue ------------------------------
(***************************************************************************)
(* One ring of video frames between its two threads.  The producer asks    *)
(* for the free position, writes a frame into it and commits it; the       *)
(* consumer asks for the oldest position, reads it and releases it.  Both  *)
(* keep a bare pointer into the ring between the two calls: producer and   *)
(* consumer are the positions they point to.  The calls themselves are     *)
(* taken one access to the shared words at a time (FrameRing).             *)
(*                                                                         *)
(* A full ring is met in two ways.  video_receiver_thread (receiver.c)     *)
(* discards the frame it was about to decode and leaves the ring alone:    *)
(* that is SpecDrop.  decoder_th and encoder_routine (video_data.c) call   *)
(* flush_frames until there is room: that is SpecFlush.                    *)
(*                                                                         *)
(* Frames are numbered 1, 2, ... in the order they are committed, like     *)
(* video_data_t.seqno.                                                     *)
(***************************************************************************)
EXTENDS FrameRing

CONSTANTS MaxFrames,   \* bound on the frames committed (model bound)
          NoSlot       \* a NULL frame pointer

ASSUME BoundAssumption == MaxFrames \in Nat
ASSUME NoSlotAssumption == NoSlot \notin Slots

VARIABLES ring,        \* video_frame_cq_t
          frames,      \* the number of the frame each position holds, 0: none
          producer,    \* position the producer writes to, or NoSlot
          consumer,    \* position the consumer reads from, or NoSlot
          filled,      \* the producer has written its position
          seqno,       \* put_frame calls so far
          removed,     \* remove_frame calls so far
          flushes,     \* flush_frames calls that moved the front
          seen         \* number of the last frame read by the consumer

vars == <<ring, frames, producer, consumer, filled, seqno, removed, flushes, seen>>

Init ==
  /\ ring = InitRing
  /\ frames = [s \in Slots |-> 0]
  /\ producer = NoSlot
  /\ consumer = NoSlot
  /\ filled = FALSE
  /\ seqno = 0
  /\ removed = 0
  /\ flushes = 0
  /\ seen = 0

-----------------------------------------------------------------------------
\* curr_in_frame returns a position.
GetFree ==
  /\ producer = NoSlot
  /\ ~ProducerBusy(ring)
  /\ seqno < MaxFrames
  /\ MayPut(ring)
  /\ ring' = CurrIn(ring)
  /\ producer' = ring.rear
  /\ filled' = FALSE
  /\ UNCHANGED <<frames, consumer, seqno, removed, flushes, seen>>

\* The frame is decoded or encoded into the position.  The receiver may
\* write it several times before it commits one (a B-frame is not committed).
Fill ==
  /\ producer # NoSlot
  /\ frames' = [frames EXCEPT ![producer] = seqno + 1]
  /\ filled' = TRUE
  /\ UNCHANGED <<ring, producer, consumer, seqno, removed, flushes, seen>>

\* put_frame begins: the producer is done with its position.
Put ==
  /\ producer # NoSlot
  /\ filled
  /\ ring' = PutFrame(ring)
  /\ producer' = NoSlot
  /\ filled' = FALSE
  /\ seqno' = seqno + 1
  /\ UNCHANGED <<frames, consumer, removed, flushes, seen>>

\* The flushing producers: while (curr_in_frame(q) == NULL) flush_frames(q).
Flush ==
  /\ producer = NoSlot
  /\ ~ProducerBusy(ring)
  /\ seqno < MaxFrames
  /\ ~MayPut(ring)
  /\ ring' = FlushFrames(ring)
  /\ UNCHANGED <<frames, producer, consumer, filled, seqno, removed, flushes, seen>>

\* The producer goes on inside put_frame or flush_frames.
ProducerStep ==
  /\ ring' \in ProducerSteps(ring)
  /\ flushes' = flushes +
       (IF "front" \in ring.flushStores \ ring'.flushStores THEN 1 ELSE 0)
  /\ UNCHANGED <<frames, producer, consumer, filled, seqno, removed, seen>>

\* curr_out_frame returns a position.
GetOldest ==
  /\ consumer = NoSlot
  /\ ~ConsumerBusy(ring)
  /\ MayTake(ring)
  /\ ring' = CurrOut(ring)
  /\ consumer' = ring.front
  /\ UNCHANGED <<frames, producer, filled, seqno, removed, flushes, seen>>

\* The consumer uses the frame (it may take several steps to do so).
Read ==
  /\ consumer # NoSlot
  /\ seen' = frames[consumer]
  /\ UNCHANGED <<ring, frames, producer, consumer, filled, seqno, removed, flushes>>

\* remove_frame begins: the consumer is done with its position.
Remove ==
  /\ consumer # NoSlot
  /\ ring' = RemoveFrame(ring)
  /\ consumer' = NoSlot
  /\ removed' = removed + 1
  /\ UNCHANGED <<frames, producer, filled, seqno, flushes, seen>>

\* The consumer goes on inside remove_frame.
ConsumerStep ==
  /\ ring' \in ConsumerSteps(ring)
  /\ UNCHANGED <<frames, producer, consumer, filled, seqno, removed, flushes, seen>>

-----------------------------------------------------------------------------
Producer == GetFree \/ Fill \/ Put \/ ProducerStep

Consumer == GetOldest \/ Read \/ Remove \/ ConsumerStep

NextDrop == Producer \/ Consumer

NextFlush == NextDrop \/ Flush

SpecDrop == Init /\ [][NextDrop]_vars

SpecFlush == Init /\ [][NextFlush]_vars

\* The consumer polls the ring for as long as the program runs, and a call
\* that has begun comes to its end.
FairDrop ==
  SpecDrop /\ WF_vars(ProducerStep) /\ WF_vars(GetOldest) /\ WF_vars(Remove)
    /\ WF_vars(ConsumerStep)

-----------------------------------------------------------------------------
\* The variables keep their types.
TypeOK ==
  /\ ring \in Rings
  /\ frames \in [Slots -> 0 .. MaxFrames]
  /\ producer \in Slots \union {NoSlot}
  /\ consumer \in Slots \union {NoSlot}
  /\ filled \in BOOLEAN
  /\ seqno \in 0 .. MaxFrames
  /\ removed \in Nat
  /\ flushes \in Nat
  /\ seen \in 0 .. MaxFrames

Calm == ~ring.raced

AtRest == ~ProducerBusy(ring) /\ ~ConsumerBusy(ring)

\* No frame is lost silently: while no call is under way, the words of the
\* ring account for every frame that was committed and neither released by
\* the consumer nor taken by a flush, which takes Max - 1 frames each time:
\* exactly the one that lost_coded_frames++ counts when Max = 2.
NothingUncounted ==
  Calm /\ AtRest => seqno = removed + (Max - 1) * flushes + Count(ring)

\* The two threads, which hold bare pointers into the ring, never have the
\* same position in their hands (dropping producer).
NoOverlap == Calm /\ producer # NoSlot => producer # consumer

\* The consumer holds the oldest frame it has not yet released: none is
\* skipped, repeated or overwritten before its release (dropping producer).
InOrder == Calm /\ consumer # NoSlot => frames[consumer] = removed + 1

\* Whatever a flush does to the ring under its feet, the consumer never reads
\* a frame older than one it has read before.
NeverBack == [][~ring'.raced => seen' >= seen]_vars

\* No call is under way, and the state word a remove_frame left hides what the
\* ring holds.
LeftBehind ==
  AtRest /\ removed > 0 /\ ring.state = "EMPTY" /\ ring.front # ring.rear

\* Every frame committed is released in the end, or left behind when the
\* consumer stores EMPTY over the state word of a later put_frame.
Leaves ==
  \A n \in 1 .. MaxFrames :
    seqno >= n ~> removed >= n \/ ring.raced \/ LeftBehind

-----------------------------------------------------------------------------
\* The frames between front and rear, oldest first.
Contents == [i \in 1 .. ring.held |-> frames[SlotAt(ring, i - 1)]]

Fifo == INSTANCE FrameFifo
          WITH Capacity <- Max,
               queue <- Contents,
               put <- seqno,
               reading <- IF consumer = NoSlot THEN 0 ELSE frames[consumer]

\* The ring with a dropping producer is a bounded FIFO buffer, in which a
\* frame is from the call of put_frame to the call of remove_frame, for as
\* long as no call runs into an unfinished one about the same frame.
IsFifo == Fifo!Init /\ [][ring'.raced \/ Fifo!Next]_(Fifo!fifoVars)
=============================================================================
