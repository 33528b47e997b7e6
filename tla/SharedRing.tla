----------------------------- MODULE SharedRing -----------------------------
(***************************************************************************)
(* What the ring of video frames (src/src/video_data_frame.c) and the      *)
(* circular queue of bags (src/io_mngr/circular_queue.c) have in common:   *)
(* one producer and one consumer share two indices and one state word, and *)
(* neither takes a lock.  A call that puts or removes compares its own     *)
(* index, advanced, with the other one, and then makes two plain stores,   *)
(* of the state word and of its own index, which nothing keeps in order.   *)
(* Comparison and stores are one step each; the other thread gets in       *)
(* between any two.  Every operator takes the ring before a step to the    *)
(* ring after it.                                                          *)
(*                                                                         *)
(* held and raced are auxiliary.  held counts the frames whose put has     *)
(* begun and whose removal has not.  raced records that a call ran into an *)
(* unfinished call of the other side about the same frame or position:     *)
(*   - the only frame is removed while the producer is still inside the    *)
(*     call that put it, or                                                *)
(*   - the last free position is committed while the consumer is still     *)
(*     inside the call that freed it.                                      *)
(* From then on the state word may be wrong for good, and held says        *)
(* nothing (it stays 0).                                                   *)
(***************************************************************************)
EXTENDS Integers

CONSTANT Max      \* number of positions, frame_cq->max and cq->max

\* init_video_frame_cq and cq_init refuse fewer than two positions.
ASSUME MaxAssumption == Max \in Nat \ {0, 1}

Slots == 0 .. Max - 1

Words == {"OK", "EMPTY", "FULL"}

Putting(q) == q.putStores # {}

Removing(q) == q.removeStores # {}

\* Every step of a call that may race goes through here: raced or not, the
\* ring counts h frames from now on, if it can be said at all.
Counting(q, races, h) ==
  [q EXCEPT !.raced = @ \/ races, !.held = IF q.raced \/ races THEN 0 ELSE h]

\* put_frame, cq_add_bag: the comparison.  cq_add_bag is also called on a
\* full queue (audio_processor.c): all that was in it is forgotten.
PutCompare(q) ==
  LET c == Counting(q, Removing(q) /\ q.held = Max - 1,
                    IF q.held = Max THEN 1 ELSE q.held + 1)
  IN  [c EXCEPT !.putWord = IF (q.rear + 1) % Max = q.front THEN "FULL" ELSE "OK",
                !.putStores = {"state", "rear"}]

\* Mutant: the index is stored without the remainder.
PutStoreNoWrap(q, w) ==
  IF w = "state"
  THEN [q EXCEPT !.state = q.putWord, !.putWord = "OK", !.putStores = @ \ {w}]
  ELSE [q EXCEPT !.rear = @ + 1, !.putStores = @ \ {w}]

\* put_frame, cq_add_bag: one of the two stores.
PutStore(q, w) ==
  IF w = "state"
  THEN [q EXCEPT !.state = q.putWord, !.putWord = "OK", !.putStores = @ \ {w}]
  ELSE [q EXCEPT !.rear = (@ + 1) % Max, !.putStores = @ \ {w}]

\* remove_frame, cq_remove_bag: the comparison.  busy says that the producer
\* is inside a call that changes the ring.
RemoveCompare(q, busy) ==
  LET c == Counting(q, busy /\ q.held = 1, q.held - 1)
  IN  [c EXCEPT !.removeWord = IF (q.front + 1) % Max = q.rear THEN "EMPTY" ELSE "OK",
                !.removeTo = (q.front + 1) % Max,
                !.removeStores = {"state", "front"}]

\* remove_frame, cq_remove_bag: one of the two stores.
RemoveStore(q, w) ==
  IF w = "state"
  THEN [q EXCEPT !.state = q.removeWord, !.removeWord = "OK", !.removeStores = @ \ {w}]
  ELSE [q EXCEPT !.front = q.removeTo, !.removeTo = 0, !.removeStores = @ \ {w}]
=============================================================================
