------------------------------- MODULE BagRing -------------------------------
(***************************************************************************)
(* The circular queue of "bags" of src/io_mngr/circular_queue.c: the       *)
(* fields that steer it and its operations, in steps that make one access  *)
(* to the fields the two threads share (SharedRing).  The field state is   *)
(* its level, and "OK" is CIRCULAR_QUEUE_MID.  Unlike the ring of video    *)
(* frames it keeps no in_process and out_process flags, so nothing here    *)
(* refuses to add to a full ring or to remove from an empty one.           *)
(***************************************************************************)
EXTENDS SharedRing

BagRings == [rear: Slots, front: Slots, state: Words,
             putWord: {"OK", "FULL"}, putStores: SUBSET {"state", "rear"},
             removeWord: {"OK", "EMPTY"}, removeTo: Slots,
             removeStores: SUBSET {"state", "front"},
             held: 0 .. Max, raced: BOOLEAN]

InitBagRing ==
  [rear |-> 0, front |-> 0, state |-> "EMPTY",
   putWord |-> "OK", putStores |-> {},
   removeWord |-> "OK", removeTo |-> 0, removeStores |-> {},
   held |-> 0, raced |-> FALSE]

\* cq_get_rear returns NULL exactly when ~MayAdd(q), bags[q.rear] otherwise.
MayAdd(q) == q.state # "FULL"

\* Mutant: the level never becomes FULL.
AddBagNeverFull(q) == [PutCompare(q) EXCEPT !.putWord = "OK"]

\* Mutant: a queue that gets full is taken for empty.
AddBagFullIsEmpty(q) ==
  LET c == PutCompare(q)
  IN  IF c.putWord = "FULL" THEN [c EXCEPT !.putWord = "EMPTY"] ELSE c

\* cq_add_bag up to its comparison.
AddBag(q) == PutCompare(q)

\* cq_get_front returns NULL exactly when ~MayRemove(q), bags[q.front]
\* otherwise.
MayRemove(q) == q.state # "EMPTY"

\* cq_remove_bag up to its comparison.
RemoveBag(q) == RemoveCompare(q, Putting(q))

\* What the two threads do next inside cq_add_bag and cq_remove_bag.
AddSteps(q) == {PutStore(q, w) : w \in q.putStores}

RemoveSteps(q) == {RemoveStore(q, w) : w \in q.removeStores}

-----------------------------------------------------------------------------
\* Where the front will be when the consumer's call is over, and the position
\* of the i-th oldest bag from there (i = 0 is the front).
FrontOf(q) == IF "front" \in q.removeStores THEN q.removeTo ELSE q.front

BagAt(q, i) == (FrontOf(q) + i) % Max
=============================================================================
