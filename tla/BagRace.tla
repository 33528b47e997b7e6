------------------------------- MODULE BagRace -------------------------------
(***************************************************************************)
(* One producer and one consumer of a circular queue of bags that run free *)
(* of each other, to see what the two plain stores of cq_add_bag and       *)
(* cq_remove_bag (src/io_mngr/circular_queue.c), made without a lock, can  *)
(* lead to.                                                                *)
(***************************************************************************)
EXTENDS BagRing

VARIABLES ring,                    \* the queue
          producer, consumer       \* where the two threads are

vars == <<ring, producer, consumer>>

Init == ring = InitBagRing /\ producer = "ask" /\ consumer = "ask"

-----------------------------------------------------------------------------
(* The producer: cq_get_rear, fill the bag, cq_add_bag. *)

GetRear ==
  /\ producer = "ask"
  /\ MayAdd(ring)
  /\ producer' = "write"
  /\ UNCHANGED <<ring, consumer>>

Add ==
  /\ producer = "write"
  /\ ring' = AddBag(ring)
  /\ producer' = "store"
  /\ UNCHANGED consumer

AddStep ==
  /\ ring' \in AddSteps(ring)
  /\ producer' = IF Putting(ring') THEN "store" ELSE "ask"
  /\ UNCHANGED consumer

-----------------------------------------------------------------------------
(* The consumer: cq_get_front, use the bag, cq_remove_bag. *)

GetFront ==
  /\ consumer = "ask"
  /\ MayRemove(ring)
  /\ consumer' = "read"
  /\ UNCHANGED <<ring, producer>>

Remove ==
  /\ consumer = "read"
  /\ ring' = RemoveBag(ring)
  /\ consumer' = "store"
  /\ UNCHANGED producer

RemoveStep ==
  /\ ring' \in RemoveSteps(ring)
  /\ consumer' = IF Removing(ring') THEN "store" ELSE "ask"
  /\ UNCHANGED producer

-----------------------------------------------------------------------------
Producer == GetRear \/ Add \/ AddStep

Consumer == GetFront \/ Remove \/ RemoveStep

Next == Producer \/ Consumer

Spec == Init /\ [][Next]_vars

-----------------------------------------------------------------------------
\* circular_queue.h: "Thread resistant circular queue composed of 'bags'".
\* The bag that is being filled is not the bag that is being used.
ThreadResistant ==
  producer = "write" /\ consumer = "read" => ring.rear # ring.front
=============================================================================
