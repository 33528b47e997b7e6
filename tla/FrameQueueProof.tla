--------------------------- MODULE FrameQueueProof ---------------------------
(***************************************************************************)
(* Proofs about FrameQueue, for every number of positions and any number   *)
(* of frames, with every access to the shared words a step of its own.     *)
(*                                                                         *)
(* QueueInv is inductive for both producers; it rests on RingOk and gives  *)
(* the accounting of frames.  HandInv adds, for the dropping producer,     *)
(* where the consumer points and what the positions behind the front hold; *)
(* it gives exclusive use and in-order delivery.  BackInv is about the     *)
(* flushing producer and a ring of two positions: the consumer never reads *)
(* back.  All of them speak of a ring on which no call has raced.          *)
(***************************************************************************)
EXTENDS FrameQueue, RingProof, Sequences

-----------------------------------------------------------------------------
\* The flags of the ring say which thread holds a position, and the producer
\* writes to the rear.
Hands ==
  /\ ring.in_process <=> producer # NoSlot
  /\ ring.out_process <=> consumer # NoSlot
  /\ producer # NoSlot => producer = ring.rear /\ seqno < MaxFrames
  /\ filled => producer # NoSlot /\ frames[producer] = seqno + 1

\* The calls made and the frames held add up.
Accounted == Calm => seqno = removed + (Max - 1) * flushes + ring.held

QueueInv == TypeOK /\ RingOk(ring) /\ Hands /\ Accounted

\* With a dropping producer the consumer points at the front, and the
\* positions from there on hold consecutive frames.
HandInv ==
  /\ ~Flushing(ring)
  /\ flushes = 0
  /\ consumer # NoSlot => consumer = ring.front
  /\ Calm => \A i \in 0 .. ring.held - 1 : frames[SlotAt(ring, i)] = removed + 1 + i

-----------------------------------------------------------------------------
\* An empty ring is a ring in order.
LEMMA InitQueueInv == Init => QueueInv
<1>. SUFFICES ASSUME Init PROVE QueueInv
  OBVIOUS
<1>1. ring = InitRing
  BY DEF Init
<1>2. /\ RingOk(ring) /\ ring \in Rings
      /\ ring.held = 0 /\ ~ring.in_process /\ ~ring.out_process
  BY <1>1, RingStart DEF RingOk
<1>3. TypeOK
  <2>1. 0 \in 0 .. MaxFrames /\ 0 \in Nat
    BY BoundAssumption
  <2>2. frames \in [Slots -> 0 .. MaxFrames]
    BY <2>1 DEF Init
  <2>. QED BY <1>2, <2>1, <2>2 DEF Init, TypeOK
<1>4. Hands
  BY <1>2 DEF Init, Hands
<1>5. Accounted
  BY <1>2, MaxAssumption DEF Init, Accounted
<1>. QED BY <1>2, <1>3, <1>4, <1>5 DEF QueueInv

\* What the accounts of a ring need: one more frame, one fewer, and a flush.
LEMMA Sums ==
  ASSUME NEW f \in Nat
  PROVE  /\ (Max - 1) * f \in Int
         /\ (Max - 1) * (f + 1) = (Max - 1) * f + (Max - 1)
BY MaxAssumption, Z3

\* Every step of either producer keeps it so.
LEMMA StepQueueInv == QueueInv /\ [NextFlush]_vars => QueueInv'
<1>. SUFFICES ASSUME QueueInv, [NextFlush]_vars PROVE QueueInv'
  OBVIOUS
<1>a. /\ RingOk(ring)
      /\ ring \in Rings
      /\ ring.rear \in Slots /\ ring.front \in Slots
      /\ ring.held \in Nat
      /\ ring.raced \in BOOLEAN
      /\ seqno \in Nat /\ removed \in Nat /\ flushes \in Nat
      /\ frames \in [Slots -> 0 .. MaxFrames]
  BY BoundAssumption, MaxAssumption DEF QueueInv, TypeOK, Rings
<1>b. /\ ring.in_process <=> producer # NoSlot
      /\ ring.out_process <=> consumer # NoSlot
      /\ producer # NoSlot => producer = ring.rear /\ seqno < MaxFrames
      /\ filled => producer # NoSlot /\ frames[producer] = seqno + 1
  BY DEF QueueInv, Hands
<1>c. ~ring.raced => seqno = removed + (Max - 1) * flushes + ring.held
  BY DEF QueueInv, Accounted, Calm
<1>d. RingOk(ring') => ring' \in Rings
  BY DEF RingOk
<1>. DEFINE m == (Max - 1) * flushes
<1>e. m \in Int
  BY <1>a, Sums
<1>1. CASE GetFree
  <2>1. /\ RingOk(ring')
        /\ ring'.rear = ring.rear
        /\ ring'.held = ring.held /\ ring'.raced = ring.raced
        /\ ring'.in_process /\ (ring'.out_process <=> ring.out_process)
    BY <1>1, <1>a, CurrInKeeps DEF GetFree
  <2>2. TypeOK'
    BY <1>1, <1>a, <1>d, <2>1 DEF GetFree, QueueInv, TypeOK
  <2>3. Hands'
    BY <1>1, <1>a, <1>b, <2>1, NoSlotAssumption DEF GetFree, Hands
  <2>4. Accounted'
    BY <1>1, <1>c, <2>1 DEF GetFree, Accounted, Calm
  <2>. QED BY <2>1, <2>2, <2>3, <2>4 DEF QueueInv
<1>2. CASE Fill
  <2>1. seqno + 1 \in 0 .. MaxFrames
    BY <1>2, <1>a, <1>b, BoundAssumption DEF Fill
  <2>2. TypeOK'
    BY <1>2, <2>1 DEF Fill, QueueInv, TypeOK
  <2>3. Hands'
    BY <1>2, <1>a, <1>b DEF Fill, Hands
  <2>4. RingOk(ring') /\ Accounted'
    BY <1>2, <1>a, <1>c DEF Fill, Accounted, Calm
  <2>. QED BY <2>2, <2>3, <2>4 DEF QueueInv
<1>3. CASE Put
  <2>1. ring.in_process /\ seqno < MaxFrames
    BY <1>3, <1>b DEF Put
  <2>2. /\ RingOk(ring')
        /\ ring'.rear = ring.rear
        /\ ~ring'.in_process
        /\ ring'.out_process = ring.out_process
        /\ ring.raced => ring'.raced
        /\ ~ring'.raced => ring'.held = ring.held + 1
    BY <1>3, <1>a, <2>1, PutKeeps DEF Put
  <2>3. TypeOK'
    <3>1. seqno' \in 0 .. MaxFrames
      BY <1>3, <2>1, BoundAssumption DEF Put, QueueInv, TypeOK
    <3>. QED BY <1>3, <1>d, <2>2, <3>1 DEF Put, QueueInv, TypeOK
  <2>4. Hands'
    BY <1>3, <1>b, <2>2 DEF Put, Hands
  <2>5. ASSUME ~ring'.raced PROVE seqno' = removed' + m + ring'.held
    <3>1. ~ring.raced /\ ring'.held = ring.held + 1
      BY <2>2, <2>5
    <3>2. seqno = removed + m + ring.held
      BY <3>1, <1>c
    <3>. HIDE DEF m
    <3>. QED BY <1>3, <1>a, <1>e, <3>1, <3>2 DEF Put
  <2>6. Accounted'
    BY <1>3, <2>5 DEF Put, Accounted, Calm
  <2>. QED BY <2>2, <2>3, <2>4, <2>6 DEF QueueInv
<1>4. CASE Flush
  <2>1. /\ RingOk(ring')
        /\ ring'.rear = ring.rear
        /\ ring'.held = ring.held /\ ring'.raced = ring.raced
        /\ ~ring'.in_process /\ ring'.out_process = ring.out_process
    BY <1>4, <1>a, <1>b, FlushFramesKeeps DEF Flush
  <2>2. TypeOK'
    BY <1>4, <1>d, <2>1 DEF Flush, QueueInv, TypeOK
  <2>3. Hands'
    BY <1>4, <1>b, <2>1 DEF Flush, Hands
  <2>4. Accounted'
    BY <1>4, <1>c, <2>1 DEF Flush, Accounted, Calm
  <2>. QED BY <2>1, <2>2, <2>3, <2>4 DEF QueueInv
<1>5. CASE ProducerStep
  <2>. DEFINE moves == "front" \in ring.flushStores \ ring'.flushStores
  <2>1. /\ RingOk(ring')
        /\ ring'.in_process = ring.in_process
        /\ ring'.out_process = ring.out_process
        /\ ProducerBusy(ring)
        /\ ring.raced => ring'.raced
        /\ ~moves /\ ~ring'.raced => ring'.held = ring.held
        /\ moves /\ ~ring'.raced => ring.held = Max /\ ring'.held = 1
    BY <1>5, <1>a, ProducerStepKeeps DEF ProducerStep
  <2>2. producer = NoSlot
    BY <2>1, <1>b DEF QueueInv, RingOk, Calls
  <2>3. /\ UNCHANGED <<frames, producer, consumer, filled, seqno, removed, seen>>
        /\ flushes' = flushes + (IF moves THEN 1 ELSE 0)
    BY <1>5 DEF ProducerStep
  <2>4. TypeOK'
    BY <1>d, <2>1, <2>3 DEF QueueInv, TypeOK
  <2>5. Hands'
    BY <1>b, <2>1, <2>2, <2>3 DEF Hands
  <2>6. ASSUME ~ring'.raced
        PROVE  seqno' = removed' + (Max - 1) * flushes' + ring'.held
    <3>1. seqno = removed + m + ring.held
      BY <1>c, <2>1, <2>6
    <3>2. CASE moves
      <4>1. flushes' = flushes + 1 /\ ring.held = Max /\ ring'.held = 1
        BY <2>1, <2>3, <2>6, <3>2
      <4>. DEFINE n == (Max - 1) * flushes'
      <4>2. n = m + (Max - 1)
        BY <4>1, <1>a, Sums
      <4>3. seqno' = removed' + n + ring'.held
        <5>. HIDE DEF m, n
        <5>. QED BY <1>a, <1>e, <2>3, <3>1, <4>1, <4>2, MaxAssumption
      <4>. QED BY <4>3
    <3>3. CASE ~moves
      BY <1>a, <2>1, <2>3, <2>6, <3>1, <3>3
    <3>. QED BY <3>2, <3>3
  <2>7. Accounted'
    BY <2>6 DEF Accounted, Calm
  <2>. QED BY <2>1, <2>4, <2>5, <2>7 DEF QueueInv
<1>6. CASE GetOldest
  <2>1. /\ RingOk(ring')
        /\ ring'.rear = ring.rear
        /\ ring'.held = ring.held /\ ring'.raced = ring.raced
        /\ ring'.out_process /\ (ring'.in_process <=> ring.in_process)
    BY <1>6, <1>a, CurrOutKeeps DEF GetOldest
  <2>2. TypeOK'
    BY <1>6, <1>a, <1>d, <2>1 DEF GetOldest, QueueInv, TypeOK
  <2>3. Hands'
    BY <1>6, <1>a, <1>b, <2>1, NoSlotAssumption DEF GetOldest, Hands
  <2>4. Accounted'
    BY <1>6, <1>c, <2>1 DEF GetOldest, Accounted, Calm
  <2>. QED BY <2>1, <2>2, <2>3, <2>4 DEF QueueInv
<1>7. CASE Read
  <2>1. seen' \in 0 .. MaxFrames
    BY <1>7 DEF Read, QueueInv, TypeOK
  <2>2. TypeOK'
    BY <1>7, <2>1 DEF Read, QueueInv, TypeOK
  <2>3. RingOk(ring') /\ Hands' /\ Accounted'
    BY <1>7, <1>a, <1>b, <1>c DEF Read, Hands, Accounted, Calm
  <2>. QED BY <2>2, <2>3 DEF QueueInv
<1>8. CASE Remove
  <2>1. ring.out_process
    BY <1>8, <1>b DEF Remove
  <2>2. /\ RingOk(ring')
        /\ ring'.rear = ring.rear
        /\ ~ring'.out_process
        /\ ring'.in_process = ring.in_process
        /\ ring.raced => ring'.raced
        /\ ~ring'.raced => ring'.held = ring.held - 1
    BY <1>8, <1>a, <2>1, RemoveKeeps DEF Remove
  <2>3. TypeOK'
    BY <1>8, <1>d, <2>2 DEF Remove, QueueInv, TypeOK
  <2>4. Hands'
    BY <1>8, <1>b, <2>2 DEF Remove, Hands
  <2>5. ASSUME ~ring'.raced PROVE seqno' = removed' + m + ring'.held
    <3>1. ~ring.raced /\ ring'.held = ring.held - 1
      BY <2>2, <2>5
    <3>2. seqno = removed + m + ring.held
      BY <3>1, <1>c
    <3>. HIDE DEF m
    <3>. QED BY <1>8, <1>a, <1>e, <3>1, <3>2 DEF Remove
  <2>6. Accounted'
    BY <1>8, <2>5 DEF Remove, Accounted, Calm
  <2>. QED BY <2>2, <2>3, <2>4, <2>6 DEF QueueInv
<1>9. CASE ConsumerStep
  <2>1. /\ RingOk(ring')
        /\ ring'.rear = ring.rear
        /\ ring'.in_process = ring.in_process
        /\ ring'.out_process = ring.out_process
        /\ ring'.held = ring.held /\ ring'.raced = ring.raced
    BY <1>9, <1>a, ConsumerStepKeeps DEF ConsumerStep
  <2>2. TypeOK'
    BY <1>9, <1>d, <2>1 DEF ConsumerStep, QueueInv, TypeOK
  <2>3. Hands' /\ Accounted'
    BY <1>9, <1>b, <1>c, <2>1 DEF ConsumerStep, Hands, Accounted, Calm
  <2>. QED BY <2>1, <2>2, <2>3 DEF QueueInv
<1>10. CASE UNCHANGED vars
  BY <1>10 DEF vars, QueueInv, TypeOK, Hands, Accounted, Calm
<1>. QED BY <1>1, <1>2, <1>3, <1>4, <1>5, <1>6, <1>7, <1>8, <1>9, <1>10
         DEF NextFlush, NextDrop, Producer, Consumer

-----------------------------------------------------------------------------
\* At first nobody holds a position.
LEMMA InitHandInv == Init => HandInv
<1>. SUFFICES ASSUME Init PROVE HandInv
  OBVIOUS
<1>1. ring.held = 0 /\ ~Flushing(ring)
  BY RingStart DEF Init, ProducerBusy
<1>. QED BY <1>1 DEF Init, HandInv

\* A calm ring whose frames stay where they are still holds the same run.
LEMMA SameRun ==
  ASSUME NEW p, NEW q, p.held = q.held, FrontOf(p) = FrontOf(q),
         NEW f, NEW n,
         \A i \in 0 .. q.held - 1 : f[SlotAt(q, i)] = n + i
  PROVE  \A i \in 0 .. p.held - 1 : f[SlotAt(p, i)] = n + i
BY DEF SlotAt

\* The dropping producer and the consumer keep to the two ends of the ring.
LEMMA StepHandInv == QueueInv /\ HandInv /\ [NextDrop]_vars => HandInv'
<1>. SUFFICES ASSUME QueueInv, HandInv, [NextDrop]_vars PROVE HandInv'
  OBVIOUS
<1>a. /\ RingOk(ring)
      /\ ring \in Rings
      /\ ring.held \in Nat
      /\ frames \in [Slots -> 0 .. MaxFrames]
      /\ seqno \in Nat /\ removed \in Nat
      /\ ~Flushing(ring) /\ flushes = 0
  BY BoundAssumption, MaxAssumption DEF QueueInv, HandInv, TypeOK, Rings
<1>b. /\ ring.in_process <=> producer # NoSlot
      /\ ring.out_process <=> consumer # NoSlot
      /\ producer # NoSlot => producer = ring.rear
      /\ filled => producer # NoSlot /\ frames[producer] = seqno + 1
      /\ consumer # NoSlot => consumer = ring.front
  BY DEF QueueInv, Hands, HandInv
<1>c. ASSUME ~ring.raced
      PROVE  /\ ring.held \in 0 .. Max
             /\ seqno = removed + ring.held
             /\ \A i \in 0 .. ring.held - 1 : frames[SlotAt(ring, i)] = removed + 1 + i
  <2>1. seqno = removed + (Max - 1) * flushes + ring.held
    BY <1>c DEF QueueInv, Accounted, Calm
  <2>2. (Max - 1) * 0 = 0
    BY MaxAssumption, Z3
  <2>3. seqno = removed + ring.held
    BY <2>1, <2>2, <1>a
  <2>. QED BY <2>3, <1>a, <1>c DEF HandInv, Calm, Rings
<1>1. CASE GetFree
  <2>1. /\ ring'.front = ring.front /\ FrontOf(ring') = FrontOf(ring)
        /\ ring'.held = ring.held /\ ring'.raced = ring.raced
        /\ ~Flushing(ring')
    BY <1>1, <1>a, CurrInKeeps DEF GetFree
  <2>2. UNCHANGED <<frames, consumer, removed, flushes>>
    BY <1>1 DEF GetFree
  <2>3. Calm' => \A i \in 0 .. ring'.held - 1 : frames'[SlotAt(ring', i)] = removed' + 1 + i
    BY <1>c, <2>1, <2>2, SameRun DEF Calm
  <2>. QED BY <1>a, <1>b, <2>1, <2>2, <2>3 DEF HandInv
<1>2. CASE Fill
  <2>1. UNCHANGED <<ring, consumer, removed, flushes>>
    BY <1>2 DEF Fill
  <2>2. ASSUME ~ring.raced, NEW i \in 0 .. ring.held - 1
        PROVE  frames'[SlotAt(ring, i)] = removed + 1 + i
    <3>1. ring.in_process /\ producer = ring.rear /\ ~ProducerBusy(ring)
      BY <1>2, <1>b DEF Fill, QueueInv, RingOk, Calls
    <3>2. ring.held < Max /\ producer = SlotAt(ring, ring.held)
      BY <1>a, <2>2, <3>1, Admitted
    <3>3. i \in 0 .. Max - 1 /\ ring.held \in 0 .. Max - 1 /\ i # ring.held
      BY <1>a, <2>2, <3>2, MaxAssumption
    <3>4. SlotAt(ring, i) # producer
      BY <1>a, <3>2, <3>3, SlotsDiffer
    <3>5. SlotAt(ring, i) \in Slots
      BY <1>a, <3>3, SlotFromFront, MaxAssumption
    <3>. QED BY <1>2, <1>a, <1>c, <2>2, <3>4, <3>5 DEF Fill
  <2>. QED BY <1>a, <1>b, <2>1, <2>2 DEF HandInv, Calm
<1>3. CASE Put
  <2>1. ring.in_process /\ producer = ring.rear /\ ~ProducerBusy(ring)
        /\ frames[producer] = seqno + 1
    BY <1>3, <1>b DEF Put, QueueInv, RingOk, Calls
  <2>2. /\ ring'.front = ring.front
        /\ FrontOf(ring') = FrontOf(ring)
        /\ ~Flushing(ring')
        /\ ring.raced => ring'.raced
        /\ ~ring'.raced => ring'.held = ring.held + 1
    BY <1>3, <1>a, <2>1, PutKeeps DEF Put
  <2>3. UNCHANGED <<frames, consumer, removed, flushes>>
    BY <1>3 DEF Put
  <2>4. ASSUME ~ring'.raced, NEW i \in 0 .. ring'.held - 1
        PROVE  frames[SlotAt(ring', i)] = removed + 1 + i
    <3>1. ~ring.raced /\ ring'.held = ring.held + 1
      BY <2>2, <2>4
    <3>2. SlotAt(ring', i) = SlotAt(ring, i)
      BY <2>2 DEF SlotAt
    <3>3. CASE i = ring.held
      <4>1. producer = SlotAt(ring, ring.held)
        BY <1>a, <2>1, <3>1, Admitted
      <4>2. seqno + 1 = removed + 1 + i
        BY <1>a, <1>c, <3>1, <3>3
      <4>. QED BY <2>1, <3>2, <3>3, <4>1, <4>2
    <3>4. CASE i # ring.held
      <4>1. i \in 0 .. ring.held - 1
        BY <1>a, <2>4, <3>1, <3>4
      <4>. QED BY <1>c, <3>1, <3>2, <4>1
    <3>. QED BY <3>3, <3>4
  <2>. QED BY <1>a, <1>b, <2>2, <2>3, <2>4 DEF HandInv, Calm
<1>4. CASE ProducerStep
  <2>1. ring.flushStores = {}
    BY <1>a DEF Flushing
  <2>2. "front" \notin ring.flushStores \ ring'.flushStores
    BY <2>1
  <2>3. /\ ring'.front = ring.front
        /\ FrontOf(ring') = FrontOf(ring)
        /\ ~Flushing(ring')
        /\ ring.raced => ring'.raced
        /\ ~ring'.raced => ring'.held = ring.held
    BY <1>4, <1>a, <2>2, ProducerStepKeeps DEF ProducerStep
  <2>4. UNCHANGED <<frames, consumer, removed>> /\ flushes' = 0
    BY <1>4, <1>a, <2>2 DEF ProducerStep
  <2>5. ASSUME ~ring'.raced
        PROVE  \A i \in 0 .. ring'.held - 1 : frames'[SlotAt(ring', i)] = removed' + 1 + i
    <3>1. ~ring.raced /\ ring'.held = ring.held
      BY <2>3, <2>5
    <3>2. \A i : SlotAt(ring', i) = SlotAt(ring, i)
      BY <2>3 DEF SlotAt
    <3>3. frames' = frames /\ removed' = removed
      BY <2>4
    <3>. QED BY <1>c, <3>1, <3>2, <3>3
  <2>. QED BY <1>b, <2>3, <2>4, <2>5 DEF HandInv, Calm
<1>5. CASE GetOldest
  <2>1. /\ ring'.front = ring.front /\ FrontOf(ring') = FrontOf(ring)
        /\ ring'.held = ring.held /\ ring'.raced = ring.raced
        /\ ~Flushing(ring')
    BY <1>5, <1>a, CurrOutKeeps DEF GetOldest
  <2>2. UNCHANGED <<frames, removed, flushes>> /\ consumer' = ring.front
    BY <1>5 DEF GetOldest
  <2>3. Calm' => \A i \in 0 .. ring'.held - 1 : frames'[SlotAt(ring', i)] = removed' + 1 + i
    BY <1>c, <2>1, <2>2, SameRun DEF Calm
  <2>. QED BY <1>a, <2>1, <2>2, <2>3 DEF HandInv
<1>6. CASE Read
  <2>1. UNCHANGED <<ring, frames, consumer, removed, flushes>>
    BY <1>6 DEF Read
  <2>. QED BY <2>1 DEF HandInv, Calm
<1>7. CASE Remove
  <2>1. ring.out_process
    BY <1>7, <1>b DEF Remove
  <2>2. /\ RingOk(ring')
        /\ FrontOf(ring') = (FrontOf(ring) + 1) % Max
        /\ Flushing(ring') = Flushing(ring)
        /\ ring.raced => ring'.raced
        /\ ~ring'.raced => ring'.held = ring.held - 1
    BY <1>7, <1>a, <2>1, RemoveKeeps DEF Remove
  <2>3. UNCHANGED <<frames, flushes>> /\ removed' = removed + 1 /\ consumer' = NoSlot
    BY <1>7 DEF Remove
  <2>4. ASSUME ~ring'.raced, NEW i \in 0 .. ring'.held - 1
        PROVE  frames[SlotAt(ring', i)] = removed + 1 + 1 + i
    <3>1. ~ring.raced /\ ring'.held = ring.held - 1 /\ ring' \in Rings
      BY <2>2, <2>4 DEF RingOk
    <3>2. i \in 0 .. Max - 1 /\ i + 1 \in 0 .. ring.held - 1
      BY <1>a, <1>c, <2>4, <3>1, MaxAssumption
    <3>3. SlotAt(ring', i) = SlotAt(ring, i + 1)
      BY <1>a, <2>2, <3>1, <3>2, SlotAfterRemove
    <3>4. frames[SlotAt(ring, i + 1)] = removed + 1 + (i + 1)
      BY <1>c, <3>1, <3>2
    <3>. QED BY <1>a, <3>2, <3>3, <3>4
  <2>. QED BY <1>a, <2>2, <2>3, <2>4 DEF HandInv, Calm
<1>8. CASE ConsumerStep
  <2>1. /\ FrontOf(ring') = FrontOf(ring)
        /\ ring'.held = ring.held /\ ring'.raced = ring.raced
        /\ Flushing(ring') = Flushing(ring)
        /\ ConsumerBusy(ring)
    BY <1>8, <1>a, ConsumerStepKeeps DEF ConsumerStep
  <2>2. UNCHANGED <<frames, consumer, removed, flushes>>
    BY <1>8 DEF ConsumerStep
  <2>3. consumer = NoSlot
    BY <1>b, <2>1 DEF QueueInv, RingOk, Calls, ConsumerBusy
  <2>4. Calm' => \A i \in 0 .. ring'.held - 1 : frames'[SlotAt(ring', i)] = removed' + 1 + i
    BY <1>c, <2>1, <2>2, SameRun DEF Calm
  <2>. QED BY <1>a, <2>1, <2>2, <2>3, <2>4 DEF HandInv
<1>9. CASE UNCHANGED vars
  BY <1>9 DEF vars, HandInv, Calm
<1>. QED BY <1>1, <1>2, <1>3, <1>4, <1>5, <1>6, <1>7, <1>8, <1>9
         DEF NextDrop, Producer, Consumer

-----------------------------------------------------------------------------
(***************************************************************************)
(* The theorems.                                                           *)
(***************************************************************************)
\* QueueInv holds for both producers.
LEMMA QueueInvAlways == SpecFlush => []QueueInv
BY InitQueueInv, StepQueueInv, PTL DEF SpecFlush

\* Every variable keeps its type, whichever way the producer meets a full
\* ring, even after a call has raced.
THEOREM TypeCorrect == SpecFlush => []TypeOK
<1>1. QueueInv => TypeOK
  BY DEF QueueInv
<1>. QED BY <1>1, QueueInvAlways, PTL

\* Although put_frame, remove_frame and flush_frames share their words without
\* a lock, every frame committed is in the ring, released, or counted by a
\* flush once they have returned, as long as none of them has raced.
THEOREM FramesAccounted == SpecFlush => []NothingUncounted
<1>1. ASSUME QueueInv PROVE NothingUncounted
  <2>. SUFFICES ASSUME Calm, AtRest
                PROVE  seqno = removed + (Max - 1) * flushes + Count(ring)
    BY DEF NothingUncounted
  <2>1. seqno = removed + (Max - 1) * flushes + ring.held
    BY <1>1 DEF QueueInv, Accounted
  <2>2. Count(ring) = ring.held
    BY <1>1, CountAtRest DEF QueueInv, Calm, AtRest
  <2>. QED BY <2>1, <2>2
<1>. QED BY <1>1, QueueInvAlways, PTL

\* The two invariants together are inductive for the dropping producer.
LEMMA HandInvAlways == SpecDrop => [](QueueInv /\ HandInv)
<1>1. Init => QueueInv /\ HandInv
  BY InitQueueInv, InitHandInv
<1>2. QueueInv /\ HandInv /\ [NextDrop]_vars => (QueueInv /\ HandInv)'
  BY StepQueueInv, StepHandInv DEF NextFlush
<1>. QED BY <1>1, <1>2, PTL DEF SpecDrop

\* What the invariants say of the positions the two threads hold.
LEMMA HandsAre ==
  ASSUME QueueInv, HandInv, Calm
  PROVE  /\ ring \in Rings /\ ring.held \in 0 .. Max
         /\ producer # NoSlot => ring.held < Max /\ producer = SlotAt(ring, ring.held)
         /\ consumer # NoSlot => ring.held >= 1 /\ consumer = SlotAt(ring, 0)
<1>1. RingOk(ring) /\ ring \in Rings /\ ring.held \in 0 .. Max
  BY DEF QueueInv, RingOk, Rings
<1>2. ASSUME producer # NoSlot
      PROVE  ring.held < Max /\ producer = SlotAt(ring, ring.held)
  <2>1. ring.in_process /\ ~ProducerBusy(ring) /\ producer = ring.rear
    BY <1>1, <1>2 DEF QueueInv, Hands, RingOk, Calls
  <2>. QED BY <1>1, <2>1, Admitted DEF Calm
<1>3. ASSUME consumer # NoSlot PROVE ring.held >= 1 /\ consumer = SlotAt(ring, 0)
  <2>1. ring.out_process /\ consumer = ring.front
    BY <1>3 DEF QueueInv, Hands, HandInv
  <2>. QED BY <1>1, <2>1, Admitted DEF Calm
<1>. QED BY <1>1, <1>2, <1>3

\* With a dropping producer the two threads never hold the same position, as
\* long as no call has raced.
THEOREM ExclusiveUse == SpecDrop => []NoOverlap
<1>1. ASSUME QueueInv, HandInv PROVE NoOverlap
  <2>. SUFFICES ASSUME Calm, producer # NoSlot, consumer # NoSlot
                PROVE  producer # consumer
    BY DEF NoOverlap
  <2>1. /\ ring \in Rings
        /\ 0 \in 0 .. Max - 1 /\ ring.held \in 0 .. Max - 1 /\ ring.held # 0
        /\ producer = SlotAt(ring, ring.held) /\ consumer = SlotAt(ring, 0)
    BY <1>1, HandsAre, MaxAssumption
  <2>. QED BY <2>1, SlotsDiffer
<1>. QED BY <1>1, HandInvAlways, PTL

\* With a dropping producer the consumer is given the committed frames one
\* after the other, each exactly once, as long as no call has raced.
THEOREM DeliveredInOrder == SpecDrop => []InOrder
<1>1. ASSUME QueueInv, HandInv PROVE InOrder
  <2>. SUFFICES ASSUME Calm, consumer # NoSlot PROVE frames[consumer] = removed + 1
    BY DEF InOrder
  <2>1. 0 \in 0 .. ring.held - 1 /\ consumer = SlotAt(ring, 0)
    BY <1>1, HandsAre, MaxAssumption
  <2>2. frames[SlotAt(ring, 0)] = removed + 1 + 0 /\ removed \in Nat
    BY <1>1, <2>1 DEF QueueInv, TypeOK, HandInv
  <2>. QED BY <2>1, <2>2
<1>. QED BY <1>1, HandInvAlways, PTL

-----------------------------------------------------------------------------
(***************************************************************************)
(* The ring implements the FIFO buffer.  HandInv makes its contents a run  *)
(* of consecutive numbers, so the steps of the buffer are facts about such *)
(* runs.                                                                   *)
(***************************************************************************)
Run(r, n) == [i \in 1 .. n |-> r + i]

\* A run of n consecutive numbers after r, and what put and remove do to it.
LEMMA RunFacts ==
  ASSUME NEW r \in Nat, NEW n \in Nat
  PROVE  /\ Run(r, n) \in Seq(Nat)
         /\ Len(Run(r, n)) = n
         /\ Append(Run(r, n), r + n + 1) = Run(r, n + 1)
         /\ n = 0 => Run(r, n) = <<>>
         /\ n > 0 => /\ Run(r, n) # <<>>
                     /\ Head(Run(r, n)) = r + 1
                     /\ Tail(Run(r, n)) = Run(r + 1, n - 1)
<1>1. Run(r, n) \in Seq(Nat) /\ Len(Run(r, n)) = n
  BY DEF Run
<1>2. Append(Run(r, n), r + n + 1) = Run(r, n + 1)
  BY <1>1 DEF Run
<1>3. n = 0 => Run(r, n) = <<>>
  BY <1>1
<1>4. ASSUME n > 0
      PROVE  /\ Run(r, n) # <<>>
             /\ Head(Run(r, n)) = r + 1
             /\ Tail(Run(r, n)) = Run(r + 1, n - 1)
  <2>1. Run(r, n) # <<>>
    BY <1>1, <1>4
  <2>2. Head(Run(r, n)) = r + 1
    BY <1>1, <1>4 DEF Run
  <2>3. Tail(Run(r, n)) = Run(r + 1, n - 1)
    BY <1>1, <1>4 DEF Run
  <2>. QED BY <2>1, <2>2, <2>3
<1>. QED BY <1>1, <1>2, <1>3, <1>4

Reading == IF consumer = NoSlot THEN 0 ELSE frames[consumer]

\* The buffer's variables on a calm ring, read off the invariants.
BufferFacts ==
  Calm =>
    /\ Contents = Run(removed, ring.held)
    /\ Reading = IF consumer = NoSlot THEN 0 ELSE removed + 1
    /\ seqno = removed + ring.held
    /\ removed \in Nat /\ seqno \in Nat /\ ring.held \in Nat

\* They follow from the two invariants.
LEMMA BufferIs == QueueInv /\ HandInv => BufferFacts
<1>. SUFFICES ASSUME QueueInv, HandInv, Calm
              PROVE  /\ Contents = Run(removed, ring.held)
                     /\ Reading = IF consumer = NoSlot THEN 0 ELSE removed + 1
                     /\ seqno = removed + ring.held
                     /\ removed \in Nat /\ seqno \in Nat /\ ring.held \in Nat
  BY DEF BufferFacts
<1>1. removed \in Nat /\ seqno \in Nat /\ ring.held \in Nat
  BY BoundAssumption, MaxAssumption DEF QueueInv, TypeOK, Rings
<1>2. \A i \in 0 .. ring.held - 1 : frames[SlotAt(ring, i)] = removed + 1 + i
  BY DEF HandInv
<1>3. seqno = removed + ring.held
  <2>1. flushes = 0 /\ seqno = removed + (Max - 1) * flushes + ring.held
    BY DEF QueueInv, HandInv, Accounted
  <2>2. (Max - 1) * 0 = 0
    BY MaxAssumption, Z3
  <2>. QED BY <1>1, <2>1, <2>2
<1>4. Contents = Run(removed, ring.held)
  <2>1. ASSUME NEW i \in 1 .. ring.held
        PROVE  frames[SlotAt(ring, i - 1)] = removed + i
    <3>1. i - 1 \in 0 .. ring.held - 1
      BY <1>1
    <3>2. frames[SlotAt(ring, i - 1)] = removed + 1 + (i - 1)
      BY <1>2, <3>1
    <3>. QED BY <1>1, <3>2
  <2>. QED BY <2>1 DEF Contents, Run
<1>5. Reading = IF consumer = NoSlot THEN 0 ELSE removed + 1
  <2>1. CASE consumer = NoSlot
    BY <2>1 DEF Reading
  <2>2. CASE consumer # NoSlot
    <3>1. consumer = SlotAt(ring, 0) /\ 0 \in 0 .. ring.held - 1
      BY <1>1, <2>2, HandsAre
    <3>2. frames[consumer] = removed + 1 + 0
      BY <1>2, <3>1
    <3>. QED BY <1>1, <2>2, <3>2 DEF Reading
  <2>. QED BY <2>1, <2>2
<1>. QED BY <1>1, <1>3, <1>4, <1>5

\* Every step of the dropping ring that does not race is a step of the FIFO
\* buffer or leaves it alone.
LEMMA FifoStep ==
  QueueInv /\ HandInv /\ (QueueInv /\ HandInv)' /\ [NextDrop]_vars
    => [ring'.raced \/ Fifo!Next]_(Fifo!fifoVars)
<1>. SUFFICES ASSUME QueueInv, HandInv, (QueueInv /\ HandInv)', [NextDrop]_vars,
                     ~ring'.raced
              PROVE  Fifo!Next \/ UNCHANGED <<Contents, seqno, Reading>>
  BY DEF Fifo!fifoVars, Reading
<1>0. BufferFacts /\ BufferFacts'
  BY BufferIs, PTL
<1>1. /\ Contents' = Run(removed', ring'.held)
      /\ Reading' = IF consumer' = NoSlot THEN 0 ELSE removed' + 1
      /\ seqno' = removed' + ring'.held
      /\ removed' \in Nat /\ ring'.held \in Nat
  BY <1>0 DEF BufferFacts, Calm
<1>2. RingOk(ring)
  BY DEF QueueInv
<1>3. ASSUME ~ring.raced
      PROVE  /\ Contents = Run(removed, ring.held)
             /\ Reading = IF consumer = NoSlot THEN 0 ELSE removed + 1
             /\ seqno = removed + ring.held
             /\ removed \in Nat /\ seqno \in Nat /\ ring.held \in Nat
  BY <1>0, <1>3 DEF BufferFacts, Calm
<1>4. ASSUME UNCHANGED <<seqno, removed>>, ~ring.raced,
             (consumer' = NoSlot) = (consumer = NoSlot)
      PROVE  UNCHANGED <<Contents, seqno, Reading>>
  <2>1. ring'.held = ring.held
    BY <1>1, <1>3, <1>4
  <2>. QED BY <1>1, <1>3, <1>4, <2>1
<1>5. CASE GetFree \/ Fill \/ Read \/ UNCHANGED vars
  <2>1. UNCHANGED <<seqno, removed, consumer>>
    BY <1>5 DEF GetFree, Fill, Read, vars
  <2>2. ring'.raced = ring.raced
    BY <1>2, <1>5, CurrInKeeps DEF GetFree, Fill, Read, vars, QueueInv, Hands
  <2>. QED BY <1>4, <2>1, <2>2
<1>6. CASE Put
  <2>1. /\ seqno' = seqno + 1 /\ removed' = removed /\ consumer' = consumer
        /\ ring.in_process
    BY <1>6 DEF Put, QueueInv, Hands
  <2>2. ~ring.raced /\ ring'.held = ring.held + 1 /\ ring.held < Max
    BY <1>2, <1>6, <2>1, PutKeeps DEF Put
  <2>3. Contents' = Append(Contents, seqno + 1) /\ Len(Contents) = ring.held
    <3>1. /\ Contents = Run(removed, ring.held)
          /\ Contents' = Run(removed, ring.held + 1)
          /\ removed \in Nat /\ ring.held \in Nat
          /\ seqno + 1 = removed + ring.held + 1
      BY <1>1, <1>3, <2>1, <2>2
    <3>2. /\ Len(Run(removed, ring.held)) = ring.held
          /\ Append(Run(removed, ring.held), removed + ring.held + 1)
               = Run(removed, ring.held + 1)
      BY ONLY <3>1, RunFacts
    <3>. QED BY ONLY <3>1, <3>2
  <2>4. Reading' = Reading
    BY <1>1, <1>3, <2>1, <2>2
  <2>5. Fifo!Commit
    BY <2>1, <2>2, <2>3, <2>4 DEF Fifo!Commit, Reading
  <2>. QED BY <2>5 DEF Fifo!Next
<1>7. CASE ProducerStep
  <2>1. UNCHANGED <<seqno, removed, consumer>>
    BY <1>7 DEF ProducerStep
  <2>2. ~ring.raced
    BY <1>2, <1>7, ProducerStepKeeps DEF ProducerStep
  <2>. QED BY <1>4, <2>1, <2>2
<1>8. CASE GetOldest
  <2>1. /\ UNCHANGED <<seqno, removed>>
        /\ consumer = NoSlot /\ consumer' # NoSlot
    BY <1>8, NoSlotAssumption DEF GetOldest, QueueInv, TypeOK, Rings
  <2>2. ring'.raced = ring.raced
    BY <1>2, <1>8, CurrOutKeeps DEF GetOldest
  <2>3. ring'.held = ring.held /\ ring.held > 0
    <3>1. ring'.held = ring.held
      BY <1>2, <1>8, CurrOutKeeps DEF GetOldest
    <3>2. ring.held >= 1
      BY <1>2, <1>8, <2>2, Admitted DEF GetOldest
    <3>. QED BY <1>3, <2>2, <3>1, <3>2
  <2>4. Contents # <<>> /\ Head(Contents) = removed + 1 /\ Contents' = Contents
    <3>1. /\ Contents = Run(removed, ring.held) /\ Contents' = Contents
          /\ removed \in Nat /\ ring.held \in Nat
      BY <1>1, <1>3, <2>1, <2>2, <2>3
    <3>2. /\ Run(removed, ring.held) # <<>>
          /\ Head(Run(removed, ring.held)) = removed + 1
      BY ONLY <2>3, <3>1, RunFacts
    <3>. QED BY ONLY <3>1, <3>2
  <2>5. Reading = 0 /\ Reading' = Head(Contents)
    BY <1>1, <1>3, <2>1, <2>2, <2>4
  <2>6. Fifo!Take
    BY <2>1, <2>4, <2>5 DEF Fifo!Take, Reading
  <2>. QED BY <2>6 DEF Fifo!Next
<1>9. CASE Remove
  <2>1. /\ seqno' = seqno /\ removed' = removed + 1
        /\ consumer # NoSlot /\ consumer' = NoSlot
        /\ ring.out_process
    BY <1>9 DEF Remove, QueueInv, Hands
  <2>2. ~ring.raced /\ ring'.held = ring.held - 1 /\ ring.held >= 1
    BY <1>2, <1>9, <2>1, RemoveKeeps DEF Remove
  <2>3. Contents' = Tail(Contents)
    <3>1. /\ Contents = Run(removed, ring.held)
          /\ Contents' = Run(removed + 1, ring.held - 1)
          /\ removed \in Nat /\ ring.held \in Nat /\ ring.held > 0
      BY <1>1, <1>3, <2>1, <2>2
    <3>. QED BY <3>1, RunFacts
  <2>4. Reading # 0 /\ Reading' = 0
    BY <1>1, <1>3, <2>1, <2>2
  <2>5. Fifo!Release
    BY <2>1, <2>3, <2>4 DEF Fifo!Release, Reading
  <2>. QED BY <2>5 DEF Fifo!Next
<1>10. CASE ConsumerStep
  <2>1. UNCHANGED <<seqno, removed, consumer>>
    BY <1>10 DEF ConsumerStep
  <2>2. ~ring.raced
    BY <1>2, <1>10, ConsumerStepKeeps DEF ConsumerStep
  <2>. QED BY <1>4, <2>1, <2>2
<1>. QED BY <1>5, <1>6, <1>7, <1>8, <1>9, <1>10 DEF NextDrop, Producer, Consumer

\* With a dropping producer the ring implements the bounded FIFO buffer, up
\* to the first call that races.
THEOREM ImplementsFifo == SpecDrop => IsFifo
<1>1. Init => Fifo!Init
  <2>. SUFFICES ASSUME Init PROVE Fifo!Init
    OBVIOUS
  <2>1. QueueInv /\ HandInv
    BY InitQueueInv, InitHandInv
  <2>2. removed = 0 /\ ring.held = 0 /\ Calm /\ seqno = 0 /\ consumer = NoSlot
    BY RingStart DEF Init, Calm
  <2>3. Contents = <<>>
    BY <2>1, <2>2, BufferIs, RunFacts DEF BufferFacts
  <2>. QED BY <2>2, <2>3 DEF Fifo!Init
<1>2. QueueInv /\ HandInv /\ (QueueInv /\ HandInv)' /\ [NextDrop]_vars
        => [ring'.raced \/ Fifo!Next]_(Fifo!fifoVars)
  BY FifoStep
<1>. QED BY <1>1, <1>2, HandInvAlways, PTL DEF SpecDrop, IsFifo

-----------------------------------------------------------------------------
(***************************************************************************)
(* The flushing producer, with two positions.  A flush moves the front     *)
(* under the consumer, so that the consumer may work on a position the     *)
(* producer overwrites; the ring still holds consecutive frames, and all   *)
(* but the oldest of them are at least as new as what the consumer has     *)
(* read.  With three positions or more this is false.                      *)
(***************************************************************************)
BackInv ==
  /\ \A s \in Slots : frames[s] <= seqno + 1
  /\ Calm => \A i \in 0 .. ring.held - 1 :
               frames[SlotAt(ring, i)] = seqno - ring.held + 1 + i
  /\ Calm /\ consumer = NoSlot => seen <= seqno - ring.held + 1
  /\ Calm /\ consumer # NoSlot => /\ seen <= frames[consumer]
                                  /\ seen <= seqno - ring.held + 2

\* Nothing has been read at first.
LEMMA InitBackInv == Init => BackInv
<1>. SUFFICES ASSUME Init PROVE BackInv
  OBVIOUS
<1>1. ring.held = 0
  BY RingStart DEF Init
<1>. QED BY <1>1 DEF Init, BackInv

\* Every step of the flushing ring keeps the run of frames, and no read goes
\* back.
LEMMA StepBackInv ==
  ASSUME Max = 2, QueueInv, QueueInv', BackInv, [NextFlush]_vars
  PROVE  BackInv' /\ (~ring'.raced => seen' >= seen)
<1>a. /\ RingOk(ring) /\ RingOk(ring')
      /\ ring \in Rings /\ ring' \in Rings
      /\ ring.held \in 0 .. 2
      /\ frames \in [Slots -> Nat]
      /\ seqno \in Nat /\ seen \in Nat
      /\ consumer # NoSlot => consumer \in Slots
  <2>1. frames \in [Slots -> 0 .. MaxFrames] /\ 0 .. MaxFrames \subseteq Nat
    BY BoundAssumption DEF QueueInv, TypeOK
  <2>2. frames \in [Slots -> Nat]
    BY <2>1
  <2>. QED BY <2>1, <2>2 DEF QueueInv, TypeOK, Rings, RingOk
<1>b. /\ ring.in_process <=> producer # NoSlot
      /\ ring.out_process <=> consumer # NoSlot
      /\ producer # NoSlot => producer = ring.rear
      /\ filled => producer # NoSlot /\ frames[producer] = seqno + 1
  BY DEF QueueInv, Hands
<1>c. /\ \A s \in Slots : frames[s] <= seqno + 1
      /\ ~ring.raced => \A i \in 0 .. ring.held - 1 :
                          frames[SlotAt(ring, i)] = seqno - ring.held + 1 + i
      /\ ~ring.raced /\ consumer = NoSlot => seen <= seqno - ring.held + 1
      /\ ~ring.raced /\ consumer # NoSlot => /\ seen <= frames[consumer]
                                             /\ seen <= seqno - ring.held + 2
  BY DEF BackInv, Calm
<1>d. ASSUME UNCHANGED <<frames, consumer, seqno, seen>>, FrontOf(ring') = FrontOf(ring),
             ring.raced => ring'.raced, ~ring'.raced => ring'.held = ring.held
      PROVE  BackInv' /\ (~ring'.raced => seen' >= seen)
  <2>1. \A i : SlotAt(ring', i) = SlotAt(ring, i)
    BY <1>d DEF SlotAt
  <2>2. CASE ring'.raced
    BY <1>c, <1>d, <2>2 DEF BackInv, Calm
  <2>3. CASE ~ring'.raced
    <3>1. ~ring.raced /\ ring'.held = ring.held
      BY <1>d, <2>3
    <3>. QED BY <1>a, <1>c, <1>d, <2>1, <3>1 DEF BackInv, Calm
  <2>. QED BY <2>2, <2>3
<1>1. CASE GetFree
  <2>1. /\ FrontOf(ring') = FrontOf(ring)
        /\ ring'.held = ring.held /\ ring'.raced = ring.raced
    BY <1>1, <1>a, CurrInKeeps DEF GetFree
  <2>. QED BY <1>1, <1>d, <2>1 DEF GetFree
<1>2. CASE Fill
  <2>1. UNCHANGED <<ring, consumer, seqno, seen>>
    BY <1>2 DEF Fill
  <2>2. /\ producer = ring.rear /\ producer \in Slots /\ ring.in_process
        /\ ~ProducerBusy(ring)
    BY <1>2, <1>a, <1>b DEF Fill, RingOk, Calls, Rings
  <2>3. /\ frames'[producer] = seqno + 1
        /\ \A s \in Slots : frames'[s] = seqno + 1 \/ frames'[s] = frames[s]
    BY <1>2, <1>a, <2>2 DEF Fill
  <2>4. \A s \in Slots : frames'[s] <= seqno + 1 /\ frames[s] <= frames'[s]
    BY <2>3, <1>a, <1>c
  <2>5. ASSUME ~ring.raced, NEW i \in 0 .. ring.held - 1
        PROVE  frames'[SlotAt(ring, i)] = frames[SlotAt(ring, i)]
    <3>1. ring.held < Max /\ producer = SlotAt(ring, ring.held)
      BY <1>a, <2>2, <2>5, Admitted
    <3>2. i \in 0 .. Max - 1 /\ ring.held \in 0 .. Max - 1 /\ i # ring.held
      BY <1>a, <3>1
    <3>3. SlotAt(ring, i) # producer
      BY <1>a, <3>1, <3>2, SlotsDiffer
    <3>4. SlotAt(ring, i) \in Slots
      BY <1>a, <3>2, SlotFromFront
    <3>. QED BY <1>2, <1>a, <3>3, <3>4 DEF Fill
  <2>6. ~ring.raced /\ consumer # NoSlot => seen <= frames'[consumer]
    <3>1. consumer # NoSlot => frames[consumer] \in Nat /\ frames'[consumer] \in Nat
      BY <2>3, <1>a
    <3>2. consumer # NoSlot => frames[consumer] <= frames'[consumer]
      BY <2>4, <1>a
    <3>. QED BY <3>1, <3>2, <1>a, <1>c
  <2>. QED BY <1>a, <1>c, <2>1, <2>4, <2>5, <2>6 DEF BackInv, Calm
<1>3. CASE Put
  <2>1. /\ UNCHANGED <<frames, consumer, seen>> /\ seqno' = seqno + 1
        /\ ring.in_process /\ producer = ring.rear /\ ~ProducerBusy(ring)
        /\ frames[producer] = seqno + 1
    BY <1>3, <1>a, <1>b DEF Put, RingOk, Calls
  <2>2. /\ FrontOf(ring') = FrontOf(ring)
        /\ ring.raced => ring'.raced
        /\ ~ring'.raced => ring'.held = ring.held + 1
    BY <1>3, <1>a, <2>1, PutKeeps DEF Put
  <2>3. \A s \in Slots : frames'[s] <= seqno' + 1
    BY <2>1, <1>a, <1>c
  <2>4. CASE ring'.raced
    BY <2>1, <2>3, <2>4, <1>a DEF BackInv, Calm
  <2>5. CASE ~ring'.raced
    <3>1. ~ring.raced /\ ring'.held = ring.held + 1
      BY <2>2, <2>5
    <3>2. producer = SlotAt(ring, ring.held)
      BY <1>a, <2>1, <3>1, Admitted
    <3>3. \A i \in 0 .. ring'.held - 1 :
            frames'[SlotAt(ring', i)] = seqno' - ring'.held + 1 + i
      <4>. SUFFICES ASSUME NEW i \in 0 .. ring'.held - 1
                    PROVE  frames[SlotAt(ring, i)] = seqno - ring.held + 1 + i
        BY <1>a, <2>1, <2>2, <3>1 DEF SlotAt
      <4>1. CASE i \in 0 .. ring.held - 1
        BY <4>1, <1>c, <3>1
      <4>2. CASE i = ring.held
        <5>1. seqno - ring.held + 1 + i = seqno + 1
          BY <4>2, <1>a
        <5>. QED BY <4>2, <5>1, <2>1, <3>2
      <4>. QED BY <4>1, <4>2, <3>1, <1>a
    <3>4. seqno' - ring'.held = seqno - ring.held
      BY <1>a, <2>1, <3>1
    <3>. QED BY <1>a, <1>c, <2>1, <2>3, <3>1, <3>3, <3>4 DEF BackInv, Calm
  <2>. QED BY <2>4, <2>5
<1>4. CASE Flush
  <2>1. /\ FrontOf(ring') = FrontOf(ring)
        /\ ring'.held = ring.held /\ ring'.raced = ring.raced
    BY <1>4, <1>a, <1>b, FlushFramesKeeps DEF Flush
  <2>. QED BY <1>4, <1>d, <2>1 DEF Flush
<1>5. CASE ProducerStep
  <2>. DEFINE moves == "front" \in ring.flushStores \ ring'.flushStores
  <2>1. /\ ring.raced => ring'.raced
        /\ ~moves => FrontOf(ring') = FrontOf(ring)
        /\ ~moves /\ ~ring'.raced => ring'.held = ring.held
        /\ moves /\ ~ring'.raced => /\ ring.held = Max /\ ring'.held = 1
                                    /\ FrontOf(ring') = SlotAt(ring, Max - 1)
    BY <1>5, <1>a, ProducerStepKeeps DEF ProducerStep
  <2>2. UNCHANGED <<frames, consumer, seqno, seen>>
    BY <1>5 DEF ProducerStep
  <2>3. CASE ~moves
    BY <1>d, <2>1, <2>2, <2>3
  <2>4. CASE moves /\ ring'.raced
    BY <1>a, <1>c, <2>2, <2>4 DEF BackInv, Calm
  <2>5. CASE moves /\ ~ring'.raced
    <3>1. /\ ~ring.raced /\ ring.held = 2 /\ ring'.held = 1
          /\ FrontOf(ring') = SlotAt(ring, 1)
      BY <2>1, <2>5
    <3>2. SlotAt(ring', 0) = SlotAt(ring, 1)
      BY <1>a, <3>1, SlotFromFront DEF Slots
    <3>3. frames[SlotAt(ring, 1)] = seqno - 2 + 1 + 1
      BY <1>c, <3>1
    <3>4. \A i \in 0 .. ring'.held - 1 :
            frames'[SlotAt(ring', i)] = seqno' - ring'.held + 1 + i
      <4>. SUFFICES ASSUME NEW i \in 0 .. 0
                    PROVE  frames[SlotAt(ring', i)] = seqno - 1 + 1 + i
        BY <2>2, <3>1
      <4>1. i = 0
        OBVIOUS
      <4>. QED BY <4>1, <1>a, <3>2, <3>3
    <3>5. /\ consumer = NoSlot => seen <= seqno - 2 + 1
          /\ consumer # NoSlot => seen <= frames[consumer] /\ seen <= seqno - 2 + 2
      BY <1>c, <3>1
    <3>6. /\ consumer' = NoSlot => seen' <= seqno' - ring'.held + 1
          /\ consumer' # NoSlot => seen' <= frames'[consumer'] /\ seen' <= seqno' - ring'.held + 2
      BY <1>a, <2>2, <3>1, <3>5
    <3>. QED BY <1>a, <1>c, <2>2, <3>4, <3>6 DEF BackInv
  <2>. QED BY <2>3, <2>4, <2>5
<1>6. CASE GetOldest
  <2>1. /\ FrontOf(ring') = FrontOf(ring) /\ FrontOf(ring) = ring.front
        /\ ring'.held = ring.held /\ ring'.raced = ring.raced
    BY <1>6, <1>a, CurrOutKeeps DEF GetOldest
  <2>2. /\ UNCHANGED <<frames, seqno, seen>> /\ consumer' = ring.front
        /\ consumer = NoSlot /\ ring.front \in Slots
    BY <1>6, <1>a DEF GetOldest, Rings
  <2>3. \A i : SlotAt(ring', i) = SlotAt(ring, i)
    BY <2>1 DEF SlotAt
  <2>4. ASSUME ~ring.raced
        PROVE  seen <= frames[ring.front] /\ seen <= seqno - ring.held + 2
    <3>1. ring.held >= 1
      BY <1>6, <1>a, <2>4, Admitted DEF GetOldest
    <3>2. SlotAt(ring, 0) = ring.front /\ 0 \in 0 .. ring.held - 1
      BY <1>a, <2>1, <2>2, <3>1, SlotFromFront DEF Slots
    <3>3. frames[SlotAt(ring, 0)] = seqno - ring.held + 1 + 0
      BY <1>c, <2>4, <3>2
    <3>4. seen <= seqno - ring.held + 1
      BY <1>c, <2>2, <2>4
    <3>. QED BY <1>a, <3>2, <3>3, <3>4
  <2>5. ring.front # NoSlot
    BY <2>2, NoSlotAssumption
  <2>. QED BY <1>a, <1>c, <2>1, <2>2, <2>3, <2>4, <2>5 DEF BackInv, Calm
<1>7. CASE Read
  <2>1. /\ UNCHANGED <<ring, frames, consumer, seqno>>
        /\ consumer # NoSlot /\ seen' = frames[consumer]
        /\ ring.out_process
    BY <1>7, <1>b DEF Read
  <2>2. frames[consumer] \in Nat /\ frames[consumer] <= seqno + 1
    BY <1>a, <1>c, <2>1
  <2>3. ASSUME ~ring.raced PROVE frames[consumer] <= seqno - ring.held + 2
    <3>1. ring.held >= 1
      BY <1>a, <2>1, <2>3, Admitted
    <3>2. CASE ring.held = 1
      BY <3>2, <1>a, <2>2
    <3>3. CASE ring.held = 2
      <4>1. SlotAt(ring, 0) # SlotAt(ring, 1)
        BY <1>a, SlotsDiffer
      <4>2. SlotAt(ring, 0) \in Slots /\ SlotAt(ring, 1) \in Slots
        BY <1>a, SlotFromFront
      <4>3. consumer \in {SlotAt(ring, 0), SlotAt(ring, 1)}
        BY <4>1, <4>2, <1>a, <2>1 DEF Slots
      <4>4. /\ frames[SlotAt(ring, 0)] = seqno - 2 + 1 + 0
            /\ frames[SlotAt(ring, 1)] = seqno - 2 + 1 + 1
        BY <3>3, <1>c, <2>3
      <4>. QED BY <3>3, <4>3, <4>4, <1>a
    <3>. QED BY <3>1, <3>2, <3>3, <1>a
  <2>. QED BY <1>a, <1>c, <2>1, <2>2, <2>3 DEF BackInv, Calm
<1>8. CASE Remove
  <2>1. /\ UNCHANGED <<frames, seqno, seen>> /\ consumer' = NoSlot
        /\ consumer # NoSlot /\ ring.out_process
    BY <1>8, <1>b DEF Remove
  <2>2. /\ FrontOf(ring') = (FrontOf(ring) + 1) % Max
        /\ ring.raced => ring'.raced
        /\ ~ring'.raced => ring'.held = ring.held - 1
    BY <1>8, <1>a, <2>1, RemoveKeeps DEF Remove
  <2>3. CASE ring'.raced
    BY <2>1, <2>3, <1>a, <1>c DEF BackInv, Calm
  <2>4. CASE ~ring'.raced
    <3>1. ~ring.raced /\ ring'.held = ring.held - 1
      BY <2>2, <2>4
    <3>2. ASSUME NEW i \in 0 .. ring'.held - 1
          PROVE  frames'[SlotAt(ring', i)] = seqno' - ring'.held + 1 + i
      <4>1. i \in 0 .. Max - 1 /\ i + 1 \in 0 .. ring.held - 1
        BY <1>a, <3>1
      <4>2. SlotAt(ring', i) = SlotAt(ring, i + 1)
        BY <1>a, <2>2, <4>1, SlotAfterRemove
      <4>3. frames[SlotAt(ring, i + 1)] = seqno - ring.held + 1 + (i + 1)
        BY <1>c, <3>1, <4>1
      <4>4. seqno - ring.held + 1 + (i + 1) = seqno - (ring.held - 1) + 1 + i
        BY <4>1, <1>a
      <4>. QED BY <2>1, <3>1, <4>2, <4>3, <4>4
    <3>3. seen <= seqno - (ring.held - 1) + 1
      BY <1>a, <1>c, <2>1, <3>1
    <3>. QED BY <1>a, <1>c, <2>1, <3>1, <3>2, <3>3 DEF BackInv, Calm
  <2>. QED BY <2>3, <2>4
<1>9. CASE ConsumerStep
  <2>1. /\ FrontOf(ring') = FrontOf(ring)
        /\ ring'.held = ring.held /\ ring'.raced = ring.raced
    BY <1>9, <1>a, ConsumerStepKeeps DEF ConsumerStep
  <2>. QED BY <1>9, <1>d, <2>1 DEF ConsumerStep
<1>10. CASE UNCHANGED vars
  BY <1>10, <1>d DEF vars
<1>. QED BY <1>1, <1>2, <1>3, <1>4, <1>5, <1>6, <1>7, <1>8, <1>9, <1>10
         DEF NextFlush, NextDrop, Producer, Consumer

\* With a flushing producer and the program's two positions, the consumer
\* never reads a frame older than one it has read before, even when a flush
\* has moved the front under its feet, as long as no call has raced.
THEOREM ReadsForward == ASSUME Max = 2 PROVE SpecFlush => NeverBack
<1>1. Init => BackInv
  BY InitBackInv
<1>2. QueueInv /\ QueueInv' /\ BackInv /\ [NextFlush]_vars => BackInv'
  BY StepBackInv
<1>3. QueueInv /\ QueueInv' /\ BackInv /\ [NextFlush]_vars
        => [~ring'.raced => seen' >= seen]_vars
  BY StepBackInv
<1>. QED BY <1>1, <1>2, <1>3, QueueInvAlways, PTL DEF SpecFlush, NeverBack

=============================================================================
