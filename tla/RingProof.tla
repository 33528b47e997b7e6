------------------------------ MODULE RingProof ------------------------------
(***************************************************************************)
(* What the two threads of a ring of video frames can rely on, for every   *)
(* number of positions, although neither takes a lock: RingOk is kept by   *)
(* every single access to the shared words, and tells, as long as no call  *)
(* has raced, how many frames the ring holds and where they are.           *)
(***************************************************************************)
EXTENDS FrameRing, TLAPS

-----------------------------------------------------------------------------
\* Where the rear will be when the producer's call is over.
RearOf(q) == IF "rear" \in q.putStores THEN (q.rear + 1) % Max ELSE q.rear

\* A thread is in one call at a time, and in none while it uses a position.
Calls(q) ==
  /\ Putting(q) => ~Flushing(q)
  /\ q.flushing => q.flushStores = {}
  /\ q.in_process => ~ProducerBusy(q)
  /\ q.out_process => ~Removing(q)

\* The two ends of the ring are as far apart as the frames it holds.
Ends(q) ==
  /\ RearOf(q) = SlotAt(q, q.held)
  /\ "front" \in q.removeStores => q.removeTo = (q.front + 1) % Max
  /\ "front" \in q.flushStores /\ q.held = Max
       => q.flushTo = (q.front + (Max - 1)) % Max

\* What a thread may conclude, from the state word or from where it is
\* itself: that there is a frame, or that there is room.
NotEmpty(q) ==
  \/ Putting(q)
  \/ q.out_process
  \/ "state" \notin q.removeStores /\ q.state # "EMPTY"
  \/ "state" \in q.removeStores /\ q.removeWord = "OK"

NotFull(q) ==
  \/ Removing(q)
  \/ q.in_process
  \/ "state" \notin q.putStores /\ ~Flushing(q) /\ q.state # "FULL"
  \/ "state" \in q.putStores /\ q.putWord = "OK"

Believed(q) ==
  /\ NotEmpty(q) => q.held >= 1
  /\ NotFull(q) => q.held < Max
  /\ q.flushStores = {"state"} => q.held = 1

RingOk(q) == q \in Rings /\ Calls(q) /\ (~q.raced => Ends(q) /\ Believed(q))

-----------------------------------------------------------------------------
\* The successor of a position, as put_frame and remove_frame compute it.
LEMMA NextSlot ==
  ASSUME NEW s \in Slots
  PROVE  /\ (s + 1) % Max = IF s = Max - 1 THEN 0 ELSE s + 1
         /\ (s + 1) % Max \in Slots
<1>1. (s + 1) % Max = IF s = Max - 1 THEN 0 ELSE s + 1
  BY MaxAssumption, Z3 DEF Slots
<1>. QED BY <1>1, MaxAssumption DEF Slots

\* The predecessor of a position, as flush_frames computes it.
LEMMA PreviousSlot ==
  ASSUME NEW s \in Slots
  PROVE  /\ (s + (Max - 1)) % Max = IF s = 0 THEN Max - 1 ELSE s - 1
         /\ (s + (Max - 1)) % Max \in Slots
<1>1. (s + (Max - 1)) % Max = IF s = 0 THEN Max - 1 ELSE s - 1
  BY MaxAssumption, Z3 DEF Slots
<1>. QED BY <1>1, MaxAssumption DEF Slots

\* The i-th position from the front of a ring.
LEMMA SlotFromFront ==
  ASSUME NEW q \in Rings, NEW i \in 0 .. Max
  PROVE  /\ FrontOf(q) \in Slots
         /\ SlotAt(q, i) = IF FrontOf(q) + i < Max THEN FrontOf(q) + i
                           ELSE FrontOf(q) + i - Max
         /\ SlotAt(q, i) \in Slots
<1>1. FrontOf(q) \in Slots
  BY DEF Rings, FrontOf
<1>. DEFINE f == FrontOf(q)
<1>2. f \in Slots /\ SlotAt(q, i) = (f + i) % Max
  BY <1>1 DEF SlotAt
<1>3. (f + i) % Max = IF f + i < Max THEN f + i ELSE f + i - Max
  <2>. HIDE DEF f
  <2>. QED BY <1>2, MaxAssumption, Z3 DEF Slots
<1>4. (IF f + i < Max THEN f + i ELSE f + i - Max) \in Slots
  <2>. HIDE DEF f
  <2>. QED BY <1>2, MaxAssumption DEF Slots
<1>. QED BY <1>1, <1>2, <1>3, <1>4

\* Positions at different distances from the front are different positions.
LEMMA SlotsDiffer ==
  ASSUME NEW q \in Rings, NEW i \in 0 .. Max - 1, NEW j \in 0 .. Max - 1, i # j
  PROVE  SlotAt(q, i) # SlotAt(q, j)
<1>. DEFINE f == FrontOf(q)
<1>1. /\ f \in Slots
      /\ SlotAt(q, i) = IF f + i < Max THEN f + i ELSE f + i - Max
      /\ SlotAt(q, j) = IF f + j < Max THEN f + j ELSE f + j - Max
  BY SlotFromFront, MaxAssumption
<1>. HIDE DEF f
<1>. QED BY <1>1, MaxAssumption DEF Slots

\* When the front goes one further, the i-th position is the one that was
\* one further.
LEMMA SlotAfterRemove ==
  ASSUME NEW q \in Rings, NEW p \in Rings, FrontOf(p) = (FrontOf(q) + 1) % Max,
         NEW i \in 0 .. Max - 1
  PROVE  SlotAt(p, i) = SlotAt(q, i + 1)
<1>. DEFINE f == FrontOf(q)
            g == FrontOf(p)
<1>1. f \in Slots /\ g \in Slots
  BY SlotFromFront, MaxAssumption
<1>2. g = IF f = Max - 1 THEN 0 ELSE f + 1
  BY <1>1, NextSlot
<1>3. /\ SlotAt(p, i) = IF g + i < Max THEN g + i ELSE g + i - Max
      /\ SlotAt(q, i + 1) = IF f + (i + 1) < Max THEN f + (i + 1) ELSE f + (i + 1) - Max
  BY SlotFromFront, MaxAssumption
<1>. HIDE DEF f, g
<1>. QED BY <1>1, <1>2, <1>3, MaxAssumption DEF Slots

\* The position behind the i-th is the one after it.
LEMMA SlotAfter ==
  ASSUME NEW q \in Rings, NEW i \in 0 .. Max - 1
  PROVE  (SlotAt(q, i) + 1) % Max = SlotAt(q, i + 1)
<1>. DEFINE f == FrontOf(q)
            s == SlotAt(q, i)
<1>1. /\ f \in Slots
      /\ s = IF f + i < Max THEN f + i ELSE f + i - Max
      /\ s \in Slots
      /\ SlotAt(q, i + 1) = IF f + (i + 1) < Max THEN f + (i + 1) ELSE f + (i + 1) - Max
  BY SlotFromFront, MaxAssumption
<1>2. (s + 1) % Max = IF s = Max - 1 THEN 0 ELSE s + 1
  BY <1>1, NextSlot
<1>. HIDE DEF f, s
<1>3. (s + 1) % Max = SlotAt(q, i + 1)
  BY <1>1, <1>2, MaxAssumption DEF Slots
<1>. QED BY <1>3 DEF s

-----------------------------------------------------------------------------
\* An empty ring is in order.
LEMMA RingStart ==
  /\ RingOk(InitRing)
  /\ InitRing.held = 0 /\ ~InitRing.raced
  /\ ~InitRing.in_process /\ ~InitRing.out_process
  /\ ~ProducerBusy(InitRing) /\ ~ConsumerBusy(InitRing)
<1>1. 0 \in Slots /\ 0 \in 0 .. Max
  BY MaxAssumption DEF Slots
<1>2. InitRing \in Rings
  BY <1>1 DEF InitRing, Rings, Words
<1>3. Calls(InitRing) /\ Believed(InitRing)
  BY MaxAssumption
     DEF InitRing, Calls, Believed, NotEmpty, NotFull, Putting, Flushing,
         ProducerBusy, Removing
<1>4. Ends(InitRing)
  <2>1. SlotAt(InitRing, 0) = 0
    BY <1>1, <1>2, SlotFromFront, MaxAssumption DEF InitRing, FrontOf
  <2>. QED BY <2>1 DEF InitRing, Ends, RearOf
<1>. QED BY <1>2, <1>3, <1>4
         DEF RingOk, InitRing, ProducerBusy, ConsumerBusy, Putting, Flushing, Removing

\* curr_in_frame only raises a flag, for a producer that found room.
LEMMA CurrInKeeps ==
  ASSUME NEW q, RingOk(q), MayPut(q), ~ProducerBusy(q)
  PROVE  /\ RingOk(CurrIn(q))
         /\ CurrIn(q).in_process
         /\ CurrIn(q).out_process = q.out_process
         /\ CurrIn(q).rear = q.rear
         /\ CurrIn(q).front = q.front
         /\ FrontOf(CurrIn(q)) = FrontOf(q)
         /\ CurrIn(q).held = q.held
         /\ CurrIn(q).raced = q.raced
         /\ CurrIn(q).flushStores = q.flushStores
         /\ Flushing(CurrIn(q)) = Flushing(q)
         /\ ProducerBusy(CurrIn(q)) = ProducerBusy(q)
         /\ ConsumerBusy(CurrIn(q)) = ConsumerBusy(q)
<1>. DEFINE p == CurrIn(q)
<1>1. q \in Rings /\ Calls(q)
  BY DEF RingOk
<1>2. p = [q EXCEPT !.in_process = TRUE] /\ p \in Rings
  BY <1>1 DEF CurrIn, Rings
<1>3. /\ p.rear = q.rear /\ p.front = q.front /\ p.state = q.state
      /\ p.in_process = TRUE /\ p.out_process = q.out_process
      /\ p.putWord = q.putWord /\ p.putStores = q.putStores
      /\ p.removeWord = q.removeWord /\ p.removeTo = q.removeTo
      /\ p.removeStores = q.removeStores
      /\ p.flushing = q.flushing /\ p.flushTo = q.flushTo
      /\ p.flushStores = q.flushStores
      /\ p.held = q.held /\ p.raced = q.raced
  BY <1>1, <1>2 DEF Rings
<1>. HIDE DEF p
<1>4. FrontOf(p) = FrontOf(q) /\ RearOf(p) = RearOf(q)
  BY <1>3 DEF FrontOf, RearOf
<1>5. Calls(p)
  BY <1>1, <1>3 DEF Calls, ProducerBusy, Putting, Flushing, Removing
<1>6. ASSUME ~p.raced PROVE Ends(p) /\ Believed(p)
  <2>1. Ends(q) /\ Believed(q)
    BY <1>3, <1>6 DEF RingOk
  <2>2. Ends(p)
    BY <2>1, <1>3, <1>4 DEF Ends, SlotAt
  <2>3. Believed(p)
    BY <2>1, <1>1, <1>3
       DEF Believed, NotEmpty, NotFull, Putting, Flushing, Removing, ProducerBusy,
           MayPut, Calls
  <2>. QED BY <2>2, <2>3
<1>7. RingOk(p)
  BY <1>2, <1>5, <1>6 DEF RingOk
<1>. QED BY <1>3, <1>4, <1>7
         DEF p, ProducerBusy, ConsumerBusy, Putting, Flushing, Removing

\* curr_out_frame only raises a flag, for a consumer that found a frame.
LEMMA CurrOutKeeps ==
  ASSUME NEW q, RingOk(q), MayTake(q), ~ConsumerBusy(q)
  PROVE  /\ RingOk(CurrOut(q))
         /\ CurrOut(q).out_process
         /\ CurrOut(q).in_process = q.in_process
         /\ CurrOut(q).rear = q.rear
         /\ CurrOut(q).front = q.front
         /\ FrontOf(CurrOut(q)) = FrontOf(q)
         /\ FrontOf(q) = q.front
         /\ CurrOut(q).held = q.held
         /\ CurrOut(q).raced = q.raced
         /\ CurrOut(q).flushStores = q.flushStores
         /\ Flushing(CurrOut(q)) = Flushing(q)
         /\ ProducerBusy(CurrOut(q)) = ProducerBusy(q)
         /\ ConsumerBusy(CurrOut(q)) = ConsumerBusy(q)
<1>. DEFINE p == CurrOut(q)
<1>1. q \in Rings /\ Calls(q)
  BY DEF RingOk
<1>2. p = [q EXCEPT !.out_process = TRUE] /\ p \in Rings
  BY <1>1 DEF CurrOut, Rings
<1>3. /\ p.rear = q.rear /\ p.front = q.front /\ p.state = q.state
      /\ p.in_process = q.in_process /\ p.out_process = TRUE
      /\ p.putWord = q.putWord /\ p.putStores = q.putStores
      /\ p.removeWord = q.removeWord /\ p.removeTo = q.removeTo
      /\ p.removeStores = q.removeStores
      /\ p.flushing = q.flushing /\ p.flushTo = q.flushTo
      /\ p.flushStores = q.flushStores
      /\ p.held = q.held /\ p.raced = q.raced
  BY <1>1, <1>2 DEF Rings
<1>. HIDE DEF p
<1>4. /\ FrontOf(p) = FrontOf(q) /\ RearOf(p) = RearOf(q)
      /\ FrontOf(q) = q.front
  BY <1>3 DEF FrontOf, RearOf, ConsumerBusy, Removing
<1>5. Calls(p)
  BY <1>1, <1>3 DEF Calls, ProducerBusy, ConsumerBusy, Putting, Flushing, Removing
<1>6. ASSUME ~p.raced PROVE Ends(p) /\ Believed(p)
  <2>1. Ends(q) /\ Believed(q)
    BY <1>3, <1>6 DEF RingOk
  <2>2. Ends(p)
    BY <2>1, <1>3, <1>4 DEF Ends, SlotAt
  <2>3. Believed(p)
    BY <2>1, <1>1, <1>3
       DEF Believed, NotEmpty, NotFull, Putting, Flushing, Removing, ConsumerBusy,
           MayTake, Calls
  <2>. QED BY <2>2, <2>3
<1>7. RingOk(p)
  BY <1>2, <1>5, <1>6 DEF RingOk
<1>. QED BY <1>3, <1>4, <1>7
         DEF p, ProducerBusy, ConsumerBusy, Putting, Flushing, Removing

-----------------------------------------------------------------------------
\* put_frame adds the frame at the rear, unless it races.
LEMMA PutKeeps ==
  ASSUME NEW q, RingOk(q), q.in_process
  PROVE  /\ RingOk(PutFrame(q))
         /\ ~PutFrame(q).in_process
         /\ PutFrame(q).out_process = q.out_process
         /\ PutFrame(q).rear = q.rear
         /\ PutFrame(q).front = q.front
         /\ FrontOf(PutFrame(q)) = FrontOf(q)
         /\ PutFrame(q).flushStores = {}
         /\ Putting(PutFrame(q))
         /\ ~Flushing(PutFrame(q))
         /\ ConsumerBusy(PutFrame(q)) = ConsumerBusy(q)
         /\ q.raced => PutFrame(q).raced
         /\ ~PutFrame(q).raced => q.held < Max /\ PutFrame(q).held = q.held + 1
<1>. DEFINE p == PutFrame(q)
            h == IF q.held = Max THEN 1 ELSE q.held + 1
            races == Removing(q) /\ q.held = Max - 1
<1>1. /\ q \in Rings /\ Calls(q)
      /\ q.rear \in Slots /\ q.front \in Slots /\ q.held \in 0 .. Max
      /\ q.raced \in BOOLEAN /\ races \in BOOLEAN
  BY DEF RingOk, Rings
<1>2. p = [q EXCEPT !.in_process = FALSE,
                    !.raced = q.raced \/ races,
                    !.held = IF q.raced \/ races THEN 0 ELSE h,
                    !.putWord = IF (q.rear + 1) % Max = q.front THEN "FULL" ELSE "OK",
                    !.putStores = {"state", "rear"}]
  BY <1>1 DEF PutFrame, PutCompare, Counting, Removing, Rings
<1>3. h \in 0 .. Max
  BY <1>1, MaxAssumption
<1>4. p \in Rings
  <2>1. (IF q.raced \/ races THEN 0 ELSE h) \in 0 .. Max
    BY <1>1, <1>3, MaxAssumption
  <2>. HIDE DEF h, races
  <2>. DEFINE a == [q EXCEPT !.in_process = FALSE, !.raced = q.raced \/ races,
                             !.held = IF q.raced \/ races THEN 0 ELSE h]
  <2>2. a \in Rings
    BY <2>1, <1>1 DEF Rings
  <2>3. p = [a EXCEPT !.putWord = IF (q.rear + 1) % Max = q.front THEN "FULL" ELSE "OK",
                      !.putStores = {"state", "rear"}]
    BY <1>2
  <2>. HIDE DEF a, p
  <2>. QED BY <2>2, <2>3 DEF Rings
<1>5. /\ p.rear = q.rear /\ p.front = q.front /\ p.state = q.state
      /\ p.in_process = FALSE /\ p.out_process = q.out_process
      /\ p.putWord = (IF (q.rear + 1) % Max = q.front THEN "FULL" ELSE "OK")
      /\ p.putStores = {"state", "rear"}
      /\ p.removeWord = q.removeWord /\ p.removeTo = q.removeTo
      /\ p.removeStores = q.removeStores
      /\ p.flushing = q.flushing /\ p.flushTo = q.flushTo
      /\ p.flushStores = q.flushStores
      /\ p.held = (IF q.raced \/ races THEN 0 ELSE h)
      /\ p.raced = (q.raced \/ races)
  BY <1>1, <1>2 DEF Rings
<1>. HIDE DEF p
<1>6. ~ProducerBusy(q) /\ ~Putting(q) /\ ~Flushing(q) /\ q.flushStores = {} /\ ~q.flushing
  BY <1>1 DEF Calls, ProducerBusy, Flushing
<1>7. Calls(p)
  BY <1>1, <1>5, <1>6 DEF Calls, ProducerBusy, Putting, Flushing, Removing
<1>8. FrontOf(p) = FrontOf(q)
  BY <1>5 DEF FrontOf
<1>9. ASSUME ~p.raced
      PROVE  /\ Ends(p) /\ Believed(p)
             /\ q.held < Max /\ p.held = q.held + 1
  <2>1. Ends(q) /\ Believed(q) /\ ~q.raced /\ ~races
    BY <1>5, <1>9 DEF RingOk
  <2>2. q.held < Max
    BY <2>1 DEF Believed, NotFull
  <2>3. p.held = q.held + 1
    BY <2>1, <2>2, <1>1, <1>5, MaxAssumption
  <2>4. q.rear = SlotAt(q, q.held)
    BY <2>1, <1>6 DEF Ends, RearOf, Putting
  <2>5. RearOf(p) = SlotAt(p, p.held)
    <3>1. q.held \in 0 .. Max - 1
      BY <2>2, <1>1, MaxAssumption
    <3>2. (q.rear + 1) % Max = SlotAt(q, q.held + 1)
      BY <3>1, <2>4, <1>1, SlotAfter
    <3>. QED BY <3>2, <2>3, <1>5, <1>8 DEF RearOf, SlotAt
  <2>6. Ends(p)
    BY <2>1, <2>5, <1>5, <1>6 DEF Ends
  <2>7. p.held >= 1
    BY <2>2, <2>3, <1>1, MaxAssumption
  <2>8. ASSUME p.held = Max PROVE ~Removing(q) /\ p.putWord = "FULL"
    <3>1. q.held = Max - 1 /\ ~Removing(q)
      BY <2>1, <2>3, <2>8, <1>1, MaxAssumption DEF RingOk
    <3>2. FrontOf(q) = q.front
      BY <3>1 DEF FrontOf, Removing
    <3>3. SlotAt(p, Max) = q.front
      <4>1. SlotAt(p, Max) = IF q.front + Max < Max THEN q.front + Max
                             ELSE q.front + Max - Max
        BY <1>4, <1>8, <3>2, SlotFromFront, MaxAssumption
      <4>. QED BY <4>1, <1>1, MaxAssumption DEF Slots
    <3>4. (q.rear + 1) % Max = q.front
      BY <2>5, <2>8, <3>3, <1>5 DEF RearOf
    <3>. QED BY <3>1, <3>4, <1>5
  <2>9. NotFull(p) => p.held < Max
    <3>1. p.held \in 0 .. Max
      BY <1>4 DEF Rings
    <3>2. p.held = Max => ~NotFull(p)
      BY <2>8, <1>5 DEF NotFull, Removing
    <3>. QED BY <3>1, <3>2, MaxAssumption
  <2>10. Believed(p)
    BY <2>7, <2>9, <1>5, <1>6 DEF Believed
  <2>. QED BY <2>2, <2>3, <2>6, <2>10
<1>10. RingOk(p)
  BY <1>4, <1>7, <1>9 DEF RingOk
<1>11. /\ p.flushStores = {} /\ Putting(p) /\ ~Flushing(p)
       /\ ConsumerBusy(p) = ConsumerBusy(q)
       /\ q.raced => p.raced
  BY <1>5, <1>6 DEF Putting, Flushing, ConsumerBusy, Removing
<1>. QED BY <1>5, <1>8, <1>9, <1>10, <1>11 DEF p

\* remove_frame takes the oldest frame away, unless it races.
LEMMA RemoveKeeps ==
  ASSUME NEW q, RingOk(q), q.out_process
  PROVE  /\ RingOk(RemoveFrame(q))
         /\ ~RemoveFrame(q).out_process
         /\ RemoveFrame(q).in_process = q.in_process
         /\ RemoveFrame(q).rear = q.rear
         /\ RemoveFrame(q).front = q.front
         /\ FrontOf(RemoveFrame(q)) = (FrontOf(q) + 1) % Max
         /\ FrontOf(q) = q.front
         /\ RemoveFrame(q).flushStores = q.flushStores
         /\ Flushing(RemoveFrame(q)) = Flushing(q)
         /\ ProducerBusy(RemoveFrame(q)) = ProducerBusy(q)
         /\ ConsumerBusy(RemoveFrame(q))
         /\ q.raced => RemoveFrame(q).raced
         /\ ~RemoveFrame(q).raced => q.held >= 1 /\ RemoveFrame(q).held = q.held - 1
<1>. DEFINE p == RemoveFrame(q)
            next == (q.front + 1) % Max
            races == ProducerBusy(q) /\ q.held = 1
<1>1. /\ q \in Rings /\ Calls(q)
      /\ q.rear \in Slots /\ q.front \in Slots /\ q.held \in 0 .. Max
      /\ q.raced \in BOOLEAN /\ races \in BOOLEAN
  BY DEF RingOk, Rings
<1>2. /\ ~Removing(q) /\ FrontOf(q) = q.front
      /\ next \in Slots
  BY <1>1, NextSlot DEF Calls, FrontOf, Removing
<1>3. p = [q EXCEPT !.out_process = FALSE,
                    !.raced = q.raced \/ races,
                    !.held = IF q.raced \/ races THEN 0 ELSE q.held - 1,
                    !.removeWord = IF next = q.rear THEN "EMPTY" ELSE "OK",
                    !.removeTo = next,
                    !.removeStores = {"state", "front"}]
  BY <1>1 DEF RemoveFrame, RemoveCompare, Counting, Rings, ProducerBusy, Putting, Flushing
<1>4. ASSUME ~q.raced PROVE q.held >= 1
  BY <1>4 DEF RingOk, Believed, NotEmpty
<1>5. p \in Rings
  <2>1. (IF q.raced \/ races THEN 0 ELSE q.held - 1) \in 0 .. Max
    BY <1>1, <1>4, MaxAssumption
  <2>. HIDE DEF next, races
  <2>. DEFINE a == [q EXCEPT !.out_process = FALSE, !.raced = q.raced \/ races,
                             !.held = IF q.raced \/ races THEN 0 ELSE q.held - 1]
  <2>2. a \in Rings
    BY <2>1, <1>1 DEF Rings
  <2>3. p = [a EXCEPT !.removeWord = IF next = q.rear THEN "EMPTY" ELSE "OK",
                      !.removeTo = next, !.removeStores = {"state", "front"}]
    BY <1>3
  <2>. HIDE DEF a, p
  <2>. QED BY <2>2, <2>3, <1>2 DEF Rings
<1>6. /\ p.rear = q.rear /\ p.front = q.front /\ p.state = q.state
      /\ p.in_process = q.in_process /\ p.out_process = FALSE
      /\ p.putWord = q.putWord /\ p.putStores = q.putStores
      /\ p.removeWord = (IF next = q.rear THEN "EMPTY" ELSE "OK")
      /\ p.removeTo = next
      /\ p.removeStores = {"state", "front"}
      /\ p.flushing = q.flushing /\ p.flushTo = q.flushTo
      /\ p.flushStores = q.flushStores
      /\ p.held = (IF q.raced \/ races THEN 0 ELSE q.held - 1)
      /\ p.raced = (q.raced \/ races)
  BY <1>1, <1>3 DEF Rings
<1>. HIDE DEF p
<1>7. Calls(p)
  BY <1>1, <1>6 DEF Calls, ProducerBusy, Putting, Flushing, Removing
<1>8. FrontOf(p) = next /\ RearOf(p) = RearOf(q)
  BY <1>6 DEF FrontOf, RearOf
<1>9. ASSUME ~p.raced
      PROVE  /\ Ends(p) /\ Believed(p)
             /\ q.held >= 1 /\ p.held = q.held - 1
  <2>1. Ends(q) /\ Believed(q) /\ ~q.raced /\ ~races
    BY <1>6, <1>9 DEF RingOk
  <2>2. q.held >= 1 /\ p.held = q.held - 1 /\ p.held \in 0 .. Max - 1
    BY <2>1, <1>1, <1>4, <1>6, MaxAssumption
  <2>3. RearOf(p) = SlotAt(p, p.held)
    <3>1. SlotAt(p, p.held) = SlotAt(q, p.held + 1)
      BY <2>2, <1>1, <1>2, <1>5, <1>8, SlotAfterRemove
    <3>2. p.held + 1 = q.held
      BY <2>2, <1>1
    <3>. QED BY <2>1, <3>1, <3>2, <1>8 DEF Ends
  <2>4. Ends(p)
    <3>1. p.held # Max
      BY <2>2, MaxAssumption
    <3>. QED BY <2>3, <3>1, <1>6 DEF Ends
  <2>5. ASSUME p.held = 0 PROVE ~ProducerBusy(q) /\ p.removeWord = "EMPTY"
    <3>1. q.held = 1 /\ ~ProducerBusy(q)
      BY <2>1, <2>2, <2>5, <1>1 DEF RingOk
    <3>2. RearOf(p) = q.rear
      BY <3>1, <1>8 DEF RearOf, ProducerBusy, Putting
    <3>3. SlotAt(p, 0) = next
      <4>. HIDE DEF next
      <4>1. SlotAt(p, 0) = IF next + 0 < Max THEN next + 0 ELSE next + 0 - Max
        BY <1>5, <1>8, SlotFromFront, MaxAssumption
      <4>. QED BY <4>1, <1>2, MaxAssumption DEF Slots
    <3>. QED BY <2>3, <2>5, <3>1, <3>2, <3>3, <1>6
  <2>6. NotEmpty(p) => p.held >= 1
    <3>1. p.held = 0 => ~NotEmpty(p)
      BY <2>5, <1>6 DEF NotEmpty, ProducerBusy, Putting
    <3>2. p.held \in Int /\ p.held >= 0
      BY <2>2, MaxAssumption
    <3>3. p.held = 0 \/ p.held >= 1
      BY <3>2
    <3>. QED BY <3>1, <3>3
  <2>7. p.flushStores = {"state"} => p.held = 1
    BY <2>1, <1>6 DEF Believed, ProducerBusy, Flushing
  <2>8. p.held < Max
    BY <2>2, MaxAssumption
  <2>9. Believed(p)
    BY <2>6, <2>7, <2>8 DEF Believed
  <2>. QED BY <2>2, <2>4, <2>9
<1>10. RingOk(p)
  BY <1>5, <1>7, <1>9 DEF RingOk
<1>11. /\ Flushing(p) = Flushing(q) /\ ProducerBusy(p) = ProducerBusy(q)
       /\ ConsumerBusy(p)
       /\ q.raced => p.raced
  BY <1>6 DEF Putting, Flushing, ProducerBusy, ConsumerBusy, Removing
<1>. QED BY <1>2, <1>6, <1>8, <1>9, <1>10, <1>11 DEF p

-----------------------------------------------------------------------------
\* Each store of put_frame leaves the frames where they are.
LEMMA PutStoreKeeps ==
  ASSUME NEW q, RingOk(q), NEW w \in q.putStores
  PROVE  /\ RingOk(PutStore(q, w))
         /\ PutStore(q, w).in_process = q.in_process
         /\ PutStore(q, w).out_process = q.out_process
         /\ PutStore(q, w).front = q.front
         /\ FrontOf(PutStore(q, w)) = FrontOf(q)
         /\ PutStore(q, w).flushStores = q.flushStores
         /\ Flushing(PutStore(q, w)) = Flushing(q)
         /\ ConsumerBusy(PutStore(q, w)) = ConsumerBusy(q)
         /\ PutStore(q, w).raced = q.raced
         /\ PutStore(q, w).held = q.held
<1>. DEFINE p == PutStore(q, w)
            next == (q.rear + 1) % Max
<1>1. /\ q \in Rings /\ Calls(q)
      /\ w \in {"state", "rear"}
      /\ q.putStores \in SUBSET {"state", "rear"}
      /\ q.putWord \in {"OK", "FULL"}
      /\ q.rear \in Slots
  BY DEF RingOk, Rings
<1>2. next \in Slots /\ q.putWord \in Words
  BY <1>1, NextSlot DEF Words
<1>3. p = IF w = "state"
          THEN [q EXCEPT !.state = q.putWord, !.putWord = "OK",
                         !.putStores = q.putStores \ {w}]
          ELSE [q EXCEPT !.rear = next, !.putStores = q.putStores \ {w}]
  BY <1>1 DEF PutStore, Rings
<1>4. p \in Rings
  <2>. HIDE DEF next, p
  <2>1. q.putStores \ {w} \in SUBSET {"state", "rear"}
    BY <1>1
  <2>2. CASE w = "state"
    <3>1. p = [q EXCEPT !.state = q.putWord, !.putWord = "OK",
                        !.putStores = q.putStores \ {w}]
      BY <1>3, <2>2
    <3>. QED BY <1>1, <1>2, <2>1, <3>1 DEF Rings
  <2>3. CASE w # "state"
    <3>1. p = [q EXCEPT !.rear = next, !.putStores = q.putStores \ {w}]
      BY <1>3, <2>3
    <3>. QED BY <1>1, <1>2, <2>1, <3>1 DEF Rings
  <2>. QED BY <2>2, <2>3
<1>5. /\ p.front = q.front
      /\ p.in_process = q.in_process /\ p.out_process = q.out_process
      /\ p.putStores = q.putStores \ {w}
      /\ p.removeWord = q.removeWord /\ p.removeTo = q.removeTo
      /\ p.removeStores = q.removeStores
      /\ p.flushing = q.flushing /\ p.flushTo = q.flushTo
      /\ p.flushStores = q.flushStores
      /\ p.held = q.held /\ p.raced = q.raced
  BY <1>1, <1>3 DEF Rings
<1>6. /\ w = "state" => p.rear = q.rear /\ p.state = q.putWord /\ p.putWord = "OK"
      /\ w = "rear" => p.rear = next /\ p.state = q.state /\ p.putWord = q.putWord
  BY <1>1, <1>3 DEF Rings
<1>. HIDE DEF p
<1>7. Putting(q) /\ ~Flushing(q) /\ ~q.in_process
  BY <1>1 DEF Putting, Calls, ProducerBusy
<1>8. Calls(p)
  BY <1>1, <1>5, <1>7 DEF Calls, ProducerBusy, Putting, Flushing, Removing
<1>9. FrontOf(p) = FrontOf(q) /\ RearOf(p) = RearOf(q)
  BY <1>1, <1>5, <1>6 DEF FrontOf, RearOf
<1>10. ASSUME ~p.raced PROVE Ends(p) /\ Believed(p)
  <2>1. Ends(q) /\ Believed(q)
    BY <1>5, <1>10 DEF RingOk
  <2>2. Ends(p)
    BY <2>1, <1>5, <1>9 DEF Ends, SlotAt
  <2>3. p.held >= 1
    BY <2>1, <1>5, <1>7 DEF Believed, NotEmpty
  <2>4. NotFull(p) => NotFull(q)
    BY <1>1, <1>5, <1>6, <1>7 DEF NotFull, Removing, Flushing
  <2>5. Believed(p)
    BY <2>1, <2>3, <2>4, <1>5 DEF Believed
  <2>. QED BY <2>2, <2>5
<1>11. RingOk(p)
  BY <1>4, <1>8, <1>10 DEF RingOk
<1>12. Flushing(p) = Flushing(q) /\ ConsumerBusy(p) = ConsumerBusy(q)
  BY <1>5 DEF Flushing, ConsumerBusy, Removing
<1>. QED BY <1>5, <1>9, <1>11, <1>12 DEF p

\* Each store of remove_frame leaves the frames where they are.
LEMMA RemoveStoreKeeps ==
  ASSUME NEW q, RingOk(q), NEW w \in q.removeStores
  PROVE  /\ RingOk(RemoveStore(q, w))
         /\ RemoveStore(q, w).in_process = q.in_process
         /\ RemoveStore(q, w).out_process = q.out_process
         /\ RemoveStore(q, w).rear = q.rear
         /\ FrontOf(RemoveStore(q, w)) = FrontOf(q)
         /\ RemoveStore(q, w).flushStores = q.flushStores
         /\ Flushing(RemoveStore(q, w)) = Flushing(q)
         /\ ProducerBusy(RemoveStore(q, w)) = ProducerBusy(q)
         /\ RemoveStore(q, w).raced = q.raced
         /\ RemoveStore(q, w).held = q.held
<1>. DEFINE p == RemoveStore(q, w)
<1>1. /\ q \in Rings /\ Calls(q)
      /\ w \in {"state", "front"}
      /\ q.removeStores \in SUBSET {"state", "front"}
      /\ q.removeWord \in {"OK", "EMPTY"}
      /\ q.removeTo \in Slots
      /\ 0 \in Slots
  BY MaxAssumption DEF RingOk, Rings, Slots
<1>2. q.removeWord \in Words
  BY <1>1 DEF Words
<1>3. p = IF w = "state"
          THEN [q EXCEPT !.state = q.removeWord, !.removeWord = "OK",
                         !.removeStores = q.removeStores \ {w}]
          ELSE [q EXCEPT !.front = q.removeTo, !.removeTo = 0,
                         !.removeStores = q.removeStores \ {w}]
  BY <1>1 DEF RemoveStore, Rings
<1>4. p \in Rings
  <2>. HIDE DEF p
  <2>1. q.removeStores \ {w} \in SUBSET {"state", "front"}
    BY <1>1
  <2>2. CASE w = "state"
    <3>1. p = [q EXCEPT !.state = q.removeWord, !.removeWord = "OK",
                        !.removeStores = q.removeStores \ {w}]
      BY <1>3, <2>2
    <3>. QED BY <1>1, <1>2, <2>1, <3>1 DEF Rings
  <2>3. CASE w # "state"
    <3>1. p = [q EXCEPT !.front = q.removeTo, !.removeTo = 0,
                        !.removeStores = q.removeStores \ {w}]
      BY <1>3, <2>3
    <3>. QED BY <1>1, <1>2, <2>1, <3>1 DEF Rings
  <2>. QED BY <2>2, <2>3
<1>5. /\ p.rear = q.rear
      /\ p.in_process = q.in_process /\ p.out_process = q.out_process
      /\ p.removeStores = q.removeStores \ {w}
      /\ p.putWord = q.putWord /\ p.putStores = q.putStores
      /\ p.flushing = q.flushing /\ p.flushTo = q.flushTo
      /\ p.flushStores = q.flushStores
      /\ p.held = q.held /\ p.raced = q.raced
  BY <1>1, <1>3 DEF Rings
<1>6. /\ w = "state" => /\ p.front = q.front /\ p.state = q.removeWord
                        /\ p.removeWord = "OK" /\ p.removeTo = q.removeTo
      /\ w = "front" => /\ p.front = q.removeTo /\ p.state = q.state
                        /\ p.removeWord = q.removeWord
  BY <1>1, <1>3 DEF Rings
<1>. HIDE DEF p
<1>7. Removing(q) /\ ~q.out_process
  BY <1>1 DEF Removing, Calls
<1>8. Calls(p)
  BY <1>1, <1>5, <1>7 DEF Calls, ProducerBusy, Putting, Flushing, Removing
<1>9. FrontOf(p) = FrontOf(q) /\ RearOf(p) = RearOf(q)
  BY <1>1, <1>5, <1>6 DEF FrontOf, RearOf
<1>10. ASSUME ~p.raced PROVE Ends(p) /\ Believed(p)
  <2>1. Ends(q) /\ Believed(q)
    BY <1>5, <1>10 DEF RingOk
  <2>2. q.held # Max
    BY <2>1, <1>7, MaxAssumption DEF Believed, NotFull
  <2>3. RearOf(p) = SlotAt(p, p.held)
    BY <2>1, <1>5, <1>9 DEF Ends, SlotAt
  <2>4. "front" \in p.removeStores => p.removeTo = (p.front + 1) % Max
    BY <2>1, <1>1, <1>5, <1>6 DEF Ends
  <2>5. Ends(p)
    BY <2>2, <2>3, <2>4, <1>5 DEF Ends
  <2>6. NotEmpty(p) => NotEmpty(q)
    BY <1>1, <1>5, <1>6, <1>7 DEF NotEmpty, Putting
  <2>7. p.held < Max
    BY <2>1, <1>5, <1>7 DEF Believed, NotFull
  <2>8. Believed(p)
    BY <2>1, <2>6, <2>7, <1>5 DEF Believed
  <2>. QED BY <2>5, <2>8
<1>11. RingOk(p)
  BY <1>4, <1>8, <1>10 DEF RingOk
<1>12. Flushing(p) = Flushing(q) /\ ProducerBusy(p) = ProducerBusy(q)
  BY <1>5 DEF Flushing, ProducerBusy, Putting
<1>. QED BY <1>5, <1>9, <1>11, <1>12 DEF p

-----------------------------------------------------------------------------
\* flush_frames begins: nothing has changed yet.
LEMMA FlushFramesKeeps ==
  ASSUME NEW q, RingOk(q), ~ProducerBusy(q), ~q.in_process
  PROVE  /\ RingOk(FlushFrames(q))
         /\ ~FlushFrames(q).in_process
         /\ FlushFrames(q).out_process = q.out_process
         /\ FlushFrames(q).rear = q.rear
         /\ FlushFrames(q).front = q.front
         /\ FrontOf(FlushFrames(q)) = FrontOf(q)
         /\ FlushFrames(q).flushStores = q.flushStores
         /\ ConsumerBusy(FlushFrames(q)) = ConsumerBusy(q)
         /\ FlushFrames(q).raced = q.raced
         /\ FlushFrames(q).held = q.held
<1>. DEFINE p == FlushFrames(q)
<1>1. /\ q \in Rings /\ Calls(q)
      /\ q.flushing \in BOOLEAN
  BY DEF RingOk, Rings
<1>2. p \in Rings
  BY <1>1 DEF FlushFrames, Rings
<1>3. /\ p.rear = q.rear /\ p.front = q.front /\ p.state = q.state
      /\ p.in_process = q.in_process /\ p.out_process = q.out_process
      /\ p.putWord = q.putWord /\ p.putStores = q.putStores
      /\ p.removeWord = q.removeWord /\ p.removeTo = q.removeTo
      /\ p.removeStores = q.removeStores
      /\ p.flushTo = q.flushTo
      /\ p.flushStores = q.flushStores
      /\ p.held = q.held /\ p.raced = q.raced
  BY <1>1 DEF FlushFrames, Rings
<1>4. q.flushing = FALSE /\ q.flushStores = {} /\ q.putStores = {}
  BY <1>1 DEF ProducerBusy, Putting, Flushing
<1>5. p.flushing = TRUE => q.state = "FULL"
  BY <1>1, <1>4 DEF FlushFrames, Rings
<1>6. p.flushing = TRUE \/ p.flushing = FALSE
  BY <1>2 DEF Rings
<1>. HIDE DEF p
<1>7. Calls(p)
  BY <1>1, <1>3, <1>4 DEF Calls, ProducerBusy, Putting, Flushing, Removing
<1>8. FrontOf(p) = FrontOf(q) /\ RearOf(p) = RearOf(q)
  BY <1>3 DEF FrontOf, RearOf
<1>9. ASSUME ~p.raced PROVE Ends(p) /\ Believed(p)
  <2>1. Ends(q) /\ Believed(q)
    BY <1>3, <1>9 DEF RingOk
  <2>2. Ends(p)
    BY <2>1, <1>3, <1>8 DEF Ends, SlotAt
  <2>3. (NotEmpty(p) => NotEmpty(q)) /\ (NotFull(p) => NotFull(q))
    BY <1>3, <1>4 DEF NotEmpty, NotFull, Putting, Removing, Flushing
  <2>4. Believed(p)
    BY <2>1, <2>3, <1>3 DEF Believed
  <2>. QED BY <2>2, <2>4
<1>10. RingOk(p)
  BY <1>2, <1>7, <1>9 DEF RingOk
<1>11. ConsumerBusy(p) = ConsumerBusy(q)
  BY <1>3 DEF ConsumerBusy, Removing
<1>. QED BY <1>3, <1>8, <1>10, <1>11 DEF p

\* Then the front is read.
LEMMA FlushReadKeeps ==
  ASSUME NEW q, RingOk(q), q.flushing
  PROVE  /\ RingOk(FlushRead(q))
         /\ FlushRead(q).in_process = q.in_process
         /\ FlushRead(q).out_process = q.out_process
         /\ FlushRead(q).rear = q.rear
         /\ FlushRead(q).front = q.front
         /\ FrontOf(FlushRead(q)) = FrontOf(q)
         /\ q.flushStores = {}
         /\ ConsumerBusy(FlushRead(q)) = ConsumerBusy(q)
         /\ FlushRead(q).raced = q.raced
         /\ FlushRead(q).held = q.held
<1>. DEFINE p == FlushRead(q)
            before == (q.front + (Max - 1)) % Max
<1>1. /\ q \in Rings /\ Calls(q)
      /\ q.front \in Slots
  BY DEF RingOk, Rings
<1>2. before \in Slots
  BY <1>1, PreviousSlot
<1>3. p = [q EXCEPT !.flushing = FALSE, !.flushTo = before,
                    !.flushStores = {"state", "front"}]
  BY DEF FlushRead
<1>4. p \in Rings
  <2>. HIDE DEF before, p
  <2>. QED BY <1>1, <1>2, <1>3 DEF Rings
<1>5. /\ p.rear = q.rear /\ p.front = q.front /\ p.state = q.state
      /\ p.in_process = q.in_process /\ p.out_process = q.out_process
      /\ p.putWord = q.putWord /\ p.putStores = q.putStores
      /\ p.removeWord = q.removeWord /\ p.removeTo = q.removeTo
      /\ p.removeStores = q.removeStores
      /\ p.flushing = FALSE /\ p.flushTo = before
      /\ p.flushStores = {"state", "front"}
      /\ p.held = q.held /\ p.raced = q.raced
  BY <1>1, <1>3 DEF Rings
<1>. HIDE DEF p
<1>6. Flushing(q) /\ q.flushStores = {} /\ ~Putting(q) /\ ~q.in_process
  BY <1>1 DEF Flushing, Calls, ProducerBusy
<1>7. Calls(p)
  BY <1>1, <1>5, <1>6 DEF Calls, ProducerBusy, Putting, Flushing, Removing
<1>8. FrontOf(p) = FrontOf(q) /\ RearOf(p) = RearOf(q)
  BY <1>5 DEF FrontOf, RearOf
<1>9. ASSUME ~p.raced PROVE Ends(p) /\ Believed(p)
  <2>1. Ends(q) /\ Believed(q)
    BY <1>5, <1>9 DEF RingOk
  <2>2. Ends(p)
    BY <2>1, <1>5, <1>8 DEF Ends, SlotAt
  <2>3. (NotEmpty(p) => NotEmpty(q)) /\ (NotFull(p) => NotFull(q))
    BY <1>5, <1>6 DEF NotEmpty, NotFull, Putting, Removing, Flushing
  <2>4. p.flushStores # {"state"}
    BY <1>5
  <2>5. Believed(p)
    BY <2>1, <2>3, <2>4, <1>5 DEF Believed
  <2>. QED BY <2>2, <2>5
<1>10. RingOk(p)
  BY <1>4, <1>7, <1>9 DEF RingOk
<1>11. ConsumerBusy(p) = ConsumerBusy(q)
  BY <1>5 DEF ConsumerBusy, Removing
<1>. QED BY <1>5, <1>6, <1>8, <1>10, <1>11 DEF p

\* Then both words are stored.  The store of the front drops all frames but
\* the newest, unless it races; that of the state word drops none.
LEMMA FlushStoreKeeps ==
  ASSUME NEW q, RingOk(q), NEW w \in q.flushStores
  PROVE  /\ RingOk(FlushStore(q, w))
         /\ FlushStore(q, w).in_process = q.in_process
         /\ FlushStore(q, w).out_process = q.out_process
         /\ FlushStore(q, w).rear = q.rear
         /\ FlushStore(q, w).flushStores = q.flushStores \ {w}
         /\ ConsumerBusy(FlushStore(q, w)) = ConsumerBusy(q)
         /\ q.raced => FlushStore(q, w).raced
         /\ w = "state" =>
              /\ FlushStore(q, w).front = q.front
              /\ FrontOf(FlushStore(q, w)) = FrontOf(q)
              /\ ~FlushStore(q, w).raced => FlushStore(q, w).held = q.held
         /\ w = "front" /\ ~FlushStore(q, w).raced =>
              /\ q.held = Max /\ FlushStore(q, w).held = 1
              /\ FrontOf(FlushStore(q, w)) = SlotAt(q, Max - 1)
<1>. DEFINE p == FlushStore(q, w)
            full == "front" \in q.flushStores
            races == Removing(q) \/ q.held # (IF full THEN Max ELSE 1)
            h == IF w = "state" THEN q.held ELSE 1
<1>1. /\ q \in Rings /\ Calls(q)
      /\ w \in {"state", "front"}
      /\ q.flushStores \in SUBSET {"state", "front"}
      /\ q.flushTo \in Slots /\ q.front \in Slots
      /\ 0 \in Slots
      /\ q.held \in 0 .. Max
      /\ q.raced \in BOOLEAN /\ races \in BOOLEAN
  BY MaxAssumption DEF RingOk, Rings, Slots
<1>2. p = IF w = "state"
          THEN [q EXCEPT !.flushStores = q.flushStores \ {w},
                         !.raced = q.raced \/ races,
                         !.held = IF q.raced \/ races THEN 0 ELSE h,
                         !.state = "OK"]
          ELSE [q EXCEPT !.flushStores = q.flushStores \ {w},
                         !.raced = q.raced \/ races,
                         !.held = IF q.raced \/ races THEN 0 ELSE h,
                         !.front = q.flushTo, !.flushTo = 0]
  BY <1>1 DEF FlushStore, Counting, Rings
<1>3. /\ (IF q.raced \/ races THEN 0 ELSE h) \in 0 .. Max
      /\ q.flushStores \ {w} \in SUBSET {"state", "front"}
  BY <1>1, MaxAssumption
<1>4. p \in Rings
  <2>. HIDE DEF p, races, h
  <2>1. CASE w = "state"
    <3>1. p = [q EXCEPT !.flushStores = q.flushStores \ {w},
                        !.raced = q.raced \/ races,
                        !.held = IF q.raced \/ races THEN 0 ELSE h,
                        !.state = "OK"]
      BY <1>2, <2>1
    <3>. QED BY <1>1, <1>3, <3>1 DEF Rings, Words
  <2>2. CASE w # "state"
    <3>1. p = [q EXCEPT !.flushStores = q.flushStores \ {w},
                        !.raced = q.raced \/ races,
                        !.held = IF q.raced \/ races THEN 0 ELSE h,
                        !.front = q.flushTo, !.flushTo = 0]
      BY <1>2, <2>2
    <3>. QED BY <1>1, <1>3, <3>1 DEF Rings
  <2>. QED BY <2>1, <2>2
<1>5. /\ p.rear = q.rear
      /\ p.in_process = q.in_process /\ p.out_process = q.out_process
      /\ p.putWord = q.putWord /\ p.putStores = q.putStores
      /\ p.removeWord = q.removeWord /\ p.removeTo = q.removeTo
      /\ p.removeStores = q.removeStores
      /\ p.flushing = q.flushing
      /\ p.flushStores = q.flushStores \ {w}
      /\ p.held = (IF q.raced \/ races THEN 0 ELSE h)
      /\ p.raced = (q.raced \/ races)
  BY <1>1, <1>2 DEF Rings
<1>6. /\ w = "state" => /\ p.front = q.front /\ p.state = "OK"
                        /\ p.flushTo = q.flushTo
      /\ w = "front" => p.front = q.flushTo /\ p.state = q.state
  BY <1>1, <1>2 DEF Rings
<1>. HIDE DEF p
<1>7. Flushing(q) /\ ~Putting(q) /\ ~q.in_process /\ ~q.flushing
  BY <1>1 DEF Flushing, Calls, ProducerBusy
<1>8. Calls(p)
  BY <1>1, <1>5, <1>7 DEF Calls, ProducerBusy, Putting, Flushing, Removing
<1>9. w = "state" => FrontOf(p) = FrontOf(q)
  BY <1>5, <1>6 DEF FrontOf
<1>10. ASSUME ~p.raced
       PROVE  /\ Ends(p) /\ Believed(p)
              /\ w = "state" => p.held = q.held
              /\ w = "front" => /\ q.held = Max /\ p.held = 1
                                /\ FrontOf(p) = SlotAt(q, Max - 1)
  <2>1. Ends(q) /\ Believed(q) /\ ~q.raced /\ ~races
    BY <1>5, <1>10 DEF RingOk
  <2>2. /\ ~Removing(q)
        /\ full => q.held = Max
        /\ ~full => q.held = 1
        /\ p.held = h
    BY <2>1, <1>5
  <2>3. FrontOf(q) = q.front /\ FrontOf(p) = p.front /\ RearOf(q) = q.rear
        /\ RearOf(p) = p.rear
    BY <2>2, <1>5, <1>7 DEF FrontOf, RearOf, Removing, Putting
  <2>4. "front" \notin p.removeStores
    BY <2>2, <1>5 DEF Removing
  <2>5. CASE w = "state"
    <3>1. p.held = q.held
      BY <2>2, <2>5
    <3>2. Ends(p)
      BY <2>1, <2>3, <2>4, <2>5, <3>1, <1>5, <1>6 DEF Ends, SlotAt
    <3>3. p.held >= 1
      BY <2>2, <3>1, MaxAssumption
    <3>4. p.held < Max \/ "front" \in p.flushStores
      BY <2>2, <2>5, <3>1, <1>5, MaxAssumption
    <3>5. NotFull(p) => p.held < Max
      BY <3>4, <2>2, <1>5, <1>7 DEF NotFull, Removing, Flushing, Putting
    <3>6. p.flushStores # {"state"}
      BY <2>5, <1>5
    <3>7. Believed(p)
      BY <3>3, <3>5, <3>6 DEF Believed
    <3>. QED BY <2>5, <3>1, <3>2, <3>7
  <2>6. CASE w = "front"
    <3>1. full /\ q.held = Max /\ p.held = 1 /\ "front" \notin p.flushStores
      BY <2>2, <2>6, <1>5
    <3>2. p.front = (q.front + (Max - 1)) % Max
      BY <2>1, <2>6, <3>1, <1>6 DEF Ends
    <3>3. FrontOf(p) = SlotAt(q, Max - 1)
      BY <3>2, <2>3 DEF SlotAt
    <3>4. SlotAt(q, Max) = SlotAt(p, 1)
      <4>1. Max - 1 \in 0 .. Max - 1 /\ Max - 1 + 1 = Max
        BY MaxAssumption
      <4>2. (SlotAt(q, Max - 1) + 1) % Max = SlotAt(q, Max)
        BY <1>1, <4>1, SlotAfter
      <4>. QED BY <4>2, <3>3 DEF SlotAt
    <3>5. Ends(p)
      BY <2>1, <2>3, <2>4, <3>1, <3>4, <1>5 DEF Ends
    <3>6. Believed(p)
      BY <3>1, MaxAssumption DEF Believed
    <3>. QED BY <2>6, <3>1, <3>3, <3>5, <3>6
  <2>. QED BY <1>1, <2>5, <2>6
<1>11. RingOk(p)
  BY <1>4, <1>8, <1>10 DEF RingOk
<1>12. ConsumerBusy(p) = ConsumerBusy(q) /\ (q.raced => p.raced)
  BY <1>5 DEF ConsumerBusy, Removing
<1>. QED BY <1>5, <1>6, <1>9, <1>10, <1>11, <1>12 DEF p

-----------------------------------------------------------------------------
\* Whatever the producer does next inside its call, the ring stays in order;
\* the frames stay where they are, but for the step of a flush that moves the
\* front.
LEMMA ProducerStepKeeps ==
  ASSUME NEW q, RingOk(q), NEW p \in ProducerSteps(q)
  PROVE  /\ RingOk(p)
         /\ p.in_process = q.in_process
         /\ p.out_process = q.out_process
         /\ ProducerBusy(q)
         /\ ConsumerBusy(p) = ConsumerBusy(q)
         /\ q.raced => p.raced
         /\ "front" \notin q.flushStores \ p.flushStores =>
              /\ p.front = q.front
              /\ FrontOf(p) = FrontOf(q)
              /\ ~p.raced => p.held = q.held
         /\ "front" \in q.flushStores \ p.flushStores /\ ~p.raced =>
              /\ q.held = Max /\ p.held = 1
              /\ FrontOf(p) = SlotAt(q, Max - 1)
         /\ ~Flushing(q) => ~Flushing(p) /\ p.front = q.front
<1>0. q.flushStores \in SUBSET {"state", "front"}
  BY DEF RingOk, Rings
<1>1. CASE \E w \in q.putStores : p = PutStore(q, w)
  <2>1. ProducerBusy(q)
    BY <1>1 DEF ProducerBusy, Putting
  <2>2. p.flushStores = q.flushStores
    BY <1>1, PutStoreKeeps
  <2>3. "front" \notin q.flushStores \ p.flushStores
    BY <2>2, <1>0
  <2>4. Flushing(p) = Flushing(q)
    BY <1>1, PutStoreKeeps
  <2>. QED BY <1>1, <2>1, <2>3, <2>4, PutStoreKeeps
<1>2. CASE q.flushing /\ p = FlushRead(q)
  <2>1. Flushing(q) /\ ProducerBusy(q)
    BY <1>2 DEF ProducerBusy, Flushing
  <2>2. q.flushStores = {}
    BY <1>2, FlushReadKeeps
  <2>. QED BY <1>2, <2>1, <2>2, FlushReadKeeps
<1>3. CASE \E w \in q.flushStores : p = FlushStore(q, w)
  <2>. PICK w \in q.flushStores : p = FlushStore(q, w)
    BY <1>3
  <2>1. Flushing(q) /\ ProducerBusy(q)
    BY DEF ProducerBusy, Flushing
  <2>2. p.flushStores = q.flushStores \ {w}
    BY FlushStoreKeeps
  <2>3. w = "front" <=> "front" \in q.flushStores \ p.flushStores
    BY <2>2
  <2>4. w \in {"state", "front"}
    BY <1>0
  <2>. QED BY <2>1, <2>3, <2>4, FlushStoreKeeps
<1>. QED BY <1>1, <1>2, <1>3 DEF ProducerSteps

\* Whatever the consumer does next inside its call, the frames stay where
\* they are.
LEMMA ConsumerStepKeeps ==
  ASSUME NEW q, RingOk(q), NEW p \in ConsumerSteps(q)
  PROVE  /\ RingOk(p)
         /\ p.in_process = q.in_process
         /\ p.out_process = q.out_process
         /\ p.rear = q.rear
         /\ FrontOf(p) = FrontOf(q)
         /\ p.flushStores = q.flushStores
         /\ Flushing(p) = Flushing(q)
         /\ ProducerBusy(p) = ProducerBusy(q)
         /\ ConsumerBusy(q)
         /\ p.raced = q.raced
         /\ p.held = q.held
<1>1. PICK w \in q.removeStores : p = RemoveStore(q, w)
  BY DEF ConsumerSteps
<1>2. ConsumerBusy(q)
  BY <1>1 DEF ConsumerBusy, Removing
<1>. QED BY <1>1, <1>2, RemoveStoreKeeps

\* A thread that may use a position finds a frame there, or none.
LEMMA Admitted ==
  ASSUME NEW q, RingOk(q), ~q.raced
  PROVE  /\ q.held \in 0 .. Max
         /\ MayTake(q) /\ ~ConsumerBusy(q) => q.held >= 1
         /\ MayPut(q) /\ ~ProducerBusy(q) => q.held < Max
         /\ q.out_process => q.held >= 1 /\ q.front = SlotAt(q, 0)
         /\ q.in_process => q.held < Max
         /\ ~ProducerBusy(q) => q.rear = SlotAt(q, q.held)
<1>1. q \in Rings /\ Calls(q) /\ Ends(q) /\ Believed(q) /\ q.held \in 0 .. Max
  BY DEF RingOk, Rings
<1>2. MayTake(q) /\ ~ConsumerBusy(q) => q.held >= 1
  BY <1>1 DEF Believed, NotEmpty, MayTake, ConsumerBusy, Removing
<1>3. MayPut(q) /\ ~ProducerBusy(q) => q.held < Max
  BY <1>1 DEF Believed, NotFull, MayPut, ProducerBusy, Putting
<1>4. q.out_process => q.held >= 1 /\ FrontOf(q) = q.front
  BY <1>1 DEF Believed, NotEmpty, Calls, Removing, FrontOf
<1>5. q.in_process => q.held < Max
  BY <1>1 DEF Believed, NotFull
<1>6. ~ProducerBusy(q) => q.rear = SlotAt(q, q.held)
  BY <1>1 DEF Ends, RearOf, ProducerBusy, Putting
<1>7. FrontOf(q) = SlotAt(q, 0)
  BY <1>1, SlotFromFront, MaxAssumption DEF Slots
<1>. QED BY <1>1, <1>2, <1>3, <1>4, <1>5, <1>6, <1>7

\* With no call under way, the words of the ring tell how many frames it
\* holds.
LEMMA CountAtRest ==
  ASSUME NEW q, RingOk(q), ~q.raced, ~ProducerBusy(q), ~ConsumerBusy(q)
  PROVE  Count(q) = q.held
<1>1. /\ q \in Rings
      /\ q.held \in 0 .. Max
      /\ q.state # "EMPTY" => q.held >= 1
      /\ q.state # "FULL" => q.held < Max
      /\ q.rear = SlotAt(q, q.held)
  BY Admitted DEF RingOk, MayTake, MayPut
<1>2. FrontOf(q) = q.front
  BY DEF FrontOf, ConsumerBusy, Removing
<1>. DEFINE f == q.front
            r == q.rear
            n == q.held
<1>3. f \in Slots /\ r \in Slots
  BY <1>1 DEF Rings
<1>4. r = IF f + n < Max THEN f + n ELSE f + n - Max
  BY <1>1, <1>2, SlotFromFront
<1>5. n \in 0 .. Max
  BY <1>1
<1>6. CASE r = f
  <2>1. n = 0 \/ n = Max
    <3>. HIDE DEF f, r, n
    <3>. QED BY <1>3, <1>4, <1>5, <1>6, MaxAssumption DEF Slots
  <2>2. (q.state = "FULL" => n = Max) /\ (q.state # "FULL" => n = 0)
    BY <1>1, <2>1, MaxAssumption
  <2>. QED BY <1>6, <2>2 DEF Count
<1>7. CASE r # f
  <2>1. (r + Max - f) % Max = n
    <3>1. n \in 1 .. Max - 1 /\ r + Max - f \in {n, n + Max}
      <4>. HIDE DEF f, r, n
      <4>. QED BY <1>3, <1>4, <1>5, <1>7, MaxAssumption DEF Slots
    <3>2. n % Max = n /\ (n + Max) % Max = n
      <4>. HIDE DEF n
      <4>. QED BY <3>1, MaxAssumption, Z3
    <3>. QED BY <3>1, <3>2
  <2>. QED BY <1>7, <2>1 DEF Count
<1>. QED BY <1>6, <1>7

=============================================================================
