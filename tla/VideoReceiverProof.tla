-------------------------- MODULE VideoReceiverProof --------------------------
(***************************************************************************)
(* Proofs about VideoReceiver and its playout buffer, for any number of    *)
(* frames and of packets in a frame, any ring and any network.             *)
(*                                                                         *)
(* BufferInv says what the nodes of the playout buffer hold, StreamInv     *)
(* how the state of the stream, the ring and the decoder go together, and  *)
(* LossInv why the loss count stays within the frames sent.  WaitInv,      *)
(* GoneInv, CommitInv and SettleInv are about a network that keeps the     *)
(* order of packets.                                                       *)
(***************************************************************************)
EXTENDS VideoReceiver, RingProof, SequenceTheorems, FiniteSetTheorems,
        WellFoundedInduction

-----------------------------------------------------------------------------
Packets == 1 .. Frames * PacketsPer

\* The packets that have arrived or got lost.
Gone == 1 .. sent \ flight

\* The timestamps of the frames are distinct, and the packets of a frame are
\* within half of the sequence numbers: 2^32 timestamps, 2^16 numbers.
WordsAreLarge == Frames <= TsMod /\ 2 * PacketsPer <= SeqMod

-----------------------------------------------------------------------------
\* The nodes are ordered by timestamp, each the timestamp of a frame; their
\* packets came out of the network, and a node that is complete holds or held
\* the marker of its frame.
Sorted(b) == \A i, j \in DOMAIN b : i < j => b[i].ts < b[j].ts

NodeHolds(node, gone) ==
  /\ \E f \in 1 .. Frames : node.ts = TsOfFrame(f)
  /\ \A j \in DOMAIN node.cdata : node.cdata[j] \in gone /\ TsOf(node.cdata[j]) = node.ts
  /\ node.mbit => \E n \in gone : IsMarker(n) /\ TsOf(n) = node.ts

BufferInv ==
  /\ kind \in [1 .. Frames -> FrameKinds]
  /\ sent \in 0 .. Frames * PacketsPer /\ flight \subseteq 1 .. sent
  /\ buf \in Seq(NodeType)
  /\ waiting \in Seq(0 .. TsMod - 1)
  /\ Sorted(buf)
  /\ \A i \in DOMAIN buf : NodeHolds(buf[i], Gone)
  /\ pc \in {"start", "commit"} => buf # <<>>

\* The receiver thread holds the rear of the ring during a pass, the decoder
\* thread the front of it while it reads.
RingInv ==
  /\ RingOk(ring)
  /\ pc \in {"pass", "start", "commit"} => ring.in_process
  /\ consumer \in Slots \union {NoSlot}
  /\ consumer # NoSlot <=> ring.out_process

StreamTypes ==
  /\ pc \in {"recv", "pass", "start", "commit", "crashed"}
  /\ coded \in [Slots -> 0 .. Frames] /\ sized \subseteq Slots
  /\ state \in {"I_AWAIT", "ACTIVE", "NON_ACTIVE"}
  /\ decoder \in {"none", "running", "dead"} /\ resuming \in BOOLEAN
  /\ changes \in 0 .. StateChanges
  /\ committed \in Seq(1 .. Frames)
  /\ outcomes \in [1 .. Frames -> Nat]

\* The frame of a pass, and the intra frame that makes the stream active.
PassInv ==
  /\ pc \in {"start", "commit"} => /\ coded[ring.rear] \in 1 .. Frames
                                   /\ kind[coded[ring.rear]] # "BAD"
  /\ pc = "start" => kind[coded[ring.rear]] = "INTRA"
  /\ state = "ACTIVE" /\ committed = <<>>
       => pc = "commit" /\ kind[coded[ring.rear]] = "INTRA"

StreamInv == RingInv /\ StreamTypes /\ PassInv /\ StartsWithIntra

\* A frame is counted as lost at most once: it takes its marker to complete
\* it, and the marker arrives once.
CompleteNodes == {buf[i].ts : i \in {j \in DOMAIN buf : buf[j].mbit}}

Markers == {n \in Gone : IsMarker(n)}

LossInv == lost \in Nat /\ lost + Cardinality(CompleteNodes) <= Cardinality(Markers)

-----------------------------------------------------------------------------
\* On a network that keeps the order of packets, with timestamps that do not
\* wrap while the frames are sent.
Orderly == Window = 1 /\ TsBase + Frames < TsMod

\* The frame of a node.
FrameIn(node) == node.ts - TsBase

\* The packets arrive in order, and the nodes wait for their playout time in
\* the order of their frames: those that are due are the first ones.
WaitInv ==
  /\ flight \subseteq {sent}
  /\ \A i \in DOMAIN buf : \E n \in Gone : FrameIn(buf[i]) = FrameOf(n)
  /\ \A i, j \in DOMAIN waiting : i < j => waiting[i] < waiting[j]
  /\ \A j \in DOMAIN waiting : \E i \in DOMAIN buf : buf[i].ts = waiting[j]
  /\ \A i \in DOMAIN buf : ~buf[i].due <=> \E j \in DOMAIN waiting : waiting[j] = buf[i].ts
  /\ \A i, j \in DOMAIN buf : i < j /\ buf[j].due => buf[i].due
  /\ \A i \in DOMAIN buf : buf[i].decoded => buf[i].mbit /\ buf[i].due

\* The marker of a frame has arrived before the frame is settled.
GoneInv ==
  /\ \A f \in 1 .. Frames : outcomes[f] > 0 => f * PacketsPer \in Gone
  /\ pc \in {"start", "commit"} => coded[ring.rear] * PacketsPer \in Gone

\* A node of b that may get decoded yet: it is complete, or the next packet
\* may belong to it.
Open(b, i) == ~b[i].decoded /\ (b[i].mbit \/ i = Len(b))

\* What has been committed is older than every node that is open, and so is
\* the frame of a pass, which is newer than what has been committed.
CommitInv ==
  /\ \A i \in DOMAIN committed : outcomes[committed[i]] > 0
  /\ CommittedInOrder
  /\ \A i \in DOMAIN committed, k \in DOMAIN buf :
       Open(buf, k) => committed[i] < FrameIn(buf[k])
  /\ pc \in {"start", "commit"} =>
       /\ \A i \in DOMAIN committed : committed[i] < coded[ring.rear]
       /\ \A k \in DOMAIN buf : Open(buf, k) => coded[ring.rear] < FrameIn(buf[k])

\* A frame is settled once its node is decoded, and a decoded node leaves at
\* the head, or stays behind a head that never gets complete.
SettleInv ==
  /\ SettledOnce
  /\ \A i \in DOMAIN buf : outcomes[FrameIn(buf[i])] > 0 => buf[i].decoded
  /\ pc \in {"start", "commit"} =>
       /\ outcomes[coded[ring.rear]] = 0
       /\ \E i \in DOMAIN buf : FrameIn(buf[i]) = coded[ring.rear] /\ buf[i].decoded
  /\ pc \in {"recv", "pass"} /\ buf # <<>> => ~buf[1].decoded
  /\ \A i \in DOMAIN buf : i > 1 /\ buf[i].decoded => ~buf[1].mbit

-----------------------------------------------------------------------------
(***************************************************************************)
(* Packets, frames and their words.                                        *)
(***************************************************************************)
\* Quotients and remainders.
LEMMA Division ==
  ASSUME NEW p \in Nat \ {0}, NEW m \in Nat
  PROVE  /\ m % p \in 0 .. p - 1
         /\ m \div p \in Int
         /\ m = p * (m \div p) + (m % p)
BY Z3

\* What is left over is the remainder.
LEMMA Remainder ==
  ASSUME NEW p \in Nat \ {0}, NEW m \in Int, NEW q \in Int, NEW r \in 0 .. p - 1,
         m = p * q + r
  PROVE  m % p = r
BY Z3

\* Multiples are ordered as their factors are.
LEMMA Multiples ==
  ASSUME NEW p \in Nat \ {0}, NEW a \in Int, NEW b \in Int
  PROVE  /\ a * p \in Int
         /\ a < b => a * p + p <= b * p
         /\ a < b <=> a * p < b * p
<1>1. a * p \in Int /\ b * p \in Int
  OBVIOUS
<1>2. ASSUME a < b PROVE a * p + p <= b * p
  BY <1>2, Z3
<1>3. ASSUME b <= a PROVE b * p <= a * p
  BY <1>3, Z3
<1>. QED BY <1>1, <1>2, <1>3

\* The remainder of a small difference.
LEMMA SmallRemainder ==
  ASSUME NEW p \in Nat \ {0}, NEW d \in Int, -p < d, d < p
  PROVE  d % p = IF d >= 0 THEN d ELSE d + p
<1>1. CASE d >= 0
  <2>1. d \in 0 .. p - 1 /\ d = p * 0 + d
    BY <1>1
  <2>2. d % p = d
    BY <2>1, Remainder
  <2>. QED BY <1>1, <2>2
<1>2. CASE d < 0
  <2>. DEFINE r == d + p
  <2>1. r \in 0 .. p - 1 /\ d = p * (-1) + r
    BY <1>2
  <2>2. d % p = r
    <3>. HIDE DEF r
    <3>. QED BY <2>1, Remainder
  <2>. QED BY <1>2, <2>2
<1>. QED BY <1>1, <1>2

\* The remainder of a difference of remainders.
LEMMA DifferenceOfRemainders ==
  ASSUME NEW p \in Nat \ {0}, NEW a \in Nat, NEW b \in Nat
  PROVE  ((a % p) - (b % p)) % p = (a - b) % p
<1>. DEFINE qa == a \div p
            qb == b \div p
            ra == a % p
            rb == b % p
            pa == p * qa
            pb == p * qb
            c == ra - rb
            d == a - b
            r == c % p
            t == IF c >= 0 THEN qa - qb ELSE qa - qb - 1
            pt == p * t
<1>1. qa \in Int /\ ra \in 0 .. p - 1 /\ a = pa + ra
  BY Division
<1>2. qb \in Int /\ rb \in 0 .. p - 1 /\ b = pb + rb
  BY Division
<1>3. c \in Int /\ -p < c /\ c < p /\ d \in Int /\ t \in Int
  <2>. HIDE DEF qa, qb, ra, rb
  <2>. QED BY <1>1, <1>2
<1>4. r = IF c >= 0 THEN c ELSE c + p
  <2>. HIDE DEF c
  <2>. QED BY <1>3, SmallRemainder
<1>5. pt = IF c >= 0 THEN pa - pb ELSE pa - pb - p
  <2>1. p * (qa - qb) = pa - pb
    BY <1>1, <1>2, Z3
  <2>2. p * (qa - qb - 1) = pa - pb - p
    BY <1>1, <1>2, Z3
  <2>. QED BY <2>1, <2>2
<1>6. d = pt + r /\ r \in 0 .. p - 1
  <2>1. pa \in Int /\ pb \in Int /\ d = a - b /\ c = ra - rb
    BY <1>1, <1>2
  <2>2. r \in 0 .. p - 1
    <3>. HIDE DEF r, c
    <3>. QED BY <1>3, <1>4
  <2>3. d = pt + r
    <3>. HIDE DEF r, c, d, pt, pa, pb, ra, rb
    <3>. QED BY <1>1, <1>2, <1>3, <1>4, <1>5, <2>1
  <2>. QED BY <2>2, <2>3
<1>7. d % p = r
  <2>1. d = p * t + r
    BY <1>6
  <2>. HIDE DEF t, d, r
  <2>. QED BY <1>3, <1>6, <2>1, Remainder
<1>. QED BY ONLY <1>7

\* The frame of a packet, and the packets of a frame.
LEMMA FrameBounds ==
  ASSUME NEW n \in Nat \ {0}
  PROVE  /\ FrameOf(n) \in Nat \ {0}
         /\ n <= FrameOf(n) * PacketsPer
         /\ FrameOf(n) * PacketsPer < n + PacketsPer
<1>. DEFINE p == PacketsPer
            q == (n - 1) \div p
            r == (n - 1) % p
            pq == p * q
            l == (q + 1) * p
<1>1. p \in Nat \ {0}
  BY PacketAssumption
<1>2. q \in Int /\ r \in 0 .. p - 1 /\ n - 1 = pq + r
  <2>. DEFINE m == n - 1
  <2>1. m \in Nat
    OBVIOUS
  <2>2. m \div p \in Int /\ m % p \in 0 .. p - 1 /\ m = p * (m \div p) + (m % p)
    <3>. HIDE DEF m, p
    <3>. QED BY <1>1, <2>1, Division
  <2>. QED BY <2>2
<1>3. l = pq + p
  BY <1>1, <1>2, Z3
<1>4. pq \in Int /\ q >= 0
  <2>0. pq \in Int
    BY <1>1, <1>2
  <2>1. pq > -p
    <3>. HIDE DEF pq, r
    <3>. QED BY <1>1, <1>2, <2>0
  <2>2. ASSUME q < 0 PROVE pq <= -p
    BY <1>1, <1>2, <2>2, Z3
  <2>. HIDE DEF pq
  <2>. QED BY <1>1, <1>2, <2>0, <2>1, <2>2
<1>5. FrameOf(n) = q + 1
  BY DEF FrameOf
<1>6. n <= l /\ l < n + p
  <2>. HIDE DEF pq, r, l, p
  <2>. QED BY <1>1, <1>2, <1>3, <1>4
<1>. HIDE DEF q
<1>. QED BY <1>1, <1>2, <1>4, <1>5, <1>6

\* The bounds of FrameBounds determine the frame.
LEMMA FrameUnique ==
  ASSUME NEW n \in Nat \ {0}, NEW f \in Int,
         n <= f * PacketsPer, f * PacketsPer < n + PacketsPer
  PROVE  FrameOf(n) = f
<1>. DEFINE p == PacketsPer
            g == FrameOf(n)
<1>0. n <= f * p /\ f * p < n + p
  OBVIOUS
<1>1. p \in Nat \ {0}
  BY PacketAssumption
<1>2. g \in Nat /\ n <= g * p /\ g * p < n + p
  BY FrameBounds
<1>3. f * p \in Int /\ g * p \in Int
  BY <1>1, <1>2
<1>4. /\ f < g => f * p + p <= g * p
      /\ g < f => g * p + p <= f * p
  BY <1>1, <1>2, Multiples
<1>. HIDE DEF p, g
<1>5. f = g
  BY <1>0, <1>1, <1>2, <1>3, <1>4
<1>. QED BY <1>5 DEF g

\* Later packets do not belong to earlier frames.
LEMMA FrameMonotone ==
  ASSUME NEW m \in Nat \ {0}, NEW n \in Nat \ {0}, m <= n
  PROVE  FrameOf(m) <= FrameOf(n)
<1>. DEFINE p == PacketsPer
            g == FrameOf(n)
            f == FrameOf(m)
<1>1. p \in Nat \ {0}
  BY PacketAssumption
<1>2. /\ g \in Nat /\ n <= g * p /\ g * p < n + p
      /\ f \in Nat /\ m <= f * p /\ f * p < m + p
  BY FrameBounds
<1>3. g < f => g * p + p <= f * p
  BY <1>1, <1>2, Multiples
<1>. HIDE DEF p, f, g
<1>4. f * p \in Int /\ g * p \in Int
  BY <1>1, <1>2
<1>5. f <= g
  BY <1>1, <1>2, <1>3, <1>4
<1>. QED BY <1>5 DEF f, g

\* The marker is the last packet of a frame.
LEMMA MarkerIsLast ==
  ASSUME NEW f \in Nat \ {0}
  PROVE  /\ f * PacketsPer \in Nat \ {0}
         /\ FrameOf(f * PacketsPer) = f
         /\ \A n \in Nat \ {0} : FrameOf(n) = f => (IsMarker(n) <=> n = f * PacketsPer)
<1>. DEFINE p == PacketsPer
            l == f * p
<1>1. p \in Nat \ {0}
  BY PacketAssumption
<1>2. l \in Nat \ {0}
  <2>1. 0 * p < f * p /\ 0 * p = 0
    BY <1>1, Multiples
  <2>. QED BY <1>1, <2>1
<1>3. FrameOf(l) = f
  <2>. HIDE DEF l
  <2>1. l = f * PacketsPer
    BY DEF l
  <2>. QED BY <1>1, <1>2, <2>1, FrameUnique
<1>4. ASSUME NEW n \in Nat \ {0}, FrameOf(n) = f
      PROVE  IsMarker(n) <=> n = l
  <2>1. n <= l /\ l < n + p
    BY <1>4, FrameBounds
  <2>. DEFINE r == p - 1 - (l - n)
              k == l - n
  <2>2. k \in 0 .. p - 1
    BY <1>1, <1>2, <2>1
  <2>3. n % p = IF k = 0 THEN 0 ELSE p - k
    <3>1. CASE k = 0
      <4>1. l = p * f + 0
        BY <1>1
      <4>2. l % p = 0
        <5>. HIDE DEF l
        <5>. QED BY <1>1, <1>2, <4>1, Remainder
      <4>3. n = l
        <5>. HIDE DEF l
        <5>. QED BY <1>2, <3>1
      <4>. QED BY <3>1, <4>2, <4>3
    <3>2. CASE k # 0
      <4>1. p * (f - 1) = l - p
        BY <1>1, Z3
      <4>2. n = p * (f - 1) + (p - k) /\ p - k \in 0 .. p - 1
        <5>. HIDE DEF l
        <5>. QED BY <1>1, <1>2, <2>2, <3>2, <4>1
      <4>3. n % p = p - k
        <5>. DEFINE g == f - 1
                    j == p - k
        <5>1. g \in Int /\ j \in 0 .. p - 1 /\ n = p * g + j
          BY <4>2
        <5>2. n % p = j
          <6>. HIDE DEF g, j, p
          <6>. QED BY <1>1, <5>1, Remainder
        <5>. QED BY <5>2
      <4>. QED BY <3>2, <4>3
    <3>. QED BY <3>1, <3>2
  <2>4. n % p = 0 <=> n = l
    <3>. HIDE DEF l
    <3>. QED BY <1>1, <1>2, <2>2, <2>3
  <2>. QED BY <2>4 DEF IsMarker
<1>. QED BY <1>2, <1>3, <1>4

\* Packets that are sent belong to frames that are sent.
LEMMA FrameOfPacket ==
  ASSUME NEW n \in Packets
  PROVE  /\ FrameOf(n) \in 1 .. Frames
         /\ n \in Nat \ {0}
         /\ TsOf(n) = TsOfFrame(FrameOf(n))
         /\ TsOf(n) \in 0 .. TsMod - 1
<1>. DEFINE p == PacketsPer
            f == FrameOf(n)
<1>1. p \in Nat \ {0} /\ Frames \in Nat /\ Frames * p \in Int
  BY PacketAssumption, ReceiverAssumption
<1>2. n \in Nat \ {0} /\ n <= Frames * p
  BY <1>1 DEF Packets
<1>3. f \in Nat \ {0} /\ f * p < n + p
  BY <1>2, FrameBounds
<1>4. Frames < f => Frames * p + p <= f * p
  BY <1>1, <1>3, Multiples
<1>5. f * p \in Int
  BY <1>1, <1>3
<1>6. f \in 1 .. Frames
  <2>. HIDE DEF f, p
  <2>. QED BY <1>1, <1>2, <1>3, <1>4, <1>5
<1>7. TsOf(n) = TsOfFrame(f)
  BY DEF TsOf
<1>8. TsOfFrame(f) \in 0 .. TsMod - 1
  <2>. DEFINE m == TsBase + f
  <2>1. m \in Nat /\ TsMod \in Nat \ {0}
    BY <1>3, PacketAssumption
  <2>2. m % TsMod \in 0 .. TsMod - 1
    <3>. HIDE DEF m
    <3>. QED BY <2>1, Division
  <2>. QED BY <2>2 DEF TsOfFrame
<1>. QED BY <1>2, <1>6, <1>7, <1>8

\* The code finds the frame of a node by its timestamp.
LEMMA FrameOfTimestamp ==
  ASSUME NEW f \in 1 .. Frames
  PROVE  /\ FrameOfTs(TsOfFrame(f)) \in 1 .. Frames
         /\ TsOfFrame(FrameOfTs(TsOfFrame(f))) = TsOfFrame(f)
BY DEF FrameOfTs

\* Timestamps tell frames apart, if there are enough of them.
LEMMA TimestampsDiffer ==
  ASSUME Frames <= TsMod, NEW f \in 1 .. Frames, NEW g \in 1 .. Frames,
         TsOfFrame(f) = TsOfFrame(g)
  PROVE  f = g
<1>. DEFINE a == TsBase + f
            b == TsBase + g
            d == a - b
<1>1. /\ a \in Nat /\ b \in Nat /\ d \in Int /\ d = f - g
      /\ TsMod \in Nat \ {0} /\ Frames \in Nat
      /\ f \in Int /\ g \in Int
  BY PacketAssumption, ReceiverAssumption
<1>2. a % TsMod = b % TsMod /\ a % TsMod \in Int
  BY <1>1 DEF TsOfFrame
<1>3. ((a % TsMod) - (b % TsMod)) % TsMod = d % TsMod
  <2>1. \A x, y \in Nat : ((x % TsMod) - (y % TsMod)) % TsMod = (x - y) % TsMod
    BY ONLY <1>1, DifferenceOfRemainders, ZenonT(60)
  <2>2. ((a % TsMod) - (b % TsMod)) % TsMod = (a - b) % TsMod
    <3>. HIDE DEF a, b
    <3>. QED BY <1>1, <2>1, Zenon
  <2>. QED BY <2>2, Zenon
<1>4. 0 % TsMod = d % TsMod /\ 0 % TsMod = 0
  <2>1. (a % TsMod) - (b % TsMod) = 0
    <3>. HIDE DEF a, b
    <3>. QED BY <1>2
  <2>2. 0 % TsMod = 0
    BY <1>1, SmallRemainder
  <2>. QED BY <2>1, <2>2, <1>3
<1>5. -TsMod < d /\ d < TsMod
  <2>. HIDE DEF d
  <2>. QED BY <1>1
<1>6. d % TsMod = IF d >= 0 THEN d ELSE d + TsMod
  <2>. HIDE DEF d
  <2>. QED BY <1>1, <1>5, SmallRemainder
<1>7. d = 0
  <2>. HIDE DEF d
  <2>. QED BY <1>1, <1>4, <1>5, <1>6
<1>. QED BY <1>1, <1>7

\* The sequence word has an even number of values.
LEMMA EvenWord == \E h \in Nat \ {0} : SeqMod = 2 * h
<1>1. SeqMod \in Nat \ {0} /\ SeqMod % 2 = 0
  BY PacketAssumption
<1>2. SeqMod \div 2 \in Int /\ SeqMod = 2 * (SeqMod \div 2) + (SeqMod % 2)
  BY <1>1, Division
<1>. QED BY <1>1, <1>2

\* The sequence numbers of two packets are subtracted modulo their range.
LEMMA NumberDifference ==
  \A x, y \in Nat : ((x % SeqMod) - (y % SeqMod)) % SeqMod = (x - y) % SeqMod
<1>1. SeqMod \in Nat \ {0}
  BY PacketAssumption
<1>2. ASSUME NEW x \in Nat, NEW y \in Nat
      PROVE  ((x % SeqMod) - (y % SeqMod)) % SeqMod = (x - y) % SeqMod
  BY ONLY <1>1, DifferenceOfRemainders, ZenonT(60)
<1>. QED BY ONLY <1>2, ZenonT(60)

\* The packets of one frame are compared by their numbers, also across a wrap
\* of the sequence numbers.
LEMMA NewerIsLater ==
  ASSUME 2 * PacketsPer <= SeqMod,
         NEW a \in Nat \ {0}, NEW b \in Nat \ {0}, FrameOf(a) = FrameOf(b)
  PROVE  Newer(a, b) <=> a > b
<1>. DEFINE p == PacketsPer
            m == SeqMod
            sa == SeqBase + a
            sb == SeqBase + b
            d == a - b
<1>1. PICK h \in Nat \ {0} : m = 2 * h
  BY EvenWord
<1>2. /\ p \in Nat \ {0} /\ sa \in Nat /\ sb \in Nat /\ d \in Int
      /\ m \in Nat \ {0} /\ h \in Nat \ {0} /\ d = sa - sb
  BY <1>1, PacketAssumption
<1>3. -p < d /\ d < p
  <2>. DEFINE l == FrameOf(a) * p
  <2>1. l \in Int /\ a <= l /\ l < a + p /\ b <= l /\ l < b + p
    BY <1>2, FrameBounds
  <2>. HIDE DEF l, p
  <2>. QED BY <1>2, <2>1
<1>4. 2 * p <= 2 * h
  BY <1>1
<1>5. p <= h /\ -m < d /\ d < m
  <2>. HIDE DEF p, d
  <2>. QED BY <1>1, <1>2, <1>3, <1>4
<1>6. (SeqOf(a) - SeqOf(b)) % m = IF d >= 0 THEN d ELSE d + m
  <2>1. ((sa % SeqMod) - (sb % SeqMod)) % SeqMod = (sa - sb) % SeqMod
    <3>1. sa \in Nat /\ sb \in Nat
      BY <1>2
    <3>. HIDE DEF sa, sb
    <3>. QED BY ONLY <3>1, NumberDifference
  <2>2. d % m = IF d >= 0 THEN d ELSE d + m
    <3>. HIDE DEF d, m
    <3>. QED BY <1>2, <1>5, SmallRemainder
  <2>3. (SeqOf(a) - SeqOf(b)) % m = (sa - sb) % m
    BY <2>1 DEF SeqOf
  <2>. QED BY <2>2, <2>3, <1>2
<1>7. m \div 2 = h
  BY <1>1, <1>2
<1>. DEFINE e == (SeqOf(a) - SeqOf(b)) % m
<1>8. e > 0 /\ e < h <=> d > 0
  <2>1. e = IF d >= 0 THEN d ELSE d + m
    BY <1>6
  <2>. HIDE DEF e, d, m, p
  <2>. QED BY <1>1, <1>2, <1>3, <1>5, <2>1
<1>9. Newer(a, b) <=> e > 0 /\ e < m \div 2
  BY DEF Newer
<1>. QED BY <1>2, <1>7, <1>8, <1>9

-----------------------------------------------------------------------------
(***************************************************************************)
(* The operators of the playout buffer.                                    *)
(***************************************************************************)
\* A set of numbers has a least element.
LEMMA LeastElement ==
  ASSUME NEW S, S \subseteq Nat, S # {}
  PROVE  \E x \in S : \A y \in S : x <= y
<1>. DEFINE R == {ss \in Nat \X Nat : ss[1] < ss[2]}
<1>1. IsWellFoundedOn(R, Nat)
  BY NatLessThanWellFounded DEF OpToRel
<1>2. PICK x \in S : \A y \in S : <<y, x>> \notin R
  <2>. HIDE DEF R
  <2>. QED BY <1>1, WFMin
<1>3. ASSUME NEW y \in S PROVE x <= y
  <2>1. x \in Nat /\ y \in Nat
    OBVIOUS
  <2>2. ~(y < x)
    BY <1>2, <2>1
  <2>. QED BY <2>1, <2>2
<1>. QED BY <1>3

\* What InsertAt makes of a sequence.
LEMMA InsertOne ==
  ASSUME NEW T, NEW s \in Seq(T), NEW k \in 0 .. Len(s), NEW e \in T
  PROVE  LET r == SX!InsertAt(s, k + 1, e)
         IN  /\ r \in Seq(T)
             /\ Len(r) = Len(s) + 1
             /\ \A i \in 1 .. Len(s) + 1 :
                  r[i] = IF i <= k THEN s[i] ELSE IF i = k + 1 THEN e ELSE s[i - 1]
<1>. DEFINE n == Len(s)
            a == SubSeq(s, 1, k)
            b == SubSeq(s, k + 1, n)
            ae == a \o <<e>>
            r == ae \o b
<1>1. n \in Nat /\ k \in 0 .. n /\ \A i \in 1 .. n : s[i] \in T
  OBVIOUS
<1>2. a \in Seq(T) /\ Len(a) = k /\ \A i \in 1 .. k : a[i] = s[i]
  <2>1. \A i \in 1 .. k : s[i] \in T
    BY <1>1
  <2>2. /\ a \in Seq(T)
        /\ Len(a) = IF 1 <= k THEN k - 1 + 1 ELSE 0
        /\ \A i \in 1 .. k - 1 + 1 : a[i] = s[1 + i - 1]
    BY <1>1, <2>1, SubSeqProperties
  <2>. HIDE DEF a
  <2>. QED BY <1>1, <2>2
<1>3. b \in Seq(T) /\ Len(b) = n - k /\ \A i \in 1 .. n - k : b[i] = s[i + k]
  <2>1. \A i \in k + 1 .. n : s[i] \in T
    BY <1>1
  <2>2. /\ b \in Seq(T)
        /\ Len(b) = IF k + 1 <= n THEN n - (k + 1) + 1 ELSE 0
        /\ \A i \in 1 .. n - (k + 1) + 1 : b[i] = s[(k + 1) + i - 1]
    BY <1>1, <2>1, SubSeqProperties
  <2>. HIDE DEF b, n
  <2>3. ASSUME NEW i \in 1 .. n - k PROVE b[i] = s[i + k]
    <3>1. i \in 1 .. n - (k + 1) + 1 /\ (k + 1) + i - 1 = i + k
      BY <1>1
    <3>. QED BY <2>2, <3>1
  <2>. QED BY <1>1, <2>2, <2>3
<1>4. /\ ae \in Seq(T) /\ Len(ae) = k + 1
      /\ \A i \in 1 .. k + 1 : ae[i] = IF i <= k THEN s[i] ELSE e
  <2>1. /\ <<e>> \in Seq(T) /\ Len(<<e>>) = 1 /\ <<e>>[1] = e
    OBVIOUS
  <2>2. /\ ae \in Seq(T) /\ Len(ae) = Len(a) + Len(<<e>>)
        /\ \A i \in 1 .. Len(a) + Len(<<e>>) :
             ae[i] = IF i <= Len(a) THEN a[i] ELSE <<e>>[i - Len(a)]
    <3>. HIDE DEF a
    <3>. QED BY <1>2, <2>1, ConcatProperties
  <2>3. ASSUME NEW i \in 1 .. k + 1 PROVE ae[i] = IF i <= k THEN s[i] ELSE e
    <3>. HIDE DEF a, ae
    <3>. QED BY <1>1, <1>2, <2>1, <2>2
  <2>. HIDE DEF a, ae
  <2>. QED BY <1>1, <1>2, <2>1, <2>2, <2>3
<1>5. /\ r \in Seq(T) /\ Len(r) = Len(ae) + Len(b)
      /\ \A i \in 1 .. Len(ae) + Len(b) :
           r[i] = IF i <= Len(ae) THEN ae[i] ELSE b[i - Len(ae)]
  <2>. HIDE DEF ae, b
  <2>. QED BY <1>3, <1>4, ConcatProperties
<1>6. ASSUME NEW i \in 1 .. n + 1
      PROVE  r[i] = IF i <= k THEN s[i] ELSE IF i = k + 1 THEN e ELSE s[i - 1]
  <2>1. CASE i <= k + 1
    <3>. HIDE DEF ae, b, r, n
    <3>. QED BY <1>1, <1>3, <1>4, <1>5, <2>1
  <2>2. CASE i > k + 1
    <3>. HIDE DEF ae, b, r, n
    <3>1. r[i] = b[i - (k + 1)] /\ i - (k + 1) \in 1 .. n - k
      BY <1>1, <1>3, <1>4, <1>5, <2>2
    <3>2. r[i] = s[i - (k + 1) + k]
      BY <1>3, <3>1
    <3>3. i - (k + 1) + k = i - 1
      BY <1>1
    <3>. QED BY <1>1, <2>2, <3>2, <3>3
  <2>3. i \in Int /\ k \in Int
    BY <1>1
  <2>. HIDE DEF r, n
  <2>. QED BY <2>1, <2>2, <2>3
<1>7. r = SX!InsertAt(s, k + 1, e)
  <2>1. (k + 1) - 1 = k
    BY <1>1
  <2>. QED BY <2>1 DEF SX!InsertAt
<1>8. r \in Seq(T) /\ Len(r) = n + 1
  <2>. HIDE DEF ae, b, r, n
  <2>. QED BY <1>1, <1>3, <1>4, <1>5
<1>. HIDE DEF r
<1>. QED BY <1>6, <1>7, <1>8

\* The place of a packet among the packets of a node.
LEMMA UnitPlace ==
  ASSUME NEW c \in Seq(Packets), NEW n
  PROVE  \E k \in 0 .. Len(c) : /\ \A i \in 1 .. k : Newer(c[i], n)
                                /\ k < Len(c) => ~Newer(c[k + 1], n)
<1>. DEFINE S == {k \in 0 .. Len(c) : k < Len(c) => ~Newer(c[k + 1], n)}
<1>1. Len(c) \in Nat
  OBVIOUS
<1>2. S \subseteq Nat /\ Len(c) \in S
  BY <1>1
<1>3. PICK k \in S : \A y \in S : k <= y
  <2>. HIDE DEF S
  <2>. QED BY <1>2, LeastElement
<1>4. ASSUME NEW i \in 1 .. k, ~Newer(c[i], n) PROVE FALSE
  <2>1. i - 1 \in 0 .. Len(c) /\ (i - 1) + 1 = i
    BY <1>1, <1>3
  <2>2. i - 1 \in S
    BY <1>4, <2>1
  <2>3. k \in Int /\ i \in Int /\ i <= k
    BY <1>1, <1>3
  <2>. HIDE DEF S
  <2>4. k <= i - 1
    BY <1>3, <2>2
  <2>. QED BY <2>3, <2>4
<1>. QED BY <1>3, <1>4

\* add_coded_unit puts the packet into the node, behind the newer ones.
LEMMA AddedUnit ==
  ASSUME NEW node \in NodeType, NEW n \in Packets
  PROVE  LET c == node.cdata
             r == AddCodedUnit(node, n)
         IN  /\ r \in NodeType
             /\ r.ts = node.ts /\ r.decoded = node.decoded /\ r.due = node.due
             /\ r.mbit = (node.mbit \/ IsMarker(n))
             /\ Len(r.cdata) = Len(c) + 1
             /\ \E k \in 0 .. Len(c) :
                  /\ \A i \in 1 .. k : Newer(c[i], n)
                  /\ k < Len(c) => ~Newer(c[k + 1], n)
                  /\ \A i \in 1 .. Len(c) + 1 :
                       r.cdata[i] = IF i <= k THEN c[i] ELSE IF i = k + 1 THEN n ELSE c[i - 1]
<1>. DEFINE c == node.cdata
            P(k) == /\ \A i \in 1 .. k : Newer(c[i], n)
                    /\ k < Len(c) => ~Newer(c[k + 1], n)
            j == CHOOSE k \in 0 .. Len(c) : P(k)
            d == SX!InsertAt(c, j + 1, n)
            r == AddCodedUnit(node, n)
<1>1. c \in Seq(Packets) /\ n \in Packets
  BY DEF NodeType, Packets
<1>2. \E k \in 0 .. Len(c) : P(k)
  <2>. HIDE DEF c
  <2>. QED BY <1>1, UnitPlace
<1>3. j \in 0 .. Len(c) /\ P(j)
  <2>. HIDE DEF P
  <2>. QED BY <1>2
<1>4. r = [node EXCEPT !.cdata = d, !.mbit = @ \/ IsMarker(n)]
  BY DEF AddCodedUnit
<1>5. /\ d \in Seq(Packets) /\ Len(d) = Len(c) + 1
      /\ \A i \in 1 .. Len(c) + 1 :
           d[i] = IF i <= j THEN c[i] ELSE IF i = j + 1 THEN n ELSE c[i - 1]
  <2>1. /\ SX!InsertAt(c, j + 1, n) \in Seq(Packets)
        /\ Len(SX!InsertAt(c, j + 1, n)) = Len(c) + 1
        /\ \A i \in 1 .. Len(c) + 1 :
             SX!InsertAt(c, j + 1, n)[i]
               = IF i <= j THEN c[i] ELSE IF i = j + 1 THEN n ELSE c[i - 1]
    <3>1. j \in 0 .. Len(c)
      BY <1>3
    <3>. HIDE DEF c, j
    <3>. QED BY ONLY <1>1, <3>1, InsertOne
  <2>. QED BY <2>1
<1>6. /\ node.mbit \in BOOLEAN /\ IsMarker(n) \in BOOLEAN
  BY DEF NodeType, IsMarker
<1>7. /\ r \in NodeType
      /\ r.ts = node.ts /\ r.decoded = node.decoded /\ r.due = node.due
      /\ r.mbit = (node.mbit \/ IsMarker(n))
      /\ r.cdata = d
  <2>. HIDE DEF d, r
  <2>. QED BY <1>4, <1>5, <1>6 DEF NodeType, Packets
<1>. HIDE DEF r, d, j, c, P
<1>8. /\ \A i \in 1 .. j : Newer(c[i], n)
      /\ j < Len(c) => ~Newer(c[j + 1], n)
  BY <1>3 DEF P
<1>9. \E k \in 0 .. Len(c) :
        /\ \A i \in 1 .. k : Newer(c[i], n)
        /\ k < Len(c) => ~Newer(c[k + 1], n)
        /\ \A i \in 1 .. Len(c) + 1 :
             r.cdata[i] = IF i <= k THEN c[i] ELSE IF i = k + 1 THEN n ELSE c[i - 1]
  BY <1>3, <1>5, <1>7, <1>8
<1>. QED BY <1>5, <1>7, <1>9 DEF r, c

\* A new node.
LEMMA NewNodeType ==
  ASSUME NEW n \in Packets
  PROVE  /\ NewNode(n) \in NodeType
         /\ NewNode(n).ts = TsOf(n) /\ NewNode(n).cdata = <<n>>
         /\ NewNode(n).mbit = IsMarker(n)
         /\ ~NewNode(n).decoded /\ ~NewNode(n).due
<1>1. TsOf(n) \in 0 .. TsMod - 1
  BY FrameOfPacket
<1>2. <<n>> \in Seq(1 .. Frames * PacketsPer)
  BY DEF Packets
<1>3. IsMarker(n) \in BOOLEAN
  BY DEF IsMarker
<1>. QED BY <1>1, <1>2, <1>3 DEF NewNode, NodeType

\* Where pbuf_insert stops walking.
LEMMA NodePlace ==
  ASSUME NEW b \in Seq(NodeType), NEW t \in Int
  PROVE  \E k \in 0 .. Len(b) : /\ \A i \in k + 1 .. Len(b) : b[i].ts > t
                                /\ k > 0 => b[k].ts <= t
<1>. DEFINE l == Len(b)
            S == {d \in 0 .. l : l - d > 0 => b[l - d].ts <= t}
<1>1. l \in Nat /\ \A i \in 1 .. l : b[i].ts \in Int
  <2>1. \A i \in 1 .. l : b[i] \in NodeType
    OBVIOUS
  <2>2. \A x \in NodeType : x.ts \in Int
    BY PacketAssumption DEF NodeType
  <2>. QED BY <2>1, <2>2
<1>2. S \subseteq Nat /\ l \in S
  BY <1>1
<1>3. PICK d \in S : \A y \in S : d <= y
  <2>. HIDE DEF S
  <2>. QED BY <1>2, LeastElement
<1>4. ASSUME NEW i \in l - d + 1 .. l, ~(b[i].ts > t) PROVE FALSE
  <2>1. l - i \in 0 .. l /\ l - (l - i) = i /\ i \in 1 .. l /\ l - i < d
    BY <1>1, <1>3
  <2>2. b[i].ts <= t
    BY <1>1, <1>4, <2>1
  <2>3. l - i \in S
    BY <2>1, <2>2
  <2>. QED BY <1>1, <1>3, <2>1, <2>3
<1>5. l - d \in 0 .. l /\ (l - d > 0 => b[l - d].ts <= t)
  BY <1>1, <1>3
<1>. QED BY <1>4, <1>5

\* pbuf_insert puts the packet into the node of its timestamp or, if there is
\* none, into a new node among the others.
LEMMA InsertedUnit ==
  ASSUME NEW b \in Seq(NodeType), Sorted(b), NEW n \in Packets
  PROVE  LET r == Insert(b, n)
         IN  /\ r \in Seq(NodeType) /\ Sorted(r)
             /\ \/ /\ HasNode(b, n)
                   /\ Len(r) = Len(b)
                   /\ \E k \in DOMAIN b :
                        /\ b[k].ts = TsOf(n)
                        /\ r[k] = AddCodedUnit(b[k], n)
                        /\ \A i \in DOMAIN b : i # k => r[i] = b[i]
                \/ /\ ~HasNode(b, n)
                   /\ Len(r) = Len(b) + 1
                   /\ \E k \in 0 .. Len(b) :
                        /\ \A i \in 1 .. k : b[i].ts < TsOf(n)
                        /\ \A i \in k + 1 .. Len(b) : b[i].ts > TsOf(n)
                        /\ \A i \in 1 .. Len(b) + 1 :
                             r[i] = IF i <= k THEN b[i]
                                    ELSE IF i = k + 1 THEN NewNode(n) ELSE b[i - 1]
<1>. DEFINE l == Len(b)
            t == TsOf(n)
            P(k) == /\ \A i \in k + 1 .. l : b[i].ts > t
                    /\ k > 0 => b[k].ts <= t
            j == CHOOSE k \in 0 .. l : P(k)
            r == Insert(b, n)
<1>1. /\ l \in Nat /\ DOMAIN b = 1 .. l /\ t \in 0 .. TsMod - 1
      /\ TsMod \in Nat
      /\ \A i \in 1 .. l : b[i] \in NodeType
      /\ \A x \in NodeType : x.ts \in Int
  <2>1. TsMod \in Nat /\ t \in 0 .. TsMod - 1
    BY FrameOfPacket, PacketAssumption
  <2>2. \A x \in NodeType : x.ts \in Int
    BY <2>1 DEF NodeType
  <2>3. l \in Nat /\ DOMAIN b = 1 .. l /\ \A i \in 1 .. l : b[i] \in NodeType
    OBVIOUS
  <2>. QED BY <2>1, <2>2, <2>3
<1>2. \E k \in 0 .. l : P(k)
  <2>1. t \in Int
    BY <1>1
  <2>. HIDE DEF t
  <2>. QED BY <2>1, NodePlace
<1>3. j \in 0 .. l /\ P(j)
  <2>. HIDE DEF P
  <2>. QED BY <1>2
<1>4. r = IF j > 0 /\ b[j].ts = t
          THEN [b EXCEPT ![j] = AddCodedUnit(b[j], n)]
          ELSE SX!InsertAt(b, j + 1, NewNode(n))
  BY DEF Insert
<1>. HIDE DEF r, j, t, l
<1>5. ASSUME NEW i \in 1 .. l, i < j PROVE b[i].ts < b[j].ts
  BY <1>1, <1>3, <1>5 DEF Sorted
<1>6. CASE j > 0 /\ b[j].ts = t
  <2>. DEFINE x == AddCodedUnit(b[j], n)
  <2>1. j \in 1 .. l /\ HasNode(b, n)
    BY <1>1, <1>3, <1>6 DEF HasNode, t
  <2>2. x \in NodeType /\ x.ts = b[j].ts
    BY <1>1, <2>1, AddedUnit
  <2>. HIDE DEF x
  <2>3. r = [b EXCEPT ![j] = x]
    BY <1>4, <1>6 DEF x
  <2>4. /\ r \in Seq(NodeType) /\ Len(r) = l /\ DOMAIN r = 1 .. l
        /\ \A i \in 1 .. l : r[i] = IF i = j THEN x ELSE b[i]
    BY <1>1, <2>1, <2>2, <2>3 DEF l
  <2>5. \A i \in 1 .. l : r[i].ts = b[i].ts
    BY <2>2, <2>4
  <2>6. Sorted(r)
    BY <1>1, <2>4, <2>5 DEF Sorted
  <2>7. /\ b[j].ts = t /\ r[j] = x
        /\ \A i \in DOMAIN b : i # j => r[i] = b[i]
    BY <1>1, <1>6, <2>1, <2>4
  <2>. QED BY <1>1, <2>1, <2>4, <2>6, <2>7 DEF r, l, t, x
<1>7. CASE ~(j > 0 /\ b[j].ts = t)
  <2>. DEFINE x == NewNode(n)
  <2>1. x \in NodeType /\ x.ts = t
    BY NewNodeType DEF t
  <2>. HIDE DEF x
  <2>2. r = SX!InsertAt(b, j + 1, x)
    BY <1>4, <1>7 DEF x
  <2>3. /\ r \in Seq(NodeType) /\ Len(r) = l + 1
        /\ \A i \in 1 .. l + 1 :
             r[i] = IF i <= j THEN b[i] ELSE IF i = j + 1 THEN x ELSE b[i - 1]
    <3>1. j \in 0 .. Len(b)
      BY <1>3 DEF l
    <3>2. /\ SX!InsertAt(b, j + 1, x) \in Seq(NodeType)
          /\ Len(SX!InsertAt(b, j + 1, x)) = Len(b) + 1
          /\ \A i \in 1 .. Len(b) + 1 :
               SX!InsertAt(b, j + 1, x)[i]
                 = IF i <= j THEN b[i] ELSE IF i = j + 1 THEN x ELSE b[i - 1]
      BY ONLY b \in Seq(NodeType), <2>1, <3>1, InsertOne
    <3>. QED BY <2>2, <3>2 DEF l
  <2>4. \A i \in j + 1 .. l : b[i].ts > t
    BY <1>3
  <2>5. ASSUME NEW i \in 1 .. j PROVE b[i].ts < t
    <3>1. j \in 1 .. l /\ i \in 1 .. l /\ b[j].ts <= t /\ b[j].ts # t
      BY <1>1, <1>3, <1>7
    <3>2. b[i].ts \in Int /\ b[j].ts \in Int /\ t \in Int
      BY <1>1, <3>1
    <3>3. b[j].ts < t
      BY <3>1, <3>2
    <3>4. CASE i = j
      BY <3>3, <3>4
    <3>5. CASE i < j
      BY <1>5, <3>1, <3>2, <3>3, <3>5
    <3>. QED BY <1>3, <3>4, <3>5
  <2>6. ~HasNode(b, n)
    <3>1. ASSUME NEW i \in 1 .. l PROVE b[i].ts # t
      <4>1. b[i].ts \in Int /\ t \in Int /\ (i \in 1 .. j \/ i \in j + 1 .. l)
        BY <1>1, <1>3
      <4>. QED BY <2>4, <2>5, <4>1
    <3>. QED BY <1>1, <3>1 DEF HasNode, t
  <2>7. Sorted(r)
    <3>. SUFFICES ASSUME NEW i \in DOMAIN r, NEW k \in DOMAIN r, i < k
                  PROVE r[i].ts < r[k].ts
      BY DEF Sorted
    <3>1. i \in 1 .. l + 1 /\ k \in 1 .. l + 1 /\ l \in Nat /\ j \in 0 .. l
      BY <1>1, <1>3, <2>3
    <3>2. \A p, q \in 1 .. l : p < q => b[p].ts < b[q].ts
      BY <1>1 DEF Sorted
    <3>3. CASE k <= j
      BY <2>3, <3>1, <3>2, <3>3
    <3>4. CASE k = j + 1
      <4>1. r[k].ts = t /\ i \in 1 .. j /\ r[i] = b[i]
        BY <2>1, <2>3, <3>1, <3>4
      <4>. QED BY <2>5, <4>1
    <3>5. CASE k > j + 1 /\ i <= j
      <4>1. k - 1 \in 1 .. l /\ r[k] = b[k - 1] /\ r[i] = b[i] /\ i \in 1 .. l /\ i < k - 1
        BY <2>3, <3>1, <3>5
      <4>. QED BY <3>2, <4>1
    <3>6. CASE k > j + 1 /\ i = j + 1
      <4>1. k - 1 \in j + 1 .. l /\ r[k] = b[k - 1] /\ r[i].ts = t
        BY <2>1, <2>3, <3>1, <3>6
      <4>2. b[k - 1].ts > t /\ b[k - 1].ts \in Int /\ t \in Int
        BY <1>1, <2>4, <3>1, <4>1
      <4>. QED BY <4>1, <4>2
    <3>7. CASE k > j + 1 /\ i > j + 1
      <4>1. k - 1 \in 1 .. l /\ r[k] = b[k - 1] /\ r[i] = b[i - 1] /\ i - 1 \in 1 .. l
            /\ i - 1 < k - 1
        BY <2>3, <3>1, <3>7
      <4>. QED BY <3>2, <4>1
    <3>8. k <= j \/ k = j + 1 \/ (k > j + 1 /\ (i <= j \/ i = j + 1 \/ i > j + 1))
      BY <3>1
    <3>. QED BY <3>3, <3>4, <3>5, <3>6, <3>7, <3>8
  <2>. QED BY <1>3, <2>3, <2>4, <2>5, <2>6, <2>7 DEF r, l, t, x
<1>. QED BY <1>6, <1>7

\* Other nodes: what marking and the playout time leave alone.
Flagged(b, r) ==
  /\ r \in Seq(NodeType) /\ Len(r) = Len(b)
  /\ \A i \in DOMAIN b : /\ r[i].ts = b[i].ts
                         /\ r[i].cdata = b[i].cdata
                         /\ r[i].mbit = b[i].mbit

\* MarkDecoded marks one node.
LEMMA MarkedNode ==
  ASSUME NEW b \in Seq(NodeType), NEW k \in DOMAIN b
  PROVE  LET r == MarkDecoded(b, k)
         IN  /\ Flagged(b, r)
             /\ \A i \in DOMAIN b : /\ r[i].due = b[i].due
                                    /\ r[i].decoded <=> b[i].decoded \/ i = k
<1>. DEFINE r == MarkDecoded(b, k)
            x == [b[k] EXCEPT !.decoded = TRUE]
<1>1. DOMAIN b = 1 .. Len(b) /\ Len(b) \in Nat /\ \A i \in DOMAIN b : b[i] \in NodeType
  OBVIOUS
<1>2. /\ x \in NodeType /\ x.ts = b[k].ts /\ x.cdata = b[k].cdata /\ x.mbit = b[k].mbit
      /\ x.due = b[k].due /\ x.decoded
  BY <1>1 DEF NodeType
<1>3. r = [b EXCEPT ![k] = x]
  BY DEF MarkDecoded
<1>. HIDE DEF x, r
<1>4. /\ r \in Seq(NodeType) /\ Len(r) = Len(b)
      /\ \A i \in DOMAIN b : r[i] = IF i = k THEN x ELSE b[i]
  BY <1>1, <1>2, <1>3
<1>5. Flagged(b, r)
  BY <1>2, <1>4 DEF Flagged
<1>6. \A i \in DOMAIN b : r[i].due = b[i].due
  BY <1>2, <1>4
<1>7. \A i \in DOMAIN b : r[i].decoded <=> b[i].decoded \/ i = k
  BY <1>2, <1>4
<1>. QED BY <1>5, <1>6, <1>7 DEF r

\* PassPlayout makes nodes due.
LEMMA PassedNodes ==
  ASSUME NEW b \in Seq(NodeType), NEW t
  PROVE  LET r == PassPlayout(b, t)
         IN  /\ Flagged(b, r)
             /\ \A i \in DOMAIN b : /\ r[i].decoded = b[i].decoded
                                    /\ r[i].due <=> b[i].due \/ b[i].ts = t
<1>. DEFINE r == PassPlayout(b, t)
            x(i) == IF b[i].ts = t THEN [b[i] EXCEPT !.due = TRUE] ELSE b[i]
<1>1. DOMAIN b = 1 .. Len(b) /\ Len(b) \in Nat /\ \A i \in DOMAIN b : b[i] \in NodeType
  OBVIOUS
<1>2. ASSUME NEW i \in DOMAIN b
      PROVE  /\ x(i) \in NodeType /\ x(i).ts = b[i].ts /\ x(i).cdata = b[i].cdata
             /\ x(i).mbit = b[i].mbit /\ x(i).decoded = b[i].decoded
             /\ x(i).due <=> b[i].due \/ b[i].ts = t
  <2>1. b[i] \in NodeType
    BY <1>1
  <2>2. CASE b[i].ts = t
    BY <2>1, <2>2 DEF NodeType
  <2>3. CASE b[i].ts # t
    BY <2>1, <2>3 DEF NodeType
  <2>. QED BY <2>2, <2>3
<1>3. r = [i \in DOMAIN b |-> x(i)]
  BY DEF PassPlayout
<1>. HIDE DEF x, r
<1>4. /\ r \in Seq(NodeType) /\ Len(r) = Len(b)
      /\ \A i \in DOMAIN b : r[i] = x(i)
  BY <1>1, <1>2, <1>3
<1>5. Flagged(b, r)
  BY <1>2, <1>4 DEF Flagged
<1>6. \A i \in DOMAIN b : r[i].decoded = b[i].decoded
  BY <1>2, <1>4
<1>7. \A i \in DOMAIN b : r[i].due <=> b[i].due \/ b[i].ts = t
  BY <1>2, <1>4
<1>. QED BY <1>5, <1>6, <1>7 DEF r

\* RemoveFirst takes the head or nothing.
LEMMA RemovedHead ==
  ASSUME NEW T, NEW b \in Seq(T), b # <<>>
  PROVE  LET r == RemoveFirst(b)
         IN  /\ r \in Seq(T)
             /\ b[1].decoded => /\ Len(r) = Len(b) - 1
                                /\ \A i \in 1 .. Len(r) : r[i] = b[i + 1]
             /\ ~b[1].decoded => r = b
BY DEF RemoveFirst

\* The node a pass decodes is the first one that is ready.
LEMMA FirstIsReady ==
  ASSUME NEW b \in Seq(NodeType), FirstReady(b) # 0
  PROVE  /\ FirstReady(b) \in DOMAIN b
         /\ FirstReady(b) \in Ready(b)
         /\ \A i \in Ready(b) : FirstReady(b) <= i
<1>. DEFINE S == Ready(b)
<1>1. S \subseteq DOMAIN b /\ S \subseteq Nat /\ S # {}
  BY DEF Ready, FirstReady
<1>2. \E x \in S : \A y \in S : x <= y
  BY <1>1, LeastElement
<1>3. FirstReady(b) = FX!Min(S)
  BY DEF FirstReady
<1>4. FX!Min(S) \in S /\ \A y \in S : FX!Min(S) <= y
  <2>. HIDE DEF S
  <2>. QED BY <1>2 DEF FX!Min
<1>. QED BY <1>1, <1>3, <1>4

-----------------------------------------------------------------------------
(***************************************************************************)
(* What the nodes hold.                                                    *)
(***************************************************************************)
\* A node keeps what it holds when its packets stay.
LEMMA HoldsStill ==
  ASSUME NEW x, NEW y, NEW G, NEW H, G \subseteq H, NodeHolds(x, G),
         y.ts = x.ts, y.cdata = x.cdata, y.mbit = x.mbit
  PROVE  NodeHolds(y, H)
BY DEF NodeHolds

\* A buffer of which only marks change.
LEMMA FlaggedHolds ==
  ASSUME NEW b \in Seq(NodeType), NEW r, Flagged(b, r), Sorted(b), NEW G,
         \A i \in DOMAIN b : NodeHolds(b[i], G)
  PROVE  /\ r \in Seq(NodeType) /\ Sorted(r) /\ DOMAIN r = DOMAIN b
         /\ \A i \in DOMAIN r : NodeHolds(r[i], G)
         /\ b # <<>> => r # <<>>
<1>1. /\ r \in Seq(NodeType) /\ Len(r) = Len(b) /\ DOMAIN r = DOMAIN b
      /\ DOMAIN b = 1 .. Len(b) /\ Len(b) \in Nat
      /\ \A i \in DOMAIN b : /\ r[i].ts = b[i].ts
                             /\ r[i].cdata = b[i].cdata
                             /\ r[i].mbit = b[i].mbit
  BY DEF Flagged
<1>2. Sorted(r)
  BY <1>1 DEF Sorted
<1>3. ASSUME NEW i \in DOMAIN r PROVE NodeHolds(r[i], G)
  BY <1>1, HoldsStill
<1>4. b # <<>> => r # <<>>
  BY <1>1
<1>. QED BY <1>1, <1>2, <1>3, <1>4

\* A buffer that loses its head.
LEMMA RemovedHolds ==
  ASSUME NEW b \in Seq(NodeType), b # <<>>, Sorted(b), NEW G,
         \A i \in DOMAIN b : NodeHolds(b[i], G)
  PROVE  LET r == RemoveFirst(b)
         IN  /\ r \in Seq(NodeType) /\ Sorted(r)
             /\ \A i \in DOMAIN r : NodeHolds(r[i], G)
<1>. DEFINE r == RemoveFirst(b)
<1>1. /\ r \in Seq(NodeType)
      /\ b[1].decoded => Len(r) = Len(b) - 1 /\ \A i \in 1 .. Len(r) : r[i] = b[i + 1]
      /\ ~b[1].decoded => r = b
  BY RemovedHead
<1>. HIDE DEF r
<1>2. CASE b[1].decoded
  <2>1. /\ DOMAIN r = 1 .. Len(r) /\ DOMAIN b = 1 .. Len(b) /\ Len(b) \in Nat
        /\ Len(r) = Len(b) - 1
        /\ \A i \in DOMAIN r : i + 1 \in DOMAIN b /\ r[i] = b[i + 1]
    BY <1>1, <1>2
  <2>2. Sorted(r)
    BY <2>1 DEF Sorted
  <2>. QED BY <1>1, <2>1, <2>2 DEF r
<1>3. CASE ~b[1].decoded
  BY <1>1, <1>3 DEF r
<1>. QED BY <1>2, <1>3

\* A packet that is taken is one of those sent.
LEMMA TakenPacket ==
  ASSUME BufferInv, NEW n \in flight
  PROVE  /\ n \in Packets /\ n \in 1 .. sent /\ n \notin Gone
         /\ 1 .. sent \ (flight \ {n}) = Gone \union {n}
         /\ flight \ {n} \subseteq 1 .. sent
<1>1. sent \in 0 .. Frames * PacketsPer /\ flight \subseteq 1 .. sent
  BY DEF BufferInv
<1>2. Frames * PacketsPer \in Int
  <2>1. Frames \in Int /\ PacketsPer \in Int
    BY ReceiverAssumption, PacketAssumption
  <2>. QED BY <2>1
<1>. QED BY <1>1, <1>2 DEF Packets, Gone

\* Taking a packet keeps what the nodes hold.
LEMMA InsertedHolds ==
  ASSUME BufferInv, NEW n \in flight
  PROVE  LET r == Insert(buf, n)
         IN  /\ r \in Seq(NodeType) /\ Sorted(r)
             /\ \A i \in DOMAIN r : NodeHolds(r[i], Gone \union {n})
<1>. DEFINE r == Insert(buf, n)
            G == Gone \union {n}
<1>1. n \in Packets
  BY TakenPacket
<1>2. buf \in Seq(NodeType) /\ Sorted(buf)
  BY DEF BufferInv
<1>3. /\ r \in Seq(NodeType) /\ Sorted(r)
      /\ \/ /\ Len(r) = Len(buf)
            /\ \E k \in DOMAIN buf :
                 /\ buf[k].ts = TsOf(n)
                 /\ r[k] = AddCodedUnit(buf[k], n)
                 /\ \A i \in DOMAIN buf : i # k => r[i] = buf[i]
         \/ /\ Len(r) = Len(buf) + 1
            /\ \E k \in 0 .. Len(buf) :
                 /\ \A i \in 1 .. Len(buf) + 1 :
                      r[i] = IF i <= k THEN buf[i]
                             ELSE IF i = k + 1 THEN NewNode(n) ELSE buf[i - 1]
  BY <1>1, <1>2, InsertedUnit
<1>. HIDE DEF r
<1>4. /\ DOMAIN r = 1 .. Len(r) /\ DOMAIN buf = 1 .. Len(buf) /\ Len(buf) \in Nat
      /\ \A i \in DOMAIN buf : buf[i] \in NodeType
  BY <1>2, <1>3
<1>5. ASSUME NEW i \in DOMAIN buf PROVE NodeHolds(buf[i], G)
  <2>1. NodeHolds(buf[i], Gone)
    BY DEF BufferInv
  <2>. QED BY <2>1, HoldsStill
<1>6. CASE Len(r) = Len(buf)
           /\ \E k \in DOMAIN buf :
                /\ buf[k].ts = TsOf(n)
                /\ r[k] = AddCodedUnit(buf[k], n)
                /\ \A i \in DOMAIN buf : i # k => r[i] = buf[i]
  <2>1. PICK k \in DOMAIN buf :
               /\ buf[k].ts = TsOf(n)
               /\ r[k] = AddCodedUnit(buf[k], n)
               /\ \A i \in DOMAIN buf : i # k => r[i] = buf[i]
    BY <1>6
  <2>. DEFINE c == buf[k].cdata
              x == AddCodedUnit(buf[k], n)
  <2>2. buf[k] \in NodeType
    BY <1>4
  <2>3. /\ x \in NodeType /\ x.ts = buf[k].ts
        /\ x.mbit = (buf[k].mbit \/ IsMarker(n))
        /\ Len(x.cdata) = Len(c) + 1
    BY <1>1, <2>2, AddedUnit
  <2>4. PICK m \in 0 .. Len(c) :
               /\ \A i \in 1 .. m : Newer(c[i], n)
               /\ m < Len(c) => ~Newer(c[m + 1], n)
               /\ \A i \in 1 .. Len(c) + 1 :
                    x.cdata[i] = IF i <= m THEN c[i] ELSE IF i = m + 1 THEN n ELSE c[i - 1]
    BY ONLY <1>1, <2>2, AddedUnit
  <2>5. /\ c \in Seq(1 .. Frames * PacketsPer) /\ x.cdata \in Seq(1 .. Frames * PacketsPer)
        /\ buf[k].mbit \in BOOLEAN
    BY <2>2, <2>3 DEF NodeType
  <2>6. NodeHolds(buf[k], G)
    BY <1>5
  <2>. HIDE DEF c, x
  <2>7. ASSUME NEW i \in DOMAIN x.cdata
        PROVE  x.cdata[i] = n \/ \E j \in DOMAIN c : x.cdata[i] = c[j]
    <3>1. i \in 1 .. Len(c) + 1 /\ DOMAIN c = 1 .. Len(c) /\ Len(c) \in Nat
      BY <2>3, <2>5
    <3>2. CASE i <= m
      BY <2>4, <3>1, <3>2
    <3>3. CASE i = m + 1
      BY <2>4, <3>1, <3>3
    <3>4. CASE i > m + 1
      <4>1. i - 1 \in DOMAIN c /\ x.cdata[i] = c[i - 1]
        BY <2>4, <3>1, <3>4
      <4>. QED BY <4>1
    <3>. QED BY <3>1, <3>2, <3>3, <3>4
  <2>8. \A j \in DOMAIN c : c[j] \in G /\ TsOf(c[j]) = buf[k].ts
    BY <2>6 DEF NodeHolds, c
  <2>9. \A i \in DOMAIN x.cdata : x.cdata[i] \in G /\ TsOf(x.cdata[i]) = x.ts
    BY <2>1, <2>3, <2>7, <2>8
  <2>10. x.mbit => \E p \in G : IsMarker(p) /\ TsOf(p) = x.ts
    <3>1. CASE buf[k].mbit
      BY <2>3, <2>6, <3>1 DEF NodeHolds
    <3>2. CASE IsMarker(n)
      BY <2>1, <2>3, <3>2
    <3>. QED BY <2>3, <3>1, <3>2
  <2>11. \E f \in 1 .. Frames : x.ts = TsOfFrame(f)
    BY <2>3, <2>6 DEF NodeHolds
  <2>12. NodeHolds(x, G)
    BY <2>9, <2>10, <2>11 DEF NodeHolds
  <2>13. \A i \in DOMAIN r : NodeHolds(r[i], G)
    BY <1>4, <1>5, <1>6, <2>1, <2>12 DEF x
  <2>. QED BY <1>3, <2>13 DEF r
<1>7. CASE Len(r) = Len(buf) + 1
           /\ \E k \in 0 .. Len(buf) :
                \A i \in 1 .. Len(buf) + 1 :
                  r[i] = IF i <= k THEN buf[i]
                         ELSE IF i = k + 1 THEN NewNode(n) ELSE buf[i - 1]
  <2>1. PICK k \in 0 .. Len(buf) :
               \A i \in 1 .. Len(buf) + 1 :
                 r[i] = IF i <= k THEN buf[i]
                        ELSE IF i = k + 1 THEN NewNode(n) ELSE buf[i - 1]
    BY <1>7
  <2>. DEFINE x == NewNode(n)
  <2>2. x.ts = TsOf(n) /\ x.cdata = <<n>> /\ x.mbit = IsMarker(n)
    BY <1>1, NewNodeType
  <2>3. FrameOf(n) \in 1 .. Frames /\ TsOf(n) = TsOfFrame(FrameOf(n))
    BY <1>1, FrameOfPacket
  <2>4. NodeHolds(x, G)
    BY <2>2, <2>3 DEF NodeHolds
  <2>. HIDE DEF x
  <2>5. ASSUME NEW i \in DOMAIN r PROVE NodeHolds(r[i], G)
    <3>1. i \in 1 .. Len(buf) + 1
      BY <1>4, <1>7
    <3>2. CASE i <= k
      <4>1. i \in DOMAIN buf /\ r[i] = buf[i]
        BY <1>4, <2>1, <3>1, <3>2
      <4>. QED BY <1>5, <4>1
    <3>3. CASE i = k + 1
      BY <2>1, <2>4, <3>1, <3>3 DEF x
    <3>4. CASE i > k + 1
      <4>1. i - 1 \in DOMAIN buf /\ r[i] = buf[i - 1]
        BY <1>4, <2>1, <3>1, <3>4
      <4>. QED BY <1>5, <4>1
    <3>. QED BY <1>4, <3>1, <3>2, <3>3, <3>4
  <2>. QED BY <1>3, <2>5 DEF r
<1>. QED BY <1>3, <1>6, <1>7

\* The network sends, loses or hands over one packet.
LEMMA NetworkStep ==
  ASSUME BufferInv, [Next]_vars
  PROVE  /\ kind' = kind
         /\ sent' \in 0 .. Frames * PacketsPer /\ flight' \subseteq 1 .. sent'
         /\ Gone' = Gone \/ \E n \in flight : Gone' = Gone \union {n}
<1>0. sent \in 0 .. Frames * PacketsPer /\ flight \subseteq 1 .. sent
  BY DEF BufferInv
<1>1. Frames * PacketsPer \in Nat
  <2>1. Frames \in Nat /\ PacketsPer \in Nat
    BY ReceiverAssumption, PacketAssumption
  <2>. QED BY <2>1
<1>. DEFINE last == Frames * PacketsPer
<1>. HIDE DEF last
<1>2. CASE Send
  <2>1. sent < last /\ sent' = sent + 1 /\ flight' = flight \union {sent + 1} /\ kind' = kind
    BY <1>2 DEF Send, last
  <2>2. Gone' = 1 .. sent' \ flight'
    BY DEF Gone
  <2>3. Gone' = Gone
    BY <1>0, <2>1, <2>2 DEF Gone
  <2>4. sent' \in 0 .. last /\ flight' \subseteq 1 .. sent'
    BY <1>0, <1>1, <2>1 DEF last
  <2>. QED BY <2>1, <2>3, <2>4 DEF last
<1>3. ASSUME NEW n \in flight, flight' = flight \ {n}, sent' = sent
      PROVE  flight' \subseteq 1 .. sent' /\ Gone' = Gone \union {n}
  <2>1. 1 .. sent \ (flight \ {n}) = Gone \union {n} /\ flight \ {n} \subseteq 1 .. sent
    BY TakenPacket
  <2>2. Gone' = 1 .. sent' \ flight'
    BY DEF Gone
  <2>. QED BY <1>3, <2>1, <2>2
<1>4. CASE Lose
  <2>1. PICK n \in flight : flight' = flight \ {n}
    BY <1>4 DEF Lose
  <2>2. sent' = sent /\ kind' = kind
    BY <1>4 DEF Lose
  <2>. QED BY <1>0, <1>3, <2>1, <2>2
<1>5. CASE Receive
  <2>1. PICK n \in flight : flight' = flight \ {n}
    BY <1>5 DEF Receive
  <2>2. sent' = sent /\ kind' = kind
    BY <1>5 DEF Receive
  <2>. QED BY <1>0, <1>3, <2>1, <2>2
<1>6. ASSUME UNCHANGED netVars
      PROVE  kind' = kind /\ sent' = sent /\ flight' = flight /\ Gone' = Gone
  BY <1>6 DEF netVars, Gone
<1>7. CASE PassFull \/ PassBegin \/ PassNothing \/ PassRefuses \/ PassDecodes
           \/ StartStream \/ StartCrashes \/ Commit \/ PutStep \/ Elapse
  <2>1. UNCHANGED netVars
    BY <1>7 DEF PassFull, PassBegin, PassNothing, PassRefuses, PassDecodes, StartStream,
                StartCrashes, Commit, PutStep, Elapse
  <2>. QED BY <1>0, <1>6, <2>1
<1>8. CASE Decoder \/ Caller
  <2>1. UNCHANGED netVars
    BY <1>8 DEF Decoder, Caller, TakeCoded, ReleaseCoded, ReleaseStep, Deactivate, ResumeTest, Resume
  <2>. QED BY <1>0, <1>6, <2>1
<1>9. CASE UNCHANGED vars
  <2>1. UNCHANGED netVars
    BY <1>9 DEF vars
  <2>. QED BY <1>0, <1>6, <2>1
<1>. QED BY <1>2, <1>4, <1>5, <1>7, <1>8, <1>9 DEF Next, Receiver

\* At first there is nothing to hold.
LEMMA BufferInit == Init => BufferInv
<1>. SUFFICES ASSUME Init PROVE BufferInv
  OBVIOUS
<1>1. Frames * PacketsPer \in Nat
  <2>1. Frames \in Nat /\ PacketsPer \in Nat
    BY ReceiverAssumption, PacketAssumption
  <2>. QED BY <2>1
<1>2. kind \in [1 .. Frames -> FrameKinds] /\ pc = "recv"
  BY DEF Init
<1>3. sent \in 0 .. Frames * PacketsPer /\ flight \subseteq 1 .. sent
  BY <1>1 DEF Init
<1>4. buf = <<>> /\ waiting = <<>>
  BY DEF Init
<1>. QED BY <1>2, <1>3, <1>4 DEF BufferInv, Sorted

\* Every step keeps what the nodes hold.
LEMMA BufferNext == BufferInv /\ [Next]_vars => BufferInv'
<1>. SUFFICES ASSUME BufferInv, [Next]_vars PROVE BufferInv'
  OBVIOUS
<1>0. /\ kind \in [1 .. Frames -> FrameKinds]
      /\ buf \in Seq(NodeType) /\ waiting \in Seq(0 .. TsMod - 1) /\ Sorted(buf)
      /\ \A i \in DOMAIN buf : NodeHolds(buf[i], Gone)
      /\ pc \in {"start", "commit"} => buf # <<>>
  BY DEF BufferInv
<1>1. /\ kind' = kind
      /\ sent' \in 0 .. Frames * PacketsPer /\ flight' \subseteq 1 .. sent'
      /\ Gone \subseteq Gone'
  BY NetworkStep
<1>. DEFINE NodesOK == /\ buf' \in Seq(NodeType) /\ Sorted(buf')
                       /\ \A i \in DOMAIN buf' : NodeHolds(buf'[i], Gone')
            WaitingOK == waiting' \in Seq(0 .. TsMod - 1)
            PassOK == pc' \in {"start", "commit"} => buf' # <<>>
<1>2. SUFFICES NodesOK /\ WaitingOK /\ PassOK
  BY <1>0, <1>1 DEF BufferInv, Sorted
<1>3. ASSUME buf' = buf PROVE NodesOK
  <2>1. ASSUME NEW i \in DOMAIN buf PROVE NodeHolds(buf[i], Gone')
    BY <1>0, <1>1, HoldsStill
  <2>. QED BY <1>0, <1>3, <2>1
<1>4. CASE Send \/ Lose \/ Decoder \/ PutStep \/ Caller \/ UNCHANGED vars
  <2>1. buf' = buf /\ waiting' = waiting /\ pc' = pc
    BY <1>4 DEF Send, Lose, PutStep, Decoder, TakeCoded, ReleaseCoded, ReleaseStep, Caller, Deactivate,
                ResumeTest, Resume, vars, bufVars
  <2>. QED BY <1>0, <1>3, <2>1
<1>5. CASE PassBegin \/ PassNothing \/ StartStream \/ StartCrashes
  <2>1. buf' = buf /\ waiting' = waiting
    BY <1>5 DEF PassBegin, PassNothing, StartStream, StartCrashes, bufVars
  <2>2. pc' \in {"start", "commit"} => pc = "start"
    BY <1>5 DEF PassBegin, PassNothing, StartStream, StartCrashes
  <2>. QED BY <1>0, <1>3, <2>1, <2>2
<1>6. CASE Receive
  <2>1. PICK n \in flight :
               /\ flight' = flight \ {n}
               /\ buf' = Insert(buf, n)
               /\ waiting' = IF HasNode(buf, n) THEN waiting ELSE Append(waiting, TsOf(n))
    BY <1>6 DEF Receive
  <2>2. sent' = sent /\ pc' = "recv"
    BY <1>6 DEF Receive, Receiving
  <2>3. Gone' = Gone \union {n} /\ n \in Packets
    <3>1. Gone' = 1 .. sent \ (flight \ {n})
      BY <2>1, <2>2 DEF Gone
    <3>. QED BY <3>1, TakenPacket
  <2>4. NodesOK
    <3>1. LET r == Insert(buf, n)
          IN  /\ r \in Seq(NodeType) /\ Sorted(r)
              /\ \A i \in DOMAIN r : NodeHolds(r[i], Gone \union {n})
      BY InsertedHolds
    <3>. QED BY <2>1, <2>3, <3>1
  <2>5. TsOf(n) \in 0 .. TsMod - 1
    BY <2>3, FrameOfPacket
  <2>6. WaitingOK
    <3>1. Append(waiting, TsOf(n)) \in Seq(0 .. TsMod - 1)
      BY <1>0, <2>5, AppendProperties
    <3>. QED BY <1>0, <2>1, <3>1
  <2>. QED BY <2>2, <2>4, <2>6
<1>7. CASE Elapse
  <2>1. waiting # <<>> /\ buf' = PassPlayout(buf, Head(waiting)) /\ waiting' = Tail(waiting)
        /\ Gone' = Gone /\ pc' = pc
    BY <1>7 DEF Elapse, netVars, Gone
  <2>2. Flagged(buf, buf')
    BY <1>0, <2>1, PassedNodes
  <2>3. NodesOK /\ (buf # <<>> => buf' # <<>>)
    BY <1>0, <2>1, <2>2, FlaggedHolds
  <2>4. WaitingOK
    BY <1>0, <2>1
  <2>. QED BY <1>0, <2>1, <2>3, <2>4
<1>8. CASE PassFull
  <2>1. /\ buf # <<>> /\ buf' = RemoveFirst(MarkDecoded(buf, 1))
        /\ waiting' = waiting /\ Gone' = Gone /\ pc' = "recv"
    BY <1>8 DEF PassFull, Receiving, HeadComplete, netVars, Gone
  <2>. DEFINE b == MarkDecoded(buf, 1)
  <2>2. 1 \in DOMAIN buf
    BY <1>0, <2>1
  <2>3. Flagged(buf, b)
    BY <1>0, <2>2, MarkedNode
  <2>4. /\ b \in Seq(NodeType) /\ Sorted(b) /\ b # <<>>
        /\ \A i \in DOMAIN b : NodeHolds(b[i], Gone)
    <3>. HIDE DEF b
    <3>. QED BY <1>0, <2>1, <2>3, FlaggedHolds
  <2>5. NodesOK
    <3>1. buf' = RemoveFirst(b)
      BY <2>1
    <3>. HIDE DEF b
    <3>2. /\ RemoveFirst(b) \in Seq(NodeType) /\ Sorted(RemoveFirst(b))
          /\ \A i \in DOMAIN RemoveFirst(b) : NodeHolds(RemoveFirst(b)[i], Gone)
      BY <2>4, RemovedHolds
    <3>. QED BY <2>1, <3>1, <3>2
  <2>. QED BY <1>0, <2>1, <2>5
<1>9. CASE PassRefuses \/ PassDecodes
  <2>1. /\ FirstReady(buf) # 0 /\ buf' = MarkDecoded(buf, FirstReady(buf))
        /\ waiting' = waiting /\ Gone' = Gone
    BY <1>9 DEF PassRefuses, PassDecodes, netVars, Gone
  <2>2. FirstReady(buf) \in DOMAIN buf
    BY <1>0, <2>1, FirstIsReady
  <2>3. Flagged(buf, buf') /\ buf # <<>>
    BY <1>0, <2>1, <2>2, MarkedNode
  <2>4. NodesOK /\ (buf # <<>> => buf' # <<>>)
    BY <1>0, <2>1, <2>3, FlaggedHolds
  <2>. QED BY <1>0, <2>1, <2>3, <2>4
<1>10. CASE Commit
  <2>1. /\ buf # <<>> /\ buf' = RemoveFirst(buf)
        /\ waiting' = waiting /\ Gone' = Gone /\ pc' = "recv"
    BY <1>0, <1>10 DEF Commit, netVars, Gone
  <2>2. /\ RemoveFirst(buf) \in Seq(NodeType) /\ Sorted(RemoveFirst(buf))
        /\ \A i \in DOMAIN RemoveFirst(buf) : NodeHolds(RemoveFirst(buf)[i], Gone)
    BY <1>0, <2>1, RemovedHolds
  <2>3. NodesOK
    BY <2>1, <2>2
  <2>. QED BY <1>0, <2>1, <2>3
<1>. QED BY <1>4, <1>5, <1>6, <1>7, <1>8, <1>9, <1>10 DEF Next, Receiver

\* So it does in every behaviour.
LEMMA BufferAlways == Spec => []BufferInv
<1>. QED BY BufferInit, BufferNext, PTL DEF Spec

-----------------------------------------------------------------------------
(***************************************************************************)
(* The order of the packets of a node.                                     *)
(***************************************************************************)
\* The packets of a node are newest first.
Decreasing(c) == \A j, k \in DOMAIN c : j < k => c[j] > c[k]

\* At first there is no node.
LEMMA NewestInit == Init => NewestFirst
BY DEF Init, NewestFirst

\* Marks do not change the order of packets.
LEMMA FlaggedNewest ==
  ASSUME NEW b \in Seq(NodeType), NEW r, Flagged(b, r),
         \A i \in DOMAIN b : Decreasing(b[i].cdata)
  PROVE  \A i \in DOMAIN r : Decreasing(r[i].cdata)
<1>1. DOMAIN r = DOMAIN b /\ \A i \in DOMAIN b : r[i].cdata = b[i].cdata
  BY DEF Flagged
<1>. QED BY <1>1

\* Nor does the departure of the head.
LEMMA RemovedNewest ==
  ASSUME NEW b \in Seq(NodeType), b # <<>>,
         \A i \in DOMAIN b : Decreasing(b[i].cdata)
  PROVE  LET r == RemoveFirst(b)
         IN  \A i \in DOMAIN r : Decreasing(r[i].cdata)
<1>. DEFINE r == RemoveFirst(b)
<1>1. /\ r \in Seq(NodeType)
      /\ b[1].decoded => Len(r) = Len(b) - 1 /\ \A i \in 1 .. Len(r) : r[i] = b[i + 1]
      /\ ~b[1].decoded => r = b
  BY RemovedHead
<1>. HIDE DEF r
<1>2. ASSUME NEW i \in DOMAIN r PROVE \E m \in DOMAIN b : r[i] = b[m]
  <2>1. CASE b[1].decoded
    <3>1. i + 1 \in DOMAIN b /\ r[i] = b[i + 1]
      BY <1>1, <2>1
    <3>. QED BY <3>1
  <2>2. CASE ~b[1].decoded
    BY <1>1, <2>2
  <2>. QED BY <2>1, <2>2
<1>3. ASSUME NEW i \in DOMAIN r PROVE Decreasing(r[i].cdata)
  <2>1. PICK m \in DOMAIN b : r[i] = b[m]
    BY <1>2
  <2>. QED BY <1>3, <2>1
<1>. QED BY <1>3 DEF r

\* A packet put behind the newer ones of its frame keeps them newest first.
LEMMA AddedNewest ==
  ASSUME WordsAreLarge, NEW G \in SUBSET Packets, NEW node \in NodeType, NodeHolds(node, G),
         NEW n \in Packets, n \notin G, TsOf(n) = node.ts,
         Decreasing(node.cdata)
  PROVE  Decreasing(AddCodedUnit(node, n).cdata)
<1>. DEFINE c == node.cdata
            d == AddCodedUnit(node, n).cdata
            l == Len(c)
<1>1. /\ c \in Seq(1 .. Frames * PacketsPer) /\ d \in Seq(1 .. Frames * PacketsPer)
      /\ Len(d) = l + 1
  <2>1. AddCodedUnit(node, n) \in NodeType /\ Len(d) = l + 1
    BY AddedUnit
  <2>2. c \in Seq(1 .. Frames * PacketsPer)
    BY DEF NodeType
  <2>3. \A x \in NodeType : x.cdata \in Seq(1 .. Frames * PacketsPer)
    BY DEF NodeType
  <2>. QED BY <2>1, <2>2, <2>3
<1>2. PICK m \in 0 .. Len(c) :
             /\ \A i \in 1 .. m : Newer(c[i], n)
             /\ m < Len(c) => ~Newer(c[m + 1], n)
             /\ \A i \in 1 .. Len(c) + 1 :
                  d[i] = IF i <= m THEN c[i] ELSE IF i = m + 1 THEN n ELSE c[i - 1]
  BY AddedUnit
<1>3. ASSUME NEW i \in DOMAIN c
      PROVE  /\ c[i] \in Nat \ {0} /\ c[i] # n
             /\ Newer(c[i], n) <=> c[i] > n
  <2>. DEFINE a == c[i]
  <2>1. a \in G /\ TsOf(a) = TsOf(n)
    BY DEF NodeHolds
  <2>. HIDE DEF a
  <2>2. a \in Packets
    BY <2>1
  <2>3. /\ a \in Nat \ {0} /\ n \in Nat \ {0}
        /\ FrameOf(a) \in 1 .. Frames /\ FrameOf(n) \in 1 .. Frames
        /\ TsOfFrame(FrameOf(a)) = TsOfFrame(FrameOf(n))
    BY <2>1, <2>2, FrameOfPacket
  <2>4. FrameOf(a) = FrameOf(n)
    BY <2>3, TimestampsDiffer DEF WordsAreLarge
  <2>5. Newer(a, n) <=> a > n
    BY <2>3, <2>4, NewerIsLater DEF WordsAreLarge
  <2>. QED BY <2>1, <2>3, <2>5 DEF a
<1>. HIDE DEF d
<1>4. \A j, k \in DOMAIN c : j < k => c[j] > c[k]
  BY DEF Decreasing
<1>. HIDE DEF c
<1>5. l \in Nat /\ DOMAIN c = 1 .. l /\ DOMAIN d = 1 .. l + 1 /\ n \in Nat
  <2>1. n \in Nat
    BY FrameOfPacket
  <2>. QED BY <1>1, <2>1
<1>. HIDE DEF l
<1>6. \A i \in 1 .. m : c[i] > n
  BY <1>2, <1>3, <1>5 DEF l
<1>7. \A i \in m + 1 .. l : c[i] < n
  <2>1. ASSUME m < l PROVE c[m + 1] < n
    <3>1. m + 1 \in DOMAIN c /\ ~Newer(c[m + 1], n)
      BY <1>2, <1>5, <2>1 DEF l
    <3>2. c[m + 1] \in Nat /\ c[m + 1] # n /\ ~(c[m + 1] > n)
      BY <1>3, <3>1
    <3>. QED BY <1>5, <3>2
  <2>2. ASSUME NEW i \in m + 1 .. l PROVE c[i] < n
    <3>1. m < l /\ i \in DOMAIN c /\ m + 1 \in DOMAIN c /\ (i = m + 1 \/ m + 1 < i)
      BY <1>2, <1>5 DEF l
    <3>2. c[i] \in Nat /\ c[m + 1] \in Nat
      BY <1>3, <3>1
    <3>3. i = m + 1 \/ c[m + 1] > c[i]
      BY <1>4, <3>1
    <3>. QED BY <1>5, <2>1, <3>1, <3>2, <3>3
  <2>. QED BY <2>2
<1>8. ASSUME NEW j \in DOMAIN d, NEW k \in DOMAIN d, j < k PROVE d[j] > d[k]
  <2>. DEFINE e(i) == IF i <= m THEN c[i] ELSE IF i = m + 1 THEN n ELSE c[i - 1]
  <2>1. d[j] = e(j) /\ d[k] = e(k) /\ j \in 1 .. l + 1 /\ k \in 1 .. l + 1 /\ m \in 0 .. l
    BY <1>2, <1>5 DEF l
  <2>2. \A i \in 1 .. l : c[i] \in Nat
    BY <1>3, <1>5
  <2>3. CASE k <= m
    <3>1. d[j] = c[j] /\ d[k] = c[k] /\ j \in DOMAIN c /\ k \in DOMAIN c
      BY <1>5, <1>8, <2>1, <2>3
    <3>. QED BY <1>4, <1>8, <3>1
  <2>4. CASE k = m + 1
    <3>1. d[j] = c[j] /\ d[k] = n /\ j \in 1 .. m
      BY <1>5, <1>8, <2>1, <2>4
    <3>. QED BY <1>6, <3>1
  <2>5. CASE k > m + 1 /\ j <= m
    <3>1. d[j] = c[j] /\ d[k] = c[k - 1] /\ j \in 1 .. m /\ k - 1 \in m + 1 .. l
          /\ j \in 1 .. l /\ k - 1 \in 1 .. l
      BY <1>5, <1>8, <2>1, <2>5
    <3>2. c[j] > n /\ c[k - 1] < n /\ c[j] \in Nat /\ c[k - 1] \in Nat
      BY <1>6, <1>7, <2>2, <3>1
    <3>. QED BY <1>5, <3>1, <3>2
  <2>6. CASE k > m + 1 /\ j = m + 1
    <3>1. d[j] = n /\ d[k] = c[k - 1] /\ k - 1 \in m + 1 .. l /\ k - 1 \in 1 .. l
      BY <1>5, <1>8, <2>1, <2>6
    <3>2. c[k - 1] < n /\ c[k - 1] \in Nat
      BY <1>7, <2>2, <3>1
    <3>. QED BY <1>5, <3>1, <3>2
  <2>7. CASE k > m + 1 /\ j > m + 1
    <3>1. d[j] = c[j - 1] /\ d[k] = c[k - 1] /\ k - 1 \in DOMAIN c /\ j - 1 \in DOMAIN c
          /\ j - 1 < k - 1
      BY <1>5, <1>8, <2>1, <2>7
    <3>. QED BY <1>4, <3>1
  <2>8. k <= m \/ k = m + 1 \/ (k > m + 1 /\ (j <= m \/ j = m + 1 \/ j > m + 1))
    BY <2>1
  <2>. QED BY <2>3, <2>4, <2>5, <2>6, <2>7, <2>8
<1>. QED BY <1>8 DEF d, Decreasing

\* Every step keeps the packets of every node newest first.
LEMMA NewestNext ==
  ASSUME WordsAreLarge
  PROVE  BufferInv /\ NewestFirst /\ [Next]_vars => NewestFirst'
<1>. SUFFICES ASSUME BufferInv, NewestFirst, [Next]_vars PROVE NewestFirst'
  OBVIOUS
<1>0. /\ buf \in Seq(NodeType) /\ Sorted(buf)
      /\ \A i \in DOMAIN buf : NodeHolds(buf[i], Gone)
      /\ \A i \in DOMAIN buf : Decreasing(buf[i].cdata)
      /\ pc \in {"start", "commit"} => buf # <<>>
  BY DEF BufferInv, NewestFirst, Decreasing
<1>1. SUFFICES \A i \in DOMAIN buf' : Decreasing(buf'[i].cdata)
  BY DEF NewestFirst, Decreasing
<1>2. CASE Send \/ Lose \/ Decoder \/ Caller \/ PassBegin \/ PassNothing \/ StartStream
           \/ StartCrashes \/ PutStep \/ UNCHANGED vars
  <2>1. buf' = buf
    BY <1>2 DEF Send, Lose, Decoder, TakeCoded, ReleaseCoded, ReleaseStep, Caller, Deactivate,
                ResumeTest, Resume, PassBegin, PassNothing, StartStream, StartCrashes, PutStep,
                vars, bufVars
  <2>. QED BY <1>0, <2>1
<1>3. CASE Receive
  <2>1. PICK n \in flight : buf' = Insert(buf, n)
    BY <1>3 DEF Receive
  <2>2. n \in Packets /\ n \notin Gone /\ Gone \in SUBSET Packets
    <3>1. n \in Packets /\ n \notin Gone
      BY TakenPacket
    <3>2. sent \in 0 .. Frames * PacketsPer /\ Frames * PacketsPer \in Int
      <4>1. Frames \in Int /\ PacketsPer \in Int
        BY ReceiverAssumption, PacketAssumption
      <4>. QED BY <4>1 DEF BufferInv
    <3>. DEFINE last == Frames * PacketsPer
    <3>3. 1 .. sent \subseteq 1 .. last
      <4>1. sent \in 0 .. last /\ last \in Int
        BY <3>2
      <4>. HIDE DEF last
      <4>. QED BY <4>1
    <3>. QED BY <3>1, <3>3 DEF Gone, Packets
  <2>. DEFINE r == Insert(buf, n)
  <2>3. /\ r \in Seq(NodeType)
        /\ \/ /\ Len(r) = Len(buf)
              /\ \E k \in DOMAIN buf :
                   /\ buf[k].ts = TsOf(n)
                   /\ r[k] = AddCodedUnit(buf[k], n)
                   /\ \A i \in DOMAIN buf : i # k => r[i] = buf[i]
           \/ /\ Len(r) = Len(buf) + 1
              /\ \E k \in 0 .. Len(buf) :
                   \A i \in 1 .. Len(buf) + 1 :
                     r[i] = IF i <= k THEN buf[i]
                            ELSE IF i = k + 1 THEN NewNode(n) ELSE buf[i - 1]
    BY <1>0, <2>2, InsertedUnit
  <2>. HIDE DEF r
  <2>4. /\ DOMAIN r = 1 .. Len(r) /\ DOMAIN buf = 1 .. Len(buf) /\ Len(buf) \in Nat
        /\ \A i \in DOMAIN buf : buf[i] \in NodeType
    BY <1>0, <2>3
  <2>5. CASE Len(r) = Len(buf)
             /\ \E k \in DOMAIN buf :
                  /\ buf[k].ts = TsOf(n)
                  /\ r[k] = AddCodedUnit(buf[k], n)
                  /\ \A i \in DOMAIN buf : i # k => r[i] = buf[i]
    <3>1. PICK k \in DOMAIN buf :
                 /\ buf[k].ts = TsOf(n)
                 /\ r[k] = AddCodedUnit(buf[k], n)
                 /\ \A i \in DOMAIN buf : i # k => r[i] = buf[i]
      BY <2>5
    <3>2. Decreasing(r[k].cdata)
      <4>. DEFINE node == buf[k]
      <4>1. node \in NodeType /\ NodeHolds(node, Gone) /\ TsOf(n) = node.ts
            /\ Decreasing(node.cdata)
        BY <1>0, <2>4, <3>1
      <4>2. Decreasing(AddCodedUnit(node, n).cdata)
        <5>. HIDE DEF node
        <5>. QED BY <2>2, <4>1, AddedNewest
      <4>. QED BY <3>1, <4>2
    <3>. QED BY <1>0, <2>1, <2>4, <2>5, <3>1, <3>2 DEF r
  <2>6. CASE Len(r) = Len(buf) + 1
             /\ \E k \in 0 .. Len(buf) :
                  \A i \in 1 .. Len(buf) + 1 :
                    r[i] = IF i <= k THEN buf[i]
                           ELSE IF i = k + 1 THEN NewNode(n) ELSE buf[i - 1]
    <3>1. PICK k \in 0 .. Len(buf) :
                 \A i \in 1 .. Len(buf) + 1 :
                   r[i] = IF i <= k THEN buf[i]
                          ELSE IF i = k + 1 THEN NewNode(n) ELSE buf[i - 1]
      BY <2>6
    <3>2. Decreasing(NewNode(n).cdata)
      BY <2>2, NewNodeType DEF Decreasing
    <3>3. ASSUME NEW i \in DOMAIN r PROVE Decreasing(r[i].cdata)
      <4>1. i \in 1 .. Len(buf) + 1
        BY <2>4, <2>6
      <4>2. CASE i <= k
        <5>1. i \in DOMAIN buf /\ r[i] = buf[i]
          BY <2>4, <3>1, <4>1, <4>2
        <5>. QED BY <1>0, <5>1
      <4>3. CASE i = k + 1
        <5>1. r[i] = NewNode(n)
          BY <3>1, <4>1, <4>3
        <5>. QED BY <3>2, <5>1
      <4>4. CASE i > k + 1
        <5>1. i - 1 \in DOMAIN buf /\ r[i] = buf[i - 1]
          BY <2>4, <3>1, <4>1, <4>4
        <5>. QED BY <1>0, <5>1
      <4>. QED BY <2>4, <3>1, <4>1, <4>2, <4>3, <4>4
    <3>. QED BY <2>1, <3>3 DEF r
  <2>. QED BY <2>3, <2>5, <2>6
<1>4. CASE Elapse
  <2>1. buf' = PassPlayout(buf, Head(waiting))
    BY <1>4 DEF Elapse
  <2>2. Flagged(buf, buf')
    BY <1>0, <2>1, PassedNodes
  <2>. QED BY <1>0, <2>2, FlaggedNewest
<1>5. CASE PassFull
  <2>1. buf # <<>> /\ buf' = RemoveFirst(MarkDecoded(buf, 1))
    BY <1>5 DEF PassFull, HeadComplete
  <2>. DEFINE b == MarkDecoded(buf, 1)
  <2>2. 1 \in DOMAIN buf
    BY <1>0, <2>1
  <2>3. Flagged(buf, b)
    BY <1>0, <2>2, MarkedNode
  <2>4. b \in Seq(NodeType) /\ b # <<>> /\ buf' = RemoveFirst(b)
    <3>1. buf' = RemoveFirst(b)
      BY <2>1
    <3>. HIDE DEF b
    <3>. QED BY <1>0, <2>1, <2>3, <3>1, FlaggedHolds
  <2>. HIDE DEF b
  <2>5. \A i \in DOMAIN b : Decreasing(b[i].cdata)
    BY <1>0, <2>3, FlaggedNewest
  <2>. QED BY <2>4, <2>5, RemovedNewest
<1>6. CASE PassRefuses \/ PassDecodes
  <2>1. FirstReady(buf) # 0 /\ buf' = MarkDecoded(buf, FirstReady(buf))
    BY <1>6 DEF PassRefuses, PassDecodes
  <2>2. FirstReady(buf) \in DOMAIN buf
    BY <1>0, <2>1, FirstIsReady
  <2>3. Flagged(buf, buf')
    BY <1>0, <2>1, <2>2, MarkedNode
  <2>. QED BY <1>0, <2>3, FlaggedNewest
<1>7. CASE Commit
  <2>1. buf # <<>> /\ buf' = RemoveFirst(buf)
    BY <1>0, <1>7 DEF Commit
  <2>. QED BY <1>0, <2>1, RemovedNewest
<1>. QED BY <1>2, <1>3, <1>4, <1>5, <1>6, <1>7 DEF Next, Receiver

\* pbuf_insert keeps the packets of each frame newest first, for any number
\* of frames and packets and any network, as long as no two frames share a
\* timestamp and a frame is shorter than half the sequence numbers: then the
\* 16-bit comparison of add_coded_unit orders them across a wrap.
THEOREM PacketsNewestFirst ==
  ASSUME WordsAreLarge
  PROVE  Spec => []NewestFirst
<1>1. Init => BufferInv /\ NewestFirst
  BY BufferInit, NewestInit
<1>2. BufferInv /\ NewestFirst /\ [Next]_vars => (BufferInv /\ NewestFirst)'
  BY BufferNext, NewestNext
<1>. QED BY <1>1, <1>2, PTL DEF Spec

-----------------------------------------------------------------------------
(***************************************************************************)
(* The stream, the ring and the decoder.                                   *)
(***************************************************************************)
\* The frame of a node is one that is sent.
LEMMA NodeFrame ==
  ASSUME BufferInv, NEW i \in DOMAIN buf
  PROVE  /\ FrameOfTs(buf[i].ts) \in 1 .. Frames
         /\ TsOfFrame(FrameOfTs(buf[i].ts)) = buf[i].ts
<1>1. PICK f \in 1 .. Frames : buf[i].ts = TsOfFrame(f)
  BY DEF BufferInv, NodeHolds
<1>. QED BY <1>1, FrameOfTimestamp

\* The ring is held as it should be.
LEMMA RingNext == RingInv /\ [Next]_vars => RingInv'
<1>. SUFFICES ASSUME RingInv, [Next]_vars PROVE RingInv'
  OBVIOUS
<1>0. /\ RingOk(ring)
      /\ pc \in {"pass", "start", "commit"} => ring.in_process
      /\ consumer \in Slots \union {NoSlot}
      /\ consumer # NoSlot <=> ring.out_process
  BY DEF RingInv
<1>1. ring.front \in Slots /\ NoSlot \notin Slots
  BY <1>0, ReceiverAssumption DEF RingOk, Rings
<1>2. ASSUME RingOk(ring'), pc' \in {"pass", "start", "commit"} => ring'.in_process,
             ring'.out_process = ring.out_process, consumer' = consumer
      PROVE  RingInv'
  BY <1>0, <1>2 DEF RingInv
<1>3. CASE Send \/ Lose \/ Caller \/ Elapse \/ UNCHANGED vars
  <2>1. ring' = ring /\ consumer' = consumer /\ pc' = pc
    BY <1>3 DEF Send, Lose, Caller, Deactivate, ResumeTest, Resume, Elapse, vars, ringVars
  <2>. QED BY <1>0, <1>2, <2>1
<1>4. CASE Receive \/ PassFull \/ PassNothing \/ PassRefuses \/ PassDecodes
           \/ StartStream \/ StartCrashes
  <2>1. /\ ring' = ring /\ consumer' = consumer
        /\ pc' \in {"pass", "start", "commit"} => pc \in {"pass", "start", "commit"}
    BY <1>4 DEF Receive, Receiving, PassFull, PassNothing, PassRefuses, PassDecodes,
                StartStream, StartCrashes, ringVars
  <2>. QED BY <1>0, <1>2, <2>1
<1>5. CASE PassBegin
  <2>1. ring' = CurrIn(ring) /\ consumer' = consumer /\ MayPut(ring) /\ ~ProducerBusy(ring)
    BY <1>5 DEF PassBegin, Receiving
  <2>2. RingOk(ring') /\ ring'.in_process /\ ring'.out_process = ring.out_process
    BY <1>0, <2>1, CurrInKeeps
  <2>. QED BY <1>2, <2>1, <2>2
<1>6. CASE Commit
  <2>1. /\ ring' = PutFrame(ring) \/ ring' = ring
        /\ pc = "commit" /\ pc' = "recv" /\ consumer' = consumer
    BY <1>6 DEF Commit
  <2>2. RingOk(ring') /\ ring'.out_process = ring.out_process
    BY <1>0, <2>1, PutKeeps
  <2>. QED BY <1>2, <2>1, <2>2
<1>7. CASE PutStep
  <2>1. ring' \in ProducerSteps(ring) /\ pc' = pc /\ consumer' = consumer
    BY <1>7 DEF PutStep
  <2>2. /\ RingOk(ring') /\ ring'.in_process = ring.in_process
        /\ ring'.out_process = ring.out_process
    BY <1>0, <2>1, ProducerStepKeeps
  <2>. QED BY <1>0, <1>2, <2>1, <2>2
<1>8. CASE TakeCoded
  <2>1. /\ ring' = CurrOut(ring) /\ consumer' = ring.front /\ pc' = pc
        /\ MayTake(ring) /\ ~ConsumerBusy(ring)
    BY <1>8 DEF TakeCoded
  <2>2. RingOk(ring') /\ ring'.out_process /\ ring'.in_process = ring.in_process
    BY <1>0, <2>1, CurrOutKeeps
  <2>. QED BY <1>0, <1>1, <2>1, <2>2 DEF RingInv
<1>9. CASE ReleaseCoded
  <2>1. ring' = RemoveFrame(ring) /\ consumer # NoSlot /\ consumer' = NoSlot /\ pc' = pc
    BY <1>9 DEF ReleaseCoded
  <2>2. RingOk(ring') /\ ~ring'.out_process /\ ring'.in_process = ring.in_process
    BY <1>0, <2>1, RemoveKeeps
  <2>. QED BY <1>0, <2>1, <2>2 DEF RingInv
<1>10. CASE ReleaseStep
  <2>1. ring' \in ConsumerSteps(ring) /\ pc' = pc /\ consumer' = consumer
    BY <1>10 DEF ReleaseStep
  <2>2. /\ RingOk(ring') /\ ring'.in_process = ring.in_process
        /\ ring'.out_process = ring.out_process
    BY <1>0, <2>1, ConsumerStepKeeps
  <2>. QED BY <1>0, <1>2, <2>1, <2>2
<1>. QED BY <1>3, <1>4, <1>5, <1>6, <1>7, <1>8, <1>9, <1>10 DEF Next, Receiver, Decoder

\* The position of a pass is where it was after a step of the decoder thread;
\* and the receiver thread is inside put_frame between two passes only.
LEMMA RearStays ==
  ASSUME RingInv, Decoder \/ PutStep, pc \in {"start", "commit"}
  PROVE  ring'.rear = ring.rear
<1>1. RingOk(ring) /\ ring.in_process /\ (consumer # NoSlot => ring.out_process)
  BY DEF RingInv
<1>2. CASE TakeCoded
  <2>1. ring' = CurrOut(ring) /\ MayTake(ring) /\ ~ConsumerBusy(ring)
    BY <1>2 DEF TakeCoded
  <2>. QED BY <1>1, <2>1, CurrOutKeeps
<1>3. CASE ReleaseCoded
  <2>1. ring' = RemoveFrame(ring) /\ consumer # NoSlot
    BY <1>3 DEF ReleaseCoded
  <2>. QED BY <1>1, <2>1, RemoveKeeps
<1>4. CASE ReleaseStep
  <2>1. ring' \in ConsumerSteps(ring)
    BY <1>4 DEF ReleaseStep
  <2>. QED BY <1>1, <2>1, ConsumerStepKeeps
<1>5. CASE PutStep
  <2>1. ring' \in ProducerSteps(ring)
    BY <1>5 DEF PutStep
  <2>2. ProducerBusy(ring)
    BY <1>1, <2>1, ProducerStepKeeps
  <2>. QED BY <1>1, <2>2 DEF RingOk, Calls
<1>. QED BY <1>2, <1>3, <1>4, <1>5 DEF Decoder

\* The words of the stream keep their types.
LEMMA StreamTypesNext ==
  BufferInv /\ RingInv /\ StreamTypes /\ PassInv /\ [Next]_vars => StreamTypes'
<1>. SUFFICES ASSUME BufferInv, RingInv, StreamTypes, PassInv, [Next]_vars
              PROVE StreamTypes'
  OBVIOUS
<1>0. /\ pc \in {"recv", "pass", "start", "commit", "crashed"}
      /\ coded \in [Slots -> 0 .. Frames] /\ sized \subseteq Slots
      /\ state \in {"I_AWAIT", "ACTIVE", "NON_ACTIVE"}
      /\ decoder \in {"none", "running", "dead"} /\ resuming \in BOOLEAN
      /\ changes \in 0 .. StateChanges
      /\ committed \in Seq(1 .. Frames)
      /\ outcomes \in [1 .. Frames -> Nat]
  BY DEF StreamTypes
<1>1. ring.rear \in Slots /\ Frames \in Nat /\ StateChanges \in Nat
  BY ReceiverAssumption DEF RingInv, RingOk, Rings
<1>2. ASSUME NEW f \in 1 .. Frames, Settle(f) PROVE outcomes' \in [1 .. Frames -> Nat]
  BY <1>0, <1>2 DEF Settle
<1>3. CASE Send \/ Lose \/ Receive \/ Elapse \/ TakeCoded \/ ReleaseCoded \/ ReleaseStep
           \/ PassBegin \/ PassNothing \/ StartCrashes \/ PutStep \/ UNCHANGED vars
  <2>1. /\ coded' = coded /\ sized' = sized /\ state' = state /\ decoder' = decoder
        /\ resuming' = resuming /\ changes' = changes /\ committed' = committed
        /\ outcomes' = outcomes
    BY <1>3 DEF Send, Lose, Receive, Elapse, TakeCoded, ReleaseCoded, ReleaseStep, PassBegin,
                PassNothing, StartCrashes, PutStep, vars, ringVars, callVars, ghostVars
  <2>2. pc' \in {pc, "recv", "pass", "crashed"}
    BY <1>3 DEF Send, Lose, Receive, Elapse, TakeCoded, ReleaseCoded, ReleaseStep, PassBegin,
                PassNothing, StartCrashes, PutStep, vars
  <2>. QED BY <1>0, <2>1, <2>2 DEF StreamTypes
<1>4. CASE Caller
  <2>1. /\ coded' = coded /\ sized' = sized /\ decoder' = decoder /\ pc' = pc
        /\ committed' = committed /\ outcomes' = outcomes
        /\ state' \in {state, "NON_ACTIVE", "I_AWAIT"}
    BY <1>4 DEF Caller, Deactivate, ResumeTest, Resume, ringVars, ghostVars
  <2>2. /\ resuming' \in {resuming, TRUE, FALSE}
        /\ changes' = changes \/ (changes < StateChanges /\ changes' = changes + 1)
    BY <1>4 DEF Caller, Deactivate, ResumeTest, Resume
  <2>3. changes' \in 0 .. StateChanges
    BY <1>0, <1>1, <2>2
  <2>4. resuming' \in BOOLEAN
    BY <1>0, <2>2
  <2>. QED BY <1>0, <2>1, <2>3, <2>4 DEF StreamTypes
<1>5. CASE StartStream
  <2>1. /\ coded' = coded /\ sized' = sized /\ state' = "ACTIVE"
        /\ decoder' \in {decoder, "running", "dead"}
        /\ resuming' = resuming /\ changes' = changes /\ committed' = committed
        /\ outcomes' = outcomes /\ pc' = "commit"
    BY <1>5 DEF StartStream, ringVars, callVars, ghostVars
  <2>. QED BY <1>0, <2>1 DEF StreamTypes
<1>6. CASE PassFull
  <2>1. /\ coded' = coded /\ sized' = sized /\ state' = state /\ decoder' = decoder
        /\ resuming' = resuming /\ changes' = changes /\ committed' = committed /\ pc' = pc
        /\ buf # <<>> /\ Settle(FrameOfTs(buf[1].ts))
    BY <1>6 DEF PassFull, HeadComplete, ringVars, callVars
  <2>2. 1 \in DOMAIN buf
    BY <2>1 DEF BufferInv
  <2>3. outcomes' \in [1 .. Frames -> Nat]
    BY <1>2, <2>1, <2>2, NodeFrame
  <2>. QED BY <1>0, <2>1, <2>3 DEF StreamTypes
<1>7. CASE PassRefuses
  <2>1. /\ coded' = [coded EXCEPT ![ring.rear] = 0] /\ sized' = sized
        /\ state' = state /\ decoder' = decoder
        /\ resuming' = resuming /\ changes' = changes /\ committed' = committed /\ pc' = "recv"
        /\ FirstReady(buf) # 0 /\ Settle(FrameOfTs(buf[FirstReady(buf)].ts))
    BY <1>7 DEF PassRefuses, callVars
  <2>2. FirstReady(buf) \in DOMAIN buf
    BY <2>1, FirstIsReady DEF BufferInv
  <2>3. outcomes' \in [1 .. Frames -> Nat]
    BY <1>2, <2>1, <2>2, NodeFrame
  <2>4. coded' \in [Slots -> 0 .. Frames]
    BY <1>0, <1>1, <2>1
  <2>. QED BY <1>0, <2>1, <2>3, <2>4 DEF StreamTypes
<1>8. CASE PassDecodes
  <2>. DEFINE f == FrameOfTs(buf[FirstReady(buf)].ts)
  <2>1. /\ coded' = [coded EXCEPT ![ring.rear] = f]
        /\ state' = state /\ decoder' = decoder
        /\ resuming' = resuming /\ changes' = changes /\ committed' = committed
        /\ outcomes' = outcomes
        /\ FirstReady(buf) # 0
    BY <1>8 DEF PassDecodes, callVars, ghostVars
  <2>2. sized' \in {sized, sized \union {ring.rear}} /\ pc' \in {"start", "commit"}
    BY <1>8 DEF PassDecodes
  <2>3. FirstReady(buf) \in DOMAIN buf
    BY <2>1, FirstIsReady DEF BufferInv
  <2>4. f \in 1 .. Frames
    BY <2>3, NodeFrame
  <2>. HIDE DEF f
  <2>5. coded' \in [Slots -> 0 .. Frames]
    BY <1>0, <1>1, <2>1, <2>4
  <2>6. sized' \subseteq Slots
    BY <1>0, <1>1, <2>2
  <2>. QED BY <1>0, <2>1, <2>2, <2>5, <2>6 DEF StreamTypes
<1>9. CASE Commit
  <2>. DEFINE f == coded[ring.rear]
  <2>1. /\ coded' = coded /\ sized' = sized /\ state' = state /\ decoder' = decoder
        /\ resuming' = resuming /\ changes' = changes /\ pc' = "recv"
        /\ committed' = committed \/ committed' = Append(committed, f)
        /\ Settle(f) /\ pc = "commit"
    BY <1>9 DEF Commit, callVars
  <2>2. f \in 1 .. Frames
    BY <2>1 DEF PassInv
  <2>. HIDE DEF f
  <2>3. outcomes' \in [1 .. Frames -> Nat]
    BY <1>2, <2>1, <2>2
  <2>4. committed' \in Seq(1 .. Frames)
    <3>1. Append(committed, f) \in Seq(1 .. Frames)
      BY <1>0, <2>2, AppendProperties
    <3>. QED BY <1>0, <2>1, <3>1
  <2>. QED BY <1>0, <2>1, <2>3, <2>4 DEF StreamTypes
<1>. QED BY <1>3, <1>4, <1>5, <1>6, <1>7, <1>8, <1>9 DEF Next, Receiver, Decoder

\* The frame of a pass stays what it was decoded as, and only an intra frame
\* makes the stream active.
LEMMA PassNext ==
  BufferInv /\ RingInv /\ StreamTypes /\ PassInv /\ [Next]_vars => PassInv'
<1>. SUFFICES ASSUME BufferInv, RingInv, StreamTypes, PassInv, [Next]_vars
              PROVE PassInv'
  OBVIOUS
<1>0. /\ ring.rear \in Slots
      /\ coded \in [Slots -> 0 .. Frames]
      /\ committed \in Seq(1 .. Frames)
  BY DEF RingInv, RingOk, Rings, StreamTypes
<1>1. /\ pc \in {"start", "commit"} => /\ coded[ring.rear] \in 1 .. Frames
                                       /\ kind[coded[ring.rear]] # "BAD"
      /\ pc = "start" => kind[coded[ring.rear]] = "INTRA"
      /\ state = "ACTIVE" /\ committed = <<>>
           => pc = "commit" /\ kind[coded[ring.rear]] = "INTRA"
  BY DEF PassInv
<1>2. kind' = kind
  BY NetworkStep
<1>3. ASSUME pc \in {"start", "commit"} => ring'.rear = ring.rear,
             coded' = coded, committed' = committed, pc' = pc,
             state' = state \/ state' # "ACTIVE"
      PROVE  PassInv'
  BY <1>1, <1>2, <1>3 DEF PassInv
<1>4. CASE Send \/ Lose \/ Elapse \/ Caller \/ UNCHANGED vars \/ Receive \/ PassFull
  <2>1. ring' = ring /\ coded' = coded /\ committed' = committed /\ pc' = pc
    BY <1>4 DEF Send, Lose, Elapse, Caller, Deactivate, ResumeTest, Resume, Receive, PassFull,
                vars, ringVars, ghostVars
  <2>2. state' = state \/ state' # "ACTIVE"
    BY <1>4 DEF Send, Lose, Elapse, Caller, Deactivate, ResumeTest, Resume, Receive, PassFull,
                vars
  <2>. QED BY <1>3, <2>1, <2>2
<1>5. CASE Decoder \/ PutStep
  <2>1. coded' = coded /\ committed' = committed /\ pc' = pc /\ state' = state
    BY <1>5 DEF Decoder, TakeCoded, ReleaseCoded, ReleaseStep, PutStep, ghostVars
  <2>. QED BY <1>3, <1>5, <2>1, RearStays
<1>6. ASSUME pc' \in {"recv", "pass", "crashed"}, state' = state, committed' = committed, pc # "commit"
      PROVE  PassInv'
  BY <1>1, <1>6 DEF PassInv
<1>7. CASE PassBegin \/ PassNothing \/ PassRefuses \/ StartCrashes
  <2>1. /\ pc' \in {"recv", "pass", "crashed"} /\ state' = state
        /\ committed' = committed /\ pc # "commit"
    BY <1>7 DEF PassBegin, Receiving, PassNothing, PassRefuses, StartCrashes, ghostVars
  <2>. QED BY <1>6, <2>1
<1>8. CASE PassDecodes
  <2>. DEFINE f == FrameOfTs(buf[FirstReady(buf)].ts)
  <2>1. /\ coded' = [coded EXCEPT ![ring.rear] = f] /\ ring' = ring
        /\ state' = state /\ committed' = committed /\ pc = "pass"
        /\ FirstReady(buf) # 0 /\ kind[f] # "BAD"
    BY <1>8 DEF PassDecodes, ghostVars
  <2>2. pc' = "commit" \/ (pc' = "start" /\ kind[f] = "INTRA")
    BY <1>8 DEF PassDecodes
  <2>3. FirstReady(buf) \in DOMAIN buf
    BY <2>1, FirstIsReady DEF BufferInv
  <2>4. f \in 1 .. Frames
    BY <2>3, NodeFrame
  <2>. HIDE DEF f
  <2>5. coded'[ring'.rear] = f
    BY <1>0, <2>1
  <2>6. ~(state' = "ACTIVE" /\ committed' = <<>>)
    BY <1>1, <2>1
  <2>. QED BY <1>2, <2>1, <2>2, <2>4, <2>5, <2>6 DEF PassInv
<1>9. CASE StartStream
  <2>1. /\ pc = "start" /\ pc' = "commit" /\ ring' = ring /\ coded' = coded
    BY <1>9 DEF StartStream, ringVars
  <2>. QED BY <1>1, <1>2, <2>1 DEF PassInv
<1>10. CASE Commit
  <2>1. /\ pc = "commit" /\ pc' = "recv" /\ state' = state
        /\ IF state = "ACTIVE" /\ kind[coded[ring.rear]] # "BFRAME"
           THEN committed' = Append(committed, coded[ring.rear])
           ELSE committed' = committed
    BY <1>10 DEF Commit
  <2>2. ~(state' = "ACTIVE" /\ committed' = <<>>)
    <3>1. CASE state = "ACTIVE" /\ kind[coded[ring.rear]] # "BFRAME"
      <4>1. Append(committed, coded[ring.rear]) # <<>>
        BY <1>0, <1>1, <2>1, AppendProperties
      <4>. QED BY <2>1, <3>1, <4>1
    <3>2. CASE ~(state = "ACTIVE" /\ kind[coded[ring.rear]] # "BFRAME")
      BY <1>1, <2>1, <3>2
    <3>. QED BY <3>1, <3>2
  <2>. QED BY <2>1, <2>2 DEF PassInv
<1>. QED BY <1>4, <1>5, <1>7, <1>8, <1>9, <1>10 DEF Next, Receiver

\* What is committed starts with an intra frame.
LEMMA IntraNext ==
  BufferInv /\ StreamTypes /\ PassInv /\ StartsWithIntra /\ [Next]_vars => StartsWithIntra'
<1>. SUFFICES ASSUME BufferInv, StreamTypes, PassInv, StartsWithIntra, [Next]_vars
              PROVE StartsWithIntra'
  OBVIOUS
<1>0. /\ committed \in Seq(1 .. Frames) /\ kind \in [1 .. Frames -> FrameKinds]
      /\ \A i \in DOMAIN committed :
           kind[committed[i]] \in (IF i = 1 THEN {"INTRA"} ELSE {"INTRA", "OTHER"})
  BY DEF StreamTypes, BufferInv, StartsWithIntra
<1>1. kind' = kind
  BY NetworkStep
<1>2. ASSUME committed' = committed PROVE StartsWithIntra'
  BY <1>0, <1>1, <1>2 DEF StartsWithIntra
<1>3. CASE Commit
  <2>. DEFINE f == coded[ring.rear]
  <2>1. /\ pc = "commit"
        /\ IF state = "ACTIVE" /\ kind[f] # "BFRAME"
           THEN committed' = Append(committed, f)
           ELSE committed' = committed
    BY <1>3 DEF Commit
  <2>2. CASE state = "ACTIVE" /\ kind[f] # "BFRAME"
    <3>1. f \in 1 .. Frames /\ kind[f] # "BAD" /\ (committed = <<>> => kind[f] = "INTRA")
      BY <2>1, <2>2 DEF PassInv
    <3>2. kind[f] \in {"INTRA", "OTHER"}
      <4>1. kind[f] \in FrameKinds
        BY <1>0, <3>1
      <4>. QED BY <2>2, <3>1, <4>1, ReceiverAssumption
    <3>. HIDE DEF f
    <3>3. /\ DOMAIN committed' = 1 .. Len(committed) + 1
          /\ \A i \in 1 .. Len(committed) : committed'[i] = committed[i]
          /\ committed'[Len(committed) + 1] = f
      BY <1>0, <2>1, <2>2, <3>1, AppendProperties
    <3>4. Len(committed) \in Nat /\ DOMAIN committed = 1 .. Len(committed)
          /\ (Len(committed) = 0 => committed = <<>>)
      BY <1>0
    <3>5. ASSUME NEW i \in DOMAIN committed'
          PROVE  kind[committed'[i]] \in (IF i = 1 THEN {"INTRA"} ELSE {"INTRA", "OTHER"})
      <4>1. CASE i <= Len(committed)
        BY <1>0, <3>3, <3>4, <4>1
      <4>2. CASE i = Len(committed) + 1
        BY <3>1, <3>2, <3>3, <3>4, <4>2
      <4>. QED BY <3>3, <3>4, <4>1, <4>2
    <3>. QED BY <1>1, <3>5 DEF StartsWithIntra
  <2>3. CASE ~(state = "ACTIVE" /\ kind[f] # "BFRAME")
    BY <1>2, <2>1, <2>3
  <2>. QED BY <2>2, <2>3
<1>4. CASE Send \/ Lose \/ Elapse \/ Caller \/ UNCHANGED vars \/ Receive \/ PassFull
           \/ PassNothing \/ PassRefuses \/ PassDecodes \/ PassBegin \/ StartStream
           \/ StartCrashes \/ PutStep \/ Decoder
  <2>1. committed' = committed
    BY <1>4 DEF Send, Lose, Elapse, Caller, Deactivate, ResumeTest, Resume, Receive, PassFull,
                PassNothing, PassRefuses, PassDecodes, PassBegin, StartStream, StartCrashes,
                PutStep, Decoder,
                TakeCoded, ReleaseCoded, ReleaseStep, vars, ghostVars
  <2>. QED BY <1>2, <2>1
<1>. QED BY <1>3, <1>4 DEF Next, Receiver

\* The stream, its ring and its decoder at first.
LEMMA StreamInit == Init => StreamInv
<1>. SUFFICES ASSUME Init PROVE StreamInv
  OBVIOUS
<1>0. Frames \in Nat /\ StateChanges \in Nat /\ NoSlot \notin Slots /\ Max \in Nat \ {0}
  BY ReceiverAssumption, MaxAssumption
<1>1. RingInv
  <2>1. ring = InitRing /\ pc = "recv" /\ consumer = NoSlot
    BY DEF Init
  <2>. QED BY <2>1, RingStart DEF RingInv
<1>2. StreamTypes
  <2>1. coded \in [Slots -> 0 .. Frames] /\ sized \subseteq Slots
    BY <1>0 DEF Init
  <2>2. outcomes \in [1 .. Frames -> Nat]
    BY <1>0 DEF Init
  <2>3. changes \in 0 .. StateChanges
    BY <1>0 DEF Init
  <2>4. committed \in Seq(1 .. Frames)
    BY DEF Init
  <2>5. pc = "recv" /\ state = "I_AWAIT" /\ decoder = "none" /\ resuming = FALSE
    BY DEF Init
  <2>. QED BY <2>1, <2>2, <2>3, <2>4, <2>5 DEF StreamTypes
<1>3. PassInv
  BY DEF Init, PassInv
<1>4. StartsWithIntra
  BY DEF Init, StartsWithIntra
<1>. QED BY <1>1, <1>2, <1>3, <1>4 DEF StreamInv

\* Every step keeps them together.
LEMMA StreamNext == BufferInv /\ StreamInv /\ [Next]_vars => StreamInv'
BY RingNext, StreamTypesNext, PassNext, IntraNext DEF StreamInv

\* So it does in every behaviour.
LEMMA StreamAlways == Spec => []StreamInv
<1>1. Init => BufferInv /\ StreamInv
  BY BufferInit, StreamInit
<1>2. BufferInv /\ StreamInv /\ [Next]_vars => (BufferInv /\ StreamInv)'
  BY BufferNext, StreamNext
<1>. QED BY <1>1, <1>2, PTL DEF Spec

\* What the decoder is given starts with an intra frame and holds no B-frame,
\* also across changes of the stream's state by another thread.
THEOREM IntraComesFirst == Spec => []StartsWithIntra
<1>1. StreamInv => StartsWithIntra
  BY DEF StreamInv
<1>. QED BY <1>1, StreamAlways, PTL

-----------------------------------------------------------------------------
(***************************************************************************)
(* The count of lost frames.                                               *)
(***************************************************************************)
\* Nodes and markers are finitely many, and no more markers than frames.
LEMMA CountsAreFinite ==
  BufferInv => /\ IsFiniteSet(CompleteNodes) /\ Cardinality(CompleteNodes) \in Nat
               /\ IsFiniteSet(Markers) /\ Cardinality(Markers) \in Nat
               /\ Cardinality(Markers) <= Frames
<1>. SUFFICES ASSUME BufferInv
              PROVE  /\ IsFiniteSet(CompleteNodes) /\ Cardinality(CompleteNodes) \in Nat
                     /\ IsFiniteSet(Markers) /\ Cardinality(Markers) \in Nat
                     /\ Cardinality(Markers) <= Frames
  OBVIOUS
<1>0. Frames \in Nat /\ PacketsPer \in Nat /\ TsMod \in Nat
  BY ReceiverAssumption, PacketAssumption
<1>1. CompleteNodes \subseteq 0 .. TsMod - 1
  <2>1. \A x \in NodeType : x.ts \in 0 .. TsMod - 1
    BY DEF NodeType
  <2>2. \A i \in DOMAIN buf : buf[i] \in NodeType
    BY DEF BufferInv
  <2>. QED BY <2>1, <2>2 DEF CompleteNodes
<1>2. IsFiniteSet(0 .. TsMod - 1)
  BY <1>0, FS_Interval
<1>3. IsFiniteSet(CompleteNodes)
  BY <1>1, <1>2, FS_Subset
<1>4. Markers \subseteq Packets
  <2>. DEFINE last == Frames * PacketsPer
  <2>1. last \in Int /\ sent \in 0 .. last
    BY <1>0 DEF BufferInv
  <2>2. 1 .. sent \subseteq 1 .. last
    <3>. HIDE DEF last
    <3>. QED BY <2>1
  <2>. QED BY <2>2 DEF Markers, Gone, Packets
<1>5. ASSUME NEW n \in Markers
      PROVE  FrameOf(n) \in 1 .. Frames /\ n = FrameOf(n) * PacketsPer
  <2>1. FrameOf(n) \in 1 .. Frames /\ n \in Nat \ {0} /\ IsMarker(n)
    BY <1>4, FrameOfPacket DEF Markers
  <2>2. FrameOf(n) \in Nat \ {0}
    BY <2>1
  <2>. QED BY <2>1, <2>2, MarkerIsLast
<1>. DEFINE F == [n \in Markers |-> FrameOf(n)]
<1>6. F \in Injection(Markers, 1 .. Frames)
  <2>1. F \in [Markers -> 1 .. Frames]
    BY <1>5
  <2>2. ASSUME NEW a \in Markers, NEW b \in Markers, F[a] = F[b] PROVE a = b
    BY <1>5, <2>2
  <2>. QED BY <2>1, <2>2 DEF Injection, IsInjective
<1>7. IsFiniteSet(1 .. Frames) /\ Cardinality(1 .. Frames) = Frames
  BY <1>0, FS_Interval
<1>8. IsFiniteSet(Markers) /\ Cardinality(Markers) <= Frames
  <2>. HIDE DEF F
  <2>. QED BY <1>6, <1>7, FS_Injection
<1>. QED BY <1>3, <1>8, FS_CardinalityType

\* At first nothing is complete and nothing lost.
LEMMA CountInit == Init => LossInv
<1>. SUFFICES ASSUME Init PROVE LossInv
  OBVIOUS
<1>1. CompleteNodes = {} /\ lost = 0
  BY DEF Init, CompleteNodes
<1>2. Markers = {}
  BY DEF Init, Markers, Gone
<1>. QED BY <1>1, <1>2, FS_EmptySet DEF LossInv

\* The complete nodes after a step that only marks nodes, or removes the head.
LEMMA FlaggedComplete ==
  ASSUME NEW b \in Seq(NodeType), NEW r, Flagged(b, r)
  PROVE  {r[i].ts : i \in {j \in DOMAIN r : r[j].mbit}}
           = {b[i].ts : i \in {j \in DOMAIN b : b[j].mbit}}
<1>1. DOMAIN r = DOMAIN b
      /\ \A i \in DOMAIN b : r[i].ts = b[i].ts /\ r[i].mbit = b[i].mbit
  BY DEF Flagged
<1>. QED BY <1>1

\* The complete nodes of a buffer that loses its head.
LEMMA RemovedComplete ==
  ASSUME NEW b \in Seq(NodeType), b # <<>>, Sorted(b)
  PROVE  LET r == RemoveFirst(b)
             C(c) == {c[i].ts : i \in {j \in DOMAIN c : c[j].mbit}}
         IN  /\ C(r) \subseteq C(b)
             /\ b[1].decoded => b[1].ts \notin C(r)
<1>. DEFINE r == RemoveFirst(b)
            C(c) == {c[i].ts : i \in {j \in DOMAIN c : c[j].mbit}}
<1>1. /\ r \in Seq(NodeType)
      /\ b[1].decoded => Len(r) = Len(b) - 1 /\ \A i \in 1 .. Len(r) : r[i] = b[i + 1]
      /\ ~b[1].decoded => r = b
  BY RemovedHead
<1>2. /\ DOMAIN b = 1 .. Len(b) /\ Len(b) \in Nat \ {0}
      /\ \A i \in DOMAIN b : b[i] \in NodeType
  OBVIOUS
<1>. HIDE DEF r
<1>3. CASE b[1].decoded
  <2>1. ASSUME NEW i \in DOMAIN r
        PROVE  i + 1 \in DOMAIN b /\ r[i] = b[i + 1] /\ 1 \in DOMAIN b /\ 1 < i + 1
    BY <1>1, <1>2, <1>3
  <2>2. C(r) \subseteq C(b)
    <3>1. ASSUME NEW i \in DOMAIN r, r[i].mbit PROVE r[i].ts \in C(b)
      BY <2>1, <3>1
    <3>. QED BY <3>1
  <2>3. b[1].ts \notin C(r)
    <3>1. ASSUME NEW i \in DOMAIN r PROVE r[i].ts # b[1].ts
      <4>1. b[1].ts < b[i + 1].ts /\ r[i] = b[i + 1] /\ b[1] \in NodeType /\ b[i + 1] \in NodeType
        BY <1>2, <2>1 DEF Sorted
      <4>2. b[1].ts \in Int /\ b[i + 1].ts \in Int
        BY <4>1, PacketAssumption DEF NodeType
      <4>. QED BY <4>1, <4>2
    <3>. QED BY <3>1
  <2>. QED BY <2>2, <2>3 DEF r
<1>4. CASE ~b[1].decoded
  BY <1>1, <1>4 DEF r
<1>. QED BY <1>3, <1>4

\* The complete nodes after a packet was taken.
LEMMA InsertedComplete ==
  ASSUME BufferInv, NEW n \in flight
  PROVE  LET r == Insert(buf, n)
             C(c) == {c[i].ts : i \in {j \in DOMAIN c : c[j].mbit}}
         IN  /\ C(r) \subseteq C(buf) \union {TsOf(n)}
             /\ ~IsMarker(n) => C(r) \subseteq C(buf)
<1>. DEFINE r == Insert(buf, n)
            C(c) == {c[i].ts : i \in {j \in DOMAIN c : c[j].mbit}}
<1>1. n \in Packets /\ buf \in Seq(NodeType) /\ Sorted(buf)
  BY TakenPacket DEF BufferInv
<1>2. /\ r \in Seq(NodeType)
      /\ \/ /\ Len(r) = Len(buf)
            /\ \E k \in DOMAIN buf :
                 /\ buf[k].ts = TsOf(n)
                 /\ r[k] = AddCodedUnit(buf[k], n)
                 /\ \A i \in DOMAIN buf : i # k => r[i] = buf[i]
         \/ /\ Len(r) = Len(buf) + 1
            /\ \E k \in 0 .. Len(buf) :
                 \A i \in 1 .. Len(buf) + 1 :
                   r[i] = IF i <= k THEN buf[i]
                          ELSE IF i = k + 1 THEN NewNode(n) ELSE buf[i - 1]
  BY <1>1, InsertedUnit
<1>. HIDE DEF r
<1>3. /\ DOMAIN r = 1 .. Len(r) /\ DOMAIN buf = 1 .. Len(buf) /\ Len(buf) \in Nat
      /\ \A i \in DOMAIN buf : buf[i] \in NodeType
  BY <1>1, <1>2
<1>4. ASSUME NEW i \in DOMAIN r
      PROVE  \/ \E j \in DOMAIN buf : r[i] = buf[j]
             \/ /\ r[i].ts = TsOf(n)
                /\ r[i].mbit => IsMarker(n) \/ \E j \in DOMAIN buf : buf[j].mbit /\ buf[j].ts = TsOf(n)
  <2>1. CASE Len(r) = Len(buf)
             /\ \E k \in DOMAIN buf :
                  /\ buf[k].ts = TsOf(n)
                  /\ r[k] = AddCodedUnit(buf[k], n)
                  /\ \A m \in DOMAIN buf : m # k => r[m] = buf[m]
    <3>1. PICK k \in DOMAIN buf : /\ buf[k].ts = TsOf(n)
                                  /\ r[k] = AddCodedUnit(buf[k], n)
                                  /\ \A m \in DOMAIN buf : m # k => r[m] = buf[m]
      BY <2>1
    <3>2. r[k].ts = buf[k].ts /\ r[k].mbit = (buf[k].mbit \/ IsMarker(n))
      <4>1. buf[k] \in NodeType
        BY <1>3
      <4>. QED BY <1>1, <3>1, <4>1, AddedUnit
    <3>. QED BY <1>3, <2>1, <3>1, <3>2
  <2>2. CASE Len(r) = Len(buf) + 1
             /\ \E k \in 0 .. Len(buf) :
                  \A m \in 1 .. Len(buf) + 1 :
                    r[m] = IF m <= k THEN buf[m]
                           ELSE IF m = k + 1 THEN NewNode(n) ELSE buf[m - 1]
    <3>1. PICK k \in 0 .. Len(buf) :
                 \A m \in 1 .. Len(buf) + 1 :
                   r[m] = IF m <= k THEN buf[m]
                          ELSE IF m = k + 1 THEN NewNode(n) ELSE buf[m - 1]
      BY <2>2
    <3>2. i \in 1 .. Len(buf) + 1
      BY <1>3, <2>2
    <3>3. CASE i <= k
      <4>1. i \in DOMAIN buf /\ r[i] = buf[i]
        BY <1>3, <3>1, <3>2, <3>3
      <4>. QED BY <4>1
    <3>4. CASE i = k + 1
      <4>1. r[i] = NewNode(n)
        BY <1>3, <3>1, <3>2, <3>4
      <4>2. NewNode(n).ts = TsOf(n) /\ NewNode(n).mbit = IsMarker(n)
        BY <1>1, NewNodeType
      <4>. QED BY <4>1, <4>2
    <3>5. CASE i > k + 1
      <4>1. i - 1 \in DOMAIN buf /\ r[i] = buf[i - 1]
        BY <1>3, <3>1, <3>2, <3>5
      <4>. QED BY <4>1
    <3>. QED BY <1>3, <3>1, <3>2, <3>3, <3>4, <3>5
  <2>. QED BY <1>2, <2>1, <2>2
<1>5. ASSUME NEW i \in DOMAIN r, r[i].mbit
      PROVE  /\ r[i].ts \in C(buf) \union {TsOf(n)}
             /\ ~IsMarker(n) => r[i].ts \in C(buf)
  BY <1>4, <1>5
<1>. QED BY <1>5 DEF r

\* Every step keeps the count.
LEMMA CountNext ==
  BufferInv /\ LossInv /\ [Next]_vars => LossInv'
<1>. SUFFICES ASSUME BufferInv, LossInv, [Next]_vars PROVE LossInv'
  OBVIOUS
<1>0. /\ buf \in Seq(NodeType) /\ Sorted(buf)
      /\ pc \in {"start", "commit"} => buf # <<>>
      /\ lost \in Nat /\ lost + Cardinality(CompleteNodes) <= Cardinality(Markers)
  BY DEF BufferInv, LossInv
<1>. DEFINE C == CompleteNodes
            M == Markers
            cC == Cardinality(C)
            cM == Cardinality(M)
            dC == Cardinality(C')
            dM == Cardinality(M')
<1>1. /\ IsFiniteSet(C) /\ cC \in Nat /\ IsFiniteSet(M) /\ cM \in Nat
  BY CountsAreFinite
<1>2. /\ IsFiniteSet(C') /\ dC \in Nat /\ IsFiniteSet(M') /\ dM \in Nat
  <2>1. BufferInv'
    BY BufferNext
  <2>2. (BufferInv => /\ IsFiniteSet(CompleteNodes) /\ Cardinality(CompleteNodes) \in Nat
                      /\ IsFiniteSet(Markers) /\ Cardinality(Markers) \in Nat
                      /\ Cardinality(Markers) <= Frames)'
    BY CountsAreFinite, PTL
  <2>. QED BY <2>1, <2>2
<1>3. SUFFICES lost' \in Nat /\ lost' + dC <= dM
  BY DEF LossInv
<1>4. M \subseteq M'
  <2>1. Gone \subseteq Gone'
    BY NetworkStep
  <2>2. M' = {n \in Gone' : IsMarker(n)}
    BY DEF Markers, IsMarker
  <2>. QED BY <2>1, <2>2 DEF Markers
<1>5. C' = {buf'[i].ts : i \in {j \in DOMAIN buf' : buf'[j].mbit}}
  BY DEF CompleteNodes
<1>6. C = {buf[i].ts : i \in {j \in DOMAIN buf : buf[j].mbit}}
  BY DEF CompleteNodes
<1>7. cM <= dM
  <2>. HIDE DEF M
  <2>. QED BY <1>2, <1>4, FS_Subset
<1>8. ASSUME C' \subseteq C PROVE dC <= cC
  <2>. HIDE DEF C
  <2>. QED BY <1>1, <1>8, FS_Subset
<1>9. ASSUME lost' = lost, C' \subseteq C PROVE lost' + dC <= dM
  <2>1. dC <= cC
    BY <1>8, <1>9
  <2>. HIDE DEF cC, cM, dC, dM
  <2>2. lost + cC <= cM
    BY <1>0 DEF cC, cM
  <2>. QED BY <1>0, <1>1, <1>2, <1>7, <1>9, <2>1, <2>2
<1>10. CASE Send \/ Lose \/ Decoder \/ Caller \/ PassBegin \/ PassNothing \/ StartStream
           \/ StartCrashes \/ PutStep \/ UNCHANGED vars
  <2>1. buf' = buf /\ lost' = lost
    BY <1>10 DEF Send, Lose, Decoder, TakeCoded, ReleaseCoded, ReleaseStep, Caller, Deactivate,
                ResumeTest, Resume, PassBegin, PassNothing, StartStream, StartCrashes, PutStep,
                vars, bufVars
  <2>2. C' \subseteq C
    BY <1>5, <1>6, <2>1
  <2>. QED BY <1>0, <1>9, <2>1, <2>2
<1>11. CASE Receive
  <2>1. PICK n \in flight : flight' = flight \ {n} /\ buf' = Insert(buf, n)
    BY <1>11 DEF Receive
  <2>2. lost' = lost /\ sent' = sent
    BY <1>11 DEF Receive
  <2>3. /\ C' \subseteq C \union {TsOf(n)}
        /\ ~IsMarker(n) => C' \subseteq C
    BY <1>5, <1>6, <2>1, InsertedComplete
  <2>4. CASE ~IsMarker(n)
    BY <1>0, <1>9, <2>2, <2>3, <2>4
  <2>5. CASE IsMarker(n)
    <3>1. Gone' = Gone \union {n} /\ n \notin Gone
      <4>1. Gone' = 1 .. sent \ (flight \ {n})
        BY <2>1, <2>2 DEF Gone
      <4>. QED BY <4>1, TakenPacket
    <3>2. M' = M \union {n} /\ n \notin M
      <4>1. M' = {m \in Gone' : IsMarker(m)}
        BY DEF Markers, IsMarker
      <4>. QED BY <2>5, <3>1, <4>1 DEF Markers
    <3>3. dM = cM + 1
      <4>. HIDE DEF M
      <4>. QED BY <1>1, <3>2, FS_AddElement
    <3>. DEFINE t == TsOf(n)
                D == C \union {t}
    <3>4. IsFiniteSet(D) /\ Cardinality(D) <= cC + 1 /\ Cardinality(D) \in Nat
      <4>. HIDE DEF C, t
      <4>1. IsFiniteSet(D) /\ Cardinality(D) = IF t \in C THEN cC ELSE cC + 1
        BY <1>1, FS_AddElement
      <4>. QED BY <1>1, <4>1
    <3>5. dC <= Cardinality(D)
      <4>1. C' \subseteq D
        BY <2>3
      <4>. HIDE DEF C, D
      <4>. QED BY <3>4, <4>1, FS_Subset
    <3>6. lost + cC <= cM
      BY <1>0
    <3>. HIDE DEF cC, cM, dC, dM, D
    <3>. QED BY <1>0, <1>1, <1>2, <2>2, <3>3, <3>4, <3>5, <3>6
  <2>. QED BY <2>4, <2>5
<1>12. CASE Elapse
  <2>1. buf' = PassPlayout(buf, Head(waiting)) /\ lost' = lost
    BY <1>12 DEF Elapse
  <2>2. Flagged(buf, buf')
    BY <1>0, <2>1, PassedNodes
  <2>3. C' = C
    BY <1>0, <1>5, <1>6, <2>2, FlaggedComplete
  <2>. QED BY <1>0, <1>9, <2>1, <2>3
<1>13. CASE PassRefuses \/ PassDecodes
  <2>1. FirstReady(buf) # 0 /\ buf' = MarkDecoded(buf, FirstReady(buf)) /\ lost' = lost
    BY <1>13 DEF PassRefuses, PassDecodes
  <2>2. FirstReady(buf) \in DOMAIN buf
    BY <1>0, <2>1, FirstIsReady
  <2>3. Flagged(buf, buf')
    BY <1>0, <2>1, <2>2, MarkedNode
  <2>4. C' = C
    BY <1>0, <1>5, <1>6, <2>3, FlaggedComplete
  <2>. QED BY <1>0, <1>9, <2>1, <2>4
<1>14. CASE Commit
  <2>1. buf # <<>> /\ buf' = RemoveFirst(buf) /\ lost' = lost
    BY <1>0, <1>14 DEF Commit
  <2>2. C' \subseteq C
    BY <1>0, <1>5, <1>6, <2>1, RemovedComplete
  <2>. QED BY <1>0, <1>9, <2>1, <2>2
<1>15. CASE PassFull
  <2>1. buf # <<>> /\ buf' = RemoveFirst(MarkDecoded(buf, 1)) /\ lost' = lost + 1 /\ buf[1].mbit
    BY <1>15 DEF PassFull, HeadComplete, Complete
  <2>. DEFINE b == MarkDecoded(buf, 1)
              t == buf[1].ts
  <2>2. 1 \in DOMAIN buf
    BY <1>0, <2>1
  <2>3. Flagged(buf, b) /\ b[1].decoded
    BY <1>0, <2>2, MarkedNode
  <2>4. buf' = RemoveFirst(b)
    BY <2>1
  <2>. HIDE DEF b
  <2>5. b \in Seq(NodeType) /\ Sorted(b) /\ b # <<>> /\ b[1].ts = t
    <3>1. b \in Seq(NodeType) /\ Len(b) = Len(buf) /\ b[1].ts = t
          /\ \A i \in DOMAIN buf : b[i].ts = buf[i].ts
      BY <2>2, <2>3 DEF Flagged
    <3>2. DOMAIN b = DOMAIN buf
      BY <1>0, <3>1
    <3>. QED BY <1>0, <2>2, <3>1, <3>2 DEF Sorted
  <2>6. C = {b[i].ts : i \in {j \in DOMAIN b : b[j].mbit}}
    BY <1>0, <1>6, <2>3, FlaggedComplete
  <2>7. C' \subseteq C /\ t \notin C'
    BY <1>5, <2>3, <2>4, <2>5, <2>6, RemovedComplete
  <2>8. t \in C
    BY <1>6, <2>1, <2>2
  <2>. DEFINE D == C \ {t}
  <2>9. IsFiniteSet(D) /\ Cardinality(D) = cC - 1
    <3>. HIDE DEF C, t
    <3>. QED BY <1>1, <2>8, FS_RemoveElement
  <2>10. dC <= Cardinality(D)
    <3>1. C' \subseteq D
      BY <2>7
    <3>. HIDE DEF C, D
    <3>. QED BY <2>9, <3>1, FS_Subset
  <2>11. lost + cC <= cM
    BY <1>0
  <2>. HIDE DEF cC, cM, dC, dM, D
  <2>. QED BY <1>0, <1>1, <1>2, <1>7, <2>1, <2>9, <2>10, <2>11
<1>. QED BY <1>10, <1>11, <1>12, <1>13, <1>14, <1>15 DEF Next, Receiver

\* The variables of the receiving side keep their types; in particular no more
\* frames are counted as lost than are sent, also where timestamps repeat,
\* and the ring and the words of the stream stay within their ranges.
THEOREM ReceiverTypes == Spec => []TypeOK
<1>1. Init => BufferInv /\ StreamInv /\ LossInv
  BY BufferInit, StreamInit, CountInit
<1>2. BufferInv /\ StreamInv /\ LossInv /\ [Next]_vars => (BufferInv /\ StreamInv /\ LossInv)'
  BY BufferNext, StreamNext, CountNext
<1>3. BufferInv /\ StreamInv /\ LossInv => TypeOK
  <2>. SUFFICES ASSUME BufferInv, StreamInv, LossInv PROVE TypeOK
    OBVIOUS
  <2>. DEFINE c == Cardinality(CompleteNodes)
              m == Cardinality(Markers)
  <2>1. lost \in 0 .. Frames
    <3>1. c \in Nat /\ m \in Nat /\ m <= Frames /\ Frames \in Nat
      BY CountsAreFinite, ReceiverAssumption
    <3>2. lost \in Nat /\ lost + c <= m
      BY DEF LossInv
    <3>. HIDE DEF c, m
    <3>. QED BY <3>1, <3>2
  <2>2. ring \in Rings
    BY DEF StreamInv, RingInv, RingOk
  <2>. QED BY <2>1, <2>2 DEF TypeOK, BufferInv, StreamInv, RingInv, StreamTypes
<1>. QED BY <1>1, <1>2, <1>3, PTL DEF Spec

-----------------------------------------------------------------------------
(***************************************************************************)
(* A network that keeps the order of packets.                              *)
(***************************************************************************)
\* Timestamps that do not wrap are the numbers of the frames.
LEMMA PlainTimestamp ==
  ASSUME Orderly, NEW f \in 1 .. Frames
  PROVE  /\ TsOfFrame(f) = TsBase + f
         /\ FrameOfTs(TsBase + f) = f
<1>0. TsBase \in Nat /\ TsMod \in Nat \ {0} /\ Frames \in Nat /\ TsBase + Frames < TsMod
  BY PacketAssumption, ReceiverAssumption DEF Orderly
<1>1. ASSUME NEW g \in 1 .. Frames PROVE TsOfFrame(g) = TsBase + g
  <2>. DEFINE m == TsBase + g
  <2>1. m \in 0 .. TsMod - 1 /\ m \in Int /\ m < TsMod /\ -TsMod < m /\ m >= 0
    BY <1>0
  <2>2. m % TsMod = m
    <3>. HIDE DEF m
    <3>. QED BY <1>0, <2>1, SmallRemainder
  <2>. QED BY <2>2 DEF TsOfFrame
<1>2. FrameOfTs(TsBase + f) = f
  <2>. DEFINE t == TsBase + f
              h == FrameOfTs(t)
  <2>1. TsOfFrame(f) = t
    BY <1>1
  <2>. HIDE DEF t
  <2>2. h \in 1 .. Frames /\ TsOfFrame(h) = t
    BY <2>1, FrameOfTimestamp
  <2>. HIDE DEF h
  <2>3. TsBase + h = TsBase + f
    BY <1>1, <2>2 DEF t
  <2>4. h = f
    BY <1>0, <2>2, <2>3
  <2>. QED BY <2>4 DEF h, t
<1>. QED BY <1>1, <1>2

\* The frame of a node, and its marker if the node is complete.
LEMMA NodeIsOfFrame ==
  ASSUME Orderly, NEW x, NEW G \in SUBSET Packets, NodeHolds(x, G)
  PROVE  /\ FrameIn(x) \in 1 .. Frames
         /\ x.ts = TsBase + FrameIn(x)
         /\ x.ts = TsOfFrame(FrameIn(x))
         /\ FrameOfTs(x.ts) = FrameIn(x)
         /\ x.mbit => FrameIn(x) * PacketsPer \in G
<1>1. PICK f \in 1 .. Frames : x.ts = TsOfFrame(f)
  BY DEF NodeHolds
<1>2. x.ts = TsBase + f /\ FrameOfTs(x.ts) = f
  BY <1>1, PlainTimestamp
<1>3. FrameIn(x) = f
  BY <1>2, PacketAssumption DEF FrameIn
<1>4. ASSUME x.mbit PROVE f * PacketsPer \in G
  <2>1. PICK n \in G : IsMarker(n) /\ TsOf(n) = x.ts
    BY <1>4 DEF NodeHolds
  <2>. DEFINE g == FrameOf(n)
  <2>2. n \in Nat \ {0} /\ g \in 1 .. Frames /\ TsOf(n) = TsOfFrame(g)
    BY FrameOfPacket
  <2>3. g = f
    <3>. HIDE DEF g
    <3>1. TsOfFrame(g) = TsBase + g /\ TsBase \in Nat
      BY <2>2, PlainTimestamp, PacketAssumption
    <3>. QED BY <1>2, <2>1, <2>2, <3>1
  <2>4. n = f * PacketsPer
    <3>1. FrameOf(n) = f /\ f \in Nat \ {0}
      BY <2>3
    <3>. QED BY <2>1, <2>2, <3>1, MarkerIsLast
  <2>. QED BY <2>4
<1>. QED BY <1>1, <1>2, <1>3, <1>4

\* What has arrived has been sent.
LEMMA GoneArePackets == BufferInv => Gone \in SUBSET Packets
<1>. SUFFICES ASSUME BufferInv PROVE Gone \in SUBSET Packets
  OBVIOUS
<1>. DEFINE last == Frames * PacketsPer
<1>1. last \in Int
  <2>1. Frames \in Int /\ PacketsPer \in Int
    BY ReceiverAssumption, PacketAssumption
  <2>. QED BY <2>1
<1>2. sent \in 0 .. last
  BY DEF BufferInv
<1>3. 1 .. sent \subseteq 1 .. last
  <2>. HIDE DEF last
  <2>. QED BY <1>1, <1>2
<1>. QED BY <1>3 DEF Gone, Packets

\* The nodes of the buffer, in the order of their frames.
LEMMA NodesInOrder ==
  ASSUME Orderly, BufferInv
  PROVE  /\ DOMAIN buf = 1 .. Len(buf) /\ Len(buf) \in Nat
         /\ \A i \in DOMAIN buf :
              /\ buf[i] \in NodeType
              /\ FrameIn(buf[i]) \in 1 .. Frames
              /\ buf[i].ts = TsBase + FrameIn(buf[i])
              /\ FrameOfTs(buf[i].ts) = FrameIn(buf[i])
              /\ buf[i].mbit => FrameIn(buf[i]) * PacketsPer \in Gone
         /\ \A i, j \in DOMAIN buf : i < j => FrameIn(buf[i]) < FrameIn(buf[j])
         /\ \A i, j \in DOMAIN buf : FrameIn(buf[i]) = FrameIn(buf[j]) => i = j
<1>1. buf \in Seq(NodeType) /\ Sorted(buf) /\ \A i \in DOMAIN buf : NodeHolds(buf[i], Gone)
  BY DEF BufferInv
<1>2. Gone \in SUBSET Packets
  BY GoneArePackets
<1>3. DOMAIN buf = 1 .. Len(buf) /\ Len(buf) \in Nat
  BY <1>1
<1>4. ASSUME NEW i \in DOMAIN buf
      PROVE  /\ buf[i] \in NodeType
             /\ FrameIn(buf[i]) \in 1 .. Frames
             /\ buf[i].ts = TsBase + FrameIn(buf[i])
             /\ FrameOfTs(buf[i].ts) = FrameIn(buf[i])
             /\ buf[i].mbit => FrameIn(buf[i]) * PacketsPer \in Gone
  BY <1>1, <1>2, NodeIsOfFrame
<1>5. ASSUME NEW i \in DOMAIN buf, NEW j \in DOMAIN buf, i < j
      PROVE  FrameIn(buf[i]) < FrameIn(buf[j])
  <2>1. buf[i].ts < buf[j].ts
    BY <1>1, <1>5 DEF Sorted
  <2>2. /\ buf[i].ts = TsBase + FrameIn(buf[i]) /\ buf[j].ts = TsBase + FrameIn(buf[j])
        /\ FrameIn(buf[i]) \in Int /\ FrameIn(buf[j]) \in Int /\ TsBase \in Int
    BY <1>4, PacketAssumption
  <2>. QED BY <2>1, <2>2
<1>6. ASSUME NEW i \in DOMAIN buf, NEW j \in DOMAIN buf, FrameIn(buf[i]) = FrameIn(buf[j])
      PROVE  i = j
  <2>1. FrameIn(buf[i]) \in Int /\ FrameIn(buf[j]) \in Int
    BY <1>4
  <2>2. ~(i < j) /\ ~(j < i)
    BY <1>5, <1>6, <2>1
  <2>. QED BY <1>3, <2>2
<1>. QED BY <1>3, <1>4, <1>5, <1>6

\* A packet that is taken belongs to the last node or to a new one behind it,
\* and to a frame newer than every frame whose marker has arrived.
LEMMA TakenInOrder ==
  ASSUME Orderly, BufferInv, WaitInv, NEW n \in flight
  PROVE  LET r == Insert(buf, n)
             l == Len(buf)
         IN  /\ FrameOf(n) \in 1 .. Frames /\ TsOf(n) = TsBase + FrameOf(n)
             /\ \A f \in 1 .. Frames : f * PacketsPer \in Gone => f < FrameOf(n)
             /\ r \in Seq(NodeType)
             /\ Len(r) \in {l, l + 1}
             /\ \A i \in 1 .. l : /\ r[i].ts = buf[i].ts
                                  /\ r[i].decoded = buf[i].decoded
                                  /\ r[i].due = buf[i].due
                                  /\ buf[i].mbit => r[i].mbit
                                  /\ i < l \/ Len(r) = l + 1 => r[i] = buf[i]
             /\ Len(r) = l => HasNode(buf, n)
             /\ Len(r) = l + 1 => /\ ~HasNode(buf, n)
                                  /\ r[l + 1] = NewNode(n)
                                  /\ \A i \in 1 .. l : buf[i].ts < TsOf(n)
<1>. DEFINE r == Insert(buf, n)
            l == Len(buf)
            g == FrameOf(n)
<1>1. /\ n \in Packets /\ n \notin Gone /\ Gone \in SUBSET Packets
  BY TakenPacket, GoneArePackets
<1>2. /\ n \in Nat \ {0} /\ g \in 1 .. Frames /\ TsOf(n) = TsOfFrame(g)
  BY <1>1, FrameOfPacket
<1>3. TsOf(n) = TsBase + g /\ TsBase \in Nat
  BY <1>2, PlainTimestamp, PacketAssumption
<1>4. n = sent /\ \A m \in Gone : m \in Nat \ {0} /\ m < n
  <2>1. n = sent
    BY DEF WaitInv
  <2>2. \A m \in Gone : m \in 1 .. sent /\ m # n
    BY <1>1 DEF Gone
  <2>. QED BY <1>2, <2>1, <2>2
<1>5. ASSUME NEW f \in 1 .. Frames, f * PacketsPer \in Gone PROVE f < g
  <2>. DEFINE m == f * PacketsPer
  <2>1. m \in Nat \ {0} /\ m < n
    BY <1>4, <1>5
  <2>2. FrameOf(m) = f /\ f \in Nat \ {0}
    BY MarkerIsLast
  <2>3. n <= g * PacketsPer
    BY <1>2, FrameBounds
  <2>4. FrameOf(m) <= g
    <3>. HIDE DEF m
    <3>. QED BY <1>2, <2>1, FrameMonotone
  <2>5. f # g
    <3>1. ASSUME f = g PROVE FALSE
      <4>1. n <= m
        BY <2>3, <3>1
      <4>. HIDE DEF m
      <4>. QED BY <1>2, <2>1, <4>1
    <3>. QED BY <3>1
  <2>. HIDE DEF m, g
  <2>. QED BY <1>2, <2>2, <2>4, <2>5
<1>6. /\ DOMAIN buf = 1 .. l /\ l \in Nat
      /\ \A i \in 1 .. l : /\ buf[i] \in NodeType
                           /\ FrameIn(buf[i]) \in 1 .. Frames
                           /\ buf[i].ts = TsBase + FrameIn(buf[i])
      /\ \A i, j \in 1 .. l : i < j => FrameIn(buf[i]) < FrameIn(buf[j])
  BY NodesInOrder
<1>7. ASSUME NEW i \in 1 .. l PROVE FrameIn(buf[i]) <= g /\ buf[i].ts <= TsOf(n)
  <2>1. PICK m \in Gone : FrameIn(buf[i]) = FrameOf(m)
    BY <1>6 DEF WaitInv
  <2>2. FrameOf(m) <= g
    BY <1>2, <1>4, FrameMonotone
  <2>. HIDE DEF g, l
  <2>. QED BY <1>2, <1>3, <1>6, <2>1, <2>2
<1>8. /\ r \in Seq(NodeType)
      /\ \/ /\ HasNode(buf, n)
            /\ Len(r) = l
            /\ \E k \in DOMAIN buf :
                 /\ buf[k].ts = TsOf(n)
                 /\ r[k] = AddCodedUnit(buf[k], n)
                 /\ \A i \in DOMAIN buf : i # k => r[i] = buf[i]
         \/ /\ ~HasNode(buf, n)
            /\ Len(r) = l + 1
            /\ \E k \in 0 .. l :
                 /\ \A i \in 1 .. k : buf[i].ts < TsOf(n)
                 /\ \A i \in k + 1 .. l : buf[i].ts > TsOf(n)
                 /\ \A i \in 1 .. l + 1 :
                      r[i] = IF i <= k THEN buf[i]
                             ELSE IF i = k + 1 THEN NewNode(n) ELSE buf[i - 1]
  <2>1. buf \in Seq(NodeType) /\ Sorted(buf)
    BY DEF BufferInv
  <2>. QED BY ONLY <1>1, <2>1, InsertedUnit
<1>. HIDE DEF r, l, g
<1>9. CASE /\ HasNode(buf, n)
           /\ Len(r) = l
           /\ \E k \in DOMAIN buf :
                /\ buf[k].ts = TsOf(n)
                /\ r[k] = AddCodedUnit(buf[k], n)
                /\ \A i \in DOMAIN buf : i # k => r[i] = buf[i]
  <2>1. PICK k \in 1 .. l : /\ buf[k].ts = TsOf(n)
                            /\ r[k] = AddCodedUnit(buf[k], n)
                            /\ \A i \in 1 .. l : i # k => r[i] = buf[i]
    BY <1>6, <1>9
  <2>2. k = l
    <3>1. ASSUME k < l PROVE FALSE
      <4>1. FrameIn(buf[k]) < FrameIn(buf[l]) /\ FrameIn(buf[l]) <= g /\ l \in 1 .. l
        BY <1>6, <1>7, <3>1
      <4>2. FrameIn(buf[k]) = g
        BY <1>2, <1>3, <1>6, <2>1
      <4>. QED BY <1>2, <1>6, <4>1, <4>2
    <3>. QED BY <1>6, <3>1
  <2>3. /\ r[k].ts = buf[k].ts /\ r[k].decoded = buf[k].decoded /\ r[k].due = buf[k].due
        /\ r[k].mbit = (buf[k].mbit \/ IsMarker(n))
    <3>1. buf[k] \in NodeType
      BY <1>6
    <3>. QED BY <1>1, <2>1, <3>1, AddedUnit
  <2>4. \A i \in 1 .. l : /\ r[i].ts = buf[i].ts
                          /\ r[i].decoded = buf[i].decoded
                          /\ r[i].due = buf[i].due
                          /\ buf[i].mbit => r[i].mbit
                          /\ i < l \/ Len(r) = l + 1 => r[i] = buf[i]
    <3>. SUFFICES ASSUME NEW i \in 1 .. l
                  PROVE  /\ r[i].ts = buf[i].ts
                         /\ r[i].decoded = buf[i].decoded
                         /\ r[i].due = buf[i].due
                         /\ buf[i].mbit => r[i].mbit
                         /\ i < l \/ Len(r) = l + 1 => r[i] = buf[i]
      OBVIOUS
    <3>1. CASE i = k
      <4>1. ~(i < l) /\ Len(r) # l + 1
        BY <1>6, <1>9, <2>2, <3>1
      <4>. QED BY <2>3, <3>1, <4>1
    <3>2. CASE i # k
      <4>1. r[i] = buf[i]
        BY <2>1, <3>2
      <4>. QED BY <4>1
    <3>. QED BY <3>1, <3>2
  <2>5. Len(r) # l + 1
    BY <1>6, <1>9
  <2>. QED BY <1>2, <1>3, <1>5, <1>8, <1>9, <2>4, <2>5 DEF r, l, g
<1>10. CASE /\ ~HasNode(buf, n)
            /\ Len(r) = l + 1
            /\ \E k \in 0 .. l :
                 /\ \A i \in 1 .. k : buf[i].ts < TsOf(n)
                 /\ \A i \in k + 1 .. l : buf[i].ts > TsOf(n)
                 /\ \A i \in 1 .. l + 1 :
                      r[i] = IF i <= k THEN buf[i]
                             ELSE IF i = k + 1 THEN NewNode(n) ELSE buf[i - 1]
  <2>1. PICK k \in 0 .. l :
               /\ \A i \in 1 .. k : buf[i].ts < TsOf(n)
               /\ \A i \in k + 1 .. l : buf[i].ts > TsOf(n)
               /\ \A i \in 1 .. l + 1 :
                    r[i] = IF i <= k THEN buf[i]
                           ELSE IF i = k + 1 THEN NewNode(n) ELSE buf[i - 1]
    BY <1>10
  <2>2. k = l
    <3>1. ASSUME k < l PROVE FALSE
      <4>1. buf[l].ts > TsOf(n) /\ l \in 1 .. l
        BY <1>6, <2>1, <3>1
      <4>2. buf[l].ts <= TsOf(n) /\ buf[l].ts \in Int /\ TsOf(n) \in Int
        BY <1>2, <1>3, <1>6, <1>7, <4>1
      <4>. QED BY <4>1, <4>2
    <3>. QED BY <1>6, <3>1
  <2>3. \A i \in 1 .. l : r[i] = buf[i] /\ buf[i].ts < TsOf(n)
    BY <1>6, <2>1, <2>2
  <2>4. r[l + 1] = NewNode(n)
    BY <1>6, <2>1, <2>2
  <2>5. Len(r) # l
    BY <1>6, <1>10
  <2>. QED BY <1>2, <1>3, <1>5, <1>8, <1>10, <2>3, <2>4, <2>5 DEF r, l, g
<1>. QED BY <1>8, <1>9, <1>10

\* The packet in the network is the last one that was sent.
LEMMA LastInFlight ==
  ASSUME Orderly, BufferInv, WaitInv, [Next]_vars
  PROVE  flight' \subseteq {sent'} /\ Gone \subseteq Gone'
<1>0. flight \subseteq {sent}
  BY DEF WaitInv
<1>1. Gone \subseteq Gone'
  BY NetworkStep
<1>2. CASE Send
  <2>1. Cardinality(flight) < 1 /\ sent' = sent + 1 /\ flight' = flight \union {sent + 1}
    BY <1>2 DEF Send, Orderly
  <2>2. flight = {}
    <3>1. IsFiniteSet(flight)
      BY <1>0, FS_Singleton, FS_Subset
    <3>2. Cardinality(flight) \in Nat
      BY <3>1, FS_CardinalityType
    <3>3. Cardinality(flight) = 0
      BY <2>1, <3>2
    <3>. QED BY <3>1, <3>3, FS_EmptySet
  <2>. QED BY <1>1, <2>1, <2>2
<1>3. CASE Lose \/ Receive
  <2>1. sent' = sent /\ flight' \subseteq flight
    BY <1>3 DEF Lose, Receive
  <2>. QED BY <1>0, <1>1, <2>1
<1>4. CASE PassFull \/ PassBegin \/ PassNothing \/ PassRefuses \/ PassDecodes \/ StartStream
           \/ StartCrashes \/ PutStep \/ Commit \/ Elapse \/ Decoder \/ Caller \/ UNCHANGED vars
  <2>1. sent' = sent /\ flight' = flight
    BY <1>4 DEF PassFull, PassBegin, PassNothing, PassRefuses, PassDecodes, StartStream,
                StartCrashes, PutStep, Commit, Elapse, Decoder, TakeCoded, ReleaseCoded, ReleaseStep, Caller, Deactivate, ResumeTest,
                Resume, vars, netVars
  <2>. QED BY <1>0, <1>1, <2>1
<1>. QED BY <1>2, <1>3, <1>4 DEF Next, Receiver

\* The order of the nodes that wait, of a buffer and of the times.
Waits(b, w) ==
  /\ \A i, j \in DOMAIN w : i < j => w[i] < w[j]
  /\ \A j \in DOMAIN w : \E i \in DOMAIN b : b[i].ts = w[j]
  /\ \A i \in DOMAIN b : ~b[i].due <=> \E j \in DOMAIN w : w[j] = b[i].ts
  /\ \A i, j \in DOMAIN b : i < j /\ b[j].due => b[i].due
  /\ \A i \in DOMAIN b : b[i].decoded => b[i].mbit /\ b[i].due

Arrived(b, G) == \A i \in DOMAIN b : \E n \in G : FrameIn(b[i]) = FrameOf(n)

\* WaitInv in terms of these.
LEMMA WaitParts ==
  WaitInv <=> flight \subseteq {sent} /\ Arrived(buf, Gone) /\ Waits(buf, waiting)
BY DEF WaitInv, Arrived, Waits

\* What has arrived stays.
LEMMA ArrivedGrows ==
  ASSUME NEW b, NEW r, NEW G, NEW H, G \subseteq H, Arrived(b, G),
         \A i \in DOMAIN r : \E j \in DOMAIN b : r[i].ts = b[j].ts
  PROVE  Arrived(r, H)
<1>. SUFFICES ASSUME NEW i \in DOMAIN r PROVE \E n \in H : FrameIn(r[i]) = FrameOf(n)
  BY DEF Arrived
<1>1. PICK j \in DOMAIN b : r[i].ts = b[j].ts
  OBVIOUS
<1>2. PICK n \in G : FrameIn(b[j]) = FrameOf(n)
  BY DEF Arrived
<1>3. FrameIn(r[i]) = FrameIn(b[j])
  BY <1>1 DEF FrameIn
<1>. QED BY <1>2, <1>3

\* A new node waits behind the others.
LEMMA WaitsTaken ==
  ASSUME Orderly, BufferInv, WaitInv, NEW n \in flight
  PROVE  /\ Waits(Insert(buf, n),
                  IF HasNode(buf, n) THEN waiting ELSE Append(waiting, TsOf(n)))
         /\ Arrived(Insert(buf, n), Gone \union {n})
<1>. DEFINE r == Insert(buf, n)
            l == Len(buf)
            t == TsOf(n)
            w == IF HasNode(buf, n) THEN waiting ELSE Append(waiting, t)
<1>1. /\ FrameOf(n) \in 1 .. Frames /\ t = TsBase + FrameOf(n) /\ TsBase \in Nat
      /\ r \in Seq(NodeType)
      /\ Len(r) \in {l, l + 1}
      /\ \A i \in 1 .. l : /\ r[i].ts = buf[i].ts
                           /\ r[i].decoded = buf[i].decoded
                           /\ r[i].due = buf[i].due
                           /\ buf[i].mbit => r[i].mbit
      /\ Len(r) = l => HasNode(buf, n)
      /\ Len(r) = l + 1 => /\ ~HasNode(buf, n)
                           /\ r[l + 1] = NewNode(n)
                           /\ \A i \in 1 .. l : buf[i].ts < t
  <2>1. TsBase \in Nat
    BY PacketAssumption
  <2>. QED BY <2>1, TakenInOrder
<1>t. t \in Int
  <2>1. \A f \in 1 .. Frames : TsBase + f \in Int
    BY PacketAssumption
  <2>. QED BY <1>1, <2>1
<1>2. n \in Packets
  BY TakenPacket
<1>3. /\ DOMAIN buf = 1 .. l /\ l \in Nat /\ DOMAIN r = 1 .. Len(r)
      /\ \A i \in 1 .. l : buf[i].ts \in Int
  <2>1. \A i \in DOMAIN buf : FrameIn(buf[i]) \in Int /\ buf[i].ts = TsBase + FrameIn(buf[i])
    BY NodesInOrder
  <2>. QED BY <1>1, <2>1, NodesInOrder
<1>4. /\ NewNode(n).ts = t /\ ~NewNode(n).decoded /\ ~NewNode(n).due
  BY <1>2, NewNodeType
<1>5. Waits(buf, waiting) /\ Arrived(buf, Gone) /\ waiting \in Seq(0 .. TsMod - 1)
  BY WaitParts DEF BufferInv
<1>w. /\ \A i, j \in DOMAIN waiting : i < j => waiting[i] < waiting[j]
      /\ \A j \in DOMAIN waiting : \E i \in DOMAIN buf : buf[i].ts = waiting[j]
      /\ \A i \in DOMAIN buf : ~buf[i].due <=> \E j \in DOMAIN waiting : waiting[j] = buf[i].ts
      /\ \A i, j \in DOMAIN buf : i < j /\ buf[j].due => buf[i].due
      /\ \A i \in DOMAIN buf : buf[i].decoded => buf[i].mbit /\ buf[i].due
  BY <1>5 DEF Waits
<1>. HIDE DEF r, l, t
<1>6. CASE Len(r) = l
  <2>1. w = waiting /\ DOMAIN r = DOMAIN buf
    BY <1>1, <1>3, <1>6
  <2>2. Waits(r, waiting)
    <3>0. \A i \in DOMAIN buf : r[i].ts = buf[i].ts /\ r[i].due = buf[i].due
      BY <1>1, <1>3
    <3>1. ASSUME NEW j \in DOMAIN waiting PROVE \E i \in DOMAIN r : r[i].ts = waiting[j]
      BY <1>w, <2>1, <3>0
    <3>2. ASSUME NEW i \in DOMAIN r
          PROVE  ~r[i].due <=> \E j \in DOMAIN waiting : waiting[j] = r[i].ts
      <4>1. ~buf[i].due <=> \E j \in DOMAIN waiting : waiting[j] = buf[i].ts
        BY <1>w, <2>1
      <4>. QED BY <2>1, <3>0, <4>1
    <3>3. \A i, j \in DOMAIN r : i < j /\ r[j].due => r[i].due
      BY <1>1, <1>3, <1>w, <2>1
    <3>4. \A i \in DOMAIN r : r[i].decoded => r[i].mbit /\ r[i].due
      BY <1>1, <1>3, <1>w, <2>1
    <3>. QED BY <1>w, <3>1, <3>2, <3>3, <3>4 DEF Waits
  <2>3. Arrived(r, Gone \union {n})
    <3>1. \A i \in DOMAIN r : \E j \in DOMAIN buf : r[i].ts = buf[j].ts
      BY <1>1, <1>3, <2>1
    <3>. QED BY <1>5, <3>1, ArrivedGrows
  <2>. QED BY <2>1, <2>2, <2>3 DEF r, t
<1>7. CASE Len(r) = l + 1
  <2>1. /\ w = Append(waiting, t) /\ r[l + 1] = NewNode(n) /\ DOMAIN r = 1 .. l + 1
        /\ \A i \in 1 .. l : buf[i].ts < t
    BY <1>1, <1>3, <1>7
  <2>. HIDE DEF w
  <2>. DEFINE k == Len(waiting)
  <2>2. /\ k \in Nat /\ DOMAIN waiting = 1 .. k /\ DOMAIN w = 1 .. k + 1
        /\ \A j \in 1 .. k : w[j] = waiting[j] /\ waiting[j] \in Int
        /\ w[k + 1] = t
    <3>1. waiting \in Seq(Int)
      <4>1. 0 .. TsMod - 1 \subseteq Int
        OBVIOUS
      <4>. QED BY ONLY <1>5, <4>1, SeqMonotonic
    <3>2. /\ Append(waiting, t) \in Seq(Int) /\ Len(Append(waiting, t)) = k + 1
          /\ \A j \in 1 .. k : Append(waiting, t)[j] = waiting[j]
          /\ Append(waiting, t)[k + 1] = t
      BY <1>t, <3>1, AppendProperties
    <3>. QED BY <2>1, <3>1, <3>2
  <2>. HIDE DEF k
  <2>3. ASSUME NEW j \in 1 .. k PROVE w[j] < t /\ \E i \in 1 .. l : buf[i].ts = w[j]
    <3>1. PICK i \in 1 .. l : buf[i].ts = waiting[j]
      BY <1>3, <1>w, <2>2
    <3>2. buf[i].ts < t /\ w[j] = waiting[j]
      BY <2>1, <2>2
    <3>. QED BY <3>1, <3>2
  <2>4. ASSUME NEW i \in DOMAIN w, NEW j \in DOMAIN w, i < j PROVE w[i] < w[j]
    <3>1. i \in 1 .. k /\ (j = k + 1 \/ j \in 1 .. k)
      BY <2>2, <2>4
    <3>2. CASE j = k + 1
      BY <2>2, <2>3, <3>1, <3>2
    <3>3. CASE j \in 1 .. k
      <4>1. waiting[i] < waiting[j]
        BY <1>w, <2>2, <2>4, <3>1, <3>3
      <4>. QED BY <2>2, <3>1, <3>3, <4>1
    <3>. QED BY <3>1, <3>2, <3>3
  <2>5. \A j \in DOMAIN w : \E i \in DOMAIN r : r[i].ts = w[j]
    <3>. SUFFICES ASSUME NEW j \in DOMAIN w PROVE \E i \in DOMAIN r : r[i].ts = w[j]
      OBVIOUS
    <3>1. CASE j = k + 1
      <4>1. l + 1 \in DOMAIN r /\ r[l + 1].ts = w[j]
        BY <1>3, <1>4, <2>1, <2>2, <3>1
      <4>. QED BY <4>1
    <3>2. CASE j # k + 1
      <4>1. j \in 1 .. k
        BY <2>2, <3>2
      <4>2. PICK i \in 1 .. l : buf[i].ts = w[j]
        BY <2>3, <4>1
      <4>3. i \in 1 .. l + 1 /\ r[i].ts = buf[i].ts
        <5>1. \A m \in 1 .. l : r[m].ts = buf[m].ts
          BY <1>1
        <5>. QED BY ONLY <5>1, <1>3
      <4>4. i \in DOMAIN r /\ r[i].ts = w[j]
        BY <2>1, <4>2, <4>3
      <4>. QED BY <4>4
    <3>. QED BY <3>1, <3>2
  <2>6. \A i \in 1 .. l : (\E j \in DOMAIN w : w[j] = buf[i].ts)
                            <=> (\E j \in DOMAIN waiting : waiting[j] = buf[i].ts)
    <3>. SUFFICES ASSUME NEW i \in 1 .. l
                  PROVE (\E j \in DOMAIN w : w[j] = buf[i].ts)
                          <=> (\E j \in DOMAIN waiting : waiting[j] = buf[i].ts)
      OBVIOUS
    <3>1. buf[i].ts # t
      <4>1. buf[i].ts < t /\ buf[i].ts \in Int
        BY <1>3, <2>1
      <4>. QED BY <1>t, <4>1
    <3>. QED BY <2>2, <3>1
  <2>7. \A i \in DOMAIN r : ~r[i].due <=> \E j \in DOMAIN w : w[j] = r[i].ts
    <3>. SUFFICES ASSUME NEW i \in DOMAIN r
                  PROVE ~r[i].due <=> \E j \in DOMAIN w : w[j] = r[i].ts
      OBVIOUS
    <3>1. CASE i = l + 1
      BY <1>4, <2>1, <2>2, <3>1
    <3>2. CASE i # l + 1
      <4>1. i \in 1 .. l
        BY <1>3, <2>1, <3>2
      <4>2. r[i].due = buf[i].due /\ r[i].ts = buf[i].ts /\ i \in DOMAIN buf
        BY <1>1, <1>3, <4>1
      <4>3. ~buf[i].due <=> \E j \in DOMAIN waiting : waiting[j] = buf[i].ts
        BY ONLY <1>w, <4>2
      <4>4. (\E j \in DOMAIN w : w[j] = buf[i].ts)
              <=> (\E j \in DOMAIN waiting : waiting[j] = buf[i].ts)
        BY ONLY <2>6, <4>1
      <4>. QED BY ONLY <4>2, <4>3, <4>4
    <3>. QED BY <3>1, <3>2
  <2>8. \A i, j \in DOMAIN r : i < j /\ r[j].due => r[i].due
    <3>. SUFFICES ASSUME NEW i \in DOMAIN r, NEW j \in DOMAIN r, i < j, r[j].due PROVE r[i].due
      OBVIOUS
    <3>1. j # l + 1
      BY <1>4, <2>1
    <3>2. i \in 1 .. l /\ j \in 1 .. l
      BY <1>3, <2>1, <3>1
    <3>. QED BY <1>1, <1>3, <1>w, <3>2
  <2>9. \A i \in DOMAIN r : r[i].decoded => r[i].mbit /\ r[i].due
    <3>. SUFFICES ASSUME NEW i \in DOMAIN r, r[i].decoded PROVE r[i].mbit /\ r[i].due
      OBVIOUS
    <3>1. i # l + 1
      BY <1>4, <2>1
    <3>2. i \in 1 .. l
      BY <1>3, <2>1, <3>1
    <3>. QED BY <1>1, <1>3, <1>w, <3>2
  <2>10. Waits(r, w)
    BY <2>4, <2>5, <2>7, <2>8, <2>9 DEF Waits
  <2>11. Arrived(r, Gone \union {n})
    <3>. SUFFICES ASSUME NEW i \in DOMAIN r
                  PROVE \E m \in Gone \union {n} : FrameIn(r[i]) = FrameOf(m)
      BY DEF Arrived
    <3>1. CASE i = l + 1
      <4>1. FrameIn(r[i]) = FrameOf(n)
        BY <1>1, <1>4, <2>1, <3>1 DEF FrameIn
      <4>. QED BY <4>1
    <3>2. CASE i # l + 1
      <4>1. i \in DOMAIN buf
        BY <1>3, <2>1, <3>2
      <4>2. FrameIn(r[i]) = FrameIn(buf[i])
        BY <1>1, <1>3, <4>1 DEF FrameIn
      <4>. QED BY <1>5, <4>1, <4>2 DEF Arrived
    <3>. QED BY <3>1, <3>2
  <2>. QED BY <2>10, <2>11 DEF r, t, w
<1>. QED BY <1>1, <1>6, <1>7

\* Time passes for the oldest node that waits.
LEMMA WaitsElapsed ==
  ASSUME NEW b \in Seq(NodeType), NEW w \in Seq(Int), w # <<>>, Sorted(b), Waits(b, w)
  PROVE  Waits(PassPlayout(b, Head(w)), Tail(w))
<1>. DEFINE t == Head(w)
            r == PassPlayout(b, t)
            v == Tail(w)
            k == Len(w)
<1>1. /\ Flagged(b, r)
      /\ \A i \in DOMAIN b : /\ r[i].decoded = b[i].decoded
                             /\ r[i].due <=> b[i].due \/ b[i].ts = t
  BY PassedNodes
<1>2. /\ DOMAIN r = DOMAIN b /\ DOMAIN b = 1 .. Len(b) /\ Len(b) \in Nat
      /\ \A i \in DOMAIN b : r[i].ts = b[i].ts /\ r[i].mbit = b[i].mbit
  BY <1>1 DEF Flagged
<1>3. \A i \in DOMAIN b : b[i].ts \in Int
  <2>1. \A x \in NodeType : x.ts \in Int
    BY PacketAssumption DEF NodeType
  <2>. QED BY <2>1
<1>4. /\ k \in Nat \ {0} /\ DOMAIN w = 1 .. k /\ DOMAIN v = 1 .. k - 1 /\ t = w[1]
      /\ \A j \in 1 .. k - 1 : v[j] = w[j + 1]
      /\ \A j \in 1 .. k : w[j] \in Int
  OBVIOUS
<1>w. /\ \A i, j \in DOMAIN w : i < j => w[i] < w[j]
      /\ \A j \in DOMAIN w : \E i \in DOMAIN b : b[i].ts = w[j]
      /\ \A i \in DOMAIN b : ~b[i].due <=> \E j \in DOMAIN w : w[j] = b[i].ts
      /\ \A i, j \in DOMAIN b : i < j /\ b[j].due => b[i].due
      /\ \A i \in DOMAIN b : b[i].decoded => b[i].mbit /\ b[i].due
  BY DEF Waits
<1>. HIDE DEF t, r, v, k
<1>5. ASSUME NEW j \in 1 .. k, j > 1 PROVE t < w[j]
  <2>1. 1 \in DOMAIN w /\ j \in DOMAIN w
    BY <1>4
  <2>2. w[1] < w[j]
    BY <1>w, <1>5, <2>1
  <2>. QED BY <1>4, <2>2
<1>6. ASSUME NEW i \in DOMAIN v, NEW j \in DOMAIN v, i < j PROVE v[i] < v[j]
  <2>0. k \in Nat \ {0} /\ i \in 1 .. k - 1 /\ j \in 1 .. k - 1
    BY ONLY <1>4, <1>6
  <2>1. i + 1 \in DOMAIN w /\ j + 1 \in DOMAIN w /\ i + 1 < j + 1
    <3>1. i < j
      BY <1>6
    <3>2. i + 1 \in 1 .. k /\ j + 1 \in 1 .. k /\ i + 1 < j + 1
      BY ONLY <2>0, <3>1
    <3>. QED BY ONLY <1>4, <3>2
  <2>2. w[i + 1] < w[j + 1]
    BY <1>w, <2>1
  <2>3. v[i] = w[i + 1] /\ v[j] = w[j + 1]
    BY ONLY <1>4, <2>0
  <2>. QED BY <2>2, <2>3
<1>7. \A j \in DOMAIN v : \E i \in DOMAIN r : r[i].ts = v[j]
  <2>. SUFFICES ASSUME NEW j \in DOMAIN v PROVE \E i \in DOMAIN r : r[i].ts = v[j]
    OBVIOUS
  <2>1. v[j] = w[j + 1] /\ j + 1 \in DOMAIN w
    BY <1>4
  <2>2. PICK i \in DOMAIN b : b[i].ts = w[j + 1]
    BY <1>w, <2>1
  <2>. QED BY <1>2, <2>1, <2>2
<1>8. \A i \in DOMAIN r : ~r[i].due <=> \E j \in DOMAIN v : v[j] = r[i].ts
  <2>. SUFFICES ASSUME NEW i \in DOMAIN b
                PROVE ~r[i].due <=> \E j \in DOMAIN v : v[j] = b[i].ts
    BY <1>2
  <2>1. ASSUME NEW j \in DOMAIN v, v[j] = b[i].ts
        PROVE  ~b[i].due /\ b[i].ts # t
    <3>1. j + 1 \in DOMAIN w /\ w[j + 1] = b[i].ts /\ j + 1 \in 1 .. k /\ j + 1 > 1
      BY <1>4, <2>1
    <3>2. t < b[i].ts /\ t \in Int
      BY <1>4, <1>5, <3>1
    <3>. QED BY <1>3, <1>w, <3>1, <3>2
  <2>2. ASSUME ~b[i].due, b[i].ts # t PROVE \E j \in DOMAIN v : v[j] = b[i].ts
    <3>1. PICK j \in DOMAIN w : w[j] = b[i].ts
      BY <1>w, <2>2
    <3>2. j # 1
      BY <1>4, <2>2, <3>1
    <3>3. j - 1 \in DOMAIN v /\ v[j - 1] = w[j]
      BY <1>4, <3>2
    <3>. QED BY <3>1, <3>3
  <2>. QED BY <1>1, <2>1, <2>2
<1>9. \A i, j \in DOMAIN r : i < j /\ r[j].due => r[i].due
  <2>. SUFFICES ASSUME NEW i \in DOMAIN b, NEW j \in DOMAIN b, i < j, r[j].due, ~r[i].due
                PROVE FALSE
    BY <1>2
  <2>1. ~b[i].due /\ b[i].ts # t /\ b[j].ts = t
    BY <1>1, <1>w
  <2>2. b[i].ts < t
    BY <2>1 DEF Sorted
  <2>3. PICK m \in DOMAIN w : w[m] = b[i].ts
    BY <1>w, <2>1
  <2>4. m = 1 \/ t < w[m]
    BY <1>4, <1>5
  <2>. QED BY <1>3, <1>4, <2>1, <2>2, <2>3, <2>4
<1>10. \A i \in DOMAIN r : r[i].decoded => r[i].mbit /\ r[i].due
  BY <1>1, <1>2, <1>w
<1>11. Waits(r, v)
  BY <1>6, <1>7, <1>8, <1>9, <1>10 DEF Waits
<1>. QED BY <1>11 DEF r, v, t

\* Marking a node that is complete and due.
LEMMA WaitsMarked ==
  ASSUME NEW b \in Seq(NodeType), NEW w, Waits(b, w), NEW k \in DOMAIN b, b[k].mbit, b[k].due
  PROVE  Waits(MarkDecoded(b, k), w)
<1>. DEFINE r == MarkDecoded(b, k)
<1>1. /\ Flagged(b, r)
      /\ \A i \in DOMAIN b : /\ r[i].due = b[i].due
                             /\ r[i].decoded <=> b[i].decoded \/ i = k
  BY MarkedNode
<1>2. /\ DOMAIN r = DOMAIN b
      /\ \A i \in DOMAIN b : r[i].ts = b[i].ts /\ r[i].mbit = b[i].mbit
  BY <1>1 DEF Flagged
<1>w. /\ \A i, j \in DOMAIN w : i < j => w[i] < w[j]
      /\ \A j \in DOMAIN w : \E i \in DOMAIN b : b[i].ts = w[j]
      /\ \A i \in DOMAIN b : ~b[i].due <=> \E j \in DOMAIN w : w[j] = b[i].ts
      /\ \A i, j \in DOMAIN b : i < j /\ b[j].due => b[i].due
      /\ \A i \in DOMAIN b : b[i].decoded => b[i].mbit /\ b[i].due
  BY DEF Waits
<1>. HIDE DEF r
<1>3. ASSUME NEW j \in DOMAIN w PROVE \E i \in DOMAIN r : r[i].ts = w[j]
  BY <1>2, <1>w
<1>4. ASSUME NEW i \in DOMAIN r
      PROVE  ~r[i].due <=> \E j \in DOMAIN w : w[j] = r[i].ts
  <2>1. r[i].due = b[i].due /\ r[i].ts = b[i].ts /\ i \in DOMAIN b
    BY <1>1, <1>2
  <2>2. ~b[i].due <=> \E j \in DOMAIN w : w[j] = b[i].ts
    BY <1>w, <2>1
  <2>. QED BY <2>1, <2>2
<1>5. ASSUME NEW i \in DOMAIN r, NEW j \in DOMAIN r, i < j, r[j].due PROVE r[i].due
  BY <1>1, <1>2, <1>5, <1>w
<1>6. ASSUME NEW i \in DOMAIN r, r[i].decoded PROVE r[i].mbit /\ r[i].due
  BY <1>1, <1>2, <1>6, <1>w
<1>7. Waits(r, w)
  BY <1>w, <1>3, <1>4, <1>5, <1>6 DEF Waits
<1>. QED BY <1>7 DEF r

\* A head that is decoded does not wait any more.
LEMMA WaitsRemoved ==
  ASSUME NEW b \in Seq(NodeType), b # <<>>, NEW w, Waits(b, w)
  PROVE  Waits(RemoveFirst(b), w)
<1>. DEFINE r == RemoveFirst(b)
<1>1. /\ r \in Seq(NodeType)
      /\ b[1].decoded => Len(r) = Len(b) - 1 /\ \A i \in 1 .. Len(r) : r[i] = b[i + 1]
      /\ ~b[1].decoded => r = b
  BY RemovedHead
<1>. HIDE DEF r
<1>2. CASE b[1].decoded
  <2>1. /\ 1 \in DOMAIN b
        /\ \A i \in DOMAIN b : i - 1 \in DOMAIN r \/ i = 1
        /\ \A i \in DOMAIN r : i + 1 \in DOMAIN b /\ r[i] = b[i + 1] /\ i \in Nat
        /\ \A i \in DOMAIN b : i \in Nat
    BY <1>1, <1>2
  <2>w. /\ \A i, j \in DOMAIN w : i < j => w[i] < w[j]
        /\ \A j \in DOMAIN w : \E i \in DOMAIN b : b[i].ts = w[j]
        /\ \A i \in DOMAIN b : ~b[i].due <=> \E j \in DOMAIN w : w[j] = b[i].ts
        /\ \A i, j \in DOMAIN b : i < j /\ b[j].due => b[i].due
        /\ \A i \in DOMAIN b : b[i].decoded => b[i].mbit /\ b[i].due
    BY DEF Waits
  <2>2. b[1].due
    BY <1>2, <2>1, <2>w
  <2>3. ASSUME NEW j \in DOMAIN w PROVE \E i \in DOMAIN r : r[i].ts = w[j]
    <3>1. PICK i \in DOMAIN b : b[i].ts = w[j]
      BY <2>w
    <3>2. i # 1
      BY <2>2, <2>w, <3>1
    <3>3. i - 1 \in DOMAIN r /\ (i - 1) + 1 = i
      BY <2>1, <3>2
    <3>4. r[i - 1] = b[i]
      BY <2>1, <3>3
    <3>. QED BY <3>1, <3>3, <3>4
  <2>4. ASSUME NEW i \in DOMAIN r
        PROVE  ~r[i].due <=> \E j \in DOMAIN w : w[j] = r[i].ts
    <3>1. i + 1 \in DOMAIN b /\ r[i] = b[i + 1]
      BY <2>1
    <3>2. ~b[i + 1].due <=> \E j \in DOMAIN w : w[j] = b[i + 1].ts
      BY <2>w, <3>1
    <3>. QED BY <3>1, <3>2
  <2>5. ASSUME NEW i \in DOMAIN r, NEW j \in DOMAIN r, i < j, r[j].due PROVE r[i].due
    <3>1. /\ i + 1 \in DOMAIN b /\ r[i] = b[i + 1] /\ j + 1 \in DOMAIN b /\ r[j] = b[j + 1]
          /\ i + 1 < j + 1
      BY <2>1, <2>5
    <3>. QED BY <2>5, <2>w, <3>1
  <2>6. ASSUME NEW i \in DOMAIN r, r[i].decoded PROVE r[i].mbit /\ r[i].due
    BY <2>1, <2>6, <2>w
  <2>7. Waits(r, w)
    BY <2>w, <2>3, <2>4, <2>5, <2>6 DEF Waits
  <2>. QED BY <2>7 DEF r
<1>3. CASE ~b[1].decoded
  BY <1>1, <1>3 DEF r
<1>. QED BY <1>2, <1>3

\* The packets arrive in order, and their nodes wait in order, at first...
LEMMA WaitInit == Init => WaitInv
BY DEF Init, WaitInv

\* ... and after every step.
LEMMA WaitNext ==
  ASSUME Orderly
  PROVE  BufferInv /\ WaitInv /\ [Next]_vars => WaitInv'
<1>. SUFFICES ASSUME BufferInv, WaitInv, [Next]_vars PROVE WaitInv'
  OBVIOUS
<1>0. /\ buf \in Seq(NodeType) /\ waiting \in Seq(Int) /\ Sorted(buf)
      /\ pc \in {"start", "commit"} => buf # <<>>
      /\ Arrived(buf, Gone) /\ Waits(buf, waiting)
  <2>1. waiting \in Seq(0 .. TsMod - 1) /\ 0 .. TsMod - 1 \subseteq Int
    BY DEF BufferInv
  <2>2. waiting \in Seq(Int)
    BY ONLY <2>1, SeqMonotonic
  <2>. QED BY <2>2, WaitParts DEF BufferInv
<1>1. flight' \subseteq {sent'} /\ Gone \subseteq Gone'
  BY LastInFlight
<1>2. SUFFICES Arrived(buf', Gone') /\ Waits(buf', waiting')
  BY <1>1 DEF WaitInv, Arrived, Waits
<1>3. ASSUME \A i \in DOMAIN buf' : \E j \in DOMAIN buf : buf'[i].ts = buf[j].ts
      PROVE  Arrived(buf', Gone')
  BY <1>0, <1>1, <1>3, ArrivedGrows
<1>4. ASSUME NEW b \in Seq(NodeType), NEW r, Flagged(b, r)
      PROVE  \A i \in DOMAIN r : i \in DOMAIN b /\ r[i].ts = b[i].ts
  <2>1. r \in Seq(NodeType) /\ Len(r) = Len(b) /\ \A i \in DOMAIN b : r[i].ts = b[i].ts
    BY <1>4 DEF Flagged
  <2>. QED BY <2>1
<1>5. CASE Send \/ Lose \/ Decoder \/ Caller \/ PassBegin \/ PassNothing \/ StartStream
           \/ StartCrashes \/ PutStep \/ UNCHANGED vars
  <2>1. buf' = buf /\ waiting' = waiting
    BY <1>5 DEF Send, Lose, Decoder, TakeCoded, ReleaseCoded, ReleaseStep, Caller, Deactivate,
                ResumeTest, Resume, PassBegin, PassNothing, StartStream, StartCrashes, PutStep,
                vars, bufVars
  <2>. QED BY <1>0, <1>3, <2>1
<1>6. CASE Receive
  <2>1. PICK n \in flight :
               /\ flight' = flight \ {n}
               /\ buf' = Insert(buf, n)
               /\ waiting' = IF HasNode(buf, n) THEN waiting ELSE Append(waiting, TsOf(n))
    BY <1>6 DEF Receive
  <2>2. sent' = sent
    BY <1>6 DEF Receive
  <2>3. Gone' = Gone \union {n}
    <3>1. Gone' = 1 .. sent \ (flight \ {n})
      BY <2>1, <2>2 DEF Gone
    <3>. QED BY <3>1, TakenPacket
  <2>. QED BY <2>1, <2>3, WaitsTaken
<1>7. CASE Elapse
  <2>1. waiting # <<>> /\ buf' = PassPlayout(buf, Head(waiting)) /\ waiting' = Tail(waiting)
    BY <1>7 DEF Elapse
  <2>2. Flagged(buf, buf')
    BY <1>0, <2>1, PassedNodes
  <2>3. Waits(buf', waiting')
    BY <1>0, <2>1, WaitsElapsed
  <2>. QED BY <1>0, <1>3, <1>4, <2>2, <2>3
<1>8. CASE PassRefuses \/ PassDecodes
  <2>. DEFINE k == FirstReady(buf)
  <2>1. k # 0 /\ buf' = MarkDecoded(buf, k) /\ waiting' = waiting
    BY <1>8 DEF PassRefuses, PassDecodes
  <2>2. k \in DOMAIN buf /\ buf[k].due /\ buf[k].mbit
    BY <1>0, <2>1, FirstIsReady DEF Ready, Complete
  <2>. HIDE DEF k
  <2>3. Flagged(buf, buf') /\ Waits(buf', waiting')
    BY <1>0, <2>1, <2>2, MarkedNode, WaitsMarked
  <2>. QED BY <1>0, <1>3, <1>4, <2>3
<1>9. ASSUME NEW b \in Seq(NodeType), b # <<>>, \A i \in DOMAIN b : \E j \in DOMAIN buf : b[i].ts = buf[j].ts,
             buf' = RemoveFirst(b)
      PROVE  Arrived(buf', Gone')
  <2>1. /\ buf' \in Seq(NodeType)
        /\ b[1].decoded => Len(buf') = Len(b) - 1 /\ \A i \in 1 .. Len(buf') : buf'[i] = b[i + 1]
        /\ ~b[1].decoded => buf' = b
    BY <1>9, RemovedHead
  <2>2. ASSUME NEW i \in DOMAIN buf' PROVE \E j \in DOMAIN b : buf'[i] = b[j]
    <3>1. CASE b[1].decoded
      <4>1. i + 1 \in DOMAIN b /\ buf'[i] = b[i + 1]
        BY <2>1, <3>1
      <4>. QED BY <4>1
    <3>2. CASE ~b[1].decoded
      BY <2>1, <3>2
    <3>. QED BY <3>1, <3>2
  <2>3. \A i \in DOMAIN buf' : \E j \in DOMAIN buf : buf'[i].ts = buf[j].ts
    BY <1>9, <2>2
  <2>. QED BY <1>3, <2>3
<1>10. CASE PassFull
  <2>1. /\ buf # <<>> /\ buf[1].due /\ buf[1].mbit /\ waiting' = waiting
        /\ buf' = RemoveFirst(MarkDecoded(buf, 1))
    BY <1>10 DEF PassFull, HeadComplete, Complete
  <2>. DEFINE b == MarkDecoded(buf, 1)
  <2>2. 1 \in DOMAIN buf
    BY <1>0, <2>1
  <2>3. Flagged(buf, b) /\ Waits(b, waiting)
    BY <1>0, <2>1, <2>2, MarkedNode, WaitsMarked
  <2>4. buf' = RemoveFirst(b)
    BY <2>1
  <2>. HIDE DEF b
  <2>5. b \in Seq(NodeType) /\ b # <<>>
    BY <1>0, <2>1, <2>3, FlaggedHolds DEF Flagged
  <2>6. \A i \in DOMAIN b : \E j \in DOMAIN buf : b[i].ts = buf[j].ts
    BY <1>0, <1>4, <2>3
  <2>7. Waits(buf', waiting')
    BY <2>1, <2>3, <2>4, <2>5, WaitsRemoved
  <2>. QED BY <1>9, <2>4, <2>5, <2>6, <2>7
<1>11. CASE Commit
  <2>1. buf # <<>> /\ buf' = RemoveFirst(buf) /\ waiting' = waiting
    BY <1>0, <1>11 DEF Commit
  <2>2. Waits(buf', waiting')
    BY <1>0, <2>1, WaitsRemoved
  <2>. QED BY <1>0, <1>9, <2>1, <2>2
<1>. QED BY <1>5, <1>6, <1>7, <1>8, <1>10, <1>11 DEF Next, Receiver

\* The marker of a frame has arrived before the frame is settled.
LEMMA GoneInit == Init => GoneInv
BY DEF Init, GoneInv

\* ... and every step keeps it so.
LEMMA GoneNext ==
  ASSUME Orderly
  PROVE  BufferInv /\ StreamInv /\ GoneInv /\ [Next]_vars => GoneInv'
<1>. SUFFICES ASSUME BufferInv, StreamInv, GoneInv, [Next]_vars PROVE GoneInv'
  OBVIOUS
<1>0. /\ \A f \in 1 .. Frames : outcomes[f] > 0 => f * PacketsPer \in Gone
      /\ pc \in {"start", "commit"} => coded[ring.rear] * PacketsPer \in Gone
  BY DEF GoneInv
<1>1. Gone \subseteq Gone'
  BY NetworkStep
<1>2. /\ ring.rear \in Slots /\ coded \in [Slots -> 0 .. Frames]
      /\ outcomes \in [1 .. Frames -> Nat]
      /\ pc \in {"start", "commit"} => coded[ring.rear] \in 1 .. Frames
  BY DEF StreamInv, RingInv, RingOk, Rings, StreamTypes, PassInv
<1>3. \A i \in DOMAIN buf :
        /\ FrameIn(buf[i]) \in 1 .. Frames
        /\ FrameOfTs(buf[i].ts) = FrameIn(buf[i])
        /\ buf[i].mbit => FrameIn(buf[i]) * PacketsPer \in Gone
  BY NodesInOrder
<1>4. ASSUME NEW f \in 1 .. Frames, f * PacketsPer \in Gone, Settle(f),
             pc' \notin {"start", "commit"}
      PROVE  GoneInv'
  <2>1. \A h \in 1 .. Frames : h # f => outcomes'[h] = outcomes[h]
    BY <1>2, <1>4 DEF Settle
  <2>2. \A h \in 1 .. Frames : outcomes'[h] > 0 => h * PacketsPer \in Gone'
    BY <1>0, <1>1, <1>4, <2>1
  <2>. QED BY <1>4, <2>2 DEF GoneInv
<1>5. ASSUME outcomes' = outcomes, pc' \notin {"start", "commit"} PROVE GoneInv'
  BY <1>0, <1>1, <1>5 DEF GoneInv
<1>6. ASSUME outcomes' = outcomes, coded' = coded,
             pc \in {"start", "commit"} => ring'.rear = ring.rear,
             pc' \in {"start", "commit"} => pc \in {"start", "commit"}
      PROVE  GoneInv'
  BY <1>0, <1>1, <1>6 DEF GoneInv
<1>7. CASE Send \/ Lose \/ Elapse \/ Caller \/ UNCHANGED vars \/ Receive \/ StartStream
  <2>1. outcomes' = outcomes /\ ring' = ring /\ coded' = coded
        /\ (pc' \in {"start", "commit"} => pc \in {"start", "commit"})
    BY <1>7 DEF Send, Lose, Elapse, Caller, Deactivate, ResumeTest, Resume, Receive,
                Receiving, StartStream, vars, ringVars, ghostVars
  <2>. QED BY <1>6, <2>1
<1>8. CASE Decoder \/ PutStep
  <2>1. outcomes' = outcomes /\ coded' = coded /\ pc' = pc
    BY <1>8 DEF Decoder, TakeCoded, ReleaseCoded, ReleaseStep, PutStep, ghostVars
  <2>. QED BY <1>6, <1>8, <2>1, RearStays DEF StreamInv
<1>9. CASE PassBegin \/ PassNothing \/ StartCrashes
  <2>1. outcomes' = outcomes /\ pc' \in {"recv", "pass", "crashed"}
    BY <1>9 DEF PassBegin, PassNothing, StartCrashes, ghostVars
  <2>. QED BY <1>5, <2>1
<1>10. CASE PassFull
  <2>1. buf # <<>> /\ buf[1].mbit /\ Settle(FrameOfTs(buf[1].ts)) /\ pc' = "recv"
    BY <1>10 DEF PassFull, Receiving, HeadComplete, Complete
  <2>2. 1 \in DOMAIN buf
    BY <2>1 DEF BufferInv
  <2>. QED BY <1>3, <1>4, <2>1, <2>2
<1>11. ASSUME FirstReady(buf) # 0
       PROVE  /\ FrameOfTs(buf[FirstReady(buf)].ts) \in 1 .. Frames
              /\ FrameOfTs(buf[FirstReady(buf)].ts) * PacketsPer \in Gone
  <2>1. buf \in Seq(NodeType)
    BY DEF BufferInv
  <2>2. FirstReady(buf) \in DOMAIN buf /\ buf[FirstReady(buf)].mbit
    BY <1>11, <2>1, FirstIsReady DEF Ready, Complete
  <2>. QED BY <1>3, <2>2
<1>12. CASE PassRefuses
  <2>1. FirstReady(buf) # 0 /\ Settle(FrameOfTs(buf[FirstReady(buf)].ts)) /\ pc' = "recv"
    BY <1>12 DEF PassRefuses
  <2>. QED BY <1>4, <1>11, <2>1
<1>13. CASE PassDecodes
  <2>. DEFINE f == FrameOfTs(buf[FirstReady(buf)].ts)
  <2>1. /\ FirstReady(buf) # 0 /\ coded' = [coded EXCEPT ![ring.rear] = f]
        /\ ring' = ring /\ outcomes' = outcomes
    BY <1>13 DEF PassDecodes, ghostVars
  <2>2. f * PacketsPer \in Gone
    BY <1>11, <2>1
  <2>. HIDE DEF f
  <2>3. coded'[ring'.rear] = f
    BY <1>2, <2>1
  <2>. QED BY <1>0, <1>1, <2>1, <2>2, <2>3 DEF GoneInv
<1>14. CASE Commit
  <2>1. pc = "commit" /\ pc' = "recv" /\ Settle(coded[ring.rear])
    BY <1>14 DEF Commit
  <2>. QED BY <1>0, <1>2, <1>4, <2>1
<1>. QED BY <1>7, <1>8, <1>9, <1>10, <1>12, <1>13, <1>14 DEF Next, Receiver

-----------------------------------------------------------------------------
(***************************************************************************)
(* The frames are committed in order.                                      *)
(***************************************************************************)
\* A frame that is older than every node that is open.
Older(f, b) == \A k \in DOMAIN b : Open(b, k) => f < FrameIn(b[k])

\* The nodes of r that are open were open in b.
OpensStay(b, r) ==
  \A k \in DOMAIN r : Open(r, k) => \E j \in DOMAIN b : Open(b, j) /\ r[k].ts = b[j].ts

\* Such a frame stays older if no node opens.
LEMMA OlderStays ==
  ASSUME NEW f, NEW b, NEW r, Older(f, b), OpensStay(b, r)
  PROVE  Older(f, r)
<1>. SUFFICES ASSUME NEW k \in DOMAIN r, Open(r, k) PROVE f < FrameIn(r[k])
  BY DEF Older
<1>1. PICK j \in DOMAIN b : Open(b, j) /\ r[k].ts = b[j].ts
  BY DEF OpensStay
<1>2. FrameIn(r[k]) = FrameIn(b[j])
  BY <1>1 DEF FrameIn
<1>. QED BY <1>1, <1>2 DEF Older

\* A node that is marked does not open.
LEMMA OpensFlagged ==
  ASSUME NEW b \in Seq(NodeType), NEW r, Flagged(b, r),
         \A i \in DOMAIN b : b[i].decoded => r[i].decoded
  PROVE  OpensStay(b, r)
<1>1. /\ r \in Seq(NodeType) /\ Len(r) = Len(b) /\ DOMAIN r = DOMAIN b
      /\ \A i \in DOMAIN b : r[i].ts = b[i].ts /\ r[i].mbit = b[i].mbit
  BY DEF Flagged
<1>2. ASSUME NEW k \in DOMAIN r, Open(r, k) PROVE Open(b, k)
  BY <1>1, <1>2 DEF Open
<1>. QED BY <1>1, <1>2 DEF OpensStay

\* Neither does one that moves up.
LEMMA OpensRemoved ==
  ASSUME NEW b \in Seq(NodeType), b # <<>>
  PROVE  OpensStay(b, RemoveFirst(b))
<1>. DEFINE r == RemoveFirst(b)
<1>1. /\ r \in Seq(NodeType)
      /\ b[1].decoded => Len(r) = Len(b) - 1 /\ \A i \in 1 .. Len(r) : r[i] = b[i + 1]
      /\ ~b[1].decoded => r = b
  BY RemovedHead
<1>. HIDE DEF r
<1>2. ASSUME NEW k \in DOMAIN r, Open(r, k)
      PROVE  \E j \in DOMAIN b : Open(b, j) /\ r[k].ts = b[j].ts
  <2>1. CASE b[1].decoded
    <3>1. k + 1 \in DOMAIN b /\ r[k] = b[k + 1] /\ (k = Len(r) => k + 1 = Len(b))
      BY <1>1, <2>1
    <3>2. Open(b, k + 1)
      BY <1>2, <3>1 DEF Open
    <3>. QED BY <3>1, <3>2
  <2>2. CASE ~b[1].decoded
    BY <1>1, <1>2, <2>2
  <2>. QED BY <2>1, <2>2
<1>3. OpensStay(b, r)
  BY <1>2 DEF OpensStay
<1>. QED BY <1>3 DEF r

\* A packet that is taken leaves a frame older whose marker has arrived.
LEMMA OlderTaken ==
  ASSUME Orderly, BufferInv, WaitInv, NEW n \in flight, NEW f \in 1 .. Frames,
         f * PacketsPer \in Gone, Older(f, buf)
  PROVE  Older(f, Insert(buf, n))
<1>. DEFINE r == Insert(buf, n)
            l == Len(buf)
            g == FrameOf(n)
<1>1. /\ g \in 1 .. Frames /\ TsOf(n) = TsBase + g
      /\ f < g
      /\ r \in Seq(NodeType)
      /\ Len(r) \in {l, l + 1}
      /\ \A i \in 1 .. l : /\ r[i].ts = buf[i].ts
                           /\ r[i].decoded = buf[i].decoded
                           /\ i < l \/ Len(r) = l + 1 => r[i] = buf[i]
      /\ Len(r) = l + 1 => r[l + 1] = NewNode(n)
  BY TakenInOrder
<1>2. DOMAIN buf = 1 .. l /\ l \in Nat
  BY NodesInOrder
<1>. HIDE DEF r, l, g
<1>3. ASSUME NEW k \in DOMAIN r, Open(r, k) PROVE f < FrameIn(r[k])
  <2>1. k \in 1 .. Len(r)
    BY <1>1
  <2>2. CASE k = l + 1
    <3>1. r[k] = NewNode(n)
      BY <1>1, <1>2, <2>1, <2>2
    <3>2. FrameIn(r[k]) = (TsBase + g) - TsBase
      BY <1>1, <3>1 DEF FrameIn, NewNode
    <3>. QED BY <1>1, <3>2, PacketAssumption
  <2>3. CASE k # l + 1
    <3>1. k \in 1 .. l
      BY <1>1, <1>2, <2>1, <2>3
    <3>2. /\ r[k].ts = buf[k].ts
          /\ r[k].decoded = buf[k].decoded
          /\ k < l \/ Len(r) = l + 1 => r[k] = buf[k]
      BY <1>1, <3>1
    <3>3. Open(buf, k)
      <4>1. CASE k = l
        BY <1>3, <3>2, <4>1 DEF Open, l
      <4>2. CASE k < l
        <5>1. r[k] = buf[k] /\ k # Len(r)
          BY <1>1, <1>2, <3>1, <3>2, <4>2
        <5>. QED BY <1>3, <5>1 DEF Open
      <4>. QED BY <1>2, <3>1, <4>1, <4>2
    <3>4. f < FrameIn(buf[k])
      BY <1>2, <3>1, <3>3 DEF Older
    <3>. QED BY <3>2, <3>4 DEF FrameIn
  <2>. QED BY <2>2, <2>3
<1>4. Older(f, r)
  BY <1>3 DEF Older
<1>. QED BY <1>4 DEF r

\* The frame a pass decodes is older than the nodes that stay open.
LEMMA OlderDecoded ==
  ASSUME Orderly, BufferInv, WaitInv, FirstReady(buf) # 0
  PROVE  LET k == FirstReady(buf)
         IN  /\ k \in DOMAIN buf /\ Open(buf, k) /\ ~buf[k].decoded /\ buf[k].mbit /\ buf[k].due
             /\ Older(FrameIn(buf[k]), MarkDecoded(buf, k))
<1>. DEFINE k == FirstReady(buf)
            r == MarkDecoded(buf, k)
<1>0. buf \in Seq(NodeType) /\ DOMAIN buf = 1 .. Len(buf) /\ Len(buf) \in Nat
  BY DEF BufferInv
<1>1. k \in DOMAIN buf /\ k \in Ready(buf) /\ \A i \in Ready(buf) : k <= i
  BY <1>0, FirstIsReady
<1>2. ~buf[k].decoded /\ buf[k].due /\ buf[k].mbit
  BY <1>1 DEF Ready, Complete
<1>3. Open(buf, k)
  BY <1>2 DEF Open
<1>4. /\ Len(r) = Len(buf) /\ DOMAIN r = DOMAIN buf
      /\ \A i \in DOMAIN buf : /\ r[i].ts = buf[i].ts /\ r[i].mbit = buf[i].mbit
                               /\ r[i].decoded <=> buf[i].decoded \/ i = k
  <2>1. /\ Flagged(buf, r)
        /\ \A i \in DOMAIN buf : r[i].decoded <=> buf[i].decoded \/ i = k
    BY <1>0, <1>1, MarkedNode
  <2>. HIDE DEF r, k
  <2>2. r \in Seq(NodeType)
    BY <2>1 DEF Flagged
  <2>3. Len(r) = Len(buf) /\ \A i \in DOMAIN buf : r[i].ts = buf[i].ts /\ r[i].mbit = buf[i].mbit
    BY <2>1 DEF Flagged
  <2>. QED BY <1>0, <2>1, <2>2, <2>3
<1>5. \A i, j \in DOMAIN buf : i < j /\ buf[j].due => buf[i].due
  BY DEF WaitInv
<1>6. \A i, j \in DOMAIN buf : i < j => FrameIn(buf[i]) < FrameIn(buf[j])
  BY NodesInOrder
<1>. HIDE DEF k, r
<1>7. ASSUME NEW j \in DOMAIN r, Open(r, j) PROVE FrameIn(buf[k]) < FrameIn(r[j])
  <2>1. j \in DOMAIN buf /\ j # k /\ ~buf[j].decoded /\ (buf[j].mbit \/ j = Len(buf))
    BY <1>4, <1>7 DEF Open
  <2>2. ASSUME j < k PROVE FALSE
    <3>1. buf[j].due
      BY <1>1, <1>2, <1>5, <2>1, <2>2
    <3>2. buf[j].mbit
      BY <1>0, <1>1, <2>1, <2>2
    <3>3. j \in Ready(buf)
      BY <2>1, <3>1, <3>2 DEF Ready, Complete
    <3>. QED BY <1>0, <1>1, <2>2, <3>3
  <2>3. k < j
    BY <1>0, <1>1, <2>1, <2>2
  <2>4. FrameIn(buf[k]) < FrameIn(buf[j])
    BY <1>1, <1>6, <2>1, <2>3
  <2>5. FrameIn(r[j]) = FrameIn(buf[j])
    BY <1>4, <2>1 DEF FrameIn
  <2>. QED BY <2>4, <2>5
<1>8. Older(FrameIn(buf[k]), r)
  BY <1>7 DEF Older
<1>. QED BY <1>1, <1>2, <1>3, <1>8 DEF k, r

\* The frames that are committed are in order, and stay older than the nodes
\* that are open, at first...
LEMMA CommitInit == Init => CommitInv
BY DEF Init, CommitInv, CommittedInOrder

\* ... after a step that commits nothing...
LEMMA NothingCommitted ==
  ASSUME BufferInv, StreamInv, GoneInv, CommitInv,
         committed' = committed,
         \A f \in 1 .. Frames : outcomes'[f] \in Nat /\ outcomes'[f] >= outcomes[f],
         \A f \in 1 .. Frames : f * PacketsPer \in Gone /\ Older(f, buf) => Older(f, buf'),
         pc' \in {"start", "commit"}
           => pc \in {"start", "commit"} /\ coded'[ring'.rear] = coded[ring.rear]
  PROVE  CommitInv'
<1>1. /\ committed \in Seq(1 .. Frames) /\ outcomes \in [1 .. Frames -> Nat]
      /\ pc \in {"start", "commit"} => coded[ring.rear] \in 1 .. Frames
  BY DEF StreamInv, StreamTypes, PassInv
<1>2. /\ \A f \in 1 .. Frames : outcomes[f] > 0 => f * PacketsPer \in Gone
      /\ pc \in {"start", "commit"} => coded[ring.rear] * PacketsPer \in Gone
  BY DEF GoneInv
<1>3. /\ \A i \in DOMAIN committed : outcomes[committed[i]] > 0
      /\ \A i, j \in DOMAIN committed : i < j => committed[i] < committed[j]
      /\ \A i \in DOMAIN committed, k \in DOMAIN buf :
           Open(buf, k) => committed[i] < FrameIn(buf[k])
      /\ pc \in {"start", "commit"} =>
           /\ \A i \in DOMAIN committed : committed[i] < coded[ring.rear]
           /\ \A k \in DOMAIN buf : Open(buf, k) => coded[ring.rear] < FrameIn(buf[k])
  BY DEF CommitInv, CommittedInOrder
<1>4. \A i \in DOMAIN committed : committed[i] \in 1 .. Frames
  <2>. DEFINE S == 1 .. Frames
  <2>1. committed \in Seq(S)
    BY <1>1
  <2>. HIDE DEF S
  <2>2. \A i \in DOMAIN committed : committed[i] \in S
    BY ONLY <2>1
  <2>. QED BY <2>2 DEF S
<1>5. ASSUME NEW i \in DOMAIN committed PROVE outcomes'[committed[i]] > 0
  <2>1. /\ outcomes[committed[i]] > 0 /\ outcomes[committed[i]] \in Nat
        /\ outcomes'[committed[i]] >= outcomes[committed[i]]
        /\ outcomes'[committed[i]] \in Nat
    BY <1>1, <1>3, <1>4
  <2>. QED BY ONLY <2>1
<1>6. ASSUME NEW i \in DOMAIN committed PROVE Older(committed[i], buf')
  <2>1. committed[i] \in 1 .. Frames /\ committed[i] * PacketsPer \in Gone
    BY <1>2, <1>3, <1>4
  <2>2. Older(committed[i], buf)
    BY <1>3 DEF Older
  <2>. QED BY <2>1, <2>2
<1>7. ASSUME pc' \in {"start", "commit"}
      PROVE  /\ \A i \in DOMAIN committed : committed[i] < coded'[ring'.rear]
             /\ Older(coded'[ring'.rear], buf')
  <2>1. pc \in {"start", "commit"} /\ coded'[ring'.rear] = coded[ring.rear]
    BY <1>7
  <2>2. Older(coded[ring.rear], buf)
    BY <1>3, <2>1 DEF Older
  <2>3. Older(coded[ring.rear], buf')
    BY <1>1, <1>2, <2>1, <2>2
  <2>. QED BY <1>3, <2>1, <2>3
<1>8. /\ \A i \in DOMAIN committed' : outcomes'[committed'[i]] > 0
      /\ \A i, j \in DOMAIN committed' : i < j => committed'[i] < committed'[j]
  BY <1>3, <1>5
<1>9. \A i \in DOMAIN committed', k \in DOMAIN buf' :
        Open(buf', k) => committed'[i] < FrameIn(buf'[k])
  BY <1>6 DEF Older
<1>10. pc' \in {"start", "commit"} =>
         /\ \A i \in DOMAIN committed' : committed'[i] < coded'[ring'.rear]
         /\ \A k \in DOMAIN buf' : Open(buf', k) => coded'[ring'.rear] < FrameIn(buf'[k])
  BY <1>7 DEF Older
<1>. QED BY <1>8, <1>9, <1>10 DEF CommitInv, CommittedInOrder, Open, FrameIn

\* What settling a frame does to the counts.
LEMMA Settled ==
  ASSUME StreamInv, NEW f \in 1 .. Frames, Settle(f)
  PROVE  /\ outcomes'[f] = outcomes[f] + 1
         /\ \A h \in 1 .. Frames : h # f => outcomes'[h] = outcomes[h]
         /\ \A h \in 1 .. Frames : outcomes'[h] \in Nat /\ outcomes'[h] >= outcomes[h]
<1>1. outcomes \in [1 .. Frames -> Nat]
  BY DEF StreamInv, StreamTypes
<1>2. outcomes' = [outcomes EXCEPT ![f] = @ + 1]
  BY DEF Settle
<1>. QED BY <1>1, <1>2

\* What the head of the buffer leaves when a pass finds the ring full.
LEMMA DiscardedHead ==
  ASSUME NEW b \in Seq(NodeType), b # <<>>
  PROVE  LET r == RemoveFirst(MarkDecoded(b, 1))
         IN  /\ r \in Seq(NodeType) /\ Len(r) = Len(b) - 1
             /\ \A i \in DOMAIN r : i + 1 \in DOMAIN b /\ r[i] = b[i + 1]
<1>. DEFINE m == MarkDecoded(b, 1)
            r == RemoveFirst(m)
<1>0. 1 \in DOMAIN b /\ DOMAIN b = 1 .. Len(b) /\ Len(b) \in Nat
  OBVIOUS
<1>1. Flagged(b, m) /\ m[1].decoded
  BY <1>0, MarkedNode
<1>2. m \in Seq(NodeType) /\ Len(m) = Len(b)
  BY <1>1 DEF Flagged
<1>3. \A i \in DOMAIN b : i # 1 => m[i] = b[i]
  BY DEF MarkDecoded
<1>. HIDE DEF m
<1>4. m # <<>>
  BY <1>0, <1>2
<1>5. /\ r \in Seq(NodeType) /\ Len(r) = Len(m) - 1
      /\ \A i \in 1 .. Len(r) : r[i] = m[i + 1]
  BY <1>1, <1>2, <1>4, RemovedHead
<1>. HIDE DEF r
<1>6. \A i \in DOMAIN r : i + 1 \in DOMAIN b /\ i + 1 # 1 /\ r[i] = m[i + 1]
  BY <1>0, <1>2, <1>5
<1>7. /\ r \in Seq(NodeType) /\ Len(r) = Len(b) - 1
      /\ \A i \in DOMAIN r : i + 1 \in DOMAIN b /\ r[i] = b[i + 1]
  BY <1>2, <1>3, <1>5, <1>6
<1>. QED BY <1>7 DEF r, m

\* ... after a step that decodes or commits a frame, and so after every step.
LEMMA CommitNext ==
  ASSUME Orderly
  PROVE  BufferInv /\ StreamInv /\ WaitInv /\ GoneInv /\ CommitInv /\ [Next]_vars => CommitInv'
<1>. SUFFICES ASSUME BufferInv, StreamInv, WaitInv, GoneInv, CommitInv, [Next]_vars
              PROVE  CommitInv'
  OBVIOUS
<1>0. /\ buf \in Seq(NodeType)
      /\ pc \in {"start", "commit"} => buf # <<>>
      /\ ring.rear \in Slots /\ coded \in [Slots -> 0 .. Frames]
      /\ committed \in Seq(1 .. Frames) /\ outcomes \in [1 .. Frames -> Nat]
      /\ pc \in {"start", "commit"} => coded[ring.rear] \in 1 .. Frames
  BY DEF BufferInv, StreamInv, RingInv, RingOk, Rings, StreamTypes, PassInv
<1>1. ASSUME outcomes' = outcomes
      PROVE  \A f \in 1 .. Frames : outcomes'[f] \in Nat /\ outcomes'[f] >= outcomes[f]
  <2>1. \A f \in 1 .. Frames : outcomes[f] \in Nat
    BY <1>0
  <2>. QED BY <1>1, <2>1
<1>2. ASSUME OpensStay(buf, buf')
      PROVE  \A f \in 1 .. Frames : f * PacketsPer \in Gone /\ Older(f, buf) => Older(f, buf')
  BY <1>2, OlderStays
<1>3. ASSUME buf' = buf PROVE OpensStay(buf, buf')
  BY <1>3 DEF OpensStay
<1>4. CASE Send \/ Lose \/ Caller \/ StartStream \/ StartCrashes \/ PassBegin \/ PassNothing
           \/ UNCHANGED vars
  <2>1. buf' = buf /\ committed' = committed /\ outcomes' = outcomes
    BY <1>4 DEF Send, Lose, Caller, Deactivate, ResumeTest, Resume, StartStream, StartCrashes,
                PassBegin, PassNothing, vars, bufVars, ghostVars
  <2>2. pc' \in {"start", "commit"}
          => pc \in {"start", "commit"} /\ coded'[ring'.rear] = coded[ring.rear]
    BY <1>4 DEF Send, Lose, Caller, Deactivate, ResumeTest, Resume, StartStream, StartCrashes,
                PassBegin, PassNothing, vars, ringVars
  <2>. QED BY <1>1, <1>2, <1>3, <2>1, <2>2, NothingCommitted
<1>5. CASE Decoder \/ PutStep
  <2>1. /\ buf' = buf /\ committed' = committed /\ outcomes' = outcomes
        /\ pc' = pc /\ coded' = coded
    BY <1>5 DEF Decoder, TakeCoded, ReleaseCoded, ReleaseStep, PutStep, bufVars, ghostVars
  <2>2. pc \in {"start", "commit"} => ring'.rear = ring.rear
    BY <1>5, RearStays DEF StreamInv
  <2>. QED BY <1>1, <1>2, <1>3, <2>1, <2>2, NothingCommitted
<1>6. CASE Elapse
  <2>1. /\ buf' = PassPlayout(buf, Head(waiting)) /\ committed' = committed
        /\ outcomes' = outcomes /\ pc' = pc /\ coded' = coded /\ ring' = ring
    BY <1>6 DEF Elapse, ringVars, ghostVars
  <2>2. OpensStay(buf, buf')
    BY <1>0, <2>1, PassedNodes, OpensFlagged
  <2>. QED BY <1>1, <1>2, <2>1, <2>2, NothingCommitted
<1>7. CASE Receive
  <2>1. PICK n \in flight : buf' = Insert(buf, n)
    BY <1>7 DEF Receive
  <2>2. /\ committed' = committed /\ outcomes' = outcomes /\ pc' = pc
        /\ coded' = coded /\ ring' = ring
    BY <1>7 DEF Receive, ringVars, ghostVars
  <2>3. \A f \in 1 .. Frames : f * PacketsPer \in Gone /\ Older(f, buf) => Older(f, buf')
    BY <2>1, OlderTaken
  <2>. QED BY <1>1, <2>2, <2>3, NothingCommitted
<1>8. CASE PassFull
  <2>1. /\ buf # <<>> /\ buf' = RemoveFirst(MarkDecoded(buf, 1)) /\ committed' = committed
        /\ pc' = "recv" /\ Settle(FrameOfTs(buf[1].ts))
    BY <1>8 DEF PassFull, Receiving, HeadComplete
  <2>2. FrameOfTs(buf[1].ts) \in 1 .. Frames
    <3>1. 1 \in DOMAIN buf
      BY <1>0, <2>1
    <3>2. FrameOfTs(buf[1].ts) = FrameIn(buf[1]) /\ FrameIn(buf[1]) \in 1 .. Frames
      BY <3>1, NodesInOrder
    <3>. QED BY <3>2
  <2>3. \A f \in 1 .. Frames : outcomes'[f] \in Nat /\ outcomes'[f] >= outcomes[f]
    BY <2>1, <2>2, Settled
  <2>4. /\ buf' \in Seq(NodeType) /\ Len(buf') = Len(buf) - 1
        /\ \A i \in DOMAIN buf' : i + 1 \in DOMAIN buf /\ buf'[i] = buf[i + 1]
    BY <1>0, <2>1, DiscardedHead
  <2>5. ASSUME NEW k \in DOMAIN buf', Open(buf', k)
        PROVE  \E j \in DOMAIN buf : Open(buf, j) /\ buf'[k].ts = buf[j].ts
    <3>1. k + 1 \in DOMAIN buf /\ buf'[k] = buf[k + 1] /\ (k = Len(buf') => k + 1 = Len(buf))
      BY <1>0, <2>4
    <3>2. Open(buf, k + 1)
      BY <2>5, <3>1 DEF Open
    <3>. QED BY <3>1, <3>2
  <2>6. OpensStay(buf, buf')
    BY <2>5 DEF OpensStay
  <2>. QED BY <1>2, <2>1, <2>3, <2>6, NothingCommitted
<1>9. CASE PassRefuses
  <2>. DEFINE k == FirstReady(buf)
  <2>1. /\ k # 0 /\ buf' = MarkDecoded(buf, k) /\ committed' = committed
        /\ pc' = "recv" /\ Settle(FrameOfTs(buf[k].ts))
    BY <1>9 DEF PassRefuses
  <2>2. k \in DOMAIN buf
    BY <2>1, OlderDecoded
  <2>. HIDE DEF k
  <2>3. FrameOfTs(buf[k].ts) \in 1 .. Frames
    <3>1. FrameOfTs(buf[k].ts) = FrameIn(buf[k]) /\ FrameIn(buf[k]) \in 1 .. Frames
      BY <2>2, NodesInOrder
    <3>. QED BY <3>1
  <2>4. \A f \in 1 .. Frames : outcomes'[f] \in Nat /\ outcomes'[f] >= outcomes[f]
    BY <2>1, <2>3, Settled
  <2>5. OpensStay(buf, buf')
    BY <1>0, <2>1, <2>2, MarkedNode, OpensFlagged
  <2>. QED BY <1>2, <2>1, <2>4, <2>5, NothingCommitted
<1>c. /\ \A i \in DOMAIN committed : outcomes[committed[i]] > 0 /\ committed[i] \in 1 .. Frames
      /\ \A i, j \in DOMAIN committed : i < j => committed[i] < committed[j]
      /\ \A i \in DOMAIN committed : Older(committed[i], buf)
      /\ pc \in {"start", "commit"} =>
           /\ \A i \in DOMAIN committed : committed[i] < coded[ring.rear]
           /\ Older(coded[ring.rear], buf)
  <2>1. \A i \in DOMAIN committed : committed[i] \in 1 .. Frames
    <3>. DEFINE S == 1 .. Frames
    <3>1. committed \in Seq(S)
      BY <1>0
    <3>. HIDE DEF S
    <3>2. \A i \in DOMAIN committed : committed[i] \in S
      BY ONLY <3>1
    <3>. QED BY <3>2 DEF S
  <2>. QED BY <2>1 DEF CommitInv, CommittedInOrder, Older
<1>10. CASE PassDecodes
  <2>. DEFINE k == FirstReady(buf)
              f == FrameOfTs(buf[k].ts)
  <2>1. /\ k # 0 /\ coded' = [coded EXCEPT ![ring.rear] = f]
        /\ ring' = ring /\ outcomes' = outcomes /\ committed' = committed
        /\ buf' = MarkDecoded(buf, k)
    BY <1>10 DEF PassDecodes, ghostVars
  <2>2. k \in DOMAIN buf /\ Open(buf, k) /\ Older(FrameIn(buf[k]), buf')
    BY <2>1, OlderDecoded
  <2>. HIDE DEF k
  <2>3. f = FrameIn(buf[k])
    BY <2>2, NodesInOrder
  <2>. HIDE DEF f
  <2>4. coded'[ring'.rear] = f
    BY <1>0, <2>1
  <2>5. OpensStay(buf, buf')
    BY <1>0, <2>1, <2>2, MarkedNode, OpensFlagged
  <2>6. ASSUME NEW i \in DOMAIN committed
        PROVE  committed[i] < f /\ Older(committed[i], buf')
    <3>1. Older(committed[i], buf)
      BY <1>c
    <3>2. committed[i] < f
      BY <2>2, <2>3, <3>1 DEF Older
    <3>. QED BY <2>5, <3>1, <3>2, OlderStays
  <2>7. Older(f, buf')
    BY <2>2, <2>3
  <2>8. /\ \A i \in DOMAIN committed' : outcomes'[committed'[i]] > 0
        /\ \A i, j \in DOMAIN committed' : i < j => committed'[i] < committed'[j]
    BY <1>c, <2>1
  <2>9. \A i \in DOMAIN committed', j \in DOMAIN buf' :
          Open(buf', j) => committed'[i] < FrameIn(buf'[j])
    BY <2>1, <2>6 DEF Older
  <2>10. /\ \A i \in DOMAIN committed' : committed'[i] < coded'[ring'.rear]
         /\ \A j \in DOMAIN buf' : Open(buf', j) => coded'[ring'.rear] < FrameIn(buf'[j])
    BY <2>1, <2>4, <2>6, <2>7 DEF Older
  <2>. QED BY <2>8, <2>9, <2>10 DEF CommitInv, CommittedInOrder, Open, FrameIn
<1>11. CASE Commit
  <2>. DEFINE f == coded[ring.rear]
  <2>1. /\ pc = "commit" /\ Settle(f) /\ buf' = RemoveFirst(buf) /\ pc' = "recv"
        /\ committed' \in {committed, Append(committed, f)}
    BY <1>11 DEF Commit
  <2>2. f \in 1 .. Frames
    BY <1>0, <2>1
  <2>3. /\ outcomes'[f] = outcomes[f] + 1
        /\ \A h \in 1 .. Frames : outcomes[h] \in Nat /\ outcomes'[h] \in Nat
                                  /\ outcomes'[h] >= outcomes[h]
    BY <1>0, <2>1, <2>2, Settled
  <2>4. OpensStay(buf, buf')
    BY <1>0, <2>1, OpensRemoved
  <2>5. /\ \A i \in DOMAIN committed : committed[i] < f /\ Older(committed[i], buf')
        /\ Older(f, buf')
    BY <1>c, <2>1, <2>4, OlderStays
  <2>. HIDE DEF f
  <2>6. CASE committed' = committed
    <3>1. \A h \in 1 .. Frames : h * PacketsPer \in Gone /\ Older(h, buf) => Older(h, buf')
      BY <2>4, OlderStays
    <3>. QED BY <2>1, <2>3, <2>6, <3>1, NothingCommitted
  <2>7. CASE committed' = Append(committed, f)
    <3>. DEFINE n == Len(committed)
    <3>1. /\ n \in Nat /\ DOMAIN committed = 1 .. n /\ DOMAIN committed' = 1 .. n + 1
          /\ \A i \in 1 .. n : committed'[i] = committed[i]
          /\ committed'[n + 1] = f
      BY <1>0, <2>7
    <3>. HIDE DEF n
    <3>2. ASSUME NEW i \in DOMAIN committed'
          PROVE  outcomes'[committed'[i]] > 0 /\ Older(committed'[i], buf')
      <4>1. CASE i = n + 1
        <5>1. outcomes'[f] > 0
          BY <2>2, <2>3
        <5>. QED BY <2>5, <3>1, <4>1, <5>1
      <4>2. CASE i # n + 1
        <5>1. i \in DOMAIN committed /\ committed'[i] = committed[i]
          BY <3>1, <4>2
        <5>2. outcomes[committed[i]] > 0 /\ committed[i] \in 1 .. Frames
          BY <1>c, <5>1
        <5>3. outcomes'[committed[i]] > 0
          BY <2>3, <5>2
        <5>. QED BY <2>5, <5>1, <5>3
      <4>. QED BY <4>1, <4>2
    <3>3. ASSUME NEW i \in DOMAIN committed', NEW j \in DOMAIN committed', i < j
          PROVE  committed'[i] < committed'[j]
      <4>1. i \in DOMAIN committed /\ committed'[i] = committed[i]
        BY <3>1, <3>3
      <4>2. CASE j = n + 1
        BY <2>5, <3>1, <4>1, <4>2
      <4>3. CASE j # n + 1
        <5>1. j \in DOMAIN committed /\ committed'[j] = committed[j]
          BY <3>1, <4>3
        <5>. QED BY <1>c, <3>3, <4>1, <5>1
      <4>. QED BY <4>2, <4>3
    <3>4. \A i \in DOMAIN committed', j \in DOMAIN buf' :
            Open(buf', j) => committed'[i] < FrameIn(buf'[j])
      BY <3>2 DEF Older
    <3>. QED BY <2>1, <3>2, <3>3, <3>4 DEF CommitInv, CommittedInOrder, Open, FrameIn
  <2>. QED BY <2>1, <2>6, <2>7
<1>. QED BY <1>4, <1>5, <1>6, <1>7, <1>8, <1>9, <1>10, <1>11 DEF Next, Receiver

\* All of this together is invariant on a network that keeps the order.
LEMMA OrderlyAlways ==
  ASSUME Orderly
  PROVE  Spec => [](BufferInv /\ StreamInv /\ WaitInv /\ GoneInv /\ CommitInv)
<1>. DEFINE I == BufferInv /\ StreamInv /\ WaitInv /\ GoneInv /\ CommitInv
<1>1. Init => I
  BY BufferInit, StreamInit, WaitInit, GoneInit, CommitInit
<1>2. I /\ [Next]_vars => I'
  BY BufferNext, StreamNext, WaitNext, GoneNext, CommitNext
<1>. QED BY <1>1, <1>2, PTL DEF Spec

\* On a network that keeps the order of packets, with timestamps that do not
\* wrap while the frames are sent, frames are committed in the order they were
\* sent: a pass takes the oldest node that is ready, and the older nodes it
\* passes over have lost their marker.
THEOREM CommitsInOrder ==
  ASSUME Orderly
  PROVE  Spec => []CommittedInOrder
<1>1. Spec => []CommitInv
  BY OrderlyAlways, PTL
<1>2. CommitInv => CommittedInOrder
  BY DEF CommitInv
<1>. QED BY <1>1, <1>2, PTL

-----------------------------------------------------------------------------
(***************************************************************************)
(* Every frame is settled once.                                            *)
(***************************************************************************)
\* A new node does not belong to a frame that is settled.
LEMMA SettledTaken ==
  ASSUME Orderly, BufferInv, StreamInv, WaitInv, GoneInv, SettleInv, pc = "recv",
         NEW n \in flight
  PROVE  LET r == Insert(buf, n)
         IN  /\ \A i \in DOMAIN r : outcomes[FrameIn(r[i])] > 0 => r[i].decoded
             /\ r # <<>> => ~r[1].decoded
             /\ \A i \in DOMAIN r : i > 1 /\ r[i].decoded => ~r[1].mbit
<1>. DEFINE r == Insert(buf, n)
            l == Len(buf)
            g == FrameOf(n)
<1>1. /\ g \in 1 .. Frames /\ TsOf(n) = TsBase + g
      /\ \A f \in 1 .. Frames : f * PacketsPer \in Gone => f < g
      /\ r \in Seq(NodeType)
      /\ Len(r) \in {l, l + 1}
      /\ \A i \in 1 .. l : /\ r[i].ts = buf[i].ts
                           /\ r[i].decoded = buf[i].decoded
                           /\ i < l \/ Len(r) = l + 1 => r[i] = buf[i]
      /\ Len(r) = l + 1 => r[l + 1] = NewNode(n)
  BY TakenInOrder
<1>2. DOMAIN buf = 1 .. l /\ l \in Nat
  BY NodesInOrder
<1>. HIDE DEF r, l, g
<1>3. ASSUME NEW i \in DOMAIN r
      PROVE  \/ i \in 1 .. l
             \/ i = l + 1 /\ FrameIn(r[i]) = g /\ ~r[i].decoded
  <2>1. i \in 1 .. Len(r)
    BY <1>1
  <2>2. i \in 1 .. l \/ (i = l + 1 /\ Len(r) = l + 1)
    BY <1>1, <1>2, <2>1
  <2>3. ASSUME i = l + 1, Len(r) = l + 1
        PROVE  FrameIn(r[i]) = g /\ ~r[i].decoded
    <3>1. r[i] = NewNode(n)
      BY <1>1, <2>3
    <3>2. FrameIn(r[i]) = (TsBase + g) - TsBase /\ ~r[i].decoded
      BY <1>1, <3>1 DEF FrameIn, NewNode
    <3>. QED BY <1>1, <3>2, PacketAssumption
  <2>. QED BY <2>2, <2>3
<1>4. ASSUME NEW i \in DOMAIN r, outcomes[FrameIn(r[i])] > 0 PROVE r[i].decoded
  <2>1. CASE i \in 1 .. l
    <3>1. FrameIn(r[i]) = FrameIn(buf[i]) /\ r[i].decoded = buf[i].decoded
      BY <1>1, <2>1 DEF FrameIn
    <3>. QED BY <1>2, <1>4, <2>1, <3>1 DEF SettleInv
  <2>2. CASE FrameIn(r[i]) = g
    <3>1. outcomes[g] > 0
      BY <1>4, <2>2
    <3>2. g * PacketsPer \in Gone
      BY <1>1, <3>1 DEF GoneInv
    <3>. QED BY <1>1, <3>2
  <2>. QED BY <1>3, <2>1, <2>2
<1>5. ASSUME r # <<>> PROVE ~r[1].decoded
  <2>1. 1 \in DOMAIN r
    BY <1>1, <1>5
  <2>2. CASE 1 \in 1 .. l
    <3>1. buf # <<>> /\ r[1].decoded = buf[1].decoded
      BY <1>1, <1>2, <2>2
    <3>. QED BY <3>1 DEF SettleInv
  <2>. QED BY <1>3, <2>1, <2>2
<1>6. ASSUME NEW i \in DOMAIN r, i > 1, r[i].decoded PROVE ~r[1].mbit
  <2>1. i \in 1 .. l
    BY <1>3, <1>6
  <2>2. buf[i].decoded
    BY <1>1, <1>6, <2>1
  <2>3. ~buf[1].mbit
    BY <1>2, <1>6, <2>1, <2>2 DEF SettleInv
  <2>4. r[1] = buf[1]
    BY <1>1, <1>2, <1>6, <2>1
  <2>. QED BY <2>3, <2>4
<1>. QED BY <1>4, <1>5, <1>6 DEF r

\* The frames are settled at most once at first...
LEMMA SettleInit == Init => SettleInv
BY DEF Init, SettleInv, SettledOnce

\* ... and after every step, if the sender sends no frame that is refused.
LEMMA SettleNext ==
  ASSUME Orderly, "BAD" \notin FrameKinds
  PROVE  BufferInv /\ StreamInv /\ WaitInv /\ GoneInv /\ SettleInv /\ [Next]_vars => SettleInv'
<1>. SUFFICES ASSUME BufferInv, StreamInv, WaitInv, GoneInv, SettleInv, [Next]_vars
              PROVE  SettleInv'
  OBVIOUS
<1>0. /\ buf \in Seq(NodeType)
      /\ pc \in {"start", "commit"} => buf # <<>>
      /\ ring.rear \in Slots /\ coded \in [Slots -> 0 .. Frames]
      /\ outcomes \in [1 .. Frames -> Nat]
      /\ pc \in {"start", "commit"} => coded[ring.rear] \in 1 .. Frames
  BY DEF BufferInv, StreamInv, RingInv, RingOk, Rings, StreamTypes, PassInv
<1>s. /\ \A f \in 1 .. Frames : outcomes[f] <= 1
      /\ \A i \in DOMAIN buf : outcomes[FrameIn(buf[i])] > 0 => buf[i].decoded
      /\ pc \in {"start", "commit"} =>
           /\ outcomes[coded[ring.rear]] = 0
           /\ \E i \in DOMAIN buf : FrameIn(buf[i]) = coded[ring.rear] /\ buf[i].decoded
      /\ pc \in {"recv", "pass"} /\ buf # <<>> => ~buf[1].decoded
      /\ \A i \in DOMAIN buf : i > 1 /\ buf[i].decoded => ~buf[1].mbit
  BY DEF SettleInv, SettledOnce
<1>n. /\ DOMAIN buf = 1 .. Len(buf) /\ Len(buf) \in Nat
      /\ \A i \in DOMAIN buf : /\ FrameIn(buf[i]) \in 1 .. Frames
                               /\ FrameOfTs(buf[i].ts) = FrameIn(buf[i])
      /\ \A i, j \in DOMAIN buf : FrameIn(buf[i]) = FrameIn(buf[j]) => i = j
  BY NodesInOrder
<1>1. ASSUME \A f \in 1 .. Frames : outcomes'[f] <= 1,
             \A i \in DOMAIN buf' : outcomes'[FrameIn(buf'[i])] > 0 => buf'[i].decoded,
             pc' \in {"start", "commit"} =>
               /\ outcomes'[coded'[ring'.rear]] = 0
               /\ \E i \in DOMAIN buf' : FrameIn(buf'[i]) = coded'[ring'.rear] /\ buf'[i].decoded,
             pc' \in {"recv", "pass"} /\ buf' # <<>> => ~buf'[1].decoded,
             \A i \in DOMAIN buf' : i > 1 /\ buf'[i].decoded => ~buf'[1].mbit
      PROVE  SettleInv'
  BY ONLY <1>1 DEF SettleInv, SettledOnce, FrameIn
<1>2. ASSUME buf' = buf, outcomes' = outcomes,
             pc \in {"start", "commit"} => coded'[ring'.rear] = coded[ring.rear],
             pc' \in {"start", "commit"} <=> pc \in {"start", "commit"},
             pc' \in {"recv", "pass"} <=> pc \in {"recv", "pass"}
      PROVE  SettleInv'
  BY <1>1, <1>2, <1>s
<1>3. CASE Send \/ Lose \/ Caller \/ StartStream \/ PassBegin \/ PassNothing \/ UNCHANGED vars
  <2>1. /\ buf' = buf /\ outcomes' = outcomes /\ coded' = coded
        /\ pc' \in {"start", "commit"} <=> pc \in {"start", "commit"}
        /\ pc' \in {"recv", "pass"} <=> pc \in {"recv", "pass"}
    BY <1>3 DEF Send, Lose, Caller, Deactivate, ResumeTest, Resume, StartStream, PassBegin,
                Receiving, PassNothing, vars, bufVars, ringVars, ghostVars
  <2>2. pc \in {"start", "commit"} => ring' = ring
    BY <1>3 DEF Send, Lose, Caller, Deactivate, ResumeTest, Resume, StartStream, PassBegin,
                Receiving, PassNothing, vars, ringVars
  <2>. QED BY <1>2, <2>1, <2>2
<1>c. CASE StartCrashes
  <2>1. buf' = buf /\ outcomes' = outcomes /\ pc' = "crashed"
    BY <1>c DEF StartCrashes, bufVars, ghostVars
  <2>. QED BY <1>1, <1>s, <2>1
<1>4. CASE Decoder \/ PutStep
  <2>1. buf' = buf /\ outcomes' = outcomes /\ coded' = coded /\ pc' = pc
    BY <1>4 DEF Decoder, TakeCoded, ReleaseCoded, ReleaseStep, PutStep, bufVars, ghostVars
  <2>2. pc \in {"start", "commit"} => ring'.rear = ring.rear
    BY <1>4, RearStays DEF StreamInv
  <2>. QED BY <1>2, <2>1, <2>2
<1>5. CASE Elapse
  <2>1. /\ buf' = PassPlayout(buf, Head(waiting)) /\ outcomes' = outcomes
        /\ coded' = coded /\ ring' = ring /\ pc' = pc
    BY <1>5 DEF Elapse, ringVars, ghostVars
  <2>2. /\ Flagged(buf, buf')
        /\ \A i \in DOMAIN buf : buf'[i].decoded = buf[i].decoded
    BY <1>0, <2>1, PassedNodes
  <2>3. /\ DOMAIN buf' = DOMAIN buf
        /\ \A i \in DOMAIN buf : /\ FrameIn(buf'[i]) = FrameIn(buf[i])
                                 /\ buf'[i].mbit = buf[i].mbit
                                 /\ buf'[i].decoded = buf[i].decoded
        /\ buf' # <<>> => buf # <<>> /\ 1 \in DOMAIN buf
    BY <1>0, <2>2 DEF Flagged, FrameIn
  <2>4. \A i \in DOMAIN buf' : outcomes'[FrameIn(buf'[i])] > 0 => buf'[i].decoded
    BY <1>s, <2>1, <2>3
  <2>5. pc' \in {"start", "commit"} =>
          /\ outcomes'[coded'[ring'.rear]] = 0
          /\ \E i \in DOMAIN buf' : FrameIn(buf'[i]) = coded'[ring'.rear] /\ buf'[i].decoded
    BY <1>s, <2>1, <2>3
  <2>6. pc' \in {"recv", "pass"} /\ buf' # <<>> => ~buf'[1].decoded
    BY <1>s, <2>1, <2>3
  <2>7. \A i \in DOMAIN buf' : i > 1 /\ buf'[i].decoded => ~buf'[1].mbit
    <3>1. \A i \in DOMAIN buf' : 1 \in DOMAIN buf
      BY <1>n, <2>3
    <3>. QED BY <1>s, <2>3, <3>1
  <2>. QED BY <1>1, <1>s, <2>1, <2>4, <2>5, <2>6, <2>7
<1>6. CASE Receive
  <2>1. PICK n \in flight : buf' = Insert(buf, n)
    BY <1>6 DEF Receive
  <2>2. outcomes' = outcomes /\ pc = "recv" /\ pc' = "recv"
    BY <1>6 DEF Receive, Receiving, ghostVars
  <2>3. /\ \A i \in DOMAIN buf' : outcomes[FrameIn(buf'[i])] > 0 => buf'[i].decoded
        /\ buf' # <<>> => ~buf'[1].decoded
        /\ \A i \in DOMAIN buf' : i > 1 /\ buf'[i].decoded => ~buf'[1].mbit
    BY <2>1, <2>2, SettledTaken
  <2>. QED BY <1>1, <1>s, <2>2, <2>3
<1>7. ASSUME NEW f \in 1 .. Frames, outcomes[f] = 0, Settle(f)
      PROVE  /\ \A h \in 1 .. Frames : outcomes'[h] <= 1
             /\ \A h \in 1 .. Frames : h # f => outcomes'[h] = outcomes[h]
  BY <1>7, <1>s, Settled
<1>8. ASSUME 1 \in DOMAIN buf, buf' \in Seq(NodeType),
             \A i \in DOMAIN buf' : i + 1 \in DOMAIN buf /\ buf'[i] = buf[i + 1],
             \A i \in DOMAIN buf : i > 1 => ~buf[i].decoded,
             outcomes[FrameIn(buf[1])] = 0, Settle(FrameIn(buf[1])), pc' = "recv"
      PROVE  SettleInv'
  <2>. DEFINE f == FrameIn(buf[1])
  <2>1. f \in 1 .. Frames
    BY <1>8, <1>n
  <2>2. /\ \A h \in 1 .. Frames : outcomes'[h] <= 1
        /\ \A h \in 1 .. Frames : h # f => outcomes'[h] = outcomes[h]
    BY <1>7, <1>8, <2>1
  <2>3. ASSUME NEW i \in DOMAIN buf'
        PROVE  /\ ~buf'[i].decoded
               /\ outcomes'[FrameIn(buf'[i])] > 0 => buf'[i].decoded
    <3>1. i + 1 \in DOMAIN buf /\ i + 1 > 1 /\ i + 1 # 1 /\ buf'[i] = buf[i + 1]
      BY <1>8, <1>n
    <3>2. FrameIn(buf[i + 1]) # f /\ FrameIn(buf[i + 1]) \in 1 .. Frames
      BY <1>8, <1>n, <3>1
    <3>3. outcomes'[FrameIn(buf'[i])] = outcomes[FrameIn(buf[i + 1])]
      BY <2>2, <3>1, <3>2
    <3>. QED BY <1>8, <1>s, <3>1, <3>3
  <2>4. buf' # <<>> => 1 \in DOMAIN buf'
    BY <1>8
  <2>. QED BY <1>1, <1>8, <2>2, <2>3, <2>4
<1>9. CASE PassFull
  <2>1. /\ pc = "recv" /\ pc' = "recv" /\ buf # <<>> /\ buf[1].mbit
        /\ buf' = RemoveFirst(MarkDecoded(buf, 1)) /\ Settle(FrameOfTs(buf[1].ts))
    BY <1>9 DEF PassFull, Receiving, HeadComplete, Complete
  <2>2. 1 \in DOMAIN buf
    BY <1>n, <2>1
  <2>3. Settle(FrameIn(buf[1]))
    BY <1>n, <2>1, <2>2
  <2>4. outcomes[FrameIn(buf[1])] = 0
    <3>1. ~buf[1].decoded
      BY <1>s, <2>1
    <3>2. ~(outcomes[FrameIn(buf[1])] > 0)
      BY <1>s, <2>2, <3>1
    <3>3. FrameIn(buf[1]) \in 1 .. Frames
      BY <1>n, <2>2
    <3>4. outcomes[FrameIn(buf[1])] \in Nat
      BY <1>0, <3>3
    <3>. QED BY <3>2, <3>4
  <2>5. \A i \in DOMAIN buf : i > 1 => ~buf[i].decoded
    BY <1>s, <2>1
  <2>6. /\ buf' \in Seq(NodeType)
        /\ \A i \in DOMAIN buf' : i + 1 \in DOMAIN buf /\ buf'[i] = buf[i + 1]
    BY <1>0, <2>1, DiscardedHead
  <2>. QED BY <1>8, <2>1, <2>2, <2>3, <2>4, <2>5, <2>6
<1>10. CASE PassRefuses
  <2>. DEFINE k == FirstReady(buf)
  <2>1. k # 0 /\ kind[FrameOfTs(buf[k].ts)] = "BAD"
    BY <1>10 DEF PassRefuses
  <2>2. k \in DOMAIN buf
    BY <2>1, OlderDecoded
  <2>. HIDE DEF k
  <2>3. FrameOfTs(buf[k].ts) \in 1 .. Frames
    BY <1>n, <2>2
  <2>4. kind[FrameOfTs(buf[k].ts)] \in FrameKinds
    BY <2>3 DEF BufferInv
  <2>. QED BY <2>1, <2>4
<1>11. CASE PassDecodes
  <2>. DEFINE k == FirstReady(buf)
              f == FrameIn(buf[k])
  <2>1. /\ pc = "pass" /\ pc' \in {"start", "commit"}
        /\ k # 0 /\ coded' = [coded EXCEPT ![ring.rear] = FrameOfTs(buf[k].ts)]
        /\ ring' = ring /\ outcomes' = outcomes
        /\ buf' = MarkDecoded(buf, k)
    BY <1>11 DEF PassDecodes, ghostVars
  <2>2. k \in DOMAIN buf /\ ~buf[k].decoded /\ buf[k].due
    BY <2>1, OlderDecoded
  <2>r. \A i \in Ready(buf) : k <= i
    BY <1>0, <2>1, FirstIsReady
  <2>. HIDE DEF k
  <2>3. /\ Flagged(buf, buf')
        /\ \A i \in DOMAIN buf : buf'[i].decoded <=> buf[i].decoded \/ i = k
    BY <1>0, <2>1, <2>2, MarkedNode
  <2>4. /\ DOMAIN buf' = DOMAIN buf
        /\ \A i \in DOMAIN buf : /\ FrameIn(buf'[i]) = FrameIn(buf[i])
                                 /\ buf'[i].mbit = buf[i].mbit
    BY <1>0, <2>3 DEF Flagged, FrameIn
  <2>5. f \in 1 .. Frames /\ FrameOfTs(buf[k].ts) = f
    BY <1>n, <2>2
  <2>6. outcomes[f] = 0
    <3>1. ~(outcomes[f] > 0)
      BY <1>s, <2>2
    <3>2. outcomes[f] \in Nat
      BY <1>0, <2>5
    <3>. QED BY <3>1, <3>2
  <2>7. coded'[ring'.rear] = f
    BY <1>0, <2>1, <2>5
  <2>8. \A i \in DOMAIN buf' : outcomes'[FrameIn(buf'[i])] > 0 => buf'[i].decoded
    BY <1>s, <2>1, <2>3, <2>4
  <2>9. \E i \in DOMAIN buf' : FrameIn(buf'[i]) = coded'[ring'.rear] /\ buf'[i].decoded
    BY <2>2, <2>3, <2>4, <2>7
  <2>10. outcomes'[coded'[ring'.rear]] = 0
    BY <2>1, <2>6, <2>7
  <2>11. ASSUME NEW i \in DOMAIN buf', i > 1, buf'[i].decoded, buf'[1].mbit PROVE FALSE
    <3>1. i \in DOMAIN buf /\ 1 \in DOMAIN buf /\ buf # <<>>
      BY <1>n, <2>4
    <3>2. buf[1].mbit /\ ~buf[1].decoded
      BY <1>s, <2>1, <2>4, <2>11, <3>1
    <3>3. buf[1].due
      <4>1. k = 1 \/ 1 < k
        BY <1>n, <2>2
      <4>. QED BY <2>2, <3>1, <4>1 DEF WaitInv
    <3>4. 1 \in Ready(buf)
      BY <3>1, <3>2, <3>3 DEF Ready, Complete
    <3>5. k = 1
      BY <1>n, <2>2, <2>r, <3>4
    <3>6. buf[i].decoded
      BY <2>3, <2>11, <3>1, <3>5
    <3>. QED BY <1>s, <2>11, <3>1, <3>2, <3>6
  <2>12. pc' \notin {"recv", "pass"}
    BY <2>1
  <2>. QED BY <1>1, <1>s, <2>1, <2>8, <2>9, <2>10, <2>11, <2>12
<1>12. CASE Commit
  <2>. DEFINE f == coded[ring.rear]
  <2>1. pc = "commit" /\ Settle(f) /\ buf' = RemoveFirst(buf) /\ pc' = "recv" /\ buf # <<>>
    BY <1>0, <1>12 DEF Commit
  <2>2. f \in 1 .. Frames /\ outcomes[f] = 0
    BY <1>0, <1>s, <2>1
  <2>3. PICK k \in DOMAIN buf : FrameIn(buf[k]) = f /\ buf[k].decoded
    BY <1>s, <2>1
  <2>. HIDE DEF f
  <2>4. /\ buf' \in Seq(NodeType)
        /\ buf[1].decoded => Len(buf') = Len(buf) - 1 /\ \A i \in 1 .. Len(buf') : buf'[i] = buf[i + 1]
        /\ ~buf[1].decoded => buf' = buf
    BY <1>0, <2>1, RemovedHead
  <2>5. 1 \in DOMAIN buf
    BY <1>n, <2>1
  <2>6. CASE buf[1].decoded
    <3>1. buf[1].mbit
      BY <2>5, <2>6 DEF WaitInv
    <3>2. \A i \in DOMAIN buf : i > 1 => ~buf[i].decoded
      BY <1>s, <3>1
    <3>3. k = 1
      BY <1>n, <2>3, <3>2
    <3>4. \A i \in DOMAIN buf' : i + 1 \in DOMAIN buf /\ buf'[i] = buf[i + 1]
      BY <1>n, <2>4, <2>6
    <3>. QED BY <1>8, <2>1, <2>2, <2>3, <2>4, <2>5, <3>2, <3>3, <3>4
  <2>7. CASE ~buf[1].decoded
    <3>1. buf' = buf
      BY <2>4, <2>7
    <3>2. /\ \A h \in 1 .. Frames : outcomes'[h] <= 1
          /\ \A h \in 1 .. Frames : h # f => outcomes'[h] = outcomes[h]
      BY <1>7, <2>1, <2>2
    <3>3. ASSUME NEW i \in DOMAIN buf', outcomes'[FrameIn(buf'[i])] > 0 PROVE buf'[i].decoded
      <4>1. i \in DOMAIN buf /\ buf'[i] = buf[i] /\ FrameIn(buf[i]) \in 1 .. Frames
        BY <1>n, <3>1
      <4>2. CASE FrameIn(buf[i]) = f
        <5>1. i = k
          BY <1>n, <2>3, <4>1, <4>2
        <5>. QED BY <2>3, <4>1, <5>1
      <4>3. CASE FrameIn(buf[i]) # f
        <5>1. outcomes[FrameIn(buf[i])] > 0
          BY <3>2, <3>3, <4>1, <4>3
        <5>. QED BY <1>s, <4>1, <5>1
      <4>. QED BY <4>2, <4>3
    <3>. QED BY <1>1, <1>s, <2>1, <2>7, <3>1, <3>2, <3>3
  <2>. QED BY <2>6, <2>7
<1>. QED BY <1>3, <1>c, <1>4, <1>5, <1>6, <1>9, <1>10, <1>11, <1>12 DEF Next, Receiver

\* On such a network, when every frame can be decoded, no frame is committed
\* or skipped twice, and none is both decoded and counted as lost: a decoded
\* node leaves at the head, and behind a head that never gets complete it is
\* not decoded or discarded again.
THEOREM SettlesOnce ==
  ASSUME Orderly, "BAD" \notin FrameKinds
  PROVE  Spec => []SettledOnce
<1>. DEFINE I == BufferInv /\ StreamInv /\ WaitInv /\ GoneInv
<1>1. Spec => []I
  BY OrderlyAlways, PTL
<1>2. Init => SettleInv
  BY SettleInit
<1>3. I /\ SettleInv /\ [Next]_vars => SettleInv'
  BY SettleNext
<1>4. SettleInv => SettledOnce
  BY DEF SettleInv
<1>. QED BY <1>1, <1>2, <1>3, <1>4, PTL DEF Spec
=============================================================================
