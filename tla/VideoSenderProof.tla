--------------------------- MODULE VideoSenderProof ---------------------------
(***************************************************************************)
(* Proofs about VideoSender, for any number of frames and participants,    *)
(* with every access to the two rings a step of its own.                   *)
(*                                                                         *)
(* RingsInv says which thread works on which ring, NumbersInv how the      *)
(* numbers of the frames grow along the pipeline as long as no call has    *)
(* raced; together they give what the participants are sent.  ListInv is   *)
(* about the participant list and the lock on it.  The loss count is right *)
(* for the rings of two positions the program has.                         *)
(***************************************************************************)
EXTENDS VideoSender, RingProof, SequenceTheorems

-----------------------------------------------------------------------------
Encoding == {"room", "flush", "fill", "publish", "remove"}
Filling  == {"fill", "publish", "remove", "put"}
Walking  == {"walk", "send"}

\* Two rings in order, and the threads that work on them, as the flags say;
\* the main thread does not flush.
RingsInv ==
  /\ RingOk(decoded) /\ RingOk(coded)
  /\ decoded.in_process <=> main = "put"
  /\ decoded.out_process <=> encoder \in Encoding
  /\ coded.in_process <=> encoder \in Filling
  /\ coded.out_process <=> transmitter \in Walking
  /\ ~Flushing(decoded)

\* The number of the frame encoded last.
Newest == IF frame = NoFrame THEN 0 ELSE output[frame]

DataTypes ==
  /\ offered \in Nat
  /\ raw \in [Slots -> Nat] /\ stamp \in [Slots -> Nat]
  /\ index \in Outputs /\ frame \in Outputs \union {NoFrame}
  /\ output \in [Outputs -> Nat]
  /\ taken \in Nat /\ shown \in [Clients -> Nat]
  /\ todo \in Seq(Clients) /\ plist \in Seq(Clients)

\* The decoded frames that wait are newer than what was encoded, each newer
\* than the one before it, and older than what is being fed.
Held == 0 .. decoded.held - 1

Raw(i) == raw[SlotAt(decoded, i)]

RawInOrder ==
  Calm =>
    /\ Newest <= offered
    /\ main = "put" => Newest < offered
    /\ \A i \in Held : Raw(i) <= offered
    /\ main = "put" => \A i \in Held : Raw(i) < offered
    /\ \A i \in Held : i > 0 \/ encoder # "remove" => Newest < Raw(i)
    /\ \A i, j \in Held : i < j => Raw(i) < Raw(j)

\* Two output buffers: the one encoder->frame points to is not the one that
\* gets filled.
OutputInv ==
  /\ frame = index <=> encoder \in {"remove", "put"}
  /\ encoder = "starting" => frame = NoFrame
  /\ Calm /\ frame # NoFrame => Newest > 0
  /\ Calm /\ frame = NoFrame => coded.held = 0

\* Nothing that left the encoder is newer than the frame encoded last.
SentInv ==
  Calm =>
    /\ \A s \in Slots : stamp[s] <= Newest
    /\ taken <= Newest
    /\ \A c \in Clients : shown[c] <= Newest
    /\ transmitter = "send" => shown[Head(todo)] > 0 /\ shown[Head(todo)] >= taken

NumbersInv == DataTypes /\ RawInOrder /\ OutputInv /\ SentInv

\* The transmitter walks participants of the list, which stays as it is while
\* it does; who is not on the list any more is not to get a frame.
ListInv ==
  /\ todo \in Seq(Clients) /\ plist \in Seq(Clients)
  /\ \A i, j \in DOMAIN plist : plist[i] = plist[j] => i = j
  /\ SX!ToSet(plist) \intersect (unlinked \union destroyed) = {}
  /\ transmitter \notin Walking => todo = <<>>
  /\ transmitter = "send" => todo # <<>>
  /\ SX!ToSet(todo) \subseteq SX!ToSet(plist)
  /\ main \in {"stopEncoder", "joinEncoder", "destroyed"} => transmitter = "stopped"

-----------------------------------------------------------------------------
(***************************************************************************)
(* The rings.                                                              *)
(***************************************************************************)
\* Both rings start empty.
LEMMA RingsInit == Init => RingsInv
BY RingStart DEF Init, RingsInv, Encoding, Filling, Walking, ProducerBusy

\* Each thread keeps the rings in order and their flags true; a race is never
\* undone.
LEMMA RingsNext ==
  ASSUME RingsInv, [Next]_vars
  PROVE  RingsInv' /\ (decoded.raced => decoded'.raced) /\ (coded.raced => coded'.raced)
<1>. DEFINE Good == /\ RingsInv'
                    /\ decoded.raced => decoded'.raced
                    /\ coded.raced => coded'.raced
<1>a. RingOk(decoded) /\ RingOk(coded)
  BY DEF RingsInv
<1>. USE DEF RingsInv, Encoding, Filling, Walking
<1>1. ASSUME Feed PROVE Good
  <2>1. UNCHANGED <<coded, encoder, transmitter>> /\ main = "feed" /\ ~ProducerBusy(decoded)
    BY <1>1 DEF Feed, MainAt, encVars, codedVars, txVars
  <2>2. CASE MayPut(decoded)
    <3>1. decoded' = CurrIn(decoded) /\ main' = "put"
      BY <1>1, <2>2 DEF Feed
    <3>. QED BY <2>1, <2>2, <3>1, CurrInKeeps
  <2>3. CASE ~MayPut(decoded)
    BY <1>1, <2>1, <2>3 DEF Feed
  <2>. QED BY <2>2, <2>3
<1>2. ASSUME FeedPut PROVE Good
  <2>1. /\ decoded' = PutFrame(decoded) /\ main' = "feed" /\ main = "put"
        /\ UNCHANGED <<coded, encoder, transmitter>>
    BY <1>2 DEF FeedPut, MainAt, encVars, codedVars, txVars
  <2>. QED BY <2>1, PutKeeps
<1>3. ASSUME FeedStep PROVE Good
  <2>1. /\ decoded' \in ProducerSteps(decoded)
        /\ UNCHANGED <<main, coded, encoder, transmitter>>
    BY <1>3 DEF FeedStep, mainVars, encVars, codedVars, txVars
  <2>. QED BY <2>1, ProducerStepKeeps
<1>4. ASSUME StopTransmitter \/ Stopping PROVE Good
  <2>1. /\ UNCHANGED <<decoded, coded, encoder, transmitter>>
        /\ main # "put" /\ main' # "put"
    BY <1>4 DEF StopTransmitter, Stopping, JoinTransmitter, StopEncoder, Destroy,
                MainAt, rawVars, encVars, codedVars, txVars
  <2>. QED BY <2>1
<1>5. ASSUME EncoderStarts \/ EncoderExits \/ EncoderFills \/ EncoderPublishes
      PROVE  Good
  <2>1. /\ UNCHANGED <<decoded, coded, main, transmitter>>
        /\ encoder \in Encoding <=> encoder' \in Encoding
        /\ encoder \in Filling <=> encoder' \in Filling
    BY <1>5 DEF EncoderStarts, EncoderExits, EncoderFills, EncoderPublishes, EncoderAt,
                mainVars, rawVars, codedVars, txVars
  <2>. QED BY <2>1
<1>6. ASSUME EncoderTakes PROVE Good
  <2>1. /\ decoded' = CurrOut(decoded) /\ MayTake(decoded) /\ ~ConsumerBusy(decoded)
        /\ encoder = "idle" /\ encoder' = "room"
        /\ UNCHANGED <<coded, main, transmitter>>
    BY <1>6 DEF EncoderTakes, EncoderAt, mainVars, codedVars, txVars
  <2>. QED BY <2>1, CurrOutKeeps
<1>7. ASSUME EncoderAsks PROVE Good
  <2>1. /\ encoder = "room" /\ ~ProducerBusy(coded)
        /\ UNCHANGED <<decoded, main, transmitter>>
    BY <1>7 DEF EncoderAsks, EncoderAt, mainVars, rawVars, txVars
  <2>2. CASE MayPut(coded)
    <3>1. coded' = CurrIn(coded) /\ encoder' = "fill"
      BY <1>7, <2>2 DEF EncoderAsks
    <3>. QED BY <2>1, <2>2, <3>1, CurrInKeeps
  <2>3. CASE ~MayPut(coded)
    BY <1>7, <2>1, <2>3 DEF EncoderAsks
  <2>. QED BY <2>2, <2>3
<1>8. ASSUME EncoderFlushes PROVE Good
  <2>1. /\ coded' = FlushFrames(coded) /\ encoder = "flush" /\ encoder' = "room"
        /\ ~ProducerBusy(coded)
        /\ UNCHANGED <<decoded, main, transmitter>>
    BY <1>8 DEF EncoderFlushes, EncoderAt, mainVars, rawVars, txVars
  <2>. QED BY <2>1, FlushFramesKeeps
<1>9. ASSUME EncoderRemoves PROVE Good
  <2>1. /\ decoded' = RemoveFrame(decoded) /\ encoder = "remove" /\ encoder' = "put"
        /\ UNCHANGED <<coded, main, transmitter>>
    BY <1>9 DEF EncoderRemoves, EncoderAt, mainVars, codedVars, txVars
  <2>. QED BY <2>1, RemoveKeeps
<1>10. ASSUME EncoderPuts PROVE Good
  <2>1. /\ coded' = PutFrame(coded) /\ encoder = "put" /\ encoder' = "idle"
        /\ UNCHANGED <<decoded, main, transmitter>>
    BY <1>10 DEF EncoderPuts, EncoderAt, mainVars, rawVars, txVars
  <2>. QED BY <2>1, PutKeeps
<1>11. ASSUME EncoderStep PROVE Good
  <2>1. UNCHANGED <<main, encoder, transmitter>>
    BY <1>11 DEF EncoderStep, mainVars, encVars, txVars
  <2>2. CASE decoded' \in ConsumerSteps(decoded) /\ UNCHANGED coded
    BY <2>1, <2>2, ConsumerStepKeeps
  <2>3. CASE coded' \in ProducerSteps(coded) /\ UNCHANGED decoded
    BY <2>1, <2>3, ProducerStepKeeps
  <2>. QED BY <1>11, <2>2, <2>3 DEF EncoderStep
<1>12. ASSUME TransmitterExits \/ TransmitterSends \/ TransmitterSent PROVE Good
  <2>1. /\ UNCHANGED <<decoded, coded, main, encoder>>
        /\ transmitter \in Walking <=> transmitter' \in Walking
    BY <1>12 DEF TransmitterExits, TransmitterSends, TransmitterSent, TransmitterAt,
                 mainVars, rawVars, encVars, codedVars
  <2>. QED BY <2>1
<1>13. ASSUME TransmitterTakes PROVE Good
  <2>1. /\ coded' = CurrOut(coded) /\ MayTake(coded) /\ ~ConsumerBusy(coded)
        /\ transmitter = "idle" /\ transmitter' = "walk"
        /\ UNCHANGED <<decoded, main, encoder>>
    BY <1>13 DEF TransmitterTakes, TransmitterAt, mainVars, rawVars, encVars
  <2>. QED BY <2>1, CurrOutKeeps
<1>14. ASSUME TransmitterRemoves PROVE Good
  <2>1. /\ coded' = RemoveFrame(coded)
        /\ transmitter = "walk" /\ transmitter' = "idle"
        /\ UNCHANGED <<decoded, main, encoder>>
    BY <1>14 DEF TransmitterRemoves, TransmitterAt, mainVars, rawVars, encVars
  <2>. QED BY <2>1, RemoveKeeps
<1>15. ASSUME TransmitterStep PROVE Good
  <2>1. /\ coded' \in ConsumerSteps(coded)
        /\ UNCHANGED <<decoded, main, encoder, transmitter>>
    BY <1>15 DEF TransmitterStep, mainVars, rawVars, encVars, txVars
  <2>. QED BY <2>1, ConsumerStepKeeps
<1>16. ASSUME Server \/ UNCHANGED vars PROVE Good
  <2>1. UNCHANGED <<decoded, coded, main, encoder, transmitter>>
    BY <1>16 DEF Server, AddParticipant, RemoveParticipant, DestroyParticipant, vars,
                 mainVars, rawVars, encVars, codedVars, txVars
  <2>. QED BY <2>1
<1>. QED BY <1>1, <1>2, <1>3, <1>4, <1>5, <1>6, <1>7, <1>8, <1>9, <1>10, <1>11,
            <1>12, <1>13, <1>14, <1>15, <1>16 DEF Next, Main, Encoder, Transmitter

\* A calm pair of rings was calm before.
LEMMA CalmBefore == ASSUME RingsInv, [Next]_vars, Calm' PROVE Calm
BY RingsNext DEF Calm

-----------------------------------------------------------------------------
(***************************************************************************)
(* The participant list.                                                   *)
(***************************************************************************)
\* A list without repetition from which one element is unlinked.
LEMMA UnlinkOne ==
  ASSUME NEW T, NEW s \in Seq(T), NEW k \in DOMAIN s,
         \A i, j \in DOMAIN s : s[i] = s[j] => i = j
  PROVE  LET r == SX!RemoveAt(s, k)
         IN  /\ r \in Seq(T)
             /\ \A i, j \in DOMAIN r : r[i] = r[j] => i = j
             /\ SX!ToSet(r) \subseteq SX!ToSet(s) \ {s[k]}
<1>. DEFINE a == SubSeq(s, 1, k - 1)
            b == SubSeq(s, k + 1, Len(s))
            r == SX!RemoveAt(s, k)
            n == Len(s)
            At(i) == IF i < k THEN i ELSE i + 1
<1>1. n \in Nat /\ k \in 1 .. n /\ DOMAIN s = 1 .. n /\ \A i \in 1 .. n : s[i] \in T
  OBVIOUS
<1>2. /\ a \in Seq(T) /\ Len(a) = k - 1
      /\ \A i \in 1 .. k - 1 : a[i] = s[i]
  <2>1. \A i \in 1 .. k - 1 : s[i] \in T
    BY <1>1
  <2>2. /\ a \in Seq(T)
        /\ Len(a) = IF 1 <= k - 1 THEN (k - 1) - 1 + 1 ELSE 0
        /\ \A i \in 1 .. (k - 1) - 1 + 1 : a[i] = s[1 + i - 1]
    BY <1>1, <2>1, SubSeqProperties
  <2>. HIDE DEF a
  <2>. QED BY <1>1, <2>2
<1>3. /\ b \in Seq(T) /\ Len(b) = n - k
      /\ \A i \in 1 .. n - k : b[i] = s[i + k]
  <2>1. \A i \in k + 1 .. n : s[i] \in T
    BY <1>1
  <2>2. /\ b \in Seq(T)
        /\ Len(b) = IF k + 1 <= n THEN n - (k + 1) + 1 ELSE 0
        /\ \A i \in 1 .. n - (k + 1) + 1 : b[i] = s[(k + 1) + i - 1]
    BY <1>1, <2>1, SubSeqProperties
  <2>. HIDE DEF b, n
  <2>3. ASSUME NEW i \in 1 .. n - k PROVE b[i] = s[i + k]
    <3>1. i \in 1 .. n - (k + 1) + 1 /\ (k + 1) + i - 1 = i + k
      BY <1>1
    <3>. QED BY <2>2, <3>1
  <2>. QED BY <1>1, <2>2, <2>3
<1>4. /\ r \in Seq(T) /\ DOMAIN r = 1 .. n - 1
      /\ \A i \in 1 .. n - 1 : r[i] = s[At(i)] /\ At(i) \in 1 .. n /\ At(i) # k
  <2>1. r = a \o b
    BY DEF SX!RemoveAt
  <2>2. /\ a \o b \in Seq(T) /\ Len(a \o b) = Len(a) + Len(b)
        /\ \A i \in 1 .. Len(a) + Len(b) :
             (a \o b)[i] = IF i <= Len(a) THEN a[i] ELSE b[i - Len(a)]
    <3>1. a \in Seq(T) /\ b \in Seq(T)
      BY <1>2, <1>3
    <3>. HIDE DEF a, b
    <3>. QED BY <3>1, ConcatProperties
  <2>3. r \in Seq(T) /\ Len(r) = n - 1
    <3>. HIDE DEF a, b, n, r
    <3>. QED BY <1>1, <1>2, <1>3, <2>1, <2>2
  <2>4. ASSUME NEW i \in 1 .. n - 1 PROVE r[i] = s[At(i)]
    <3>1. i \in 1 .. Len(a) + Len(b)
      <4>. HIDE DEF a, b, n
      <4>. QED BY <1>1, <1>2, <1>3
    <3>2. CASE i < k
      <4>. HIDE DEF a, b, n, r
      <4>. QED BY <1>1, <1>2, <2>1, <2>2, <3>1, <3>2
    <3>3. CASE i >= k
      <4>1. r[i] = b[i - (k - 1)] /\ i - (k - 1) \in 1 .. n - k
        <5>. HIDE DEF a, b, n, r
        <5>. QED BY <1>1, <1>2, <2>1, <2>2, <3>1, <3>3
      <4>2. i - (k - 1) + k = i + 1
        BY <1>1
      <4>. HIDE DEF a, b, n, r
      <4>. QED BY <1>1, <1>3, <3>3, <4>1, <4>2
    <3>. HIDE DEF a, b, n, r
    <3>. QED BY <1>1, <3>2, <3>3
  <2>5. \A i \in 1 .. n - 1 : At(i) \in 1 .. n /\ At(i) # k
    <3>. HIDE DEF n
    <3>. QED BY <1>1
  <2>. QED BY <2>3, <2>4, <2>5
<1>5. \A i, j \in 1 .. n - 1 : At(i) = At(j) => i = j
  <2>. HIDE DEF n
  <2>. QED BY <1>1
<1>. HIDE DEF a, b, n, r, At
<1>6. \A i, j \in DOMAIN r : r[i] = r[j] => i = j
  BY <1>1, <1>4, <1>5
<1>7. SX!ToSet(r) \subseteq SX!ToSet(s) \ {s[k]}
  BY <1>1, <1>4 DEF SX!ToSet
<1>. QED BY <1>4, <1>6, <1>7 DEF r

\* A list to which one element is linked that is not in it.
LEMMA LinkOne ==
  ASSUME NEW T, NEW s \in Seq(T), NEW c \in T, c \notin SX!ToSet(s),
         \A i, j \in DOMAIN s : s[i] = s[j] => i = j
  PROVE  LET r == Append(s, c)
         IN  /\ r \in Seq(T)
             /\ \A i, j \in DOMAIN r : r[i] = r[j] => i = j
             /\ SX!ToSet(r) = SX!ToSet(s) \union {c}
<1>. DEFINE n == Len(s)
            r == Append(s, c)
<1>1. /\ n \in Nat /\ DOMAIN s = 1 .. n /\ DOMAIN r = 1 .. n + 1 /\ r \in Seq(T)
      /\ \A i \in 1 .. n : r[i] = s[i] /\ s[i] # c
      /\ r[n + 1] = c
  BY DEF SX!ToSet
<1>. HIDE DEF n, r
<1>2. \A i, j \in DOMAIN r : r[i] = r[j] => i = j
  BY <1>1
<1>3. SX!ToSet(r) = SX!ToSet(s) \union {c}
  BY <1>1 DEF SX!ToSet
<1>. QED BY <1>1, <1>2, <1>3 DEF r

\* Nobody is on the list at first.
LEMMA ListInit == Init => ListInv
BY DEF Init, ListInv, SX!ToSet, Walking

\* The lock on the list keeps the transmitter and the RTSP server apart.
LEMMA ListNext == ListInv /\ [Next]_vars => ListInv'
<1>. SUFFICES ASSUME ListInv, [Next]_vars PROVE ListInv'
  OBVIOUS
<1>. USE DEF ListInv, Walking
<1>1. ASSUME Main PROVE ListInv'
  <2>0. CASE FeedStep
    <3>1. UNCHANGED <<main, todo, transmitter, plist, unlinked, destroyed>>
      BY <2>0 DEF FeedStep, mainVars, txVars, clientVars
    <3>. QED BY <3>1
  <2>1. CASE Feed \/ FeedPut \/ StopTransmitter
    <3>1. /\ UNCHANGED <<todo, transmitter, plist, unlinked, destroyed>>
          /\ main' \in {"feed", "put", "joinTransmitter"}
      BY <2>1 DEF Feed, FeedPut, StopTransmitter, MainAt, txVars, clientVars, mainVars
    <3>. QED BY <3>1
  <2>2. CASE JoinTransmitter \/ StopEncoder
    <3>1. /\ UNCHANGED <<todo, transmitter, plist, unlinked, destroyed>>
          /\ transmitter = "stopped"
      BY <2>2 DEF JoinTransmitter, StopEncoder, MainAt, txVars, clientVars
    <3>. QED BY <3>1
  <2>3. CASE Destroy
    <3>1. /\ UNCHANGED <<todo, transmitter, unlinked>>
          /\ plist' = <<>> /\ todo = <<>> /\ transmitter = "stopped"
      BY <2>3 DEF Destroy, MainAt, txVars
    <3>. QED BY <3>1 DEF SX!ToSet
  <2>. QED BY <1>1, <2>0, <2>1, <2>2, <2>3 DEF Main, Stopping
<1>2. ASSUME Encoder PROVE ListInv'
  <2>1. UNCHANGED <<main, todo, transmitter, plist, unlinked, destroyed>>
    BY <1>2 DEF Encoder, EncoderStarts, EncoderExits, EncoderTakes, EncoderAsks,
                EncoderFlushes, EncoderFills, EncoderPublishes, EncoderRemoves,
                EncoderPuts, EncoderStep, mainVars, txVars, clientVars
  <2>. QED BY <2>1
<1>3. ASSUME Transmitter PROVE ListInv'
  <2>0. UNCHANGED <<main, plist, unlinked, destroyed>>
    BY <1>3 DEF Transmitter, TransmitterExits, TransmitterTakes, TransmitterSends,
                TransmitterSent, TransmitterRemoves, TransmitterStep, mainVars, clientVars
  <2>1. CASE TransmitterExits \/ TransmitterRemoves
    <3>1. todo' = todo /\ todo = <<>> /\ transmitter' \in {"stopped", "idle"}
          /\ transmitter # "stopped"
      BY <2>1 DEF TransmitterExits, TransmitterRemoves, TransmitterAt
    <3>. QED BY <2>0, <3>1
  <2>2. CASE TransmitterTakes
    <3>1. todo' = plist /\ transmitter' = "walk" /\ transmitter = "idle"
      BY <2>2 DEF TransmitterTakes, TransmitterAt
    <3>. QED BY <2>0, <3>1
  <2>3. CASE TransmitterSends
    <3>1. todo' = todo /\ todo # <<>> /\ transmitter' = "send" /\ transmitter = "walk"
      BY <2>3 DEF TransmitterSends, TransmitterAt
    <3>. QED BY <2>0, <3>1
  <2>4. CASE TransmitterSent
    <3>1. todo # <<>> /\ todo' = Tail(todo) /\ transmitter' = "walk"
      BY <2>4 DEF TransmitterSent, TransmitterAt
    <3>2. /\ todo' \in Seq(Clients)
          /\ Len(todo') = Len(todo) - 1 /\ Len(todo) \in Nat
          /\ \A i \in 1 .. Len(todo') : todo'[i] = todo[i + 1]
      BY <3>1, HeadTailProperties
    <3>3. SX!ToSet(todo') \subseteq SX!ToSet(todo)
      BY <3>2 DEF SX!ToSet
    <3>4. main \notin {"stopEncoder", "joinEncoder", "destroyed"}
      BY <2>4 DEF TransmitterSent, TransmitterAt
    <3>5. SX!ToSet(todo)' = SX!ToSet(todo') /\ SX!ToSet(plist)' = SX!ToSet(plist)
      BY <2>0 DEF SX!ToSet
    <3>. QED BY <2>0, <3>1, <3>2, <3>3, <3>4, <3>5
  <2>5. CASE TransmitterStep
    <3>1. UNCHANGED <<todo, transmitter>>
      BY <2>5 DEF TransmitterStep, txVars
    <3>. QED BY <2>0, <3>1
  <2>. QED BY <1>3, <2>1, <2>2, <2>3, <2>4, <2>5 DEF Transmitter
<1>4. ASSUME Server PROVE ListInv'
  <2>0. UNCHANGED <<main, transmitter, todo>>
    BY <1>4 DEF Server, AddParticipant, RemoveParticipant, DestroyParticipant,
                mainVars, txVars
  <2>1. CASE AddParticipant
    <3>1. PICK c \in Clients \ (SX!ToSet(plist) \union unlinked \union destroyed) :
            plist' = Append(plist, c)
      BY <2>1 DEF AddParticipant
    <3>2. /\ plist' \in Seq(Clients)
          /\ \A i, j \in DOMAIN plist' : plist'[i] = plist'[j] => i = j
          /\ SX!ToSet(plist') = SX!ToSet(plist) \union {c}
      BY <3>1, LinkOne
    <3>3. UNCHANGED <<unlinked, destroyed>>
      BY <2>1 DEF AddParticipant
    <3>4. SX!ToSet(plist)' = SX!ToSet(plist') /\ SX!ToSet(todo)' = SX!ToSet(todo)
      BY <2>0 DEF SX!ToSet
    <3>. QED BY <2>0, <3>1, <3>2, <3>3, <3>4
  <2>2. CASE RemoveParticipant
    <3>1. PICK k \in DOMAIN plist : /\ plist' = SX!RemoveAt(plist, k)
                                    /\ unlinked' = unlinked \union {plist[k]}
      BY <2>2 DEF RemoveParticipant
    <3>2. /\ plist' \in Seq(Clients)
          /\ \A i, j \in DOMAIN plist' : plist'[i] = plist'[j] => i = j
          /\ SX!ToSet(plist') \subseteq SX!ToSet(plist) \ {plist[k]}
      BY <3>1, UnlinkOne
    <3>3. todo = <<>> /\ destroyed' = destroyed
      BY <2>2 DEF RemoveParticipant, ListIsFree
    <3>4. /\ SX!ToSet(plist)' = SX!ToSet(plist')
          /\ SX!ToSet(todo)' = {}
      BY <2>0, <3>3 DEF SX!ToSet
    <3>. QED BY <2>0, <3>1, <3>2, <3>3, <3>4
  <2>3. CASE DestroyParticipant
    <3>1. plist' = plist /\ unlinked' \union destroyed' = unlinked \union destroyed
      BY <2>3 DEF DestroyParticipant
    <3>. QED BY <2>0, <3>1
  <2>. QED BY <1>4, <2>1, <2>2, <2>3 DEF Server
<1>5. ASSUME UNCHANGED vars PROVE ListInv'
  BY <1>5 DEF vars, mainVars, txVars, clientVars
<1>. QED BY <1>1, <1>2, <1>3, <1>4, <1>5 DEF Next

-----------------------------------------------------------------------------
(***************************************************************************)
(* The numbers of the frames.                                              *)
(***************************************************************************)
\* Nothing is encoded or sent at first.
LEMMA NumbersInit == Init => NumbersInv
<1>. SUFFICES ASSUME Init PROVE NumbersInv
  OBVIOUS
<1>1. decoded.held = 0 /\ coded.held = 0 /\ Newest = 0
  BY RingStart DEF Init, Newest
<1>2. DataTypes
  BY DEF Init, DataTypes, Outputs
<1>3. RawInOrder
  BY <1>1 DEF Init, RawInOrder, Held
<1>4. OutputInv
  BY <1>1, SenderAssumption DEF Init, OutputInv
<1>5. SentInv
  BY <1>1 DEF Init, SentInv
<1>. QED BY <1>2, <1>3, <1>4, <1>5 DEF NumbersInv

\* The frame the encoder works on is the oldest one that waits.
LEMMA EncodesOldest ==
  ASSUME RingsInv, NumbersInv, Calm, encoder \in Encoding
  PROVE  /\ 0 \in Held /\ raw[decoded.front] = Raw(0)
         /\ raw[decoded.front] \in Nat
<1>1. RingOk(decoded) /\ decoded \in Rings /\ decoded.out_process /\ ~decoded.raced
  BY DEF RingsInv, RingOk, Calm
<1>2. /\ decoded.held \in 0 .. Max /\ decoded.held >= 1
      /\ decoded.front = SlotAt(decoded, 0)
  BY <1>1, Admitted
<1>3. decoded.front \in Slots /\ raw \in [Slots -> Nat]
  BY <1>1 DEF Rings, NumbersInv, DataTypes
<1>. QED BY <1>2, <1>3, MaxAssumption DEF Held, Raw

\* The output buffers are filled in turn, and the number of the frame encoded
\* last changes only when a newer one is published.
LEMMA OutputNext ==
  ASSUME RingsInv, NumbersInv, [Next]_vars
  PROVE  /\ OutputInv'
         /\ Newest \in Nat /\ Newest' \in Nat
         /\ ~EncoderPublishes => Newest' = Newest
         /\ EncoderPublishes => Newest' = raw[decoded.front]
         /\ EncoderPublishes /\ Calm => Newest' > Newest
<1>. USE DEF NumbersInv
<1>0. Newest \in Nat
  BY DEF DataTypes, Newest, Outputs
<1>a. NoFrame \notin Outputs
  BY SenderAssumption DEF Outputs
<1>b. Calm' => Calm
  BY CalmBefore
<1>c. RingOk(decoded) /\ RingOk(coded)
  BY DEF RingsInv
<1>1. ASSUME EncoderFills
      PROVE  OutputInv' /\ Newest' = Newest
  <2>1. /\ encoder = "fill" /\ encoder' = "publish"
        /\ output' = [output EXCEPT ![index] = 0]
        /\ UNCHANGED <<frame, index, coded>>
    BY <1>1 DEF EncoderFills, EncoderAt, codedVars
  <2>2. frame # index
    BY <2>1 DEF OutputInv
  <2>3. Newest' = Newest
    BY <2>1, <2>2 DEF DataTypes, Newest
  <2>. QED BY <1>b, <2>1, <2>2, <2>3 DEF OutputInv
<1>2. ASSUME EncoderPublishes
      PROVE  /\ OutputInv' /\ Newest' = raw[decoded.front] /\ Newest' \in Nat
             /\ Calm => Newest' > Newest
  <2>1. /\ encoder = "publish" /\ encoder' = "remove"
        /\ output' = [output EXCEPT ![index] = raw[decoded.front]]
        /\ frame' = index
        /\ UNCHANGED <<index, coded, decoded>>
    BY <1>2 DEF EncoderPublishes, EncoderAt, rawVars
  <2>2. Newest' = raw[decoded.front]
    BY <2>1, <1>a DEF DataTypes, Newest
  <2>3. raw[decoded.front] \in Nat
    BY <1>c DEF RingOk, Rings, DataTypes
  <2>4. Calm => raw[decoded.front] > Newest
    <3>1. Calm => 0 \in Held /\ raw[decoded.front] = Raw(0)
      BY <2>1, EncodesOldest DEF Encoding
    <3>. QED BY <2>1, <3>1 DEF RawInOrder
  <2>5. Calm' = Calm
    BY <2>1 DEF Calm
  <2>6. OutputInv'
    <3>1. index \in Outputs /\ frame' # NoFrame
      BY <2>1, <1>a DEF DataTypes
    <3>2. Calm' => Newest' > 0
      BY <1>0, <2>2, <2>3, <2>4, <2>5
    <3>. QED BY <2>1, <3>1, <3>2 DEF OutputInv
  <2>. QED BY <2>2, <2>3, <2>4, <2>6
<1>3. ASSUME EncoderPuts PROVE OutputInv' /\ Newest' = Newest
  <2>1. /\ encoder = "put" /\ encoder' = "idle"
        /\ UNCHANGED <<frame, output>>
        /\ index' = (index + 1) % 2
    BY <1>3 DEF EncoderPuts, EncoderAt
  <2>2. Newest' = Newest
    BY <2>1 DEF Newest
  <2>3. frame = index /\ index' # index
    <3>1. (0 + 1) % 2 = 1 /\ (1 + 1) % 2 = 0
      OBVIOUS
    <3>2. frame = index /\ index \in {0, 1}
      BY <2>1 DEF OutputInv, DataTypes, Outputs
    <3>. QED BY <2>1, <3>1, <3>2
  <2>. QED BY <1>b, <2>1, <2>2, <2>3, <1>a DEF OutputInv, DataTypes
<1>4. ASSUME EncoderStarts PROVE OutputInv' /\ Newest' = Newest
  <2>1. /\ encoder = "starting" /\ encoder' = "idle" /\ index' = 0
        /\ UNCHANGED <<frame, output, coded>>
    BY <1>4 DEF EncoderStarts, EncoderAt, codedVars
  <2>2. frame = NoFrame
    BY <2>1 DEF OutputInv
  <2>. QED BY <1>b, <2>1, <2>2, SenderAssumption DEF OutputInv, Newest
<1>5. ASSUME \/ EncoderAsks \/ EncoderFlushes \/ EncoderStep
             \/ TransmitterTakes \/ TransmitterRemoves \/ TransmitterStep
      PROVE  OutputInv' /\ Newest' = Newest
  <2>1. /\ UNCHANGED <<frame, output, index>>
        /\ encoder' \in {"remove", "put"} <=> encoder \in {"remove", "put"}
        /\ encoder' = "starting" <=> encoder = "starting"
    BY <1>5 DEF EncoderAsks, EncoderFlushes, EncoderStep, TransmitterTakes,
                TransmitterRemoves, TransmitterStep, EncoderAt, encVars
  <2>2. Calm' /\ coded.held = 0 => coded'.held = 0
    <3>. SUFFICES ASSUME Calm', coded.held = 0 PROVE coded'.held = 0
      OBVIOUS
    <3>0. ~coded'.raced
      BY DEF Calm
    <3>1. CASE EncoderAsks
      BY <3>1, <1>c, CurrInKeeps DEF EncoderAsks, EncoderAt
    <3>2. CASE EncoderFlushes
      <4>1. ~coded.in_process /\ ~ProducerBusy(coded) /\ coded' = FlushFrames(coded)
        BY <3>2 DEF EncoderFlushes, EncoderAt, RingsInv, Filling
      <4>. QED BY <4>1, <1>c, FlushFramesKeeps
    <3>3. CASE EncoderStep
      <4>1. CASE coded' \in ProducerSteps(coded)
        BY <3>0, <4>1, <1>c, ProducerStepKeeps, MaxAssumption
      <4>. QED BY <3>3, <4>1 DEF EncoderStep
    <3>4. CASE TransmitterTakes
      BY <3>4, <1>c, CurrOutKeeps DEF TransmitterTakes, TransmitterAt
    <3>5. CASE TransmitterRemoves
      <4>1. coded.out_process /\ coded' = RemoveFrame(coded)
        BY <3>5 DEF TransmitterRemoves, TransmitterAt, RingsInv, Walking
      <4>2. coded.held >= 1
        BY <3>0, <4>1, <1>c, RemoveKeeps
      <4>. QED BY <4>2
    <3>6. CASE TransmitterStep
      BY <3>6, <1>c, ConsumerStepKeeps DEF TransmitterStep
    <3>. QED BY <1>5, <3>1, <3>2, <3>3, <3>4, <3>5, <3>6
  <2>3. Newest' = Newest
    BY <2>1 DEF Newest
  <2>. QED BY <1>b, <2>1, <2>2, <2>3 DEF OutputInv
<1>6. ASSUME \/ Main \/ Server \/ UNCHANGED vars
             \/ EncoderExits \/ EncoderTakes \/ EncoderRemoves
             \/ TransmitterExits \/ TransmitterSends \/ TransmitterSent
      PROVE  OutputInv' /\ Newest' = Newest
  <2>1. /\ UNCHANGED <<frame, output, index, coded>>
        /\ encoder' \in {"remove", "put"} <=> encoder \in {"remove", "put"}
        /\ encoder' = "starting" <=> encoder = "starting"
    BY <1>6 DEF Main, Feed, FeedPut, FeedStep, StopTransmitter, Stopping, JoinTransmitter,
                StopEncoder, Destroy, Server, AddParticipant, RemoveParticipant,
                DestroyParticipant, EncoderExits, EncoderTakes, EncoderRemoves,
                TransmitterExits, TransmitterSends, TransmitterSent, EncoderAt, vars,
                encVars, codedVars
  <2>2. Newest' = Newest
    BY <2>1 DEF Newest
  <2>. QED BY <1>b, <2>1, <2>2 DEF OutputInv
<1>7. ~EncoderPublishes => OutputInv' /\ Newest' = Newest
  BY <1>1, <1>3, <1>4, <1>5, <1>6 DEF Next, Encoder, Transmitter
<1>. QED BY <1>0, <1>2, <1>7

\* The numbers stay numbers.
LEMMA TypesNext ==
  ASSUME RingsInv, NumbersInv, ListInv, [Next]_vars
  PROVE  DataTypes'
<1>. USE DEF NumbersInv
<1>1. ListInv'
  BY ListNext
<1>2. todo' \in Seq(Clients) /\ plist' \in Seq(Clients)
  BY <1>1 DEF ListInv
<1>3. decoded.rear \in Slots /\ decoded.front \in Slots /\ coded.rear \in Slots
      /\ coded.front \in Slots
  BY DEF RingsInv, RingOk, Rings
<1>4. ASSUME Main PROVE DataTypes'
  <2>1. UNCHANGED <<index, output, frame, stamp, taken, shown>>
    BY <1>4 DEF Main, Feed, FeedPut, StopTransmitter, Stopping, JoinTransmitter,
          StopEncoder, Destroy, FeedStep, encVars, codedVars, txVars
  <2>2. offered' \in Nat
    BY <1>4 DEF Main, Feed, FeedPut, StopTransmitter, Stopping, JoinTransmitter,
          StopEncoder, Destroy, FeedStep, DataTypes, mainVars
  <2>3. CASE Feed \/ FeedPut
    <3>1. raw' = raw \/ \E v \in Nat : raw' = [raw EXCEPT ![decoded.rear] = v]
      BY <2>3 DEF Feed, FeedPut, DataTypes
    <3>2. raw' \in [Slots -> Nat]
      <4>1. \A v \in Nat : [raw EXCEPT ![decoded.rear] = v] \in [Slots -> Nat]
        BY <1>3 DEF DataTypes
      <4>. QED BY <3>1, <4>1 DEF DataTypes
    <3>. QED BY <2>1, <2>2, <3>2, <1>2 DEF DataTypes
  <2>4. CASE StopTransmitter \/ Stopping \/ FeedStep
    <3>1. raw' = raw
      BY <2>4 DEF StopTransmitter, Stopping, JoinTransmitter, StopEncoder, Destroy,
                FeedStep, rawVars
    <3>. QED BY <2>1, <2>2, <3>1, <1>2 DEF DataTypes
  <2>. QED BY <1>4, <2>3, <2>4 DEF Main
<1>5. ASSUME EncoderPublishes PROVE DataTypes'
  <2>1. raw[decoded.front] \in Nat
    BY <1>3 DEF DataTypes
  <2>2. output' \in [Outputs -> Nat] /\ stamp' \in [Slots -> Nat] /\ frame' \in Outputs
    BY <1>3, <1>5, <2>1 DEF EncoderPublishes, DataTypes
  <2>3. UNCHANGED <<offered, raw, index, taken, shown>>
    BY <1>5 DEF EncoderPublishes, mainVars, rawVars, txVars
  <2>. QED BY <2>2, <2>3, <1>2 DEF DataTypes
<1>6. ASSUME EncoderStarts \/ EncoderFills \/ EncoderPuts PROVE DataTypes'
  <2>1. index' \in Outputs /\ output' \in [Outputs -> Nat]
    BY <1>6 DEF EncoderStarts, EncoderFills, EncoderPuts, DataTypes, Outputs
  <2>2. UNCHANGED <<offered, raw, frame, stamp, taken, shown>>
    BY <1>6 DEF EncoderStarts, EncoderFills, EncoderPuts, mainVars, rawVars, codedVars, txVars
  <2>. QED BY <2>1, <2>2, <1>2 DEF DataTypes
<1>7. ASSUME EncoderExits \/ EncoderTakes \/ EncoderAsks \/ EncoderFlushes \/ EncoderRemoves
             \/ EncoderStep
      PROVE  DataTypes'
  <2>1. UNCHANGED <<offered, raw, index, output, frame, stamp, taken, shown>>
    BY <1>7 DEF EncoderExits, EncoderTakes, EncoderAsks, EncoderFlushes, EncoderRemoves,
                EncoderStep, mainVars, rawVars, encVars, codedVars, txVars
  <2>. QED BY <2>1, <1>2 DEF DataTypes
<1>8. ASSUME Transmitter PROVE DataTypes'
  <2>1. taken' \in Nat
    BY <1>3, <1>8 DEF Transmitter, TransmitterExits, TransmitterTakes, TransmitterSends,
                TransmitterSent, TransmitterRemoves, TransmitterStep, DataTypes, txVars
  <2>2. shown' \in [Clients -> Nat]
    BY <1>8 DEF Transmitter, TransmitterExits, TransmitterTakes, TransmitterSends,
                TransmitterSent, TransmitterRemoves, TransmitterStep, DataTypes, txVars
  <2>3. UNCHANGED <<offered, raw, index, output, frame, stamp>>
    BY <1>8 DEF Transmitter, TransmitterExits, TransmitterTakes, TransmitterSends,
                TransmitterSent, TransmitterRemoves, TransmitterStep, mainVars, rawVars, encVars, codedVars
  <2>. QED BY <2>1, <2>2, <2>3, <1>2 DEF DataTypes
<1>9. ASSUME Server \/ UNCHANGED vars PROVE DataTypes'
  <2>1. UNCHANGED <<offered, raw, index, output, frame, stamp, taken, shown>>
    BY <1>9 DEF Server, AddParticipant, RemoveParticipant, DestroyParticipant, vars,
                mainVars, rawVars, encVars, codedVars, txVars
  <2>. QED BY <2>1, <1>2 DEF DataTypes
<1>. QED BY <1>4, <1>5, <1>6, <1>7, <1>8, <1>9 DEF Next, Encoder

\* What has left the encoder stays at most as new as the frame encoded last.
LEMMA SentNext ==
  ASSUME RingsInv, NumbersInv, ListInv, [Next]_vars
  PROVE  SentInv' /\ (Calm' => \A c \in Clients : shown'[c] >= shown[c])
<1>. USE DEF NumbersInv
<1>0. SUFFICES ASSUME Calm', Calm PROVE SentInv' /\ \A c \in Clients : shown'[c] >= shown[c]
  BY CalmBefore DEF SentInv
<1>1. /\ Newest \in Nat /\ Newest' \in Nat /\ Newest' >= Newest
      /\ ~EncoderPublishes => Newest' = Newest
      /\ EncoderPublishes => Newest' = raw[decoded.front]
  <2>1. /\ Newest \in Nat /\ Newest' \in Nat
        /\ ~EncoderPublishes => Newest' = Newest
        /\ EncoderPublishes => Newest' = raw[decoded.front]
        /\ EncoderPublishes => Newest' > Newest
    BY <1>0, OutputNext
  <2>. QED BY <2>1
<1>2. /\ stamp \in [Slots -> Nat] /\ taken \in Nat /\ shown \in [Clients -> Nat]
      /\ coded.front \in Slots
  BY DEF DataTypes, RingsInv, RingOk, Rings
<1>3. /\ \A s \in Slots : stamp[s] <= Newest
      /\ taken <= Newest
      /\ \A c \in Clients : shown[c] <= Newest
      /\ transmitter = "send" => shown[Head(todo)] > 0 /\ shown[Head(todo)] >= taken
  BY <1>0 DEF SentInv
<1>4. ASSUME EncoderPublishes PROVE SentInv' /\ \A c \in Clients : shown'[c] >= shown[c]
  <2>1. /\ stamp' = [stamp EXCEPT ![coded.rear] = raw[decoded.front]]
        /\ UNCHANGED <<taken, shown, todo, transmitter>>
    BY <1>4 DEF EncoderPublishes, txVars
  <2>2. \A s \in Slots : stamp'[s] <= Newest'
    BY <2>1, <1>1, <1>2, <1>3, <1>4
  <2>3. taken' <= Newest' /\ \A c \in Clients : shown'[c] <= Newest' /\ shown'[c] >= shown[c]
    BY <2>1, <1>1, <1>2, <1>3
  <2>. QED BY <2>1, <2>2, <2>3, <1>3 DEF SentInv
<1>5. ASSUME TransmitterTakes PROVE SentInv' /\ \A c \in Clients : shown'[c] >= shown[c]
  <2>1. /\ stamp' = stamp /\ shown' = shown /\ transmitter' = "walk"
        /\ taken' = stamp[coded.front] /\ ~EncoderPublishes
    BY <1>5 DEF TransmitterTakes, TransmitterAt, EncoderPublishes, EncoderAt, encVars, txVars
  <2>. QED BY <2>1, <1>1, <1>2, <1>3 DEF SentInv
<1>6. ASSUME TransmitterSends PROVE SentInv' /\ \A c \in Clients : shown'[c] >= shown[c]
  <2>1. /\ UNCHANGED <<stamp, taken, todo>> /\ todo # <<>>
        /\ transmitter = "walk"
        /\ shown' = [shown EXCEPT ![Head(todo)] = Newest]
        /\ ~EncoderPublishes
    BY <1>6 DEF TransmitterSends, TransmitterAt, EncoderPublishes, EncoderAt, Newest, encVars,
                codedVars, txVars
  <2>2. Head(todo) \in Clients
    BY <2>1, HeadTailProperties DEF ListInv
  <2>3. Newest > 0
    <3>1. RingOk(coded) /\ coded.out_process /\ ~coded.raced
      BY <2>1, <1>0 DEF RingsInv, Walking, Calm
    <3>2. coded.held # 0
      BY <3>1, Admitted, MaxAssumption
    <3>. QED BY <3>2, <1>0 DEF OutputInv
  <2>4. /\ shown'[Head(todo)] = Newest
        /\ \A c \in Clients : shown'[c] = Newest \/ shown'[c] = shown[c]
    BY <2>1, <2>2, <1>2
  <2>5. shown'[Head(todo')] > 0 /\ shown'[Head(todo')] >= taken'
    BY <2>1, <2>3, <2>4, <1>1, <1>2, <1>3
  <2>. QED BY <2>1, <2>4, <2>5, <1>1, <1>2, <1>3 DEF SentInv
<1>7. ASSUME TransmitterExits \/ TransmitterSent \/ TransmitterRemoves
      PROVE  SentInv' /\ \A c \in Clients : shown'[c] >= shown[c]
  <2>1. /\ UNCHANGED <<stamp, taken, shown>> /\ transmitter' # "send"
        /\ ~EncoderPublishes
    BY <1>7 DEF TransmitterExits, TransmitterSent, TransmitterRemoves, EncoderPublishes,
                EncoderAt, encVars, codedVars, txVars
  <2>. QED BY <2>1, <1>1, <1>2, <1>3 DEF SentInv
<1>8. ASSUME \/ Main \/ Server \/ UNCHANGED vars \/ (Encoder /\ ~EncoderPublishes)
             \/ TransmitterStep
      PROVE  SentInv' /\ \A c \in Clients : shown'[c] >= shown[c]
  <2>1. UNCHANGED <<stamp, taken, shown, transmitter, todo>>
    BY <1>8 DEF Main, Feed, FeedPut, FeedStep, StopTransmitter, Stopping, JoinTransmitter,
                StopEncoder, Destroy, Server, AddParticipant, RemoveParticipant,
                DestroyParticipant, vars, Encoder, EncoderStarts, EncoderExits,
                EncoderTakes, EncoderAsks, EncoderFlushes, EncoderFills, EncoderRemoves,
                EncoderPuts, EncoderStep, TransmitterStep, codedVars, txVars
  <2>. QED BY <2>1, <1>1, <1>2, <1>3 DEF SentInv
<1>. QED BY <1>4, <1>5, <1>6, <1>7, <1>8 DEF Next, Transmitter

\* The decoded frames stay in order: new ones come in at the rear, and the one
\* published leaves from the front.
LEMMA RawNext ==
  ASSUME RingsInv, NumbersInv, [Next]_vars
  PROVE  RawInOrder'
<1>. USE DEF NumbersInv
<1>0. SUFFICES ASSUME Calm', Calm PROVE RawInOrder'
  BY CalmBefore DEF RawInOrder
<1>1. /\ Newest \in Nat /\ Newest' \in Nat
      /\ ~EncoderPublishes => Newest' = Newest
      /\ EncoderPublishes => Newest' = raw[decoded.front]
  BY OutputNext
<1>2. /\ RingOk(decoded) /\ decoded \in Rings
      /\ ~decoded.raced /\ ~decoded'.raced
      /\ raw \in [Slots -> Nat] /\ offered \in Nat
      /\ decoded.rear \in Slots /\ decoded.front \in Slots
      /\ decoded.held \in 0 .. Max
  BY <1>0 DEF DataTypes, RingsInv, RingOk, Rings, Calm
<1>3. RingOk(decoded') /\ decoded' \in Rings /\ ~Flushing(decoded)
  BY RingsNext DEF RingsInv, RingOk
<1>4. \A i \in Held : SlotAt(decoded, i) \in Slots /\ Raw(i) \in Nat /\ i \in 0 .. Max - 1
  <2>. TAKE i \in Held
  <2>1. i \in 0 .. Max /\ i \in 0 .. Max - 1
    BY <1>2, MaxAssumption DEF Held
  <2>. QED BY <2>1, <1>2, SlotFromFront DEF Raw
<1>5. ASSUME decoded.held < Max, ~ProducerBusy(decoded)
      PROVE  /\ decoded.rear = SlotAt(decoded, decoded.held)
             /\ \A i \in Held : SlotAt(decoded, i) # decoded.rear
  <2>1. decoded.rear = SlotAt(decoded, decoded.held)
    BY <1>2, <1>5, Admitted
  <2>2. ASSUME NEW i \in Held PROVE SlotAt(decoded, i) # decoded.rear
    <3>1. /\ i \in 0 .. Max - 1 /\ decoded.held \in 0 .. Max - 1 /\ i # decoded.held
      BY <1>2, <1>4, <1>5, MaxAssumption DEF Held
    <3>. QED BY <3>1, <1>2, <2>1, SlotsDiffer
  <2>. QED BY <2>1, <2>2
<1>6. /\ Newest <= offered
      /\ main = "put" => Newest < offered
      /\ \A i \in Held : Raw(i) <= offered
      /\ main = "put" => \A i \in Held : Raw(i) < offered
      /\ \A i \in Held : i > 0 \/ encoder # "remove" => Newest < Raw(i)
      /\ \A i, j \in Held : i < j => Raw(i) < Raw(j)
  BY <1>0 DEF RawInOrder
<1>s. ASSUME UNCHANGED <<raw, offered>>, ~EncoderPublishes,
             main' = main \/ main' # "put", encoder # "remove" \/ encoder' = encoder,
             decoded'.held = decoded.held, FrontOf(decoded') = FrontOf(decoded)
      PROVE  RawInOrder'
  <2>1. Held' = Held /\ \A i \in Held : Raw(i)' = Raw(i)
    BY <1>s DEF Held, Raw, SlotAt
  <2>2. Newest' = Newest
    BY <1>s, <1>1
  <2>. QED BY <1>s, <2>1, <2>2, <1>6 DEF RawInOrder
<1>7. ASSUME Feed PROVE RawInOrder'
  <2>1. /\ offered' = offered + 1 /\ encoder' = encoder /\ Newest' = Newest
        /\ ~ProducerBusy(decoded)
    BY <1>1, <1>7 DEF Feed, MainAt, EncoderPublishes, EncoderAt, encVars
  <2>2. /\ decoded'.held = decoded.held /\ FrontOf(decoded') = FrontOf(decoded)
        /\ \A i \in Held : raw'[SlotAt(decoded, i)] = Raw(i)
    <3>1. CASE MayPut(decoded)
      <4>1. decoded' = CurrIn(decoded) /\ raw' = [raw EXCEPT ![decoded.rear] = 0]
        BY <1>7, <3>1 DEF Feed
      <4>2. decoded'.held = decoded.held /\ FrontOf(decoded') = FrontOf(decoded)
        BY <2>1, <3>1, <4>1, <1>2, CurrInKeeps
      <4>3. decoded.held < Max
        BY <2>1, <3>1, <1>2, Admitted
      <4>. QED BY <2>1, <4>1, <4>2, <4>3, <1>2, <1>4, <1>5 DEF Raw
    <3>2. CASE ~MayPut(decoded)
      BY <1>7, <3>2 DEF Feed, Raw
    <3>. QED BY <3>1, <3>2
  <2>3. /\ Held' = Held
        /\ \A i \in Held : Raw(i)' = Raw(i)
    BY <2>2 DEF Held, Raw, SlotAt
  <2>4. \A i \in Held : Raw(i) < offered' /\ Raw(i) <= offered'
    BY <2>1, <1>2, <1>4, <1>6
  <2>5. Newest < offered' /\ Newest <= offered'
    BY <2>1, <1>1, <1>2, <1>6
  <2>. QED BY <2>1, <2>3, <2>4, <2>5, <1>6 DEF RawInOrder
<1>8. ASSUME FeedPut PROVE RawInOrder'
  <2>1. /\ main = "put" /\ main' = "feed" /\ UNCHANGED <<offered, encoder>>
        /\ raw' = [raw EXCEPT ![decoded.rear] = offered]
        /\ decoded' = PutFrame(decoded) /\ Newest' = Newest
        /\ ~ProducerBusy(decoded)
    BY <1>1, <1>8 DEF FeedPut, MainAt, EncoderPublishes, EncoderAt, encVars
  <2>2. /\ decoded'.held = decoded.held + 1 /\ FrontOf(decoded') = FrontOf(decoded)
        /\ decoded.held < Max
    BY <2>1, <1>2, PutKeeps DEF RingsInv
  <2>3. /\ \A i \in Held : raw'[SlotAt(decoded', i)] = Raw(i)
        /\ raw'[SlotAt(decoded', decoded.held)] = offered
    <3>1. \A i : SlotAt(decoded', i) = SlotAt(decoded, i)
      BY <2>2 DEF SlotAt
    <3>. QED BY <2>1, <2>2, <3>1, <1>2, <1>4, <1>5 DEF Raw
  <2>4. Held' = Held \union {decoded.held} /\ decoded.held \in Nat /\ decoded.held \notin Held
    BY <2>2, <1>2, MaxAssumption DEF Held
  <2>5. \A i \in Held : Raw(i)' = Raw(i)
    BY <2>3 DEF Raw
  <2>6. \A i \in Held : Raw(i) < offered
    BY <2>1, <1>6
  <2>7. \A i, j \in Held' : i < j => Raw(i)' < Raw(j)'
    <3>. SUFFICES ASSUME NEW i \in Held', NEW j \in Held', i < j PROVE Raw(i)' < Raw(j)'
      OBVIOUS
    <3>1. i \in Held
      BY <2>2, <2>4, <1>2, MaxAssumption DEF Held
    <3>2. CASE j \in Held
      BY <3>1, <3>2, <2>5, <1>6
    <3>3. CASE j = decoded.held
      <4>1. Raw(j)' = offered
        BY <3>3, <2>3, <2>1 DEF Raw
      <4>. QED BY <3>1, <4>1, <2>5, <2>6
    <3>. QED BY <3>2, <3>3, <2>4
  <2>8. ASSUME NEW i \in Held'
        PROVE  /\ Raw(i)' <= offered'
               /\ i > 0 \/ encoder' # "remove" => Newest' < Raw(i)'
    <3>1. CASE i \in Held
      BY <3>1, <2>1, <2>5, <1>6
    <3>2. CASE i = decoded.held
      <4>1. Raw(i)' = offered
        BY <3>2, <2>3, <2>1 DEF Raw
      <4>. QED BY <4>1, <2>1, <1>2, <1>6
    <3>. QED BY <3>1, <3>2, <2>4
  <2>. QED BY <2>1, <2>7, <2>8, <1>6 DEF RawInOrder
<1>9. ASSUME EncoderPublishes PROVE RawInOrder'
  <2>1. /\ UNCHANGED <<decoded, raw, offered, main>> /\ encoder = "publish"
        /\ encoder' = "remove"
    BY <1>9 DEF EncoderPublishes, EncoderAt, rawVars, mainVars
  <2>2. 0 \in Held /\ raw[decoded.front] = Raw(0)
    BY <2>1, <1>0, EncodesOldest DEF Encoding
  <2>3. Newest' = Raw(0)
    BY <2>2, <1>1, <1>9
  <2>4. Held' = Held /\ \A i \in Held : Raw(i)' = Raw(i)
    BY <2>1 DEF Held, Raw
  <2>5. \A i \in Held : i > 0 => Newest' < Raw(i)
    BY <2>2, <2>3, <1>6
  <2>. QED BY <2>1, <2>2, <2>3, <2>4, <2>5, <1>6 DEF RawInOrder
<1>10. ASSUME EncoderRemoves PROVE RawInOrder'
  <2>1. /\ UNCHANGED <<raw, offered, main>> /\ encoder = "remove" /\ encoder' = "put"
        /\ decoded' = RemoveFrame(decoded) /\ Newest' = Newest
    BY <1>1, <1>10 DEF EncoderRemoves, EncoderAt, EncoderPublishes, mainVars
  <2>2. /\ decoded'.held = decoded.held - 1
        /\ FrontOf(decoded') = (FrontOf(decoded) + 1) % Max
    BY <2>1, <1>2, RemoveKeeps DEF RingsInv, Encoding
  <2>3. ASSUME NEW i \in Held'
        PROVE  i + 1 \in Held /\ i + 1 > 0 /\ Raw(i)' = Raw(i + 1)
    <3>1. i + 1 \in Held /\ i + 1 > 0 /\ i \in 0 .. Max - 1
      BY <2>2, <1>2, MaxAssumption DEF Held
    <3>3. SlotAt(decoded', i) = SlotAt(decoded, i + 1)
      BY <2>2, <3>1, <1>2, <1>3, SlotAfterRemove
    <3>. QED BY <2>1, <3>1, <3>3 DEF Raw
  <2>4. \A i, j \in Held' : i < j => i + 1 < j + 1
    BY <2>2, <1>2, MaxAssumption DEF Held
  <2>. QED BY <2>1, <2>3, <2>4, <1>6 DEF RawInOrder
<1>11. ASSUME FeedStep PROVE RawInOrder'
  <2>1. /\ decoded' \in ProducerSteps(decoded)
        /\ UNCHANGED <<main, raw, offered, encoder>> /\ ~EncoderPublishes
    BY <1>11 DEF FeedStep, EncoderPublishes, EncoderAt, mainVars, encVars
  <2>2. "front" \notin decoded.flushStores \ decoded'.flushStores
    BY <1>3 DEF Flushing
  <2>3. decoded'.held = decoded.held /\ FrontOf(decoded') = FrontOf(decoded)
    BY <2>1, <2>2, <1>2, ProducerStepKeeps
  <2>. QED BY <1>s, <2>1, <2>3
<1>12. ASSUME EncoderTakes PROVE RawInOrder'
  <2>1. /\ decoded' = CurrOut(decoded) /\ MayTake(decoded) /\ ~ConsumerBusy(decoded)
        /\ UNCHANGED <<main, raw, offered>> /\ encoder = "idle" /\ ~EncoderPublishes
    BY <1>12 DEF EncoderTakes, EncoderPublishes, EncoderAt, mainVars
  <2>2. decoded'.held = decoded.held /\ FrontOf(decoded') = FrontOf(decoded)
    BY <2>1, <1>2, CurrOutKeeps
  <2>. QED BY <1>s, <2>1, <2>2
<1>13. ASSUME EncoderStep PROVE RawInOrder'
  <2>1. UNCHANGED <<main, raw, offered, encoder>> /\ ~EncoderPublishes
    BY <1>13 DEF EncoderStep, EncoderPublishes, EncoderAt, mainVars, encVars
  <2>2. CASE decoded' \in ConsumerSteps(decoded)
    <3>1. decoded'.held = decoded.held /\ FrontOf(decoded') = FrontOf(decoded)
      BY <2>2, <1>2, ConsumerStepKeeps
    <3>. QED BY <1>s, <2>1, <3>1
  <2>3. CASE decoded' = decoded
    BY <1>s, <2>1, <2>3
  <2>. QED BY <1>13, <2>2, <2>3 DEF EncoderStep
<1>14. ASSUME \/ StopTransmitter \/ Stopping \/ Transmitter \/ Server \/ UNCHANGED vars
              \/ EncoderStarts \/ EncoderExits \/ EncoderAsks
              \/ EncoderFlushes \/ EncoderFills \/ EncoderPuts
       PROVE  RawInOrder'
  <2>1. /\ UNCHANGED <<raw, offered, decoded>> /\ ~EncoderPublishes
        /\ main' = main \/ main' # "put"
        /\ encoder # "remove" \/ encoder' = encoder
    BY <1>14 DEF StopTransmitter, Stopping, JoinTransmitter, StopEncoder, Destroy,
          Transmitter, TransmitterExits, TransmitterTakes, TransmitterSends,
          TransmitterSent, TransmitterRemoves, TransmitterStep, Server, AddParticipant,
          RemoveParticipant, DestroyParticipant, EncoderStarts, EncoderExits,
          EncoderAsks, EncoderFlushes, EncoderFills, EncoderPuts, EncoderAt,
          EncoderPublishes, vars, mainVars, rawVars, encVars
  <2>. QED BY <1>s, <2>1
<1>. QED BY <1>7, <1>8, <1>9, <1>10, <1>11, <1>12, <1>13, <1>14 DEF Next, Main, Encoder

-----------------------------------------------------------------------------
(***************************************************************************)
(* The loss count of a ring of two positions: a flush of a full one        *)
(* forgets one frame and counts one.                                       *)
(***************************************************************************)
\* flush_frames has found the ring full and has not moved the front yet.
Forgetting(q) == q.flushing \/ "front" \in q.flushStores

LossInv ==
  /\ puts \in Nat /\ removes \in Nat /\ lost \in Nat
  /\ ~coded.raced =>
       puts + (IF Forgetting(coded) THEN 1 ELSE 0) <= removes + coded.held + lost

\* Only flush_frames itself begins to forget.
LEMMA ForgettingBegins ==
  ASSUME NEW q, RingOk(q),
         NEW p \in {CurrIn(q), CurrOut(q), PutFrame(q), RemoveFrame(q)}
                     \union ProducerSteps(q) \union ConsumerSteps(q)
  PROVE  /\ p.flushing => q.flushing
         /\ Forgetting(p) => Forgetting(q)
<1>1. q \in Rings /\ q.flushStores \in SUBSET {"state", "front"} /\ q.flushing \in BOOLEAN
  BY DEF RingOk, Rings
<1>2. CASE p \in {CurrIn(q), CurrOut(q), PutFrame(q), RemoveFrame(q)}
  <2>1. p.flushing = q.flushing /\ p.flushStores = q.flushStores
    <3>1. CASE p = CurrIn(q) \/ p = CurrOut(q)
      BY <1>1, <3>1 DEF CurrIn, CurrOut, Rings
    <3>2. CASE p = PutFrame(q)
      BY <1>1, <3>2 DEF PutFrame, PutCompare, Counting, Rings
    <3>3. CASE p = RemoveFrame(q)
      BY <1>1, <3>3 DEF RemoveFrame, RemoveCompare, Counting, Rings
    <3>. QED BY <1>2, <3>1, <3>2, <3>3
  <2>. QED BY <2>1 DEF Forgetting
<1>3. CASE p \in ConsumerSteps(q) \/ \E w \in q.putStores : p = PutStore(q, w)
  <2>1. p.flushing = q.flushing /\ p.flushStores = q.flushStores
    <3>1. CASE p \in ConsumerSteps(q)
      <4>1. PICK v \in q.removeStores : p = RemoveStore(q, v)
        BY <3>1 DEF ConsumerSteps
      <4>. QED BY <1>1, <4>1 DEF RemoveStore, Rings
    <3>2. CASE \E v \in q.putStores : p = PutStore(q, v)
      <4>1. PICK v \in q.putStores : p = PutStore(q, v)
        BY <3>2
      <4>. QED BY <1>1, <4>1 DEF PutStore, Rings
    <3>. QED BY <1>3, <3>1, <3>2
  <2>. QED BY <2>1 DEF Forgetting
<1>4. CASE q.flushing
  <2>1. p.flushing => q.flushing
    BY <1>4
  <2>. QED BY <1>4 DEF Forgetting
<1>5. CASE \E w \in q.flushStores : p = FlushStore(q, w)
  <2>1. p.flushing = q.flushing /\ p.flushStores \subseteq q.flushStores
    BY <1>1, <1>5 DEF FlushStore, Counting, Rings
  <2>. QED BY <2>1 DEF Forgetting
<1>. QED BY <1>2, <1>3, <1>4, <1>5 DEF ProducerSteps

\* Nothing is lost at first...
LEMMA LossInit == Init => LossInv
<1>1. InitRing.held = 0 /\ ~Forgetting(InitRing)
  BY RingStart DEF Forgetting, ProducerBusy, Flushing
<1>. QED BY <1>1 DEF Init, LossInv

\* ... and what every step loses is counted.
LEMMA LossNext ==
  ASSUME Max = 2, RingsInv, LossInv, [Next]_vars
  PROVE  LossInv'
<1>. DEFINE due == IF Forgetting(coded) THEN 1 ELSE 0
<1>1. /\ RingOk(coded) /\ RingOk(coded') /\ coded.held \in Nat /\ coded'.held \in Nat
      /\ puts \in Nat /\ removes \in Nat /\ lost \in Nat /\ due \in 0 .. 1
      /\ ~coded.raced => puts + due <= removes + coded.held + lost
      /\ coded.raced => coded'.raced
  BY RingsNext, MaxAssumption DEF RingsInv, LossInv, RingOk, Rings
<1>2. ASSUME EncoderFlushes PROVE LossInv'
  <2>1. /\ coded' = FlushFrames(coded) /\ lost' = lost + 1
        /\ UNCHANGED <<puts, removes>> /\ ~ProducerBusy(coded) /\ ~coded.in_process
    BY <1>2 DEF EncoderFlushes, EncoderAt, RingsInv, Filling
  <2>2. coded'.held = coded.held /\ coded'.raced = coded.raced
    BY <1>1, <2>1, FlushFramesKeeps
  <2>3. due' \in 0 .. 1
    OBVIOUS
  <2>4. ~coded'.raced => puts' + due' <= removes' + coded'.held + lost'
    <3>. HIDE DEF due
    <3>. QED BY <1>1, <2>1, <2>2, <2>3
  <2>. QED BY <1>1, <2>1, <2>4 DEF LossInv
<1>3. ASSUME EncoderPuts PROVE LossInv'
  <2>1. /\ coded' = PutFrame(coded) /\ puts' = puts + 1 /\ coded.in_process
        /\ UNCHANGED <<removes, lost>>
    BY <1>3 DEF EncoderPuts, EncoderAt, RingsInv, Filling
  <2>2. ~coded'.raced => coded'.held = coded.held + 1
    BY <1>1, <2>1, PutKeeps
  <2>3. due' <= due /\ due' \in 0 .. 1
    BY <1>1, <2>1, ForgettingBegins
  <2>4. ~coded'.raced => puts' + due' <= removes' + coded'.held + lost'
    <3>. HIDE DEF due
    <3>. QED BY <1>1, <2>1, <2>2, <2>3
  <2>. QED BY <1>1, <2>1, <2>4 DEF LossInv
<1>4. ASSUME TransmitterRemoves PROVE LossInv'
  <2>1. /\ coded' = RemoveFrame(coded) /\ removes' = removes + 1 /\ coded.out_process
        /\ UNCHANGED <<puts, lost>>
    BY <1>4 DEF TransmitterRemoves, TransmitterAt, RingsInv, Walking
  <2>2. ~coded'.raced => coded'.held = coded.held - 1
    BY <1>1, <2>1, RemoveKeeps
  <2>3. due' <= due /\ due' \in 0 .. 1
    BY <1>1, <2>1, ForgettingBegins
  <2>4. ~coded'.raced => puts' + due' <= removes' + coded'.held + lost'
    <3>. HIDE DEF due
    <3>. QED BY <1>1, <2>1, <2>2, <2>3
  <2>. QED BY <1>1, <2>1, <2>4 DEF LossInv
<1>5. ASSUME \/ coded' = CurrIn(coded) /\ MayPut(coded) /\ ~ProducerBusy(coded)
             \/ coded' = CurrOut(coded) /\ MayTake(coded) /\ ~ConsumerBusy(coded)
             \/ coded' \in ConsumerSteps(coded),
             UNCHANGED <<puts, removes, lost>>
      PROVE  LossInv'
  <2>1. coded'.held = coded.held /\ coded'.raced = coded.raced
    BY <1>1, <1>5, CurrInKeeps, CurrOutKeeps, ConsumerStepKeeps
  <2>3. due' <= due /\ due' \in 0 .. 1
    BY <1>1, <1>5, ForgettingBegins
  <2>4. ~coded'.raced => puts' + due' <= removes' + coded'.held + lost'
    <3>. HIDE DEF due
    <3>. QED BY <1>1, <1>5, <2>1, <2>3
  <2>. QED BY <1>1, <1>5, <2>4 DEF LossInv
<1>6. ASSUME coded' \in ProducerSteps(coded), UNCHANGED <<puts, removes, lost>>
      PROVE  LossInv'
  <2>. DEFINE moves == "front" \in coded.flushStores \ coded'.flushStores
  <2>1. /\ ~moves /\ ~coded'.raced => coded'.held = coded.held
        /\ moves /\ ~coded'.raced => coded.held = 2 /\ coded'.held = 1
    BY <1>1, <1>6, ProducerStepKeeps
  <2>2. due' <= due /\ due' \in 0 .. 1 /\ (coded'.flushing => coded.flushing)
    BY <1>1, <1>6, ForgettingBegins
  <2>3. moves => due = 1 /\ due' = 0
    <3>1. moves => ~coded.flushing /\ Forgetting(coded)
      BY <1>1 DEF RingOk, Calls, Forgetting
    <3>2. moves => ~Forgetting(coded')
      BY <2>2, <3>1 DEF Forgetting
    <3>. QED BY <3>1, <3>2
  <2>4. ~coded'.raced => puts' + due' <= removes' + coded'.held + lost'
    <3>. HIDE DEF due, moves
    <3>. QED BY <1>1, <1>6, <2>1, <2>2, <2>3
  <2>. QED BY <1>1, <1>6, <2>4 DEF LossInv
<1>7. ASSUME UNCHANGED <<coded, puts, removes, lost>> PROVE LossInv'
  BY <1>1, <1>7 DEF LossInv
<1>8. ASSUME EncoderAsks \/ EncoderStep PROVE LossInv'
  <2>1. UNCHANGED <<puts, removes, lost>>
    BY <1>8 DEF EncoderAsks, EncoderStep
  <2>2. \/ coded' = CurrIn(coded) /\ MayPut(coded) /\ ~ProducerBusy(coded)
        \/ coded' \in ProducerSteps(coded)
        \/ coded' = coded
    BY <1>8 DEF EncoderAsks, EncoderAt, EncoderStep
  <2>. QED BY <2>1, <2>2, <1>5, <1>6, <1>7
<1>9. ASSUME TransmitterTakes \/ TransmitterStep PROVE LossInv'
  <2>1. /\ UNCHANGED <<puts, removes, lost>>
        /\ \/ coded' = CurrOut(coded) /\ MayTake(coded) /\ ~ConsumerBusy(coded)
           \/ coded' \in ConsumerSteps(coded)
    BY <1>9 DEF TransmitterTakes, TransmitterStep, TransmitterAt
  <2>. QED BY <2>1, <1>5
<1>10. ASSUME \/ Main \/ Server \/ UNCHANGED vars \/ EncoderStarts \/ EncoderExits
              \/ EncoderTakes \/ EncoderFills \/ EncoderPublishes \/ EncoderRemoves
              \/ TransmitterExits \/ TransmitterSends \/ TransmitterSent
       PROVE  LossInv'
  <2>1. UNCHANGED <<coded, puts, removes, lost>>
    BY <1>10 DEF Main, Feed, FeedPut, FeedStep, StopTransmitter, Stopping, JoinTransmitter,
          StopEncoder, Destroy, Server, AddParticipant, RemoveParticipant,
          DestroyParticipant, vars, EncoderStarts, EncoderExits, EncoderTakes,
          EncoderFills, EncoderPublishes, EncoderRemoves, TransmitterExits,
          TransmitterSends, TransmitterSent, codedVars
  <2>. QED BY <2>1, <1>7
<1>. QED BY <1>2, <1>3, <1>4, <1>8, <1>9, <1>10 DEF Next, Encoder, Transmitter

\* Between two calls the words of the ring tell what is still in it.
LEMMA LossIs == ASSUME RingsInv, LossInv PROVE LossCounted
<1>. SUFFICES ASSUME Calm, ~ProducerBusy(coded), ~ConsumerBusy(coded)
              PROVE  puts <= removes + Count(coded) + lost
  BY DEF LossCounted
<1>1. Count(coded) = coded.held /\ coded.held \in Nat
  BY CountAtRest, MaxAssumption DEF RingsInv, RingOk, Rings, Calm
<1>2. ~Forgetting(coded)
  BY DEF ProducerBusy, Flushing, Forgetting
<1>3. puts + 0 <= removes + coded.held + lost /\ puts \in Nat
  BY <1>2 DEF LossInv, Calm
<1>. QED BY <1>1, <1>3

-----------------------------------------------------------------------------
(***************************************************************************)
(* The theorems.                                                           *)
(***************************************************************************)
SenderInv == RingsInv /\ NumbersInv /\ ListInv

\* The three invariants together are inductive.
LEMMA SenderInvariant == Spec => []SenderInv
<1>1. Init => SenderInv
  BY RingsInit, NumbersInit, ListInit DEF SenderInv
<1>2. SenderInv /\ [Next]_vars => SenderInv'
  BY RingsNext, TypesNext, OutputNext, SentNext, RawNext, ListNext
  DEF SenderInv, NumbersInv
<1>. QED BY <1>1, <1>2, PTL DEF Spec

\* Whatever the flushes of the encoder do to the ring of coded frames under
\* the transmitter, what it starts to send is a whole frame, no older than
\* the one it took, as long as no call has raced.
THEOREM SendsWhole == Spec => []SentWhole
<1>1. SenderInv => SentWhole
  BY DEF SenderInv, NumbersInv, SentInv, SentWhole
<1>. QED BY <1>1, SenderInvariant, PTL

\* No participant is sent a frame older than one it was sent before, as long
\* as no call has raced.
THEOREM SendsForward == Spec => NeverSentBack
<1>1. SenderInv /\ [Next]_vars => [Calm' => \A c \in Clients : shown'[c] >= shown[c]]_vars
  BY SentNext DEF SenderInv
<1>. QED BY <1>1, SenderInvariant, PTL DEF Spec, NeverSentBack

\* The transmitter sends only to participants that have not been destroyed:
\* the lock on the list is enough, although participants are destroyed
\* outside it.
THEOREM ParticipantsLive == Spec => []ParticipantAlive
<1>1. SenderInv => ParticipantAlive
  BY DEF SenderInv, ListInv, ParticipantAlive
<1>. QED BY <1>1, SenderInvariant, PTL

\* No coded frame gets lost uncounted, with rings of two positions as the
\* program makes them, as long as no call has raced.
THEOREM LossIsCounted == ASSUME Max = 2 PROVE Spec => []LossCounted
<1>1. SenderInv /\ LossInv /\ [Next]_vars => LossInv'
  BY LossNext DEF SenderInv
<1>2. Init => LossInv
  BY LossInit
<1>3. SenderInv /\ LossInv => LossCounted
  BY LossIs DEF SenderInv
<1>. QED BY <1>1, <1>2, <1>3, SenderInvariant, PTL DEF Spec
=============================================================================
