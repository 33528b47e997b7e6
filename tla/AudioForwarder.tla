---------------------------- MODULE AudioForwarder ----------------------------
(***************************************************************************)
(* Audio through the whole I/O manager, as tests/mmforwarder.c wires it:   *)
(* five threads joined by four circular queues.                            *)
(*                                                                         *)
(*   audio_receiver_thread -> inCoded    -> decoder_thread                 *)
(*                         -> inDecoded  -> audio_frame_forward            *)
(*                         -> outDecoded -> encoder_thread                 *)
(*                         -> outCoded   -> audio_transmitter_thread       *)
(*                                                                         *)
(* A received frame holds one or more parts of the internal frame size;    *)
(* the decoder takes one part at a time out of the bag at the front, which *)
(* leaves its queue with its last part.  From there on one bag is one      *)
(* part.  A thread that holds a bag between cq_get_* and the call that     *)
(* gives it back is in a step of its own, and inside cq_add_bag and        *)
(* cq_remove_bag every access to the words of the queue is one, so the     *)
(* threads interleave wherever they share something.                       *)
(***************************************************************************)
EXTENDS BagRing, Sequences

SX == INSTANCE SequencesExt

CONSTANTS Frames,     \* number of audio frames that arrive (model bound)
          MaxParts    \* parts in a frame, at most (model bound)

ASSUME AudioAssumption == Frames \in Nat /\ MaxParts \in Nat \ {0}

Queues == {"inCoded", "inDecoded", "outDecoded", "outCoded"}

Threads == {"receiver", "decoder", "forwarder", "encoder", "transmitter"}

VARIABLES parts,       \* number of parts of each frame
          arrived,     \* frames that arrived in the playout buffer
          received,    \* frames decode_audio_frame_mulaw put into a bag
          ring,        \* the four rings
          bag,         \* what each bag holds, a sequence of parts
          pc,          \* where each thread is, "idle" between two bags
          decoding,    \* the part the decoder has taken and not yet added
          encoded,     \* the parts the encoder removed, in order
          sent         \* the bags transmitted, in order

vars == <<parts, arrived, received, ring, bag, pc, decoding, encoded, sent>>

PartsOf(f) == [k \in 1 .. parts[f] |-> <<f, k>>]

\* The parts of the first n frames in the order they arrive.
PartsUpTo(n) == SX!FlattenSeq([f \in 1 .. n |-> PartsOf(f)])

FrontBag(q) == bag[q][ring[q].front]

\* The threads that add to and remove from each queue.
Adder == [inCoded |-> "receiver", inDecoded |-> "decoder",
          outDecoded |-> "forwarder", outCoded |-> "encoder"]

Remover == [inCoded |-> "decoder", inDecoded |-> "forwarder",
            outDecoded |-> "encoder", outCoded |-> "transmitter"]

\* A thread inside cq_add_bag or cq_remove_bag does nothing else.
Busy(thread) ==
  \E q \in Queues : \/ Adder[q] = thread /\ Putting(ring[q])
                    \/ Remover[q] = thread /\ Removing(ring[q])

At(thread, step) == pc[thread] = step /\ ~Busy(thread)

Go(thread, step) == pc' = [pc EXCEPT ![thread] = step]

Fill(q, content) == bag' = [bag EXCEPT ![q][ring[q].rear] = content]

Init ==
  /\ parts \in [1 .. Frames -> 1 .. MaxParts]
  /\ arrived = 0
  /\ received = 0
  /\ ring = [q \in Queues |-> InitBagRing]
  /\ bag = [q \in Queues |-> [b \in Slots |-> <<>>]]
  /\ pc = [t \in Threads |-> "idle"]
  /\ decoding = <<>>
  /\ encoded = <<>>
  /\ sent = <<>>

-----------------------------------------------------------------------------
\* A thread goes on inside cq_add_bag or cq_remove_bag.
Step(thread) ==
  /\ \E q \in Queues :
       \/ /\ Adder[q] = thread
          /\ \E next \in AddSteps(ring[q]) : ring' = [ring EXCEPT ![q] = next]
       \/ /\ Remover[q] = thread
          /\ \E next \in RemoveSteps(ring[q]) : ring' = [ring EXCEPT ![q] = next]
  /\ UNCHANGED <<parts, arrived, received, bag, pc, decoding, encoded, sent>>

-----------------------------------------------------------------------------
(* audio_receiver_thread.  A frame that finds the queue full stays in the  *)
(* playout buffer, not decoded, and is taken in a later pass.              *)

Arrive ==
  /\ arrived < Frames
  /\ arrived' = arrived + 1
  /\ UNCHANGED <<parts, received, ring, bag, pc, decoding, encoded, sent>>

ReceiveBegin ==
  /\ At("receiver", "idle")
  /\ received < arrived
  /\ MayAdd(ring["inCoded"])
  /\ Go("receiver", "fill")
  /\ UNCHANGED <<parts, arrived, received, ring, bag, decoding, encoded, sent>>

ReceiveAdd ==
  /\ At("receiver", "fill")
  /\ Fill("inCoded", PartsOf(received + 1))
  /\ received' = received + 1
  /\ ring' = [ring EXCEPT !["inCoded"] = AddBag(@)]
  /\ Go("receiver", "idle")
  /\ UNCHANGED <<parts, arrived, decoding, encoded, sent>>

-----------------------------------------------------------------------------
(* decoder_thread *)

DecodeBegin ==
  /\ At("decoder", "idle")
  /\ MayRemove(ring["inCoded"])
  /\ MayAdd(ring["inDecoded"])
  /\ Go("decoder", "take")
  /\ UNCHANGED <<parts, arrived, received, ring, bag, decoding, encoded, sent>>

\* A bag that was never filled decodes to nothing.
FirstPart(b) == IF b = <<>> THEN <<>> ELSE <<Head(b)>>

\* Mutant: the bag is removed with its first part.
DecodeTakeAll ==
  /\ At("decoder", "take")
  /\ decoding' = FirstPart(FrontBag("inCoded"))
  /\ ring' = [ring EXCEPT !["inCoded"] = RemoveBag(@)]
  /\ Go("decoder", "add")
  /\ UNCHANGED <<parts, arrived, received, bag, encoded, sent>>

\* normalize_extract when the frame is too big, else the rest of the bag.
DecodeTake ==
  /\ At("decoder", "take")
  /\ decoding' = FirstPart(FrontBag("inCoded"))
  /\ IF Len(FrontBag("inCoded")) > 1
     THEN /\ bag' = [bag EXCEPT !["inCoded"][ring["inCoded"].front] = Tail(@)]
          /\ UNCHANGED ring
     ELSE /\ ring' = [ring EXCEPT !["inCoded"] = RemoveBag(@)]
          /\ UNCHANGED bag
  /\ Go("decoder", "add")
  /\ UNCHANGED <<parts, arrived, received, encoded, sent>>

DecodeAdd ==
  /\ At("decoder", "add")
  /\ Fill("inDecoded", decoding)
  /\ ring' = [ring EXCEPT !["inDecoded"] = AddBag(@)]
  /\ decoding' = <<>>
  /\ Go("decoder", "idle")
  /\ UNCHANGED <<parts, arrived, received, encoded, sent>>

-----------------------------------------------------------------------------
(* audio_frame_forward: add to the one queue, then remove from the other. *)

ForwardBegin ==
  /\ At("forwarder", "idle")
  /\ MayRemove(ring["inDecoded"])
  /\ MayAdd(ring["outDecoded"])
  /\ Go("forwarder", "add")
  /\ UNCHANGED <<parts, arrived, received, ring, bag, decoding, encoded, sent>>

ForwardAdd ==
  /\ At("forwarder", "add")
  /\ Fill("outDecoded", FrontBag("inDecoded"))
  /\ ring' = [ring EXCEPT !["outDecoded"] = AddBag(@)]
  /\ Go("forwarder", "remove")
  /\ UNCHANGED <<parts, arrived, received, decoding, encoded, sent>>

ForwardRemove ==
  /\ At("forwarder", "remove")
  /\ ring' = [ring EXCEPT !["inDecoded"] = RemoveBag(@)]
  /\ Go("forwarder", "idle")
  /\ UNCHANGED <<parts, arrived, received, bag, decoding, encoded, sent>>

-----------------------------------------------------------------------------
(* encoder_thread.  cq_remove_bag and cq_add_bag stand behind the test of  *)
(* the rear bag, not under it: when the coded queue was full the frame is  *)
(* removed unencoded and a bag nobody filled is added.                     *)

EncodeBegin ==
  /\ At("encoder", "idle")
  /\ MayRemove(ring["outDecoded"])
  /\ Go("encoder", IF MayAdd(ring["outCoded"]) THEN "encode" ELSE "skip")
  /\ UNCHANGED <<parts, arrived, received, ring, bag, decoding, encoded, sent>>

EncodeRemove ==
  /\ At("encoder", "encode") \/ At("encoder", "skip")
  /\ IF At("encoder", "encode")
     THEN Fill("outCoded", FrontBag("outDecoded"))
     ELSE UNCHANGED bag
  /\ encoded' = encoded \o FrontBag("outDecoded")
  /\ ring' = [ring EXCEPT !["outDecoded"] = RemoveBag(@)]
  /\ Go("encoder", "add")
  /\ UNCHANGED <<parts, arrived, received, decoding, sent>>

EncodeAdd ==
  /\ At("encoder", "add")
  /\ ring' = [ring EXCEPT !["outCoded"] = AddBag(@)]
  /\ Go("encoder", "idle")
  /\ UNCHANGED <<parts, arrived, received, bag, decoding, encoded, sent>>

-----------------------------------------------------------------------------
(* audio_transmitter_thread *)

\* Mutant: a NULL frame is sent too.
TransmitBeginUnchecked ==
  /\ At("transmitter", "idle")
  /\ Go("transmitter", "send")
  /\ UNCHANGED <<parts, arrived, received, ring, bag, decoding, encoded, sent>>

TransmitBegin ==
  /\ At("transmitter", "idle")
  /\ MayRemove(ring["outCoded"])
  /\ Go("transmitter", "send")
  /\ UNCHANGED <<parts, arrived, received, ring, bag, decoding, encoded, sent>>

TransmitRemove ==
  /\ At("transmitter", "send")
  /\ sent' = Append(sent, FrontBag("outCoded"))
  /\ ring' = [ring EXCEPT !["outCoded"] = RemoveBag(@)]
  /\ Go("transmitter", "idle")
  /\ UNCHANGED <<parts, arrived, received, bag, decoding, encoded>>

-----------------------------------------------------------------------------
Receiver    == ReceiveBegin \/ ReceiveAdd \/ Step("receiver")
Decoder     == DecodeBegin \/ DecodeTake \/ DecodeAdd \/ Step("decoder")
Forwarder   == ForwardBegin \/ ForwardAdd \/ ForwardRemove \/ Step("forwarder")
Encoder     == EncodeBegin \/ EncodeRemove \/ EncodeAdd \/ Step("encoder")
Transmitter == TransmitBegin \/ TransmitRemove \/ Step("transmitter")

Next == Arrive \/ Receiver \/ Decoder \/ Forwarder \/ Encoder \/ Transmitter

Spec == Init /\ [][Next]_vars

\* Every thread polls its queues for as long as the program runs.
FairSpec ==
  /\ Spec
  /\ WF_vars(Arrive) /\ WF_vars(Receiver) /\ WF_vars(Decoder)
  /\ WF_vars(Forwarder) /\ WF_vars(Encoder) /\ WF_vars(Transmitter)

-----------------------------------------------------------------------------
(* Properties. *)

Part == (1 .. Frames) \X (1 .. MaxParts)

\* The variables keep their types.
TypeOK ==
  /\ parts \in [1 .. Frames -> 1 .. MaxParts]
  /\ arrived \in 0 .. Frames /\ received \in 0 .. arrived
  /\ ring \in [Queues -> BagRings]
  /\ bag \in [Queues -> [Slots -> Seq(Part)]]
  /\ pc \in [Threads -> {"idle", "fill", "take", "add", "remove", "encode",
                         "skip", "send"}]
  /\ decoding \in Seq(Part) /\ encoded \in Seq(Part) /\ sent \in Seq(Seq(Part))

\* No call of one side of a queue has run into an unfinished call of the other
\* side about the same bag.
Calm == \A q \in Queues : ~ring[q].raced

\* Whether the producer of a queue may be writing its rear bag, and its
\* consumer reading (the decoder: also cutting) its front bag: from the call
\* that returned the bag to the call that gives it back.
Writing(q) ==
  \/ q = "inCoded"    /\ pc["receiver"] = "fill"
  \/ q = "inDecoded"  /\ pc["decoder"] \in {"take", "add"}
  \/ q = "outDecoded" /\ pc["forwarder"] = "add"
  \/ q = "outCoded"   /\ pc["encoder"] = "encode"

Reading(q) ==
  \/ q = "inCoded"    /\ pc["decoder"] = "take"
  \/ q = "inDecoded"  /\ pc["forwarder"] \in {"add", "remove"}
  \/ q = "outDecoded" /\ pc["encoder"] \in {"encode", "skip"}
  \/ q = "outCoded"   /\ pc["transmitter"] = "send"

\* No bag is written by one thread while another one uses it, in any of the
\* queues, not even in the one the encoder adds to when it is full.
BagExclusive ==
  \A q \in Queues :
    ~ring[q].raced /\ Writing(q) /\ Reading(q) => ring[q].rear # ring[q].front

\* The parts a queue holds, oldest first.
Held(q) ==
  SX!FlattenSeq([i \in 1 .. ring[q].held |-> bag[q][BagAt(ring[q], i - 1)]])

\* Without the front bag of inDecoded once it is copied.
HeldDecoded ==
  IF pc["forwarder"] = "remove" THEN Tail(Held("inDecoded")) ELSE Held("inDecoded")

\* From the receiver to the encoder no part is lost, repeated or overtaken:
\* what the encoder took and what is still on the way add up to what was
\* received, in order.
NothingLostToEncoder ==
  Calm =>
    encoded \o Held("outDecoded") \o HeldDecoded \o decoding \o Held("inCoded")
      = PartsUpTo(received)

\* Nothing is transmitted that the encoder was not given before: no bag that
\* was never filled, and no bag that is empty or cut.
SentWasEncoded ==
  Calm =>
    \A i \in DOMAIN sent :
      Len(sent[i]) = 1 /\ \E j \in DOMAIN encoded : encoded[j] = sent[i][1]

\* The level hides what a queue holds: its consumer stored EMPTY over what a
\* later cq_add_bag stored.
LeftBehind(q) == ring[q].state = "EMPTY" /\ ring[q].rear # ring[q].front

\* No thread waits for another one forever: all that arrives leaves the
\* queues, but for the last bags when they are left behind.
PipelineDrains ==
  <>[](Calm => /\ received = Frames
               /\ \A q \in Queues : ring[q].held = 0 \/ LeftBehind(q))
=============================================================================
