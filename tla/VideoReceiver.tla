---------------------------- MODULE VideoReceiver ----------------------------
(***************************************************************************)
(* The receiving side of one video stream: the network, the receiver       *)
(* thread (video_receiver_thread in src/io_mngr/receiver.c) with its       *)
(* playout buffer, the ring of coded frames, and the decoder thread that   *)
(* empties the ring.                                                       *)
(*                                                                         *)
(* One source feeds one participant.  The receiver thread either takes a   *)
(* packet or, when select times out, makes a pass over its source: it asks *)
(* the ring for a free position, decodes the first ready frame into it,    *)
(* starts the decoder at the first intra frame, and commits the position.  *)
(* The pass is cut where another thread can get in between, inside the     *)
(* calls on the ring too (FrameRing).                                      *)
(***************************************************************************)
EXTENDS PlayoutBuffer, FrameRing, FiniteSets

CONSTANTS Frames,         \* number of frames the sender sends (model bound)
          FrameKinds,     \* the kinds of frame it may send
          Window,         \* packets in the network at a time (model bound):
                          \* 1 keeps their order
          Lossy,          \* whether the network loses packets
          StateChanges,   \* calls of set_stream_state (model bound)
          NoSlot          \* a NULL frame pointer

\* BAD stands for the frames decode_frame_h264 refuses.
ASSUME ReceiverAssumption ==
  /\ Frames \in Nat
  /\ FrameKinds \subseteq {"INTRA", "BFRAME", "OTHER", "BAD"}
  /\ Window \in Nat \ {0}
  /\ Lossy \in BOOLEAN
  /\ StateChanges \in Nat
  /\ NoSlot \notin Slots

VARIABLES kind,         \* the kind of each frame
          sent,         \* packets sent so far
          flight,       \* packets in the network
          buf,          \* the playout buffer
          waiting,      \* timestamps of nodes not yet due, oldest node first
          ring,         \* the ring of coded frames
          coded,        \* the frame each position of the ring holds, 0: none
          sized,        \* positions whose width and height are known
          pc,           \* where the receiver thread is
          state,        \* stream->state
          decoder,      \* "none": video->decoder = NULL; "running"; "dead":
                        \* there is one, but its thread could not be created
          resuming,     \* a call of set_stream_state found NON_ACTIVE
          consumer,     \* the position the decoder thread reads, or NoSlot
          changes,      \* calls of set_stream_state so far
          lost,         \* video->lost_coded_frames
          committed,    \* the frames put into the ring, in order
          outcomes      \* how often each frame was committed, skipped,
                        \* refused or discarded

netVars   == <<kind, sent, flight>>
bufVars   == <<buf, waiting>>
ringVars  == <<ring, coded, sized, consumer>>
ghostVars == <<committed, outcomes>>
callVars  == <<resuming, changes>>
vars == <<netVars, bufVars, ringVars, pc, state, decoder, callVars, lost, ghostVars>>

Init ==
  /\ kind \in [1 .. Frames -> FrameKinds]
  /\ sent = 0
  /\ flight = {}
  /\ buf = <<>>
  /\ waiting = <<>>
  /\ ring = InitRing
  /\ coded = [s \in Slots |-> 0]
  /\ sized = {}
  /\ pc = "recv"
  /\ state = "I_AWAIT"
  /\ decoder = "none"
  /\ consumer = NoSlot
  /\ changes = 0
  /\ resuming = FALSE
  /\ lost = 0
  /\ committed = <<>>
  /\ outcomes = [f \in 1 .. Frames |-> 0]

FrameOfTs(ts) == CHOOSE f \in 1 .. Frames : TsOfFrame(f) = ts

Settle(f) == outcomes' = [outcomes EXCEPT ![f] = @ + 1]

-----------------------------------------------------------------------------
(* The network. *)

Send ==
  /\ sent < Frames * PacketsPer
  /\ Cardinality(flight) < Window
  /\ sent' = sent + 1
  /\ flight' = flight \union {sent + 1}
  /\ UNCHANGED <<kind, bufVars, ringVars, pc, state, decoder, callVars, lost, ghostVars>>

Lose ==
  /\ Lossy
  /\ \E n \in flight : flight' = flight \ {n}
  /\ UNCHANGED <<kind, sent, bufVars, ringVars, pc, state, decoder, callVars, lost, ghostVars>>

-----------------------------------------------------------------------------
(* The receiver thread. *)

\* Between two passes, and not inside put_frame any more.
Receiving == pc = "recv" /\ ~ProducerBusy(ring)

\* rtp_recv_r takes a packet and hands it to pbuf_insert.
Receive ==
  /\ Receiving
  /\ \E n \in flight :
       /\ flight' = flight \ {n}
       /\ buf' = Insert(buf, n)
       /\ waiting' = IF HasNode(buf, n) THEN waiting ELSE Append(waiting, TsOf(n))
  /\ UNCHANGED <<kind, sent, ringVars, pc, state, decoder, callVars, lost, ghostVars>>

\* Time passes: the oldest node that was not yet due is due now.
Elapse ==
  /\ waiting # <<>>
  /\ buf' = PassPlayout(buf, Head(waiting))
  /\ waiting' = Tail(waiting)
  /\ UNCHANGED <<netVars, ringVars, pc, state, decoder, callVars, lost, ghostVars>>

\* A pass that finds the ring full discards a complete frame at the head of
\* the playout buffer and counts it.
PassFull ==
  /\ Receiving
  /\ ~MayPut(ring)
  /\ HeadComplete(buf)
  /\ buf' = RemoveFirst(MarkDecoded(buf, 1))
  /\ lost' = lost + 1
  /\ Settle(FrameOfTs(buf[1].ts))
  /\ UNCHANGED <<netVars, waiting, ringVars, pc, state, decoder, callVars, committed>>

\* A pass that gets a free position.
PassBegin ==
  /\ Receiving
  /\ MayPut(ring)
  /\ ring' = CurrIn(ring)
  /\ pc' = "pass"
  /\ UNCHANGED <<netVars, bufVars, coded, sized, consumer, state, decoder, callVars, lost, ghostVars>>

PassNothing ==
  /\ pc = "pass"
  /\ FirstReady(buf) = 0
  /\ pc' = "recv"
  /\ UNCHANGED <<netVars, bufVars, ringVars, state, decoder, callVars, lost, ghostVars>>

\* decode_frame_h264 returns FALSE: the node is marked, and stays.
PassRefuses ==
  /\ pc = "pass"
  /\ FirstReady(buf) # 0
  /\ LET f == FrameOfTs(buf[FirstReady(buf)].ts)
     IN  /\ kind[f] = "BAD"
         /\ coded' = [coded EXCEPT ![ring.rear] = 0]
         /\ Settle(f)
  /\ buf' = MarkDecoded(buf, FirstReady(buf))
  /\ pc' = "recv"
  /\ UNCHANGED <<netVars, waiting, ring, sized, consumer, state, decoder, callVars, lost, committed>>

\* decode_frame_h264 fills the position.  The first packet of an intra frame
\* carries the picture size.  An intra frame that finds the stream waiting,
\* with a known size, is about to start the decoder.
PassDecodes ==
  /\ pc = "pass"
  /\ FirstReady(buf) # 0
  /\ LET node == buf[FirstReady(buf)]
         f    == FrameOfTs(node.ts)
     IN  /\ kind[f] # "BAD"
         /\ coded' = [coded EXCEPT ![ring.rear] = f]
         /\ sized' = IF /\ kind[f] = "INTRA"
                        /\ \E i \in DOMAIN node.cdata : node.cdata[i] = (f - 1) * PacketsPer + 1
                     THEN sized \union {ring.rear}
                     ELSE sized
         /\ pc' = IF state = "I_AWAIT" /\ kind[f] = "INTRA" /\ ring.rear \in sized'
                  THEN "start" ELSE "commit"
  /\ buf' = MarkDecoded(buf, FirstReady(buf))
  /\ UNCHANGED <<netVars, waiting, ring, consumer, state, decoder, callVars, lost, ghostVars>>

\* start_decoder unless there is a decoder, then stream->state = ACTIVE,
\* whether or not the thread could be created.
StartStream ==
  /\ pc = "start"
  /\ IF decoder = "none" THEN decoder' \in {"running", "dead"} ELSE UNCHANGED decoder
  /\ state' = "ACTIVE"
  /\ pc' = "commit"
  /\ UNCHANGED <<netVars, bufVars, ringVars, callVars, lost, ghostVars>>

\* init_decoder returns NULL, and start_decoder writes through it: the
\* program ends.
StartCrashes ==
  /\ pc = "start"
  /\ decoder = "none"
  /\ pc' = "crashed"
  /\ UNCHANGED <<netVars, bufVars, ringVars, state, decoder, callVars, lost, ghostVars>>

\* Mutant: B-frames are committed too.
CommitAny ==
  /\ pc = "commit"
  /\ ring' = PutFrame(ring)
  /\ committed' = Append(committed, coded[ring.rear])
  /\ Settle(coded[ring.rear])
  /\ buf' = RemoveFirst(buf)
  /\ pc' = "recv"
  /\ UNCHANGED <<netVars, waiting, coded, sized, consumer, state, decoder, callVars, lost>>

\* The frame is committed unless the stream is not active or it is a B-frame;
\* then the head of the playout buffer goes if it is decoded.
Commit ==
  /\ pc = "commit"
  /\ LET f == coded[ring.rear]
     IN  /\ IF state = "ACTIVE" /\ kind[f] # "BFRAME"
            THEN ring' = PutFrame(ring) /\ committed' = Append(committed, f)
            ELSE UNCHANGED <<ring, committed>>
         /\ Settle(f)
  /\ buf' = RemoveFirst(buf)
  /\ pc' = "recv"
  /\ UNCHANGED <<netVars, waiting, coded, sized, consumer, state, decoder, callVars, lost>>

\* The receiver thread goes on inside put_frame.
PutStep ==
  /\ ring' \in ProducerSteps(ring)
  /\ UNCHANGED <<netVars, bufVars, coded, sized, consumer, pc, state, decoder, callVars,
                 lost, ghostVars>>

-----------------------------------------------------------------------------
(* The decoder thread and the caller of set_stream_state. *)

TakeCoded ==
  /\ decoder = "running"
  /\ consumer = NoSlot
  /\ ~ConsumerBusy(ring)
  /\ MayTake(ring)
  /\ ring' = CurrOut(ring)
  /\ consumer' = ring.front
  /\ UNCHANGED <<netVars, bufVars, coded, sized, pc, state, decoder, callVars, lost, ghostVars>>

ReleaseCoded ==
  /\ consumer # NoSlot
  /\ ring' = RemoveFrame(ring)
  /\ consumer' = NoSlot
  /\ UNCHANGED <<netVars, bufVars, coded, sized, pc, state, decoder, callVars, lost, ghostVars>>

\* The decoder thread goes on inside remove_frame.
ReleaseStep ==
  /\ ring' \in ConsumerSteps(ring)
  /\ UNCHANGED <<netVars, bufVars, coded, sized, consumer, pc, state, decoder, callVars,
                 lost, ghostVars>>

Deactivate ==
  /\ pc # "crashed"
  /\ changes < StateChanges
  /\ ~resuming
  /\ changes' = changes + 1
  /\ state' = "NON_ACTIVE"
  /\ UNCHANGED <<netVars, bufVars, ringVars, pc, resuming, decoder, lost, ghostVars>>

\* Any other state asked for makes a NON_ACTIVE stream wait for an intra
\* frame; the test and the assignment are two steps.
ResumeTest ==
  /\ pc # "crashed"
  /\ changes < StateChanges
  /\ ~resuming
  /\ state = "NON_ACTIVE"
  /\ changes' = changes + 1
  /\ resuming' = TRUE
  /\ UNCHANGED <<netVars, bufVars, ringVars, pc, state, decoder, lost, ghostVars>>

Resume ==
  /\ pc # "crashed"
  /\ resuming
  /\ resuming' = FALSE
  /\ state' = "I_AWAIT"
  /\ UNCHANGED <<netVars, bufVars, ringVars, pc, decoder, changes, lost, ghostVars>>

-----------------------------------------------------------------------------
Receiver ==
  \/ Receive \/ PassFull \/ PassBegin \/ PassNothing \/ PassRefuses
  \/ PassDecodes \/ StartStream \/ StartCrashes \/ Commit \/ PutStep

Decoder == TakeCoded \/ ReleaseCoded \/ ReleaseStep

Caller == Deactivate \/ ResumeTest \/ Resume

Next == Send \/ Lose \/ Receiver \/ Elapse \/ Decoder \/ Caller

Spec == Init /\ [][Next]_vars

\* The threads keep running and time passes.  Receive is strongly fair: a
\* packet the network does not lose gets to the socket, and then select does
\* not time out.
FairSpec ==
  /\ Spec
  /\ WF_vars(Send) /\ WF_vars(Elapse)
  /\ WF_vars(Receiver) /\ SF_vars(Receive)
  /\ WF_vars(Decoder)

-----------------------------------------------------------------------------
(* Properties. *)

NodeType == [ts: 0 .. TsMod - 1, cdata: Seq(1 .. Frames * PacketsPer),
             mbit: BOOLEAN, decoded: BOOLEAN, due: BOOLEAN]

\* The variables keep their types.
TypeOK ==
  /\ kind \in [1 .. Frames -> FrameKinds]
  /\ sent \in 0 .. Frames * PacketsPer
  /\ flight \subseteq 1 .. sent
  /\ buf \in Seq(NodeType)
  /\ waiting \in Seq(0 .. TsMod - 1)
  /\ ring \in Rings
  /\ coded \in [Slots -> 0 .. Frames]
  /\ sized \subseteq Slots
  /\ pc \in {"recv", "pass", "start", "commit", "crashed"}
  /\ state \in {"I_AWAIT", "ACTIVE", "NON_ACTIVE"}
  /\ decoder \in {"none", "running", "dead"} /\ resuming \in BOOLEAN
  /\ consumer \in Slots \union {NoSlot}
  /\ changes \in 0 .. StateChanges
  /\ lost \in 0 .. Frames
  /\ committed \in Seq(1 .. Frames)
  /\ outcomes \in [1 .. Frames -> Nat]

\* What the decoder is given starts with an intra frame and has no B-frame.
StartsWithIntra ==
  \A i \in DOMAIN committed :
    kind[committed[i]] \in (IF i = 1 THEN {"INTRA"} ELSE {"INTRA", "OTHER"})

\* The packets of a node are kept newest first, across a wrap of the sequence
\* number, so that the frame can be put together back to front.
NewestFirst ==
  \A i \in DOMAIN buf : \A j, k \in DOMAIN buf[i].cdata :
    j < k => buf[i].cdata[j] > buf[i].cdata[k]

\* On a network that keeps the order of packets (and may lose some), frames
\* are committed in the order they were sent.
CommittedInOrder ==
  \A i, j \in DOMAIN committed : i < j => committed[i] < committed[j]

\* On such a network every frame is settled once: it is not both committed
\* and counted as lost.
SettledOnce == \A f \in 1 .. Frames : outcomes[f] <= 1

\* A frame whose marker has arrived is decoded or discarded in the end, even
\* behind a frame that never gets complete, as long as the decoder runs.
\* (When it could not be started the ring fills up, and then nothing passes an
\* incomplete frame at the head of the playout buffer any more.)
CompleteIsSettled ==
  \A f \in 1 .. Frames :
    (\E i \in DOMAIN buf : buf[i].ts = TsOfFrame(f) /\ Complete(buf[i]))
      ~> outcomes[f] > 0 \/ pc = "crashed" \/ decoder = "dead"
=============================================================================
