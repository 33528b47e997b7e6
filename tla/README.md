# A model of media-streamer

media-streamer receives H.264 video and audio over RTP, decodes, encodes, mixes
or forwards it, and sends it out again. It is an I/O manager (`src/io_mngr`) on
top of a library that descends from UltraGrid (`src/src`). This directory holds
TLA+ modules for the parts where threads meet (the queues, the playout buffer,
the threads between them, and the worker pool), and for the parts that are hard
to get right although one thread runs them: the source database of an RTP
session, the participant database, and the way of an H.264 frame into packets
and back. TLC checks them on small instances; TLAPS proves the safety
properties of the ring of video frames, the receiver, the transmitter, the
worker pool, the RTP session, the participant database and the way of an H.264
frame for every value of their constants, up to the assumptions that section 4
names.

The queues between threads take no lock, and the code does not keep what a queue
should keep under every interleaving. The models take each call one access to the
shared words at a time, say at which interleavings a queue breaks (a *race*,
section 2), and what holds until then. Section 3 says where a race leads.

Line numbers below are those of the commit the model was made from.

## 1. The system

### Data flow

    video in :  socket -> rtp session -> playout buffer (one per source)
                -> video_receiver_thread -> ring of coded frames (size 1..n)
                -> decoder_th -> ring of decoded frames
    video out:  ring of decoded frames -> encoder_routine -> ring of coded frames
                -> video_transmitter_thread -> one RTP session per participant
    audio in :  socket -> rtp session -> playout buffer
                -> audio_receiver_thread -> coded_cq -> decoder_thread -> decoded_cq
    audio out:  decoded_cq -> encoder_thread -> coded_cq -> audio_transmitter_thread
    control  :  the programs in src/tests and the RTSP server create streams and
                participants, change a stream's state and remove them, while all
                of the above is running

Every arrow between two threads is a bounded queue without a lock. The threads
poll: each loops on its own `run` flag, asks the queue behind it for a filled
position and the queue before it for a free one, and works in place on bare
pointers into both.

### Components

| Component | Source | State | Operations | Modelled in |
|---|---|---|---|---|
| Ring of video frames | `src/src/video_data_frame.c` | `rear`, `front`, `state`, two in-process flags, `frames[]` | `curr_in_frame`, `put_frame`, `curr_out_frame`, `remove_frame`, `flush_frames` | SharedRing, FrameRing, FrameQueue |
| Circular queue of bags | `src/io_mngr/circular_queue.c` | `rear`, `front`, `level`, `bags[]` | `cq_get_rear`, `cq_add_bag`, `cq_get_front`, `cq_remove_bag` | SharedRing, BagRing, BagRace |
| Playout buffer | `src/src/rtp/pbuf.c` | doubly linked list of frames, each with a list of packets | `pbuf_insert`, `pbuf_decode`, `pbuf_check_if_complete_frame`, `pbuf_remove_first`, `pbuf_remove` (unused) | PlayoutBuffer |
| Receiver | `src/io_mngr/receiver.c` | two threads, two RTP sessions, two participant databases | receive a packet, or pass over the sources | VideoReceiver, AudioForwarder |
| H.264 depacketizer | `src/src/rtp/rtpdec.c` | none | `decode_frame_h264` | H264Transport, VideoReceiver (its results) |
| Video threads | `src/io_mngr/video_data.c` | `encoder`, `decoder`, `run` flags, `seqno`, `lost_coded_frames` | `decoder_th`, `encoder_routine`, `start_decoder`, `stop_*` | FrameQueue, VideoReceiver (decoder), VideoSender (encoder) |
| Audio processor | `src/io_mngr/audio_processor.c` | two queues, codec, resampler, `run` | `decoder_thread`, `encoder_thread` | AudioForwarder |
| Transmitter | `src/io_mngr/transmitter.c` | two threads, stream lists | `video_transmitter_thread`, `audio_transmitter_thread` | VideoSender (video), AudioForwarder (audio) |
| Stream list | `src/io_mngr/stream.c` | linked list, rwlock, `state` of each stream | add, remove, look up, `set_stream_state` | VideoReceiver (`set_stream_state`) |
| Participant list | `src/io_mngr/participants.c` | linked list, rwlock | add, remove, look up | VideoSender (the list of one output stream) |
| RTSP server | `src/io_mngr/*RTSPOnly*` | live555 sessions | add and remove participants | VideoSender, as a caller |
| Forwarders | `src/tests/mmforwarder.c`, `*_rec_trans.c` | one thread | move frames from an input stream to an output stream | AudioForwarder (audio) |
| RTP session | `src/src/rtp/rtp.c`, `rtp_callback.c` | source database, reports, sequence state of each source, counts | receive data and control packets, `update_seq`, `rtp_update`, `rtp_done`, BYE | RtpSession (receiving side) |
| Participant database | `src/src/pdb.c` | binary search tree with parent pointers | add, get, remove, iterate | ParticipantDb |
| Worker pool | `src/src/utils/worker.cpp` | workers, a lock for the pool and one for each worker, two condition variables for each worker | `run_async`, `wait_task`, the poison pill | WorkerPool |
| Packet transmission | `src/src/transmit.c` | none that matters here | `tx_send_h264` and the senders of other formats | H264Transport |
| Codecs | `src/src/video_*`, `audio/` | codec contexts | `compress_frame`, `libavcodec_compress_tile`, ... | WorkerPool (how work is shared out); else data |
| Modules, messages, locks by name | `src/src/module.c`, `messaging.cpp`, `utils/` | trees and lists under mutexes | registration | not modelled: no message is sent |
| Rate control, sockets | `src/src/tfrc.c`, `rtp/net_udp.c` | - | results nobody reads; system calls | not modelled |
| `gpujpeg`, `dxt_compress`, `cuda_dxt`, `crypto`, `compat` | - | - | third-party code | not modelled |

### What makes each part correct

- **Rings and queues.** The producer does not write the position the consumer
  reads; what was committed comes out once, in order; a flush (video only) loses
  a known number of frames and never sends the consumer back in time; nothing
  stays behind. The code keeps all of this only as long as no call races into an
  unfinished one.
- **Playout buffer.** Packets are put together in order in spite of loss,
  reordering and the wrap of the 16-bit number; a frame is decoded at most once;
  a complete frame is decoded even if another never completes.
- **Video receiver.** The first frame the decoder gets is an intra frame, and
  none is a B-frame; frames arrive in order when the network keeps the order;
  none is counted twice.
- **Video sender.** What is sent is whole and never older than what was sent
  before; a frame that is encoded, or a newer one, reaches every participant; no
  frame is lost uncounted; no participant is sent to after it was destroyed; the
  threads end before their rings are freed.
- **Audio pipeline.** Four bounded queues in series lose nothing before the
  encoder, send nothing that was not encoded, and do not deadlock.
- **Participants.** None is sent to after it was destroyed.
- **RTP session.** Source database, participant database, reports and counts
  stay in step; a source that sends in sequence is heard, one that falls silent
  is forgotten, and none is deleted twice.
- **Participant database.** A dictionary, whatever the order of adding and
  removing, that can be walked in order.
- **Worker pool.** Calls return although tasks wait for tasks; a task's data
  outlives it; a worker is occupied only for somebody.
- **H.264 transport.** What is cut is put together again; no packet exceeds the
  MTU; a loss damages the unit it hits and at most the one before.

### What is hard

Threads that share a word without a lock; pointers kept across an unlock; a ring
that is full; packets that are late or never come; a stream that changes state
while it is being started; two kinds of lock taken in both orders; tables that
are kept in step by events. The list, with the line at which each hazard bites
and the properties that would catch it, is under `hazards` in `PROJECT.json`.

## 2. The modules

                SharedRing  (operators)
               /                      \
    FrameRing (operators)          BagRing (operators)     PlayoutBuffer (operators)
      |      \____________            |    \__________              |
    FrameQueue     |      \        BagRace     AudioForwarder       |
      |   \        |       \                     |                  |
      |    \       |        \___________________ | _________________|
      |  (refines) |                             |           VideoReceiver
      |    FrameFifo                             |             |
    MCFrameQueue   |                    MCAudioForwarder    MCVideoReceiver
              VideoSender -- MCVideoSender

    FrameRing -- RingProof, which FrameQueueProof, VideoReceiverProof and
    VideoSenderProof extend together with the module each is about

    RtpSession -- MCRtpSession         ParticipantDb -- MCParticipantDb
      |                                  |  \ (refines)
    RtpSessionProof                      |   ParticipantSet
                                       ParticipantDbProof

    WorkerPool -- MCWorkerPool         H264Transport -- MCH264Transport
      |                                  |
    WorkerPoolProof                    H264TransportProof

A C function that changes one structure is an operator from the structure before
the call to the structure after it, in a module without variables; the threads
that call it are actions in a module that EXTENDS it. When two threads share the
structure without a lock, each access to what they share is an operator. Definitions introduced by
`\* Mutant:` are deliberately wrong variants of the operator that follows; no
other definition uses them. They document which mistake each property detects.

**SharedRing** - what the ring of video frames and the queue of bags have in
common: two indices, a state word (`level` in the queue, whose MID is "OK" here),
and no lock. A call that puts is a comparison of its own index, advanced, with
the other one (`PutCompare`), and then two stores, of the state word and of the
index (`PutStore`), in either order: the words are plain C variables, so that
the order is the compiler's. `RemoveCompare` and `RemoveStore` are the other
side. The other thread gets in between any two of these. (What the C standard calls a data
race is wider still; the model takes only the outcomes of whole aligned words.)

Two auxiliary fields serve the properties. `held` counts the frames whose put has
begun and whose removal has not. `raced` is set at the step at which a call runs
into an unfinished call of the other side about the same frame or position: the
only frame is removed while the call that put it is unfinished (`RemoveCompare`), the
last free position is committed while the call that freed it is unfinished
(`PutCompare`), or a flush finds a ring that is not full any more, or whose
consumer is inside `remove_frame`. No other interleaving does harm: that is what
the properties with `Calm` (no race so far) in them say, and what RingProof proves.

**FrameRing** - `video_frame_cq_t` as a record and its operations. `MayPut(q)`
and `MayTake(q)` are the conditions under which `curr_in_frame` and
`curr_out_frame` return a pointer; `PutFrame` and `RemoveFrame` keep the early
return when the in-process flag is not set, and go as far as the comparison.
`FlushFrames` tests the state word, `FlushRead` computes the front to be, and
`FlushStore` stores front and state. `ProducerSteps` and `ConsumerSteps` are what a
thread inside a call may do next. `Count` is the number of frames the words say
the ring holds and serves only properties.

**FrameQueue** - one ring between its two threads, with an action for each call,
one for filling and one for reading the position, and one for going on inside a
call. `SpecDrop` has a producer that gives up at a full ring (the receiver),
`SpecFlush` one that flushes (`decoder_th`, `encoder_routine`).

**FrameFifo** - what a ring promises: a bounded sequence, with the oldest frame
visible to the consumer until it is released. `FrameQueue` with a dropping
producer implements it, until a race, under the mapping queue <- the `held` frames
from the front on: a frame is in the buffer from the call of `put_frame` to the call
of `remove_frame`.

**PlayoutBuffer** - the list as a sequence of nodes; a packet is the number *n*
of the packet in sending order, from which timestamp, sequence number and marker
are computed. `Insert`, `AddCodedUnit`, `FirstReady`, `MarkDecoded`,
`HeadComplete` and `RemoveFirst` each stand for the function of that name.
Sequence numbers are compared as the code does, by the sign of a 16-bit
difference, and timestamps as plain unsigned numbers, as the code does too.

**VideoReceiver** - network, receiver thread, ring of coded frames, decoder
thread, and a thread that calls `set_stream_state`. One pass of the receiver is
up to four steps: ask the ring (`PassBegin`, or `PassFull` when there is no
room), decode a frame into the position (`PassDecodes`, `PassRefuses`,
`PassNothing`), start the decoder (`StartStream`), and commit and remove
(`Commit`, then `PutStep` inside `put_frame`). `start_decoder` may fail in two ways:
no thread can be created, after which the stream is ACTIVE all the same
(`decoder = "dead"`), or there is no memory for a decoder, through whose pointer it
writes (`StartCrashes`). `set_stream_state` is a test and an assignment, two steps. `lost`
is `lost_coded_frames`; `committed` and `outcomes` are history variables.

**VideoSender** - the way out of one stream, as `tests/video_transmitter.c`
sets it up: a main thread that feeds the ring of decoded frames and drops what
finds no room, `encoder_routine`, the ring of coded frames,
`video_transmitter_thread`, and the RTSP server that adds and removes
participants. The encoder goes by the calls it makes: take, ask for room, flush
and ask again, fill an output buffer, publish it in `encoder->frame`, release
the decoded frame, commit the coded one and swap the two output buffers. The
transmitter holds the lock of the list from `TransmitterTakes` to
`TransmitterRemoves`, and sends `encoder->frame` to one participant after
another. The main thread may stop it all at any time, in the program's order:
clear `video_run` and join the transmitter, clear `run` and join the encoder,
free. `remove_participant` is two steps, since it destroys the participant
after unlocking. `puts`, `removes`, `taken` and `shown` are history variables.
The codec does not fail, each client connects and leaves once, and RTSP requests
end with the stream. A thread inside a call on a ring does nothing else until the
call is over (`FeedStep`, `EncoderStep`, `TransmitterStep`).

**BagRing** - `circular_queue_t` and its four operations, on SharedRing. Nothing in it
refuses to add to a full queue or to remove from an empty one.

**AudioForwarder** - the five threads of an audio forwarder on four queues, as
`tests/mmforwarder.c` connects them. A frame consists of parts of the internal
frame size; `decoder_thread` cuts one part after another off the bag at the
front. `encoder_thread` keeps the code's structure: `cq_remove_bag` and
`cq_add_bag` are called even if no free bag was found.

A call of `cq_add_bag` or `cq_remove_bag` goes on in `Step`.

**BagRace** - one queue between a producer and a consumer that run free of each other,
with no regard to races, to see where they lead.

**ParticipantDb** - `struct pdb` node by node, each with key, data, parent and
children, at addresses `malloc` gives. The loops of `pdb_search`,
`pdb_insert_node`, `pdb_min` and `pdb_successor` are recursive functions on
nodes. `Remove` splices out the successor's node when the key's node has two
children, and moves key and data. A walk of the receiver is `IterInit` and
`IterNext`; nothing is added or removed during it, because the thread that walks
is the one that calls the session. **ParticipantSet** is what it promises: a
dictionary with an ordered walk.

**RtpSession** - one session as the receiver uses it, with the callback that adds
and removes participants. `source` is `session->db` without its hash chains, `rr`
the matrix of reports, `pdb` the set of participants. `RecvRtp` is
`rtp_process_data` with `process_rtp` and `update_seq`; `RecvReport` a compound
RTCP packet that starts with a sender or receiver report; `RecvSdes` and `RecvBye`;
`Update`
(`rtp_update`) deletes what said BYE, quiets and deletes what is silent, and
drops old reports; `Done` is `rtp_done`. Time is counted in ticks, with the
code's thresholds as constants in the code's order. `last` is a history variable
(the last media packet and how long a row it made), `asserted` records that
`rtp_update` deletes a source it has just deleted, on which `delete_source` asserts.
Any packet may carry our own SSRC. `phase` is "crashed" when the callback uses the
participant of a source that has none, and "failed" when `rtp_done` does not find our
own source.

**WorkerPool** - `worker.cpp` under the callers that nest: an encoder thread in
`compress_frame_tiles` starts one task for each tile, and each such task, in
`libavcodec_compress_tile`, one for each part. A call is named by its path, so
that the task that runs, the call that holds its data and the one that waits for
it are told apart. A critical section that waits for nothing inside is one step;
`Finish`, `Notify` and `Unlock` are three, as are `PickWorker` and `Push` two,
since there one lock is taken under the other. Sleeping in `pop` can end without a signal
(`WakeUp`). `Kill` and `End` are the destructor and the poison pill. An encoder may
fail on a tile (`failed`), and before it starts any part of it (`configure_with`,
in `Take`).

**H264Transport** - a frame of NAL units as the encoder lays it out (start codes
of three or four bytes, emulation prevention), `tx_send_h264` on it, packets lost
on the way, and `decode_frame_h264` on the rest. It works on bytes, because the
properties are about bytes.

**MC...** modules only give TLC a root; all bounds are CONSTANTS in the cfgs.

### What is abstracted

Payloads (but for H264Transport, which is about them), codecs, statistics, the
timing of RTCP and logging. Elsewhere a frame is its number and a
kind (`INTRA`, `BFRAME`, `OTHER`, or `BAD` for one `decode_frame_h264` refuses).
In the playout buffer time is the order in which nodes become due: oldest node
first, since each is due a fixed 32 ms after it was created; in RtpSession it is
counted in ticks. `curr_in_frame`, `curr_out_frame`, `cq_get_rear` and `cq_get_front`
are single steps, although each reads the state word and then an index. The other
thread cannot make the answer wrong in between: while the producer asks, the
consumer stores no FULL and not the rear; while the consumer asks, the producer
stores no EMPTY, and if a flush moves the front it is as if the consumer had asked
after it.

## 3. The runs

| Run | Instance | Shows |
|---|---|---|
| `frame_queue_drop` | 3 positions, 8 frames, fair threads | Until a race: `NoOverlap`: the threads never hold the same position. `InOrder`: the consumer holds the oldest unreleased frame. `IsFifo`: the ring is a bounded FIFO. `Leaves`: what is committed leaves, or is left behind, or a call raced. |
| `video_receiver_reorder` | 3 frames of 2 packets, 2 packets in flight, frames of all kinds, 2 state changes, sequence word of 8 values that wraps inside a frame | `StartsWithIntra`, `NewestFirst`: the decoder is given an intra frame first and no B-frame, and its packets in order. |
| `video_receiver_orderly` | 4 intra frames of 2 packets, losses, order kept, fair threads | `CommittedInOrder`, `SettledOnce`, and `CompleteIsSettled`: a frame whose marker arrived is decoded or discarded in the end, if the decoder runs. |
| `audio_forwarder` | queues of 2, 2 frames of up to 2 parts, fair threads, up to the first race | `BagExclusive`, `NothingLostToEncoder`, `SentWasEncoded`, and `PipelineDrains`: all that arrived leaves the queues but for bags left behind. |
| `video_sender` | rings of 2, 4 frames, 1 client, fair threads, up to the first race | `SentWhole`, `NeverSentBack`: a participant is sent whole frames, none older than the one taken nor than the one before. `LossCounted`, `ParticipantAlive`. `StopEnds`: stopping ends. `EncodedIsSent`: what is encoded is sent, or something newer, or it is left behind. |
| `participant_db` | 5 keys, 5 addresses, no bound on the steps | `Validates`: the checks of `pdb_validate`, and that every node hangs from the root. `IsDictionary`: the tree is a dictionary, and a walk visits each key once, in order. |
| `rtp_session` | 2 remote sources, one of which sends media, sequence word of 6 values, ages up to 3 ticks, `rtp_update` at most a tick late, fair clock and receiver | `DatabasesAgree`, `SendersCounted`, `NeverDeletedTwice`, `AdmitsSequence`: three packets in a row are enough to be heard. `SilentSourceGoes`: silence ends in oblivion. |
| `rtp_session_ours` | 1 remote source and packets with our own SSRC, media, reports, SDES and BYE | `DatabasesAgree`: the tables part in our own entry only. `OursStays`: our own source leaves before `rtp_done` only on a BYE of ours. |
| `worker_pool` | 2 encoder threads, 1 frame each of 1 tile, of 2 parts and of 1; 6 workers; fair threads | `LockOrder`, `PushAsserts`, `TaskDataAlive`, `OccupiedAwaited`, and `Completes`: every call returns and the pool ends. Deadlock is checked. |
| `h264_transport` | packets of 10 bytes, up to 2 units of lengths on both sides of one, two and three packets, up to 2 losses | `PacketsFit`, `LossIsLocal`, `RoundTrip`. Deadlock is checked. |
| `bag_race_overlap` | 3 positions | finding 1 |
| `h264_sps_written` | units of 6 bytes, no loss | finding 2 |

Each property is stated in words above its definition.

**Bounds.** A ring of 2 is the program's own size for video, and of 3 the
smallest in which positions exist that are neither first nor last; 8 frames
wrap it more than twice. Two packets make a frame with a marker that can
come first, come late, or be lost, and the wrap of the sequence number falls
inside a frame. Three frames suffice for a frame that stays incomplete at the
head, one that is complete behind it, and one that comes after; four let the ring
of coded frames fill up while they do. All frames of the run in order are intra frames,
so that each that gets through is committed; the run that reorders has the
other kinds, and the proofs cover both. Two state changes are needed to leave and
re-enter the active state. In the audio pipeline 2 frames of 2 parts, with every
access to four queues a step, fill a queue of 2 while the stage behind it
waits. In the sender 4 frames are enough for the encoder to flush while the transmitter
sends, twice, and go on; the client connects and leaves at any point, also while it
is being sent to (`ParticipantsLive` is for any set of clients). `Frames`,
`MaxFrames`, `MaxParts`, `Window` and `StateChanges` are bounds of the model and appear
in guards; when they are used up the model stops, which is why deadlock is not checked in
those runs: the program itself polls. The two runs with the constraint `Calm` go no
further than the first race, after which their properties claim nothing.
RtpSession stops after `rtp_done`. The other runs check deadlock.

Five keys make every tree in which a node with two children has a successor that
is its child, or is farther away and has a child of its own. Two sources suffice
in RtpSession, one of them for media, since sources meet only in reports and
counts; six sequence numbers leave room for a step forward, a step back
and a jump (`MaxDropout = MaxMisorder = 2`), and make the wrap frequent.
`MaxStall` is how late `rtp_update` may come, which the timeout of
`select` bounds; `MaxSenders` bounds `sender_count`, which the code lets grow
(see below). Six workers are one for each task that can exist at once, plus one. Two parts
make a tile task wait for two tasks of its own while the other encoder competes
for workers. The lengths 1, 5..9, 16 and 17 with packets of 10 bytes are a unit
of nothing but a byte, the ones around a single packet for either start code,
and around two and three fragments; more would repeat them.

**Fairness.** `WF` of a thread's actions: the thread is scheduled, and polls
without waiting for a lock. `WF_vars(Elapse)`: the clock advances.
`SF_vars(Receive)`: the receiver prefers packets, since `rtp_recv_r` waits up
to 10 ms for one and only a timeout leads to a pass; without it a model would
pass for ever while a packet lies in the socket. The bound on frames stands for
the converse: the flow of packets pauses. In the code a flow that never pauses
for 10 ms keeps the receiver from ever making a pass (`receiver.c:66`), and
`CompleteIsSettled` says nothing of it. A thread inside a call on a ring goes on:
`WF` of `ProducerStep`, `ConsumerStep` and their like, which are part of the thread. In VideoSender the encoder, the
transmitter and a main thread that has begun to stop are scheduled; nobody has to
feed, to stop or to connect. The
network and `set_stream_state` owe nothing, except that what the sender has
begun it finishes. In RtpSession the clock runs and the receiver comes round to
`rtp_update`; packets are not owed. In WorkerPool each thread has weak fairness:
one that waits for a lock gets it, since the work is finite and nobody can take
the lock for ever; a spurious wake-up is not owed.

**What holds until a race, and what a race leads to.** On a ring and on a queue, the
properties about exclusive use, order, loss and draining hold until a call runs
into an unfinished call of the other side about the same frame, and not beyond.
The three cases, for a ring of 2:

- *Ghost take.* `put_frame` has stored OK and not yet `rear`. The consumer takes the
  frame and removes it: its comparison does not find the old `rear`, so it
  stores OK. The state word says OK for an empty ring, and the consumer is let into
  the slot the producer fills next. `raced` is set when the comparison of `remove_frame`
  finds one frame held and the producer still inside.
- *Frame left behind.* While the consumer releases a frame, the next one is put:
  `remove_frame` compares with a `rear` that is not yet stored, decides for EMPTY, and
  stores it after the producer stored its own word. The ring holds a frame and says it is
  empty. The next `put_frame` puts the word right; if there is none, the frame stays.
  The calls are about different frames, nothing is lost, repeated or shared, and
  `raced` is not set; `Leaves`, `EncodedIsSent` and `PipelineDrains` name the case
  (`LeftBehind`) as the one way in which a frame does not leave.
- *Uncounted overwrite.* A remover stands between its comparison and its stores while
  the producer flushes and fills the ring. Its late OK lets the producer into a full
  ring, over a frame no counter has seen. `raced` is set when the flush meets the remover,
  or when the last free position is committed while the call that freed it is unfinished.

Finding 1 is the first case in the queue of bags. The model does not say what the system
does after a race, except in BagRace.

**Limits of what VideoReceiver says.** `CompleteIsSettled` asks for a decoder that runs:
when its thread could not be created, the ring fills up, and a pass that finds it
full looks at the head of the playout buffer only. `SettledOnce` asks for frames
`decode_frame_h264` does not refuse. `CommittedInOrder` and `SettledOnce` are about a
network that keeps the order; with one that does not, the code commits frames in
the order in which they come to be complete.

**Limits of what VideoSender says.** `StopEnds` speaks of an encoder that is
up: `encoder_routine` sets `run` itself (`video_data.c:57`), and a
`stop_encoder` that comes before that is overwritten, after which the join
does not return. `SentWhole` speaks of the moment at which sending starts: if
the encoder flushes twice while one frame is being sent, it fills the very
buffer that is being read (`video_data.c:89`). `LossCounted` is one-sided: the
transmitter may make room between the encoder's test and its flush, which then
loses nothing and is counted; with `Max = 2`, the program's size, a flush drops
one frame at most.

**Limits of what RtpSession says.** In `rtp_session` reports are about sources that
send media, contributing sources are others, and only media sources send sender
reports: the session would treat other packets no differently, it only would have
more of them. Packets with our own SSRC are a matter of their own, and have their own
run: `really_create_source` sends no SOURCE_CREATED for them (`rtp.c:633`), so that
the callback does not find the participant of our own media (`rtp_callback.c:205`;
the program then ends, `phase = "crashed"`), while an SDES packet adds us
(`rtp_callback.c:138`). `DatabasesAgree` says that this is the only entry in which the
tables differ. The chains of the hash table are one set: `rtp_done` deletes the head of
a chain where it means the source it stands at (`rtp.c:3482`), which a set does not show.
`NeverDeletedTwice` needs the assumption
`ByeDelay + MaxStall <= InactiveAge`: a receiver that is kept from `rtp_update`
until a source that said BYE is past five intervals deletes it twice. `SendersCounted` is
one-sided, because `sender_count` may count too many: `delete_source` does not
count down for a sender that leaves after a BYE. `AdmitsSequence` grants a
source on probation one packet more at the wrap, as the code does
(`rtp.c:779`).

**Limits of what WorkerPool says.** Tiles is 1, as `vf_alloc(1)` has it
(`video_data.c:50`). With two tiles `TaskDataAlive` fails: `compress_frame_tiles`
returns at the first tile that failed, and leaves the task of the next on a stack
frame that is gone. A failing `configure_with` ends a tile before any part of it is
started. `m_task_ready_cv` is merged into waiting for the slot, since
only the worker itself waits on it.

**Limits of what H264Transport says.** `RoundTrip` and `LossIsLocal` except two
kinds of unit: an SPS (`Shortened`, finding 2), and a unit that is too long for a
packet only because of its start code (`Headless`), which `tx_send_h264` sends as a
single fragment with the end bit and no start bit (`transmit.c:1140` and
`1174`); the receiver appends its data without a header. `LossIsLocal` says that a loss
damages the unit it hits and at most the one before: when the first fragment of a
unit is lost, the others are appended, without a start code, to the unit before
(`rtpdec.c:163-171`). That a frame has no more than `RTPENC_H264_MAX_NALS` units is an
assumption, since the array for them is filled without a check (`transmit.c:1010`); that
the search for start codes looks at two bytes beyond the frame (`transmit.c:964`) is
left out.

### Findings

1. **`ThreadResistant` (circular_queue.c:75).** Both sides store `level`. The
   producer stores level MID, not yet `rear`; the consumer compares with the
   old `rear` and takes the queue for something it is not; once the stores have
   settled, `level` lets the consumer into the bag that is being filled. The
   header calls the queue "Thread resistant".
2. **`EveryByteWritten` (rtpdec.c:417).** `fill_coded_frame_from_sps` passes the
   address of the packet's own `data_len` to `nal_to_rbsp` both as the size of
   the NAL unit and as that of the result. The result is shorter, so the packet
   becomes shorter, once in each pass of `decode_frame_h264`. The first pass
   reserves more bytes than the second writes: the SPS loses its last bytes, and
   the frame, which is filled from its end, begins with bytes nobody wrote.

Seen while modelling, in the code and its comments, and not stated as a run:

- `pbuf_remove_first` (`pbuf.c:383`) looks only at the head, although its comment
  reads "Remove first previously decoded frame". A frame whose marker is lost
  stays at the head; each frame behind it is decoded, marked and kept. Nothing
  calls `pbuf_remove`, which would expire the head. The stream goes on
  (`CompleteIsSettled` holds), the buffer only grows.
- The list is ordered by timestamp (`pbuf.c:298`), and playout times are set on
  arrival. A frame whose first packet arrives after a packet of the next frame is
  before it in the list and due after it; the comment at `pbuf.c:364` relies on
  the contrary, and the assertion at `pbuf.c:117` is commented out. `pbuf_decode`
  itself is safe: it tests every node.
- `encoder_thread` adds a bag to a coded queue it has just found full
  (`audio_processor.c:135`). `cq_add_bag` then puts `rear` one beyond `front`
  with level MID: the queue of `Max` bags has become a queue of one. `SentWasEncoded`
  and `BagExclusive` hold all the same.
- `put_frame`, `remove_frame` and `flush_frames` of the video ring store state and
  index without a lock, as the circular queue does, with the consequences named above;
  no comment promises that they are safe.
- A BYE with our own SSRC, which `filter_my_packets` does not hold back in the
  receiver's sessions, marks our own source, and `rtp_update` deletes it: its test of
  `got_bye` (`rtp.c:3278`) does not leave our own source out, as the tests after it do.
  `rtp_done` then deletes a source that is not there, against the comment at
  `rtp.c:3475` ("last removed is us") and the assertion at `rtp.c:668`. In the model
  `phase` becomes "failed" in `Done`.
- `start_decoder` (`video_data.c:245`) uses a decoder that could not be made, and when
  it cannot create a thread the stream becomes ACTIVE all the same (`receiver.c:109`).
- `destroy_participant_list` reads the next pointer of a participant it has just
  destroyed (`participants.c:257`). `deleteStream` leaves the client in the hash
  table and `startStream` adds a participant at each call
  (`BasicRTSPOnlySubsession.cpp:137`). `audio_receiver_thread` loops on
  `video_run` (`receiver.c:150`), which is harmless while both flags are cleared
  together.
- `audio_tx_send_mulaw` interleaves every packet of a frame into a buffer whose
  beginning it sends (`transmit.c:850`) and copies the first samples again for
  each (`transmit.c:840`), so that a frame longer than one packet repeats them.
  `get_std_audio_local_mediatime` (`tv_std.c:12`) keeps one timestamp for all
  participants.
- The last part of a picture starts at its index times its own, larger, height
  (`libavcodec.c:633`), beyond where the part before it ends.

## 4. The proofs

### Ring of video frames

`RingProof` is about a ring as such: what its words tell the two threads, for every
`Max \in 2..255`. `FrameQueueProof` proves, for every such ring and every bound on frames
(`ReadsForward` for `Max = 2`):

| Theorem | Statement |
|---|---|
| `TypeCorrect` | `SpecFlush => []TypeOK` |
| `FramesAccounted` | `SpecFlush => []NothingUncounted`: whenever the ring is at rest, committed = released + (Max - 1) x flushes + held |
| `ExclusiveUse` | `SpecDrop => []NoOverlap` |
| `DeliveredInOrder` | `SpecDrop => []InOrder` |
| `ImplementsFifo` | `SpecDrop => IsFifo`: every step up to the first race is one of `Fifo` or leaves its variables alone |
| `ReadsForward` | `Max = 2` gives `SpecFlush => NeverBack`: the consumer reads no frame older than one it has read |

`TypeCorrect` holds raced or not; the others claim nothing after a race. No run has the
specification `SpecFlush`: the flush is run where the program uses it, in VideoSender.

*Assumptions*: `MaxAssumption`, `ByteAssumption`, `BoundAssumption`, `NoSlotAssumption`,
stated where the constants are declared. `MaxFrames` is any natural number.

*Argument.* `RingOk` is kept by every single access (`PutKeeps`, `PutStoreKeeps`,
`RemoveKeeps`, ..., one lemma for each). It has two parts that hold until a race. `Ends`:
where the indices are, or will be when the calls under way are over, is as far apart as `held`
says. `Believed`: what a thread may conclude is true. There is a frame (`NotEmpty`) if
the producer is inside a call, or the consumer holds a position, or the state word says
so and no removal is about to overwrite it, or one is about to store OK; and there is room
(`NotFull`) in the mirrored cases. The state word itself says neither at every moment:
while both threads have a store of it ahead, it may say anything. That is why a race is what it is:
`Believed` fails at exactly the steps that set `raced`. `CountAtRest`: when no call is under
way, the words count what `held` counts. `SlotsDiffer` and `SlotAfterRemove` carry the
modular arithmetic.

`QueueInv` joins `RingOk`, the types, `Hands` (a thread holds a position exactly while its
in-process flag is set, without which the early returns of `put_frame` and `remove_frame`
could be taken) and `Accounted` (calls made and frames held add up). It is
inductive for both producers. `NoOverlap` and `InOrder` are not inductive: that
a position holds the right frame has to be known for all positions in use.
`HandInv` says so: position `i` behind the front holds frame
`removed + i + 1`, and the consumer points at the front. It holds only with a dropping
producer, since a flush overtakes the consumer, and it is preserved given `QueueInv`.

`ImplementsFifo` takes the two invariants as hypotheses: `BufferIs` reads the
abstract state off them, `FifoStep` shows that each step is an abstract step or
leaves the abstract variables alone, one case per action; the steps inside a call leave
them alone.

`ReadsForward` needs to know where a consumer is that a flush has overtaken.
`BackInv` says that the `held` frames in the ring are consecutive, the last of them the
frame committed last, and that the consumer is at most one frame behind them. The last part
holds for two positions only: a flush forgets `Max - 1` frames, and with three of
them TLC finds a consumer that returns to a frame older than the one it holds.
`init_video_frame_cq(2)` is what the program calls (`video_data.c:276`).

### Receiver

`VideoReceiverProof` proves, for every network, ring, number of frames and of
packets to a frame, and word of timestamps and sequence numbers:

| Theorem | Statement |
|---|---|
| `ReceiverTypes` | `Spec => []TypeOK` |
| `IntraComesFirst` | `Spec => []StartsWithIntra` |
| `PacketsNewestFirst` | `WordsAreLarge` gives `Spec => []NewestFirst` |
| `CommitsInOrder` | `Orderly` gives `Spec => []CommittedInOrder` |
| `SettlesOnce` | `Orderly`, and no `BAD` among the kinds, give `Spec => []SettledOnce` |

*Assumptions*: those of VideoReceiver and PlayoutBuffer about their constants.
`WordsAreLarge`: no two frames share a timestamp, and a frame has at most half as
many packets as there are sequence numbers (2^16). The second is what the signed
comparison in `add_coded_unit` needs; the first fails only for nodes that stay in
the buffer for a full turn of the timestamps. `Orderly`: the network keeps the order
of packets (it may lose any of them), and timestamps do not wrap while the frames
are sent; the list is ordered by timestamp as a plain number, so behind the wrap
the order of the frames is lost, as the hazard at `pbuf.c:282` says. `SettlesOnce` asks for
frames that `decode_frame_h264` accepts, since a refused one at the head is marked
and stays, and can be discarded once more when the ring is full.

*Argument.* `BufferInv`: nodes are sorted by timestamp and hold packets of their
frame that came out of the network. With it `NewestFirst` is inductive; the lemma
that carries it, `NewerIsLater`, is that a 16-bit difference of two packets of one
frame has the sign of the true one (`DifferenceOfRemainders`, `NumberDifference`).
`LeastElement`, `UnitPlace` and `InsertedUnit` say what `Insert` does: one node
changed or one added, in its place. `StreamInv` joins the ring (`RingInv`, with `RingOk`
in it: here only the types and the flags of the ring matter, raced or not), where the
receiver is in its pass (`PassInv`: what it commits is not refused, and the start
of a stream is an intra frame) and `StartsWithIntra`. `ReceiverTypes` bounds
`lost`: each completed node has used a marker of its own, and markers arrive once
(`LossInv`, with the cardinalities in `CountNext`).

In order, four invariants build on each other. `WaitInv`: the nodes that are due are
the first ones, so the playout times cannot reverse the list. `GoneInv`: a frame
with an outcome had its marker taken out of the network. `CommitInv`: a node that
is still `Open` (complete, or the last) has a frame beyond all those committed.
`SettleInv`: a frame that has an outcome and a node has it marked as decoded; and
a marked head is gone when the pass ends, unless it is incomplete.

### Transmitter

`VideoSenderProof` proves, for every set of clients, number of frames and size of
the two rings:

| Theorem | Statement |
|---|---|
| `SendsWhole` | `Spec => []SentWhole` |
| `SendsForward` | `Spec => NeverSentBack` |
| `ParticipantsLive` | `Spec => []ParticipantAlive` |
| `LossIsCounted` | `Max = 2` gives `Spec => []LossCounted` |

All but `ParticipantsLive` claim nothing after a race on one of the two rings.

*Assumptions*: `SenderAssumption`, and for `LossIsCounted` two positions: a flush
forgets `Max - 1` frames and the encoder counts one (`video_data.c:276` again).

*Argument.* `RingsInv` has `RingOk` for both rings and ties their in-process flags to what
the main thread, the encoder and the transmitter are doing. `LossInv` counts with `held`, and
one frame more while a flush has found the ring full and has not moved the front yet
(`Forgetting`).
`NumbersInv` is about frames: those in the raw ring ascend and are newer than
what was encoded, and nothing that left the encoder is newer than the frame
encoded last. So what the transmitter sends may be newer than
what it took, after two flushes, but not older. `ListInv`: while the transmitter walks
the participants it holds their lock, and what is left to walk is on the list;
what was unlinked is not. It takes that no client is on the list twice (`LinkOne`, `UnlinkOne`).

### Worker pool

`WorkerPoolProof` proves, for any callers, workers, parts
and number of frames:

| Theorem | Statement |
|---|---|
| `LocksOrdered` | `Spec => []LockOrder` |
| `TaskDataOutlivesTasks` | `Tiles = 1` gives `Spec => []TaskDataAlive` |
| `PushFindsNoTask` | `Tiles = 1` gives `Spec => []PushAsserts` |
| `OccupiedOnBehalf` | `Tiles = 1` gives `Spec => []OccupiedAwaited` |

*Assumptions*: `PoolAssumption`. `LocksOrdered` holds for any number of
tiles. The other three are about frames of one tile, for the reason given under
limits; with more, a handle may outlive its call.

*Argument.* `LockInv`: a lock is held at known places only, a worker in
`m_empty_workers` or just taken out of it has neither a task nor its lock, except
to release it. `TaskInv` relates the three places a task is in. A task that is
given or running has a handle which names its worker and is not over
(`TasksHaveHandles`); each handle is one that a call made and has not waited for
yet (`HandlesHaveCalls`), so that the stack frame is there; and an occupied
worker has a handle, is being given one, or is on its way back with its lock held
(`OccupiedReason`), so that nobody can have the result before it is free. Paths
tell tasks apart: that a new task is not one of those there is (`TaskIsNew`) rests
on the tile number being always 1.

### RTP session

`RtpSessionProof` proves, for every set of sources, word of sequence numbers and
threshold:

| Theorem | Statement |
|---|---|
| `TablesAgree` | `Spec => []DatabasesAgree` |
| `SendersAllCounted` | `Spec => []SendersCounted` |
| `DeletedOnce` | `Spec => []NeverDeletedTwice` |
| `OursLeavesByBye` | `Spec => OursStays` |
| `SequenceAdmitted` | `MinSequential = 2`, `MaxDropout > 1` give `Spec => []AdmitsSequence` |

*Assumptions*: `SessionAssumption`; `rtp.c:102` and `104` define `MAX_DROPOUT` as
3000 and `MIN_SEQUENTIAL` as 2.

Packets with our own SSRC are among those that may arrive, with everything in them.

*Argument.* `SessionInv` joins the types, the first three properties and
`ByeInv`: a source that said BYE is at most `ByeDelay` and the time since the
last `rtp_update` old, so it is deleted before it counts as silent. Much of
the work is counting: what creating and deleting do to the number of sources
(`CreateAgrees`, `DeleteAgrees`) and to that of the marked ones (`CountsSenders`).
`AdmitInv` says what the source of the last packet remembers of it: the
number, or the number to come after a jump, and that it is still on probation after
two packets in a row only if the second was number 0.

### Participant database

`ParticipantDbProof` proves, for every finite set of keys and every choice of
addresses:

| Theorem | Statement |
|---|---|
| `Validated` | `Spec => []Validates` |
| `ImplementsDictionary` | `Spec => IsDictionary`, that is `Dictionary!Spec` |

*Assumptions*: `DbAssumption`. It gives `malloc` an address for every key;
`pdb_add` does not look whether it got one (`pdb.c:312`).

*Argument.* "Every key is where a search looks for it" is a statement about paths
from the root, and paths would need induction at each change of a link. `TreeInv`
says the same of single nodes: there are two functions `lo` and `hi` that give
every node an open interval, the whole range at the root, cut at the key on the
way to a child (`Intervals`); no key lies in the interval of a null link
(`Gaps`); and the ends of an interval are keys of nodes that reach to that side
(`Ends`). With `Shape` and `Linked` this is inductive, link by link. `AddedLeft`
and `AddedRight`: the null link at the insertion point is the one whose interval
holds the new key. `WithoutRight` and `WithoutLeft`: when a node with one null
link is unlinked, the intervals that ended at its key end where its own ended.
`RenamedTree`: the node that takes over its successor's key keeps the order,
since there is no key in between.

The loops (`pdb_search`, the descent of `pdb_insert_node`, `pdb_min`, the climb of
`pdb_successor`) are recursive functions over nodes, which TLA+ leaves undefined
unless they end. `LoopExists` says that a loop that gets ahead by a measure is
well defined, and `RankInduction` is the induction over the measure: the width of
the interval, which shrinks on the way down and grows on the way up. `SearchFinds`,
`InsertionPlace`, `LeftmostIs`, `SuccessorIs` and `BelowRoot` say what the loops
find. With them `StepIsDictionary` is short: the set of keys gains or loses one,
or the cursor goes to the next.

### H.264 on its way

`H264TransportProof` proves, for every packet size above 2, any lengths of units,
any number of units in a frame and any number of losses:

| Theorem | Statement |
|---|---|
| `Fitting` | `Spec => []PacketsFit` |
| `RoundTrips` | `Spec => []RoundTrip` |
| `LossesAreLocal` | `Spec => []LossIsLocal` |

*Assumptions*: `TransportAssumption`. The two kinds of unit that `RoundTrip` and
`LossIsLocal` except (section 3) are excepted here too.

*Argument.* Three steps, and only the last is about the state machine.

First, what the fold `FlattenSeq` does. `FlattenDef` unfolds it into a function
of partial results, and `FlattenAppend`, `FlattenConcat` and `OffsetsExist` follow
by induction: each part has an offset in the whole, and every position
of the whole is in one part.

Second, the sender and the receiver as functions. `GoodUnits` is what the search
for start codes needs of a unit: no two zeros followed by a one in it, no zero at
its end, a header that is not zero. `UnitIsGood`: what the encoder makes is good. Then
the places where `Stream(units)` has a start code are exactly the offsets of its
units, the enumeration of them is unique (`RisingUnique`), and so `ParseIs`:
`ParseNalUnits(Stream(units))` are the units. `FragmentsWhole`: the data of the
fragments of a unit, after the header the first of them gives, is the unit
again, by induction over the fragments. `SentFits` bounds the packets of a unit,
`AllSentIs` extends this to a frame, `SentIntact` and `PassesKeep` say that both
passes of `decode_frame_h264` leave such packets as they are.

Third, `TransportInv`, which is inductive: the packets on the wire fit and the
marker is on the last of them (a loss never takes that one, and `RemoveAt` keeps
the rest); as long as nothing is lost the wire is `TxSend(Stream(nals))`; a
decoded frame is `Decode(wire)`. `PacketsFit` is part of it. For `RoundTrip` the two
facts combine to `Decode(TxSend(Stream(nals)))`. For `LossIsLocal` the wire is cut in three at
the packets of the unit (`BodyWithin`), whatever the packets around it are, and
what the receiver writes has the unit in its middle (`UnitArrives`), with a start code
behind it or nothing: the packet that follows opens a unit, and every packet that does is
decoded to something that begins with a start code.

`Arrived(u, i)` asks for the packets of `u` one after the other on the wire, behind the
first `i`, and then for the end or a packet that opens a unit; and not
for each of them somewhere: payloads repeat, and a fragment with one zero in it
"arrives" through another fragment with one zero in it. TLC finds such a frame when
packets have three bytes.

### What is not proved

Every invariant that a run expects to hold is proved, but for those of the audio
forwarder: TLC checks `TypeOK`, `BagExclusive`, `NothingLostToEncoder` and
`SentWasEncoded` there, on four queues taken access by access.
*Out of the prover's reach*: the seven liveness properties `Leaves`, `CompleteIsSettled`,
`PipelineDrains`, `StopEnds`, `EncodedIsSent`, `Completes` and `SilentSourceGoes`
(fairness and ENABLED), and whatever takes the library's induction theorems, which
have an operator as a parameter. Induction over the natural numbers can be had in
another form, for the set of numbers that satisfy a formula (`NatInd` in
H264TransportProof), at the cost of a set for each use. *Refuted, not proved*: the
two findings. The type invariants of RtpSession and WorkerPool
are not run on their own: the proofs hold them within `SessionInv`, and in
`Shape` and `TaskShape`.

## 5. Not modelled, and the plan

Worth modelling next, in order of importance:

1. **VideoSender, the rest** - several streams on one transmitter, an encoder that
   fails to start or a codec that fails, the stop and restart of a decoder, and the reuse of an
   output buffer that is being sent.
2. **VideoReceiver with several sources** - the assignment of sources to
   participants (`get_participant_stream_non_init`): the receiver binds a free
   participant to any source of the session, also to one without media, and the
   participant keeps that SSRC for good.
3. **PbufList** - the playout buffer pointer by pointer, refined to
   PlayoutBuffer: `prv` of a new head, packets that arrive twice.
4. **The sending side of a session** - `rtp_send_data` and `rtp_send_ctrl` of the
   transmitter's sessions. They never receive, so that each knows no source but
   itself; what is left is the timing of its sender reports. Reverse
   reconsideration (`rtp.c:727`) has nothing to act on there, and no effect in the
   receiver's sessions, which never send a report.

Considered and left: the list of streams and the lists of participants of input
streams. The code has races there (`remove_stream` looks up between two critical
sections, `stream.c:155`; readers without a lock, `participants.c:158`;
`add_participant_stream` links before it sets the stream, `stream.c:212`), but no
program of the repository reaches them. Some programs do add streams while the threads
that read the list are running (`mmforwarder.c` starts the receiver at line 124 and adds
streams at 131 and 141, the transmitter at 149 and streams at 157 and 167;
`video_rec_trans.c:142` adds one later on). `add_stream` takes the write lock of the list, and
the participants of the stream are linked and know it before; lists are taken
down after the threads were joined, and `remove_stream` has no
caller. A model of those races would be one of programs that do not exist.

Left out for good: memory of frames and its release, pictures, codecs and
resampling, RTP packet formats, socket I/O, the RTSP dialogue, rate control, the
module tree without messages, and the vendored directories, which make up most of
the lines of the repository. With them out, the share of the repository's lines that
has a model stays small.

## 6. Running

    tlc -workers 2 -config FrameQueueDrop.cfg MCFrameQueue
    tlc -workers 2 -config VideoReceiverOrderly.cfg MCVideoReceiver
    tlc -workers 2 -config RtpSession.cfg MCRtpSession
    tlc -workers 2 -config WorkerPool.cfg MCWorkerPool
    tlapm RingProof.tla
    tlapm FrameQueueProof.tla
    tlapm VideoReceiverProof.tla
    tlapm VideoSenderProof.tla
    tlapm WorkerPoolProof.tla
    tlapm RtpSessionProof.tla
    tlapm ParticipantDbProof.tla
    tlapm H264TransportProof.tla

The two finding cfgs, `BagRaceOverlap` and `H264SpsWritten`, end in a
counterexample by intent. The largest runs (`VideoReceiverReorder`, 2.2 million
states, and those with liveness) take between a quarter of a minute and three minutes.
