----------------------------- MODULE VideoSender -----------------------------
(***************************************************************************)
(* The sending side of one video stream, from the first frame to the end   *)
(* of the stream:                                                          *)
(*                                                                         *)
(*   main thread -> ring of decoded frames -> encoder_routine              *)
(*               -> ring of coded frames -> video_transmitter_thread       *)
(*               -> the participants of the stream                         *)
(*                                                                         *)
(* while the RTSP server adds and removes participants.  The main thread   *)
(* is that of tests/video_transmitter.c: it feeds frames, dropping those   *)
(* that find no room, then stops the transmitter and destroys the stream.  *)
(*                                                                         *)
(* The encoder has two output buffers and fills them in turn.  It leaves   *)
(* a pointer to the last one in encoder->frame, and the transmitter sends  *)
(* what encoder->frame points to, not the coded frame it took.             *)
(*                                                                         *)
(* A thread inside put_frame, remove_frame or flush_frames does nothing    *)
(* else until the call is over: the three At operators say so.             *)
(***************************************************************************)
EXTENDS FrameRing, Sequences, FiniteSets

SX == INSTANCE SequencesExt

CONSTANTS Frames,       \* frames the main thread offers (model bound)
          Clients,      \* the participants the RTSP server may add
          NoFrame       \* encoder->frame before the first frame

ASSUME SenderAssumption ==
  Frames \in Nat /\ IsFiniteSet(Clients) /\ NoFrame \notin {0, 1}

Outputs == {0, 1}

VARIABLES main,         \* where the main thread is
          offered,      \* frames it has put or dropped
          decoded, raw, \* the ring of decoded frames, and the number of the
                        \* frame each position holds
          encoder,      \* where encoder_routine is
          run,          \* encoder->run
          index,        \* the output buffer of the next frame
          output,       \* the frame in each output buffer, 0: none or partial
          frame,        \* encoder->frame
          coded, stamp, \* the ring of coded frames, and their numbers
          lost,         \* video->lost_coded_frames
          transmitter,  \* where video_transmitter_thread is
          videoRun,     \* transmitter->video_run
          todo,         \* participants that are to get the frame yet
          sending,      \* the output buffer being sent, or NoFrame
          plist,        \* the participant list of the stream
          unlinked,     \* participants unlinked and not yet destroyed
          destroyed,    \* participants destroyed
          taken,        \* number of the coded frame taken last
          shown,        \* number of the frame sent last to each participant
          puts, removes \* calls of put_frame and remove_frame on coded

mainVars    == <<main, offered>>
rawVars     == <<decoded, raw>>
encVars     == <<encoder, run, index, output, frame>>
codedVars   == <<coded, stamp>>
txVars      == <<transmitter, todo, sending, taken, shown>>
clientVars  == <<plist, unlinked, destroyed>>
vars == <<mainVars, rawVars, encVars, codedVars, lost, txVars, videoRun,
          clientVars, puts, removes>>

Init ==
  /\ main = "feed" /\ offered = 0
  /\ decoded = InitRing /\ raw = [s \in Slots |-> 0]
  /\ encoder = "starting" /\ run = FALSE /\ index = 0
  /\ output = [o \in Outputs |-> 0] /\ frame = NoFrame
  /\ coded = InitRing /\ stamp = [s \in Slots |-> 0]
  /\ lost = 0
  /\ transmitter = "idle" /\ videoRun = TRUE
  /\ todo = <<>> /\ sending = NoFrame
  /\ plist = <<>> /\ unlinked = {} /\ destroyed = {}
  /\ taken = 0 /\ shown = [c \in Clients |-> 0]
  /\ puts = 0 /\ removes = 0

-----------------------------------------------------------------------------
MainAt(step) == main = step /\ ~ProducerBusy(decoded)

EncoderAt(step) == encoder = step /\ ~ConsumerBusy(decoded) /\ ~ProducerBusy(coded)

TransmitterAt(step) == transmitter = step /\ ~ConsumerBusy(coded)

-----------------------------------------------------------------------------
(* The main thread. *)

Feed ==
  /\ MainAt("feed")
  /\ offered < Frames
  /\ offered' = offered + 1
  /\ IF MayPut(decoded)
     THEN /\ decoded' = CurrIn(decoded)
          /\ raw' = [raw EXCEPT ![decoded.rear] = 0]
          /\ main' = "put"
     ELSE UNCHANGED <<decoded, raw, main>>
  /\ UNCHANGED <<encVars, codedVars, lost, txVars, videoRun, clientVars, puts, removes>>

FeedPut ==
  /\ MainAt("put")
  /\ raw' = [raw EXCEPT ![decoded.rear] = offered]
  /\ decoded' = PutFrame(decoded)
  /\ main' = "feed"
  /\ UNCHANGED <<offered, encVars, codedVars, lost, txVars, videoRun, clientVars, puts, removes>>

\* stop_transmitter
StopTransmitter ==
  /\ MainAt("feed")
  /\ videoRun' = FALSE
  /\ main' = "joinTransmitter"
  /\ UNCHANGED <<offered, rawVars, encVars, codedVars, lost, txVars, clientVars, puts, removes>>

JoinTransmitter ==
  /\ MainAt("joinTransmitter")
  /\ transmitter = "stopped"
  /\ main' = "stopEncoder"
  /\ UNCHANGED <<offered, rawVars, encVars, codedVars, lost, txVars, videoRun, clientVars, puts, removes>>

\* Mutant: the encoder is not told to stop.
StopEncoderOnlyJoin ==
  /\ MainAt("stopEncoder")
  /\ main' = "joinEncoder"
  /\ UNCHANGED <<offered, rawVars, encVars, codedVars, lost, txVars, videoRun, clientVars, puts, removes>>

\* destroy_stream, stop_encoder
StopEncoder ==
  /\ MainAt("stopEncoder")
  /\ run' = FALSE
  /\ main' = "joinEncoder"
  /\ UNCHANGED <<offered, rawVars, encoder, index, output, frame, codedVars, lost,
                 txVars, videoRun, clientVars, puts, removes>>

\* destroy_encoder joins the thread; then the rings, the participants and the
\* stream are destroyed.
Destroy ==
  /\ MainAt("joinEncoder")
  /\ encoder = "stopped"
  /\ main' = "destroyed"
  /\ plist' = <<>>
  /\ destroyed' = destroyed \union SX!ToSet(plist)
  /\ UNCHANGED <<offered, rawVars, encVars, codedVars, lost, txVars, videoRun, unlinked, puts, removes>>

\* The main thread goes on inside put_frame.
FeedStep ==
  /\ decoded' \in ProducerSteps(decoded)
  /\ UNCHANGED <<mainVars, raw, encVars, codedVars, lost, txVars, videoRun, clientVars, puts, removes>>

-----------------------------------------------------------------------------
(* encoder_routine *)

\* encoder->run = TRUE, after the thread has set its codec up.
EncoderStarts ==
  /\ EncoderAt("starting")
  /\ encoder' = "idle"
  /\ run' = TRUE
  /\ index' = 0
  /\ UNCHANGED <<mainVars, rawVars, output, frame, codedVars, lost, txVars, videoRun, clientVars, puts, removes>>

EncoderExits ==
  /\ EncoderAt("idle")
  /\ ~run
  /\ encoder' = "stopped"
  /\ UNCHANGED <<mainVars, rawVars, run, index, output, frame, codedVars, lost,
                 txVars, videoRun, clientVars, puts, removes>>

\* Mutant: a NULL decoded frame is encoded too.
EncoderTakesUnchecked ==
  /\ EncoderAt("idle")
  /\ run
  /\ decoded' = CurrOut(decoded)
  /\ encoder' = "room"
  /\ UNCHANGED <<mainVars, raw, run, index, output, frame, codedVars, lost,
                 txVars, videoRun, clientVars, puts, removes>>

EncoderTakes ==
  /\ EncoderAt("idle")
  /\ run
  /\ MayTake(decoded)
  /\ decoded' = CurrOut(decoded)
  /\ encoder' = "room"
  /\ UNCHANGED <<mainVars, raw, run, index, output, frame, codedVars, lost,
                 txVars, videoRun, clientVars, puts, removes>>

EncoderAsks ==
  /\ EncoderAt("room")
  /\ IF MayPut(coded)
     THEN coded' = CurrIn(coded) /\ encoder' = "fill"
     ELSE encoder' = "flush" /\ UNCHANGED coded
  /\ UNCHANGED <<mainVars, rawVars, run, index, output, frame, stamp, lost,
                 txVars, videoRun, clientVars, puts, removes>>

\* Mutant: the frame flushed is not counted.
EncoderFlushesSilently ==
  /\ EncoderAt("flush")
  /\ coded' = FlushFrames(coded)
  /\ encoder' = "room"
  /\ UNCHANGED <<mainVars, rawVars, run, index, output, frame, stamp, lost,
                 txVars, videoRun, clientVars, puts, removes>>

\* The transmitter may have removed a frame since curr_in_frame said no.
EncoderFlushes ==
  /\ EncoderAt("flush")
  /\ coded' = FlushFrames(coded)
  /\ lost' = lost + 1
  /\ encoder' = "room"
  /\ UNCHANGED <<mainVars, rawVars, run, index, output, frame, stamp,
                 txVars, videoRun, clientVars, puts, removes>>

\* compress_frame starts to fill an output buffer ...
EncoderFills ==
  /\ EncoderAt("fill")
  /\ output' = [output EXCEPT ![index] = 0]
  /\ encoder' = "publish"
  /\ UNCHANGED <<mainVars, rawVars, run, index, frame, codedVars, lost,
                 txVars, videoRun, clientVars, puts, removes>>

\* ... and returns it.
EncoderPublishes ==
  /\ EncoderAt("publish")
  /\ LET n == raw[decoded.front]
     IN  /\ output' = [output EXCEPT ![index] = n]
         /\ stamp' = [stamp EXCEPT ![coded.rear] = n]
  /\ frame' = index
  /\ encoder' = "remove"
  /\ UNCHANGED <<mainVars, rawVars, run, index, coded, lost,
                 txVars, videoRun, clientVars, puts, removes>>

EncoderRemoves ==
  /\ EncoderAt("remove")
  /\ decoded' = RemoveFrame(decoded)
  /\ encoder' = "put"
  /\ UNCHANGED <<mainVars, raw, run, index, output, frame, codedVars, lost,
                 txVars, videoRun, clientVars, puts, removes>>

\* Mutant: the output buffers are not swapped.
EncoderPutsSameBuffer ==
  /\ EncoderAt("put")
  /\ coded' = PutFrame(coded)
  /\ puts' = puts + 1
  /\ encoder' = "idle"
  /\ UNCHANGED <<mainVars, rawVars, run, index, output, frame, stamp, lost,
                 txVars, videoRun, clientVars, removes>>

EncoderPuts ==
  /\ EncoderAt("put")
  /\ coded' = PutFrame(coded)
  /\ puts' = puts + 1
  /\ index' = (index + 1) % 2
  /\ encoder' = "idle"
  /\ UNCHANGED <<mainVars, rawVars, run, output, frame, stamp, lost,
                 txVars, videoRun, clientVars, removes>>

\* The encoder goes on inside remove_frame, put_frame or flush_frames.
EncoderStep ==
  /\ \/ decoded' \in ConsumerSteps(decoded) /\ UNCHANGED coded
     \/ coded' \in ProducerSteps(coded) /\ UNCHANGED decoded
  /\ UNCHANGED <<mainVars, raw, encVars, stamp, lost, txVars, videoRun, clientVars, puts, removes>>

-----------------------------------------------------------------------------
(* video_transmitter_thread.  From TransmitterTakes to TransmitterRemoves  *)
(* it holds the list of participants for reading.                          *)

TransmitterExits ==
  /\ TransmitterAt("idle")
  /\ ~videoRun
  /\ transmitter' = "stopped"
  /\ UNCHANGED <<mainVars, rawVars, encVars, codedVars, lost, todo, sending, taken,
                 shown, videoRun, clientVars, puts, removes>>

TransmitterTakes ==
  /\ TransmitterAt("idle")
  /\ videoRun
  /\ MayTake(coded)
  /\ coded' = CurrOut(coded)
  /\ taken' = stamp[coded.front]
  /\ todo' = plist
  /\ transmitter' = "walk"
  /\ UNCHANGED <<mainVars, rawVars, encVars, stamp, lost, sending, shown, videoRun,
                 clientVars, puts, removes>>

\* tx_send_h264 is given encoder->frame.
TransmitterSends ==
  /\ TransmitterAt("walk")
  /\ todo # <<>>
  /\ sending' = frame
  /\ shown' = [shown EXCEPT ![Head(todo)] = IF frame = NoFrame THEN 0 ELSE output[frame]]
  /\ transmitter' = "send"
  /\ UNCHANGED <<mainVars, rawVars, encVars, codedVars, lost, todo, taken, videoRun,
                 clientVars, puts, removes>>

TransmitterSent ==
  /\ TransmitterAt("send")
  /\ sending' = NoFrame
  /\ todo' = Tail(todo)
  /\ transmitter' = "walk"
  /\ UNCHANGED <<mainVars, rawVars, encVars, codedVars, lost, taken, shown, videoRun,
                 clientVars, puts, removes>>

TransmitterRemoves ==
  /\ TransmitterAt("walk")
  /\ todo = <<>>
  /\ coded' = RemoveFrame(coded)
  /\ removes' = removes + 1
  /\ transmitter' = "idle"
  /\ UNCHANGED <<mainVars, rawVars, encVars, stamp, lost, todo, sending, taken, shown,
                 videoRun, clientVars, puts>>

\* The transmitter goes on inside remove_frame.
TransmitterStep ==
  /\ coded' \in ConsumerSteps(coded)
  /\ UNCHANGED <<mainVars, rawVars, encVars, stamp, lost, txVars, videoRun, clientVars, puts, removes>>

-----------------------------------------------------------------------------
(* The RTSP server: startStream and deleteStream. *)

ListIsFree == transmitter \notin {"walk", "send"}

AddParticipant ==
  /\ main # "destroyed"
  /\ ListIsFree
  /\ \E c \in Clients \ (SX!ToSet(plist) \union unlinked \union destroyed) :
       plist' = Append(plist, c)
  /\ UNCHANGED <<mainVars, rawVars, encVars, codedVars, lost, txVars, videoRun,
                 unlinked, destroyed, puts, removes>>

\* Mutant: remove_participant does not take the lock of the list.
RemoveUnlocked ==
  /\ main # "destroyed"
  /\ \E i \in DOMAIN plist :
       /\ plist' = SX!RemoveAt(plist, i)
       /\ unlinked' = unlinked \union {plist[i]}
  /\ UNCHANGED <<mainVars, rawVars, encVars, codedVars, lost, txVars, videoRun,
                 destroyed, puts, removes>>

\* remove_participant unlinks under the lock ...
RemoveParticipant ==
  /\ main # "destroyed"
  /\ ListIsFree
  /\ \E i \in DOMAIN plist :
       /\ plist' = SX!RemoveAt(plist, i)
       /\ unlinked' = unlinked \union {plist[i]}
  /\ UNCHANGED <<mainVars, rawVars, encVars, codedVars, lost, txVars, videoRun,
                 destroyed, puts, removes>>

\* ... and destroys the participant after it.
DestroyParticipant ==
  /\ \E c \in unlinked :
       /\ unlinked' = unlinked \ {c}
       /\ destroyed' = destroyed \union {c}
  /\ UNCHANGED <<mainVars, rawVars, encVars, codedVars, lost, txVars, videoRun,
                 plist, puts, removes>>

-----------------------------------------------------------------------------
Stopping == JoinTransmitter \/ StopEncoder \/ Destroy

Main == Feed \/ FeedPut \/ FeedStep \/ StopTransmitter \/ Stopping

Encoder ==
  \/ EncoderStarts \/ EncoderExits \/ EncoderTakes \/ EncoderAsks \/ EncoderFlushes
  \/ EncoderFills \/ EncoderPublishes \/ EncoderRemoves \/ EncoderPuts
  \/ EncoderStep

Transmitter ==
  \/ TransmitterExits \/ TransmitterTakes \/ TransmitterSends
  \/ TransmitterSent \/ TransmitterRemoves \/ TransmitterStep

Server == AddParticipant \/ RemoveParticipant \/ DestroyParticipant

Next == Main \/ Encoder \/ Transmitter \/ Server

Spec == Init /\ [][Next]_vars

\* The threads are scheduled; nobody has to feed, to stop or to connect.
FairSpec ==
  Spec /\ WF_vars(Stopping) /\ WF_vars(FeedStep) /\ WF_vars(Encoder) /\ WF_vars(Transmitter)

-----------------------------------------------------------------------------
(* Properties. *)

\* On neither ring a call has run into an unfinished call of the other side
\* about the same frame or position.
Calm == ~decoded.raced /\ ~coded.raced

\* encoder->frame is not the coded frame the transmitter took; still, what
\* the transmitter starts to send is a whole frame, and none older than the
\* one it took.
SentWhole ==
  Calm /\ transmitter = "send" => shown[Head(todo)] > 0 /\ shown[Head(todo)] >= taken

\* No participant is sent a frame older than one it was sent before, whatever
\* the flushes of the encoder do to the ring under the transmitter.
NeverSentBack == [][Calm' => \A c \in Clients : shown'[c] >= shown[c]]_vars

\* No coded frame gets lost uncounted: while no call on the ring is under way
\* its words and the counter account for every frame.  (Some are counted that
\* are not lost: the transmitter may make room between the test and the flush.)
LossCounted ==
  Calm /\ ~ProducerBusy(coded) /\ ~ConsumerBusy(coded)
    => puts <= removes + Count(coded) + lost

\* The transmitter walks the list only over participants that exist.
ParticipantAlive == SX!ToSet(todo) \intersect destroyed = {}

\* Stopping ends, if the encoder thread was up when it was told to stop.
StopEnds == main = "stopEncoder" /\ encoder # "starting" ~> main = "destroyed"

\* The transmitter stored EMPTY over the state word of a later put_frame, and
\* no call on the ring is under way.
LeftBehind ==
  /\ ~ProducerBusy(coded) /\ ~ConsumerBusy(coded) /\ removes > 0
  /\ coded.state = "EMPTY" /\ coded.front # coded.rear

\* A frame that gets encoded is sent to every participant of that time, or a
\* newer one is, unless it is left behind in the ring, the participant leaves
\* or the program stops.
EncodedIsSent ==
  \A c \in Clients : \A n \in 1 .. Frames :
    (encoder = "put" /\ output[index] = n /\ c \in SX!ToSet(plist))
      ~> \/ shown[c] >= n \/ c \notin SX!ToSet(plist)
         \/ main \notin {"feed", "put"} \/ LeftBehind \/ ~Calm
=============================================================================
