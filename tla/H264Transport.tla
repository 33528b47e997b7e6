---------------------------- MODULE H264Transport ----------------------------
(***************************************************************************)
(* A coded frame on its way: tx_send_h264 (src/src/transmit.c) finds the   *)
(* NAL units in the encoder's output and sends each in one packet, or in   *)
(* fragments (FU-A) when it is too large; decode_frame_h264                *)
(* (src/src/rtp/rtpdec.c) puts the frame together again from the packets   *)
(* that arrived.  The sender works on bytes, and so does this module.      *)
(*                                                                         *)
(* A byte stream is a sequence of numbers.  A packet is a record: the      *)
(* first byte of its payload (type and nri), the FU header if it is a      *)
(* fragment (start and nal type), what follows, and the marker.            *)
(***************************************************************************)
EXTENDS Integers, SequencesExt

CONSTANTS
  MaxSize,    \* nal_max_size, which is the MTU less 40
  Lengths,    \* payload lengths of the NAL units the encoder makes
  MaxNals,    \* bound of the model: NAL units in a frame
  MaxLost,    \* bound of the model: packets of a frame lost
  Junk        \* a byte of the buffer nobody wrote for this frame

\* The size of the array tx_send_base_h264 has for the units of a frame, which
\* rtpenc_h264_parse_nal_units fills without regard to its end.
RTPENC_H264_MAX_NALS == 8192

ASSUME TransportAssumption ==
  /\ MaxSize \in Nat /\ MaxSize > 2
  /\ Lengths \subseteq Nat \ {0}
  /\ MaxNals \in Nat \ {0} /\ MaxNals <= RTPENC_H264_MAX_NALS
  /\ MaxLost \in Nat
  /\ Junk \notin 0 .. 255

VARIABLES
  nals,     \* the NAL units of the frame
  phase,    \* "encode", "sent" or "decoded"
  wire,     \* the packets, in the order of their sequence numbers
  lost,     \* how many were lost
  frame     \* the frame decode_frame_h264 fills

vars == <<nals, phase, wire, lost, frame>>

-----------------------------------------------------------------------------
(* What the encoder makes.                                                 *)

SliceB == [type |-> 1, nri |-> 0]
SliceP == [type |-> 1, nri |-> 2]
Idr    == [type |-> 5, nri |-> 3]
Sps    == [type |-> 7, nri |-> 3]

\* Payload k of the n-th NAL unit; with "escape" it has an emulation
\* prevention byte, of which 5 bytes are the least.
Byte(n, k, escape) ==
  IF escape /\ k < 5 THEN <<0, 0, 3, 1>>[k] ELSE 40 * n + k

Escapes(len) == IF len < 5 THEN {FALSE} ELSE BOOLEAN

\* The payload of an SPS is not as short as that.
Kinds(len) == {SliceB, SliceP, Idr} \cup (IF len < 5 THEN {} ELSE {Sps})

Unit(n, kind, zeros, len, escape) ==
  [type |-> kind.type, nri |-> kind.nri, zeros |-> zeros,
   payload |-> [k \in 1 .. len |-> Byte(n, k, escape)]]

Header(u) == u.type + 32 * u.nri

StartCode(zeros) == [i \in 1 .. zeros |-> 0] \o <<1>>

\* The encoder's output: each unit after a start code of 3 or 4 bytes.
Stream(units) ==
  FlattenSeq([i \in DOMAIN units |->
    StartCode(units[i].zeros) \o <<Header(units[i])>> \o units[i].payload])

-----------------------------------------------------------------------------
(* The sender.                                                             *)

StartCodeAt(b, i) == i + 2 <= Len(b) /\ b[i] = 0 /\ b[i+1] = 0 /\ b[i+2] = 1

\* rtpenc_h264_find_startcode: one more zero before it belongs to it.
Found(b, i) == IF i > 1 /\ b[i-1] = 0 THEN i - 1 ELSE i

\* Where the units begin, in the order of the buffer.  (As no unit is empty,
\* the search that goes on after the first three bytes of a unit meets every
\* start code.)
Starts(b) ==
  LET at == {Found(b, i) : i \in {j \in DOMAIN b : StartCodeAt(b, j)}}
  IN  CHOOSE s \in [1 .. Cardinality(at) -> at] :
        \A i, j \in DOMAIN s : i < j => s[i] < s[j]

\* rtpenc_h264_parse_nal_units: the pieces between the start codes, for which
\* there is room in the array.  (The search also reads up to six bytes after the
\* buffer; it takes them for free of start codes.)
ParseNalUnits(b) ==
  LET starts == Starts(b)
      stop(k) == IF k < Len(starts) THEN starts[k+1] - 1 ELSE Len(b)
  IN  [k \in DOMAIN starts |-> SubSeq(b, starts[k], stop(k))]

\* The part of nal after the zeros and the one of its start code.
AfterStartCode(nal) ==
  LET one == CHOOSE i \in DOMAIN nal : nal[i] # 0 /\ \A j \in 1 .. i - 1 : nal[j] = 0
  IN  SubSeq(nal, one + 1, Len(nal))

\* Mutant: a fragment is filled with all that fits.
FragmentSizeFull == MaxSize - 1

\* A fragment carries two bytes less than fit, for its two header bytes.
FragmentSize == MaxSize - 2

Single(unit) ==
  <<[fu |-> FALSE, type |-> unit[1] % 32, nri |-> (unit[1] \div 32) % 4,
     start |-> TRUE, data |-> Tail(unit), m |-> FALSE]>>

\* Full fragments as long as more is left than fits in one, the first with
\* the start bit; then the last, which never has it.
Fragments(unit) ==
  LET payload == Tail(unit)
      full    == (Len(payload) - 1) \div FragmentSize
      piece(j) == SubSeq(payload, (j - 1) * FragmentSize + 1,
                         IF j <= full THEN j * FragmentSize ELSE Len(payload))
  IN  [j \in 1 .. full + 1 |->
        [fu |-> TRUE, type |-> unit[1] % 32, nri |-> (unit[1] \div 32) % 4,
         start |-> j = 1 /\ j <= full, data |-> piece(j), m |-> FALSE]]

\* A unit is fragmented if it does not fit together with its start code,
\* although the start code is not sent.
Packetized(nal) ==
  IF Len(nal) > MaxSize THEN Fragments(AfterStartCode(nal))
  ELSE Single(AfterStartCode(nal))

\* The marker is on the last packet of the last unit.
Marked(units) ==
  LET all == FlattenSeq([i \in DOMAIN units |-> Packetized(units[i])])
  IN  [all EXCEPT ![Len(all)].m = TRUE]

\* tx_send_base_h264, for a frame of one tile.
TxSend(b) == Marked(ParseNalUnits(b))

-----------------------------------------------------------------------------
(* The receiver.                                                           *)

\* nal_to_rbsp leaves out the first byte and the emulation prevention bytes,
\* and stores the length of the rest over the length of the data, for which
\* fill_coded_frame_from_sps gives it the packet's own data_len.
RbspLen(data) ==
  Len(data) - Cardinality({i \in 3 .. Len(data) :
                            data[i] = 3 /\ data[i-1] = 0 /\ data[i-2] = 0})

\* data_len of a packet less its first byte, when a pass has looked at it.
Shrunk(p) ==
  IF ~p.fu /\ p.type = 7
  THEN [p EXCEPT !.data = SubSeq(@, 1, RbspLen(@) - 1)]
  ELSE p

\* Mutant: every fragment opens a unit.
AddedEach(p) == StartCode(3) \o <<p.type + 32 * p.nri>> \o p.data

\* What a packet adds to the frame: a fragment that is no start only its data.
Added(p) ==
  IF p.fu /\ ~p.start THEN p.data
  ELSE StartCode(3) \o <<p.type + 32 * p.nri>> \o p.data

\* Mutant: a frame is of the type of its first NAL unit.
FrameTypeFirst(ps) ==
  IF ps[1].type = 5 THEN "INTRA" ELSE IF ps[1].nri # 0 THEN "OTHER" ELSE "BFRAME"

\* An IDR unit makes it INTRA; failing that, any reference unit makes it OTHER.
FrameType(ps) ==
  IF \E i \in DOMAIN ps : ps[i].type = 5 THEN "INTRA"
  ELSE IF \E i \in DOMAIN ps : ps[i].nri # 0 THEN "OTHER"
  ELSE "BFRAME"

\* decode_frame_h264: the first pass adds up the lengths; the second writes
\* from the end of the frame to its beginning, the newest packet first.
Decode(ps) ==
  LET first   == [i \in DOMAIN ps |-> Shrunk(ps[i])]
      second  == [i \in DOMAIN ps |-> Shrunk(first[i])]
      total   == Len(FlattenSeq([i \in DOMAIN ps |-> Added(first[i])]))
      written == FlattenSeq([i \in DOMAIN ps |-> Added(second[i])])
  IN  [buffer |-> [i \in 1 .. total - Len(written) |-> Junk] \o written,
       type   |-> FrameType(ps)]

-----------------------------------------------------------------------------
NoFrame == [buffer |-> <<>>, type |-> "BFRAME"]

Init ==
  nals = <<>> /\ phase = "encode" /\ wire = <<>> /\ lost = 0 /\ frame = NoFrame

Encode ==
  /\ phase = "encode" /\ Len(nals) < MaxNals
  /\ \E zeros \in {2, 3}, len \in Lengths :
       \E kind \in Kinds(len), escape \in Escapes(len) :
         nals' = Append(nals, Unit(Len(nals) + 1, kind, zeros, len, escape))
  /\ UNCHANGED <<phase, wire, lost, frame>>

Send ==
  /\ phase = "encode" /\ nals # <<>>
  /\ phase' = "sent"
  /\ wire' = TxSend(Stream(nals))
  /\ UNCHANGED <<nals, lost, frame>>

\* A packet is lost; without the marker the frame would not be decoded.
Lose ==
  /\ phase = "sent" /\ lost < MaxLost
  /\ \E i \in DOMAIN wire : ~wire[i].m /\ wire' = RemoveAt(wire, i)
  /\ lost' = lost + 1
  /\ UNCHANGED <<nals, phase, frame>>

DecodeFrame ==
  /\ phase = "sent"
  /\ phase' = "decoded"
  /\ frame' = Decode(wire)
  /\ UNCHANGED <<nals, wire, lost>>

\* The next frame.
Again ==
  /\ phase = "decoded"
  /\ nals' = <<>> /\ phase' = "encode" /\ wire' = <<>> /\ lost' = 0
  /\ frame' = NoFrame

Next == Encode \/ Send \/ Lose \/ DecodeFrame \/ Again

Spec == Init /\ [][Next]_vars

-----------------------------------------------------------------------------
\* Units that do not come through whole: an SPS in one packet, whose length
\* each pass of the receiver shortens, and one that is too long only because
\* of its start code, which goes as a single fragment without the start bit.
Shortened(u)  == u.type = 7 /\ u.zeros + 2 + Len(u.payload) <= MaxSize
Headless(u)   ==
  u.zeros + 2 + Len(u.payload) > MaxSize /\ Len(u.payload) <= FragmentSize

Whole(u) == StartCode(3) \o <<Header(u)>> \o u.payload

TypeOfUnits(units) ==
  IF \E i \in DOMAIN units : units[i].type = 5 THEN "INTRA"
  ELSE IF \E i \in DOMAIN units : units[i].nri # 0 THEN "OTHER"
  ELSE "BFRAME"

\* What is sent is what arrives: if no packet is lost, the frame decoded is
\* the frame encoded, unit by unit, with a start code of four bytes before
\* each, and it is of the type its units make it.
RoundTrip ==
  /\ phase = "decoded" /\ lost = 0
  /\ \A i \in DOMAIN nals : ~Shortened(nals[i]) /\ ~Headless(nals[i])
  => /\ frame.buffer = FlattenSeq([i \in DOMAIN nals |-> Whole(nals[i])])
     /\ frame.type = TypeOfUnits(nals)

Size(p) == Len(p.data) + IF p.fu THEN 2 ELSE 1

\* However a frame is cut, no packet is larger than the MTU allows, and only
\* the last packet has the marker by which pbuf.c takes the frame for
\* complete: one that came earlier would have a part decoded as the frame.
PacketsFit ==
  phase = "sent" =>
    \A i \in DOMAIN wire :
      /\ Size(wire[i]) <= MaxSize
      /\ wire[i].m <=> i = Len(wire)

\* Is s in t, followed by a start code or by the end of t?
Delimited(s, t) ==
  \E i \in 0 .. Len(t) - Len(s) :
    /\ \A k \in DOMAIN s : t[i + k] = s[k]
    /\ \/ i + Len(s) = Len(t)
       \/ /\ i + Len(s) + Len(StartCode(3)) <= Len(t)
          /\ \A k \in DOMAIN StartCode(3) : t[i + Len(s) + k] = StartCode(3)[k]

\* Every packet of u arrived, after the first i on the wire, and what comes next
\* opens a unit.  (One packet alone cannot be told from another: payloads repeat
\* themselves.)
Arrived(u, i) ==
  LET sent == TxSend(Stream(<<u>>))
  IN  /\ i + Len(sent) <= Len(wire)
      /\ \A k \in DOMAIN sent : \E m \in BOOLEAN : wire[i + k] = [sent[k] EXCEPT !.m = m]
      /\ i + Len(sent) < Len(wire) =>
           LET next == wire[i + Len(sent) + 1] IN next.fu => next.start

\* A loss damages the unit it hits and at most the one before.  A unit that
\* arrived is in the decoded frame whole, after a start code and up to the next
\* one, unless the first fragment of the next unit is missing: the fragments
\* left of it are then put at the end of this one, with nothing between
\* (rtpdec.c:163).
LossIsLocal ==
  phase = "decoded" =>
    \A n \in DOMAIN nals : \A i \in 0 .. Len(wire) :
      Arrived(nals[n], i) /\ ~Shortened(nals[n]) /\ ~Headless(nals[n])
      => Delimited(Whole(nals[n]), frame.buffer)

\* decode_frame_h264 hands nal_to_rbsp the length of the packet as the size of
\* the NAL unit, which is to be "as output, filled in with the actual size of
\* the nal data" (h264_stream.c:37); the two passes then agree on the length
\* of the frame, and every byte of it is written.
EveryByteWritten ==
  \A i \in DOMAIN frame.buffer : frame.buffer[i] # Junk
=============================================================================
