---------------------------- MODULE PlayoutBuffer ----------------------------
(***************************************************************************)
(* The playout buffer of src/src/rtp/pbuf.c as a sequence of frame nodes,  *)
(* the list from frst to last, with one operator per function.  A packet   *)
(* is a number: the n-th packet the sender sent.  What the code reads of   *)
(* its RTP header is computed from n: the 32-bit timestamp of its frame,   *)
(* the 16-bit sequence number and the marker bit, both numbers in a word   *)
(* of a few values that wraps like theirs.                                 *)
(*                                                                         *)
(* A node holds its packets in list order (cdata), whether the marker has  *)
(* been seen, whether it was decoded, and whether its playout time, 32 ms  *)
(* after it was created, has passed.  A packet that arrives twice for one  *)
(* node makes add_coded_unit free it twice; that is outside this model.    *)
(***************************************************************************)
EXTENDS Integers, Sequences

SX == INSTANCE SequencesExt
FX == INSTANCE FiniteSetsExt

CONSTANTS PacketsPer,        \* packets of a frame
          TsMod, TsBase,     \* size of the timestamp word, first timestamp
          SeqMod, SeqBase    \* size of the sequence word, first number

ASSUME PacketAssumption ==
  /\ PacketsPer \in Nat \ {0}
  /\ TsMod \in Nat \ {0} /\ TsBase \in Nat
  /\ SeqMod \in Nat \ {0} /\ SeqMod % 2 = 0 /\ SeqBase \in Nat

FrameOf(n) == ((n - 1) \div PacketsPer) + 1

TsOfFrame(f) == (TsBase + f) % TsMod

TsOf(n) == TsOfFrame(FrameOf(n))

SeqOf(n) == (SeqBase + n) % SeqMod

IsMarker(n) == n % PacketsPer = 0

-----------------------------------------------------------------------------
\* Mutant: sequence numbers compared as plain numbers.
NewerPlain(a, b) == SeqOf(a) > SeqOf(b)

\* (int16_t)(a - b) > 0 on the sequence numbers of two packets.
Newer(a, b) ==
  LET d == (SeqOf(a) - SeqOf(b)) % SeqMod IN d > 0 /\ d < SeqMod \div 2

\* add_coded_unit: the packet goes behind the packets newer than it.
AddCodedUnit(node, n) ==
  LET c == node.cdata
      k == CHOOSE k \in 0 .. Len(c) :
             /\ \A i \in 1 .. k : Newer(c[i], n)
             /\ k < Len(c) => ~Newer(c[k + 1], n)
  IN  [node EXCEPT !.cdata = SX!InsertAt(c, k + 1, n),
                   !.mbit = @ \/ IsMarker(n)]

\* create_new_pnode
NewNode(n) ==
  [ts |-> TsOf(n), cdata |-> <<n>>, mbit |-> IsMarker(n),
   decoded |-> FALSE, due |-> FALSE]

HasNode(buf, n) == \E i \in DOMAIN buf : buf[i].ts = TsOf(n)

\* pbuf_insert walks from the last node towards the first, past the nodes of
\* a greater timestamp, compared as plain unsigned numbers.  The packet goes
\* into the node it stops at, or into a new one behind it.
Insert(buf, n) ==
  LET k == CHOOSE k \in 0 .. Len(buf) :
             /\ \A i \in k + 1 .. Len(buf) : buf[i].ts > TsOf(n)
             /\ k > 0 => buf[k].ts <= TsOf(n)
  IN  IF k > 0 /\ buf[k].ts = TsOf(n)
      THEN [buf EXCEPT ![k] = AddCodedUnit(@, n)]
      ELSE SX!InsertAt(buf, k + 1, NewNode(n))

-----------------------------------------------------------------------------
\* frame_complete
Complete(node) == node.mbit

\* pbuf_decode takes the first of these nodes.
Ready(buf) == {i \in DOMAIN buf : ~buf[i].decoded /\ buf[i].due /\ Complete(buf[i])}

\* Mutant: an incomplete frame at the head hides the ones behind it.
FirstReadyHeadOnly(buf) == IF 1 \in Ready(buf) THEN 1 ELSE 0

\* Mutant: the newest ready frame is decoded first.
FirstReadyNewest(buf) == IF Ready(buf) = {} THEN 0 ELSE FX!Max(Ready(buf))

\* Its index, 0 if there is none.
FirstReady(buf) == IF Ready(buf) = {} THEN 0 ELSE FX!Min(Ready(buf))

MarkDecoded(buf, i) == [buf EXCEPT ![i].decoded = TRUE]

\* pbuf_check_if_complete_frame, which also marks the node.
HeadComplete(buf) == buf # <<>> /\ buf[1].due /\ Complete(buf[1])

\* Mutant: a decoded head stays.
RemoveFirstNever(buf) == buf

\* pbuf_remove_first: the head goes if it was decoded; no other node does.
RemoveFirst(buf) == IF buf[1].decoded THEN Tail(buf) ELSE buf

\* The playout time of the node with this timestamp has passed.
PassPlayout(buf, ts) ==
  [i \in DOMAIN buf |-> IF buf[i].ts = ts THEN [buf[i] EXCEPT !.due = TRUE] ELSE buf[i]]
=============================================================================
