----------------------------- MODULE RtpSession -----------------------------
(***************************************************************************)
(* The receiving side of one RTP session (src/src/rtp/rtp.c) with the      *)
(* callback that keeps the participant database in step with it            *)
(* (rtp_callback.c): sources come into being with the first packet that    *)
(* mentions them, serve a probation, are checked for their sequence        *)
(* numbers, and leave after a BYE or after a silence.  All of it is run by *)
(* the receiver thread; what is concurrent is the network and the clock.   *)
(*                                                                         *)
(* The options are those of init_receiver: wait_for_rtcp is set, so a      *)
(* media packet creates its source, on probation; promiscuous_mode and     *)
(* filter_my_packets are not, so packets that carry our own SSRC (another  *)
(* session with the same number, or our packets come back) are processed   *)
(* like any other.  The session never sends.  The chains of the hash table *)
(* are one set.                                                            *)
(***************************************************************************)
EXTENDS Integers, FiniteSets

CONSTANTS
  Self,           \* my_ssrc
  Remote,         \* the other sources
  Speakers,       \* the sources packets arrive from
  Media,          \* those among them that send media
  Mentioned,      \* the sources that packets of others mention
  SeqMod,         \* RTP_SEQ_MOD
  MaxDropout,     \* MAX_DROPOUT
  MaxMisorder,    \* MAX_MISORDER
  MinSequential,  \* MIN_SEQUENTIAL
  ByeDelay,       \* 2 seconds, in ticks
  InactiveAge,    \* two reporting intervals
  ReportAge,      \* three reporting intervals
  DeadAge,        \* five reporting intervals
  MaxStall,       \* ticks the receiver may go without rtp_update
  MaxSenders      \* bound of the model on sender_count

ASSUME SessionAssumption ==
  /\ IsFiniteSet(Remote) /\ Self \notin Remote
  /\ Media \subseteq Speakers /\ Speakers \cup Mentioned \subseteq Remote \cup {Self}
  /\ {SeqMod, MaxDropout, MaxMisorder, MinSequential} \subseteq Nat \ {0}
  /\ MaxDropout + MaxMisorder < SeqMod
  /\ {ByeDelay, InactiveAge, ReportAge, DeadAge, MaxSenders} \subseteq Nat
  /\ InactiveAge <= ReportAge /\ ReportAge <= DeadAge
  /\ MaxStall \in Nat \ {0} /\ ByeDelay + MaxStall <= InactiveAge

Ssrcs == Remote \cup {Self}
Seqs  == 0 .. SeqMod - 1

VARIABLES
  source,       \* session->db: the sources that exist, with their fields
  ssrc_count, sender_count,
  rr,           \* session->rr: age of the report of <<reporter, reportee>>
  pdb,          \* the ssrcs in the participant database
  late,         \* ticks since the last rtp_update
  phase,        \* "up" until rtp_done; "crashed" when rtp_recv_callback uses
                \* a participant there is not, "failed" when rtp_done asks
                \* delete_source for our own source and it is not there
  asserted,     \* rtp_update asked delete_source for a source it had deleted
  last          \* the last media packet: what sender and number it had, how
                \* many in unbroken sequence it made, and if it was delivered

vars == <<source, ssrc_count, sender_count, rr, pdb, late, phase, asserted, last>>

\* A source as memset leaves it; probation is -1 or 0.
NewSource(probation) ==
  [probation |-> probation, max_seq |-> 0, bad_seq |-> 0,
   sender |-> FALSE, got_bye |-> FALSE, age |-> 0]

Init ==
  /\ source = [s \in {Self} |-> NewSource(0)]
  /\ ssrc_count = 1 /\ sender_count = 0
  /\ rr = [p \in {} |-> 0] /\ pdb = {}
  /\ late = 0 /\ phase = "up" /\ asserted = FALSE
  /\ last = [ssrc |-> Self, seq |-> 0, streak |-> 0, delivered |-> FALSE]

-----------------------------------------------------------------------------
(* The database.                                                           *)

\* create_source for each member of A: those that exist are marked active.
Touched(A, probation) ==
  [s \in DOMAIN source \cup A |->
    IF s \notin DOMAIN source THEN NewSource(probation)
    ELSE IF s \in A THEN [source[s] EXCEPT !.age = 0] ELSE source[s]]

\* The rest of really_create_source: the count, and the SOURCE_CREATED event,
\* on which rtp_recv_callback adds the source to the participant database; none
\* is sent for our own source.
Create(A) ==
  /\ ssrc_count' = ssrc_count + Cardinality(A \ DOMAIN source)
  /\ pdb' = pdb \cup (A \ (DOMAIN source \cup {Self}))

-----------------------------------------------------------------------------
(* Sequence numbers: update_seq gives the source after the packet and      *)
(* whether the packet is valid.                                            *)

InitSeq(s, seq) == [s EXCEPT !.max_seq = seq, !.bad_seq = SeqMod + 1]

\* On probation the next number is computed as an int: it is never 0.
OnProbation(s, seq) ==
  IF seq # s.max_seq + 1
  THEN [s |-> [s EXCEPT !.probation = MinSequential - 1, !.max_seq = seq],
        valid |-> FALSE]
  ELSE IF s.probation = 1
  THEN [s |-> InitSeq([s EXCEPT !.probation = 0], seq), valid |-> TRUE]
  ELSE [s |-> [s EXCEPT !.probation = @ - 1, !.max_seq = seq], valid |-> FALSE]

\* Mutant: the number expected after a jump is the one that jumped.
AfterJumpRepeat(s, seq) ==
  IF seq = s.bad_seq THEN [s |-> InitSeq(s, seq), valid |-> TRUE]
  ELSE [s |-> [s EXCEPT !.bad_seq = seq], valid |-> FALSE]

AfterJump(s, seq) ==
  IF seq = s.bad_seq THEN [s |-> InitSeq(s, seq), valid |-> TRUE]
  ELSE [s |-> [s EXCEPT !.bad_seq = (seq + 1) % SeqMod], valid |-> FALSE]

UpdateSeq(s, seq) ==
  LET udelta == (seq + SeqMod - s.max_seq) % SeqMod
  IN  IF s.probation # 0 THEN OnProbation(s, seq)
      ELSE IF udelta < MaxDropout
      THEN [s |-> [s EXCEPT !.max_seq = seq], valid |-> TRUE]
      ELSE IF udelta <= SeqMod - MaxMisorder THEN AfterJump(s, seq)
      ELSE [s |-> s, valid |-> TRUE]

\* A source met for the first time expects the packet it is met with.
Expecting(s, seq) ==
  IF s.probation # -1 THEN s
  ELSE [s EXCEPT !.probation = MinSequential,
                 !.max_seq = (seq + SeqMod - 1) % SeqMod]

-----------------------------------------------------------------------------
(* Packets.                                                                *)

Streak(s, seq) ==
  IF last.ssrc = s /\ last.streak > 0 /\ seq = (last.seq + 1) % SeqMod
  THEN IF last.streak < 3 THEN last.streak + 1 ELSE 3
  ELSE 1

Senders(db) == {s \in DOMAIN db : db[s].sender}

\* rtp_process_data and process_rtp for a packet that passes validate_rtp;
\* csrcs are its contributing sources.  A packet that is delivered goes to the
\* playout buffer of its participant, which rtp_recv_callback looks up and does
\* not test.
RecvRtp(s, seq, csrcs) ==
  LET met     == Touched({s}, -1)
      checked == UpdateSeq(Expecting(met[s], seq), seq)
      named   == IF checked.valid THEN csrcs ELSE {}
  IN  /\ phase = "up"
      /\ source' = [x \in DOMAIN met \cup named |->
                     IF x = s THEN [checked.s EXCEPT !.sender = @ \/ checked.valid]
                     ELSE IF x \notin DOMAIN met THEN NewSource(0)
                     ELSE IF x \in named THEN [met[x] EXCEPT !.age = 0]
                     ELSE met[x]]
      /\ Create({s} \cup named)
      /\ sender_count' = IF checked.valid /\ ~met[s].sender THEN sender_count + 1
                         ELSE sender_count
      /\ sender_count' <= MaxSenders
      /\ last' = [ssrc |-> s, seq |-> seq, streak |-> Streak(s, seq),
                  delivered |-> checked.valid]
      /\ phase' = IF checked.valid /\ s \notin pdb' THEN "crashed" ELSE phase
      /\ UNCHANGED <<rr, late, asserted>>

\* insert_rr for each report block.
Reported(s, about) ==
  [p \in DOMAIN rr \cup ({s} \X about) |-> IF p[1] = s /\ p[2] \in about THEN 0
                                          ELSE rr[p]]

\* rtp_process_ctrl for a compound packet of s that starts with a sender
\* report or a receiver report, with one report block for each source in
\* "about"; RX and APP packets mark their source active and no more.
RecvReport(s, isSender, about) ==
  /\ phase = "up"
  /\ isSender => s \in Media
  /\ LET met == Touched({s} \cup about, 0)
     IN  /\ source' = [met EXCEPT ![s].sender = @ \/ isSender]
         /\ sender_count' = IF isSender /\ ~met[s].sender THEN sender_count + 1
                            ELSE sender_count
  /\ sender_count' <= MaxSenders
  /\ Create({s} \cup about)
  /\ rr' = Reported(s, about)
  /\ UNCHANGED <<late, phase, asserted, last>>

\* process_rtcp_sdes, on whose event rtp_recv_callback adds a participant that
\* is not in the database.
RecvSdes(s) ==
  /\ phase = "up"
  /\ source' = Touched({s}, 0)
  /\ ssrc_count' = ssrc_count + Cardinality({s} \ DOMAIN source)
  /\ pdb' = pdb \cup {s}
  /\ UNCHANGED <<sender_count, rr, late, phase, asserted, last>>

\* process_rtcp_bye
RecvBye(s) ==
  /\ phase = "up"
  /\ source' = [Touched({s}, 0) EXCEPT ![s].got_bye = TRUE]
  /\ Create({s})
  /\ UNCHANGED <<sender_count, rr, late, phase, asserted, last>>

-----------------------------------------------------------------------------
(* Housekeeping.                                                           *)

\* Mutant: the reports about a source are kept when it goes.
DeleteKeepsColumns(G, db, reports) ==
  /\ source' = [s \in DOMAIN db \ G |-> db[s]]
  /\ ssrc_count' = ssrc_count - Cardinality(G)
  /\ rr' = [p \in {q \in reports : q[1] \notin G} |-> rr[p]]
  /\ pdb' = pdb \ G

\* delete_source for each member of G, from the database db: the source, its
\* reports in either role, the count, and the SOURCE_DELETED event, on which
\* rtp_recv_callback removes it from the participant database.
Delete(G, db, reports) ==
  /\ source' = [s \in DOMAIN db \ G |-> db[s]]
  /\ ssrc_count' = ssrc_count - Cardinality(G)
  /\ rr' = [p \in {q \in reports : q[1] \notin G /\ q[2] \notin G} |-> rr[p]]
  /\ pdb' = pdb \ G

Inactive == {s \in DOMAIN source \ {Self} : source[s].age > InactiveAge}

\* Mutant: a source times out only while it counts as a sender.
DeadSenders ==
  {s \in Senders(source) \ {Self} : source[s].age > DeadAge}

\* Mutant: our own source times out too.
DeadOurs == {s \in DOMAIN source : source[s].age > DeadAge}

Dead == {s \in DOMAIN source \ {Self} : source[s].age > DeadAge}

\* Mutant: the delay after a BYE is as long as the silence.
LeavingLate == {s \in DOMAIN source : source[s].got_bye /\ source[s].age > DeadAge}

Leaving == {s \in DOMAIN source : source[s].got_bye /\ source[s].age > ByeDelay}

\* Mutant: sender_count goes down, but the mark of the sender stays.
QuietedNot == source

\* A source not heard of for two intervals is no longer a sender.
Quieted ==
  [s \in DOMAIN source |->
    IF s \in Inactive THEN [source[s] EXCEPT !.sender = FALSE] ELSE source[s]]

\* rtp_update.  A source that leaves after a BYE is looked at again, freed,
\* for its silence; its memory still reads as before.
Update ==
  /\ phase = "up" /\ late > 0
  /\ Delete(Leaving \cup Dead, Quieted, {p \in DOMAIN rr : rr[p] <= ReportAge})
  /\ sender_count' = sender_count - Cardinality(Inactive \cap Senders(source))
  /\ asserted' = (asserted \/ Leaving \cap Dead # {})
  /\ late' = 0
  /\ last' = IF last.ssrc \in Leaving \cup Dead THEN [last EXCEPT !.streak = 0]
             ELSE last
  /\ UNCHANGED phase

\* rtp_done, when the receiver is destroyed; ourselves last.
Done ==
  /\ phase = "up"
  /\ phase' = IF Self \in DOMAIN source THEN "done" ELSE "failed"
  /\ Delete(DOMAIN source, source, DOMAIN rr)
  /\ UNCHANGED <<sender_count, late, asserted, last>>

Older(age) == IF age <= DeadAge + MaxStall THEN age + 1 ELSE age

Tick ==
  /\ phase = "up" /\ late < MaxStall
  /\ late' = late + 1
  /\ source' = [s \in DOMAIN source |-> [source[s] EXCEPT !.age = Older(@)]]
  /\ rr' = [p \in DOMAIN rr |-> Older(rr[p])]
  /\ UNCHANGED <<ssrc_count, sender_count, pdb, phase, asserted, last>>

Network ==
  \/ \E s \in Media, seq \in Seqs, csrcs \in SUBSET (Mentioned \ Media) :
       RecvRtp(s, seq, csrcs)
  \/ \E s \in Speakers, isSender \in BOOLEAN : \E about \in SUBSET (Mentioned \ {s}) :
       RecvReport(s, isSender, about)
  \/ \E s \in Speakers : RecvSdes(s) \/ RecvBye(s)

Next == Network \/ Update \/ Tick \/ Done

Spec == Init /\ [][Next]_vars

\* Time passes, and the receiver thread comes round to rtp_update: it waits
\* no longer than the timeout of select.
FairSpec == Spec /\ WF_vars(Update) /\ WF_vars(Tick)

-----------------------------------------------------------------------------
SourceFields ==
  [probation: 0 .. MinSequential, max_seq: Seqs, bad_seq: Seqs \cup {SeqMod + 1},
   sender: BOOLEAN, got_bye: BOOLEAN, age: Nat]

\* The variables keep their types: sequence numbers stay in their word, and
\* every source there is has the fields of one.
TypeOK ==
  /\ DOMAIN source \subseteq Ssrcs
  /\ \A s \in DOMAIN source : source[s] \in SourceFields
  /\ DOMAIN rr \subseteq Ssrcs \X Ssrcs
  /\ \A p \in DOMAIN rr : rr[p] \in Nat
  /\ ssrc_count \in Nat /\ sender_count \in Int
  /\ pdb \subseteq Ssrcs
  /\ late \in 0 .. MaxStall /\ asserted \in BOOLEAN
  /\ phase \in {"up", "done", "crashed", "failed"}
  /\ last \in [ssrc: Ssrcs, seq: Seqs, streak: 0 .. 3, delivered: BOOLEAN]

\* The tables agree whatever packets arrive: the participant database holds
\* all the session's sources but possibly ourselves, and nothing else, so that
\* rtp_recv_callback, which does not test what pdb_get returns, finds the
\* participant of every packet it is given but one: ours, delivered while no
\* SDES packet has made us a participant (rtp_callback.c:205, rtp.c:633).
\* Reports are kept only between sources that exist; ssrc_count counts the
\* sources, as check_database asserts.
DatabasesAgree ==
  /\ pdb \subseteq DOMAIN source /\ DOMAIN source \subseteq pdb \cup {Self}
  /\ phase = "crashed" => last.ssrc = Self /\ Self \notin pdb
  /\ \A p \in DOMAIN rr : p[1] \in DOMAIN source /\ p[2] \in DOMAIN source
  /\ ssrc_count = Cardinality(DOMAIN source)

\* A source that sends in sequence is heard: of three packets in a row, with
\* no gap and while the source is not forgotten, the last one is delivered,
\* however the source came to be known and wherever it was before.  Two are
\* enough except at the wrap, which a source on probation is never credited
\* with (rtp.c:779).
AdmitsSequence ==
  last.streak = 3 \/ (last.streak = 2 /\ last.seq # 0) => last.delivered

\* Of the sources marked as senders none is missing in sender_count, although
\* the mark is set by media and by reports and taken back by silence.  (It may
\* count too many: delete_source forgets a sender that said BYE.)
SendersCounted == sender_count >= Cardinality(Senders(source))

\* rtp_update goes on to look at a source it has just deleted after a BYE; it
\* does not delete it again, for want of which delete_source asserts, as long
\* as the receiver is not kept from rtp_update for longer than MaxStall.
NeverDeletedTwice == ~asserted

\* A packet from s, or one that mentions it, arrives.
Renewed(s) ==
  /\ s \in DOMAIN source'
  /\ s \in DOMAIN source => source'[s].age < source[s].age

\* A source nobody speaks of any more is forgotten, and with it its entry in
\* the participant database, its reports and its mark as a sender, unless a
\* packet of ours ended the program.
SilentSourceGoes ==
  \A s \in Remote :
    \/ []<>(s \notin DOMAIN source)
    \/ []<><<Renewed(s)>>_vars
    \/ <>(phase = "crashed")

\* However long we are silent, our own source stays (rtp.c:3287, 3297), for
\* rtp_done to delete last: only a BYE with our own SSRC, which rtp_update does
\* not tell from others (rtp.c:3278), makes it leave earlier.
OursStays ==
  [][phase' # "done" /\ Self \in DOMAIN source \ DOMAIN source'
       => source[Self].got_bye]_vars
=============================================================================
