--------------------------- MODULE RtpSessionProof ---------------------------
(***************************************************************************)
(* Proofs about RtpSession, for any sources, sequence numbers of any width *)
(* and any delays that satisfy SessionAssumption.                          *)
(*                                                                         *)
(* The tables and counts of the session agree by themselves, step by step. *)
(* That no source is deleted twice rests on ByeInv: a source that said BYE *)
(* is at most as old as its delay and the time since rtp_update last ran.  *)
(* That a source in sequence is heard rests on AdmitInv, which says what   *)
(* the source remembers after the last packet of such a sequence.          *)
(***************************************************************************)
EXTENDS RtpSession, FiniteSetTheorems, TLAPS

ByeInv ==
  \A s \in DOMAIN source : source[s].got_bye => source[s].age <= ByeDelay + late

\* Would a source not on probation, with max_seq and bad_seq, accept q?
Passes(max, bad, q) ==
  LET udelta == (q + SeqMod - max) % SeqMod
  IN  udelta < MaxDropout \/ udelta > SeqMod - MaxMisorder \/ q = bad

\* A source that had packet seq last is off probation and accepts the next
\* one, or lacks one packet in sequence.
Expects(r, seq) ==
  IF r.probation = 0 THEN Passes(r.max_seq, r.bad_seq, (seq + 1) % SeqMod)
  ELSE r.probation = 1 /\ r.max_seq = seq

AdmitInv ==
  phase = "up" /\ last.streak > 0 =>
    /\ last.ssrc \in DOMAIN source
    /\ Expects(source[last.ssrc], last.seq)
    /\ last.streak >= 2 /\ source[last.ssrc].probation # 0 =>
         last.streak = 2 /\ last.seq = 0

-----------------------------------------------------------------------------
(* Sequence numbers.                                                       *)

\* The sequence number after x.
LEMMA NextSeq ==
  ASSUME NEW x \in Seqs
  PROVE  /\ (x + 1) % SeqMod = IF x = SeqMod - 1 THEN 0 ELSE x + 1
         /\ (x + 1) % SeqMod \in Seqs
<1>1. SeqMod \in Nat /\ SeqMod > 0
  BY SessionAssumption
<1>2. (x + 1) % SeqMod = IF x = SeqMod - 1 THEN 0 ELSE x + 1
  BY <1>1, Z3 DEF Seqs
<1>. QED BY <1>1, <1>2 DEF Seqs

\* The sequence number before x.
LEMMA PreviousSeq ==
  ASSUME NEW x \in Seqs
  PROVE  /\ (x + SeqMod - 1) % SeqMod = IF x = 0 THEN SeqMod - 1 ELSE x - 1
         /\ (x + SeqMod - 1) % SeqMod \in Seqs
<1>1. SeqMod \in Nat /\ SeqMod > 0
  BY SessionAssumption
<1>2. (x + SeqMod - 1) % SeqMod = IF x = 0 THEN SeqMod - 1 ELSE x - 1
  BY <1>1, Z3 DEF Seqs
<1>. QED BY <1>1, <1>2 DEF Seqs

\* The distance between two sequence numbers, in 16-bit arithmetic.
LEMMA DeltaSeq ==
  ASSUME NEW x \in Seqs, NEW y \in Seqs
  PROVE  (x + SeqMod - y) % SeqMod = IF x >= y THEN x - y ELSE x + SeqMod - y
<1>1. SeqMod \in Nat /\ SeqMod > 0
  BY SessionAssumption
<1>. QED BY <1>1, Z3 DEF Seqs

\* What update_seq makes of a source.
LEMMA UpdateSeqType ==
  ASSUME NEW r \in SourceFields, NEW seq \in Seqs
  PROVE  LET u == UpdateSeq(r, seq)
         IN  /\ u.s \in SourceFields /\ u.valid \in BOOLEAN
             /\ u.s.sender = r.sender /\ u.s.got_bye = r.got_bye
             /\ u.s.age = r.age
<1>1. (seq + 1) % SeqMod \in Seqs
  BY NextSeq
<1>2. MinSequential \in Nat \ {0}
  BY SessionAssumption
<1>. DEFINE Same(q) == /\ q \in SourceFields /\ q.sender = r.sender
                       /\ q.got_bye = r.got_bye /\ q.age = r.age
<1>3. /\ r.probation \in 0 .. MinSequential /\ r.max_seq \in Seqs
      /\ r.bad_seq \in Seqs \cup {SeqMod + 1} /\ r.sender \in BOOLEAN
      /\ r.got_bye \in BOOLEAN /\ r.age \in Nat
      /\ r = [probation |-> r.probation, max_seq |-> r.max_seq,
              bad_seq |-> r.bad_seq, sender |-> r.sender,
              got_bye |-> r.got_bye, age |-> r.age]
  BY DEF SourceFields
<1>5. CASE r.probation # 0
  <2>1. MinSequential - 1 \in 0 .. MinSequential /\ 0 \in 0 .. MinSequential
        /\ r.probation - 1 \in 0 .. MinSequential
    BY <1>2, <1>3, <1>5
  <2>2. /\ Same([r EXCEPT !.probation = MinSequential - 1, !.max_seq = seq])
        /\ Same([[r EXCEPT !.probation = 0] EXCEPT !.max_seq = seq,
                                                   !.bad_seq = SeqMod + 1])
        /\ Same([r EXCEPT !.probation = @ - 1, !.max_seq = seq])
    BY <1>3, <2>1 DEF SourceFields
  <2>. QED BY <1>5, <2>2 DEF UpdateSeq, OnProbation, InitSeq
<1>6. CASE r.probation = 0
  <2>1. /\ Same([r EXCEPT !.max_seq = seq, !.bad_seq = SeqMod + 1])
        /\ Same([r EXCEPT !.max_seq = seq])
        /\ Same([r EXCEPT !.bad_seq = (seq + 1) % SeqMod])
        /\ Same(r)
    BY <1>1, <1>3 DEF SourceFields
  <2>. QED BY <1>6, <2>1 DEF UpdateSeq, AfterJump, InitSeq
<1>. QED BY <1>5, <1>6

\* A source that was told what to expect is one, with only its numbers set.
LEMMA ExpectingType ==
  ASSUME NEW r, NEW seq \in Seqs,
         r \in SourceFields \/ r = NewSource(-1)
  PROVE  LET e == Expecting(r, seq)
         IN  /\ e \in SourceFields
             /\ e.sender = r.sender /\ e.got_bye = r.got_bye /\ e.age = r.age
             /\ r \in SourceFields => e = r
<1>1. (seq + SeqMod - 1) % SeqMod \in Seqs
  BY PreviousSeq
<1>2. MinSequential \in Nat \ {0} /\ 0 \in Seqs
  BY SessionAssumption DEF Seqs
<1>3. CASE r \in SourceFields
  <2>1. r.probation # -1
    BY <1>2, <1>3 DEF SourceFields
  <2>. QED BY <1>3, <2>1 DEF Expecting
<1>4. CASE r = NewSource(-1)
  <2>1. Expecting(r, seq) = [probation |-> MinSequential,
          max_seq |-> (seq + SeqMod - 1) % SeqMod, bad_seq |-> 0,
          sender |-> FALSE, got_bye |-> FALSE, age |-> 0]
    BY <1>4 DEF Expecting, NewSource
  <2>2. r.probation = -1 /\ r \notin SourceFields
    BY <1>2, <1>4 DEF NewSource, SourceFields
  <2>3. Expecting(r, seq) \in SourceFields
    BY <1>1, <1>2, <2>1 DEF SourceFields
  <2>4. r.sender = FALSE /\ r.got_bye = FALSE /\ r.age = 0
    BY <1>4 DEF NewSource
  <2>. DEFINE e == Expecting(r, seq)
  <2>5. e.sender = FALSE /\ e.got_bye = FALSE /\ e.age = 0
    BY <2>1
  <2>6. e.sender = r.sender /\ e.got_bye = r.got_bye /\ e.age = r.age
    BY <2>4, <2>5, Zenon
  <2>. HIDE DEF e
  <2>. QED BY <2>2, <2>3, <2>6 DEF e
<1>. QED BY <1>3, <1>4

\* After a packet the source expects the next one.
LEMMA UpdateSeqExpects ==
  ASSUME MinSequential = 2, MaxDropout > 1,
         NEW r \in SourceFields, NEW seq \in Seqs
  PROVE  Expects(UpdateSeq(r, seq).s, seq)
<1>. DEFINE n == (seq + 1) % SeqMod
            u == UpdateSeq(r, seq)
<1>1. /\ SeqMod \in Nat /\ MaxDropout \in Nat /\ MaxMisorder \in Nat \ {0}
      /\ MaxDropout + MaxMisorder < SeqMod
  BY SessionAssumption
<1>2. n = (IF seq = SeqMod - 1 THEN 0 ELSE seq + 1) /\ n \in Seqs
  BY NextSeq
<1>3. (n + SeqMod - seq) % SeqMod = 1
  BY <1>1, <1>2, DeltaSeq DEF Seqs
<1>. HIDE DEF n
<1>4. Passes(seq, SeqMod + 1, n)
  BY <1>1, <1>3 DEF Passes
<1>5. CASE r.probation # 0
  BY <1>4, <1>5 DEF UpdateSeq, OnProbation, InitSeq, Expects, SourceFields, n
<1>6. CASE r.probation = 0
  <2>. DEFINE d == (seq + SeqMod - r.max_seq) % SeqMod
  <2>1. r.max_seq \in Seqs
    BY DEF SourceFields
  <2>2. d = IF seq >= r.max_seq THEN seq - r.max_seq ELSE seq + SeqMod - r.max_seq
    BY <2>1, DeltaSeq
  <2>3. d \in Nat
    BY <1>1, <2>1, <2>2 DEF Seqs
  <2>4. CASE d < MaxDropout
    <3>1. u.s = [r EXCEPT !.max_seq = seq]
      BY <1>6, <2>4 DEF UpdateSeq
    <3>2. Passes(seq, r.bad_seq, n)
      BY <1>1, <1>3 DEF Passes
    <3>3. u.s.probation = 0 /\ u.s.max_seq = seq /\ u.s.bad_seq = r.bad_seq
      BY <1>6, <3>1 DEF SourceFields
    <3>. QED BY <3>2, <3>3 DEF Expects, n
  <2>5. CASE d >= MaxDropout /\ d <= SeqMod - MaxMisorder
    <3>1. u = AfterJump(r, seq)
      BY <1>1, <1>6, <2>3, <2>5 DEF UpdateSeq
    <3>2. CASE seq = r.bad_seq
      <4>1. u.s.probation = 0 /\ u.s.max_seq = seq /\ u.s.bad_seq = SeqMod + 1
        <5>. HIDE DEF u
        <5>1. u.s = [r EXCEPT !.max_seq = seq, !.bad_seq = SeqMod + 1]
          BY <3>1, <3>2 DEF AfterJump, InitSeq
        <5>. QED BY <1>6, <5>1 DEF SourceFields
      <4>. HIDE DEF u
      <4>. QED BY <1>4, <4>1 DEF Expects, n, u
    <3>3. CASE seq # r.bad_seq
      <4>1. u.s.probation = 0 /\ u.s.max_seq = r.max_seq /\ u.s.bad_seq = n
        BY <1>6, <3>1, <3>3 DEF AfterJump, SourceFields, n
      <4>. QED BY <4>1 DEF Expects, Passes, n
    <3>. QED BY <3>2, <3>3
  <2>6. CASE d > SeqMod - MaxMisorder
    <3>1. u.s = r
      BY <1>1, <1>6, <2>3, <2>6 DEF UpdateSeq
    <3>2. (n + SeqMod - r.max_seq) % SeqMod = IF d = SeqMod - 1 THEN 0 ELSE d + 1
      <4>1. (n + SeqMod - r.max_seq) % SeqMod
              = IF n >= r.max_seq THEN n - r.max_seq ELSE n + SeqMod - r.max_seq
        BY <1>2, <2>1, DeltaSeq
      <4>. DEFINE m == r.max_seq
      <4>2. m \in Seqs
        BY <2>1
      <4>3. (n + SeqMod - m) % SeqMod = IF n >= m THEN n - m ELSE n + SeqMod - m
        BY <4>1
      <4>4. d = IF seq >= m THEN seq - m ELSE seq + SeqMod - m
        BY <2>2
      <4>. HIDE DEF d, m
      <4>5. (n + SeqMod - m) % SeqMod = IF d = SeqMod - 1 THEN 0 ELSE d + 1
        BY <1>1, <1>2, <4>2, <4>3, <4>4 DEF Seqs
      <4>. QED BY <4>5 DEF m
    <3>3. Passes(r.max_seq, r.bad_seq, n)
      <4>. HIDE DEF d
      <4>. QED BY <1>1, <2>3, <2>6, <3>2 DEF Passes
    <3>. QED BY <1>6, <3>1, <3>3 DEF Expects, n
  <2>. QED BY <1>1, <2>3, <2>4, <2>5, <2>6
<1>. QED BY <1>5, <1>6

\* A packet in sequence with the last one is valid, unless the source is on
\* probation and the sequence numbers wrap.
LEMMA ExpectedIsValid ==
  ASSUME NEW r \in SourceFields, NEW seq \in Seqs, Expects(r, seq)
  PROVE  LET n == (seq + 1) % SeqMod
         IN  UpdateSeq(r, n).valid \/ (r.probation = 1 /\ seq = SeqMod - 1 /\ n = 0)
<1>. DEFINE n == (seq + 1) % SeqMod
<1>. SUFFICES UpdateSeq(r, n).valid \/ (r.probation = 1 /\ seq = SeqMod - 1 /\ n = 0)
  OBVIOUS
<1>1. n = (IF seq = SeqMod - 1 THEN 0 ELSE seq + 1) /\ n \in Seqs
  BY NextSeq
<1>2. SeqMod \in Nat /\ MaxDropout \in Nat /\ MaxMisorder \in Nat
  BY SessionAssumption
<1>3. CASE r.probation = 0
  <2>1. Passes(r.max_seq, r.bad_seq, n)
    BY <1>3 DEF Expects
  <2>. DEFINE d == (n + SeqMod - r.max_seq) % SeqMod
  <2>2. d \in Nat
    <3>1. r.max_seq \in Seqs
      BY DEF SourceFields
    <3>2. d = IF n >= r.max_seq THEN n - r.max_seq ELSE n + SeqMod - r.max_seq
      BY <1>1, <3>1, DeltaSeq
    <3>. HIDE DEF n, d
    <3>. QED BY <1>1, <1>2, <3>1, <3>2 DEF Seqs
  <2>3. d < MaxDropout \/ d > SeqMod - MaxMisorder \/ n = r.bad_seq
    BY <2>1 DEF Passes
  <2>. HIDE DEF n
  <2>4. CASE d < MaxDropout
    BY <1>3, <2>4 DEF UpdateSeq
  <2>5. CASE d >= MaxDropout /\ d > SeqMod - MaxMisorder
    BY <1>2, <1>3, <2>2, <2>5 DEF UpdateSeq
  <2>6. CASE d >= MaxDropout /\ d <= SeqMod - MaxMisorder
    BY <1>2, <1>3, <2>2, <2>3, <2>6 DEF UpdateSeq, AfterJump
  <2>. QED BY <1>2, <2>2, <2>4, <2>5, <2>6
<1>4. CASE r.probation # 0
  <2>1. r.probation = 1 /\ r.max_seq = seq
    BY <1>4 DEF Expects
  <2>2. CASE n = seq + 1
    <3>. HIDE DEF n
    <3>. QED BY <2>1, <2>2 DEF UpdateSeq, OnProbation
  <2>3. CASE n # seq + 1
    BY <1>1, <2>1, <2>3
  <2>. QED BY <2>2, <2>3
<1>. QED BY <1>3, <1>4

-----------------------------------------------------------------------------
(* The tables.                                                             *)

SessionInv == TypeOK /\ DatabasesAgree /\ SendersCounted /\ ByeInv /\ NeverDeletedTwice

\* The two parts of DatabasesAgree: the tables, and who the callback misses.
Tables ==
  /\ pdb \subseteq DOMAIN source /\ DOMAIN source \subseteq pdb \cup {Self}
  /\ \A p \in DOMAIN rr : p[1] \in DOMAIN source /\ p[2] \in DOMAIN source
  /\ ssrc_count = Cardinality(DOMAIN source)

Missed == phase = "crashed" => last.ssrc = Self /\ Self \notin pdb

\* What comes of sources that are created: Create, or an SDES packet.
Created(A) ==
  /\ ssrc_count' = ssrc_count + Cardinality(A \ DOMAIN source)
  /\ pdb \subseteq pdb' /\ A \subseteq DOMAIN source \cup pdb' \cup {Self}
  /\ pdb' \subseteq pdb \cup A

\* The sources are finitely many.
LEMMA FiniteSsrcs ==
  /\ IsFiniteSet(Ssrcs) /\ \A A \in SUBSET Ssrcs : IsFiniteSet(A)
  /\ Speakers \subseteq Ssrcs /\ Mentioned \subseteq Ssrcs /\ Media \subseteq Ssrcs
<1>1. IsFiniteSet(Ssrcs)
  BY SessionAssumption, FS_AddElement DEF Ssrcs
<1>. QED BY <1>1, SessionAssumption, FS_Subset DEF Ssrcs

\* The tables of sources and senders are finite.
LEMMA FiniteTables ==
  ASSUME TypeOK
  PROVE  /\ IsFiniteSet(DOMAIN source) /\ Cardinality(DOMAIN source) \in Nat
         /\ IsFiniteSet(Senders(source)) /\ Cardinality(Senders(source)) \in Nat
<1>1. IsFiniteSet(Ssrcs)
  BY SessionAssumption, FS_AddElement DEF Ssrcs
<1>2. IsFiniteSet(DOMAIN source)
  BY <1>1, FS_Subset DEF TypeOK
<1>3. IsFiniteSet(Senders(source))
  <2>1. Senders(source) \in SUBSET DOMAIN source
    BY DEF Senders
  <2>. QED BY <1>2, <2>1, FS_Subset
<1>. QED BY <1>2, <1>3, FS_CardinalityType

\* The sources in A are created, if they do not exist, and their reports kept.
LEMMA CreateAgrees ==
  ASSUME TypeOK, Tables, NEW A \in SUBSET Ssrcs,
         Created(A), DOMAIN source' = DOMAIN source \cup A,
         DOMAIN rr' \subseteq DOMAIN rr \cup (A \X A)
  PROVE  Tables'
<1>. DEFINE D == DOMAIN source
            B == A \ DOMAIN source
<1>1. IsFiniteSet(D) /\ IsFiniteSet(B)
  <2>1. IsFiniteSet(B)
    <3>1. B \in SUBSET Ssrcs
      OBVIOUS
    <3>. QED BY <3>1, FiniteSsrcs
  <2>. QED BY <2>1, FiniteTables
<1>2. Cardinality(D \cup B) = Cardinality(D) + Cardinality(B)
  <2>1. Cardinality(D \cup B) = Cardinality(D) + Cardinality(B) - Cardinality(D \cap B)
    BY <1>1, FS_Union
  <2>2. D \cap B = {}
    OBVIOUS
  <2>3. Cardinality(D \cap B) = 0
    BY <2>2, FS_EmptySet, Zenon
  <2>4. Cardinality(D) \in Nat /\ Cardinality(B) \in Nat
    BY <1>1, FS_CardinalityType
  <2>. QED BY <2>1, <2>3, <2>4
<1>3. D \cup B = DOMAIN source'
  OBVIOUS
<1>4. ssrc_count' = Cardinality(DOMAIN source')
  BY <1>2, <1>3 DEF Tables, Created
<1>5. pdb' \subseteq DOMAIN source' /\ DOMAIN source' \subseteq pdb' \cup {Self}
  BY DEF Tables, Created
<1>6. \A p \in DOMAIN rr' : p[1] \in DOMAIN source' /\ p[2] \in DOMAIN source'
  BY DEF Tables
<1>. QED BY <1>4, <1>5, <1>6 DEF Tables

\* The sources in G are deleted.
LEMMA DeleteAgrees ==
  ASSUME TypeOK, Tables, NEW G \in SUBSET DOMAIN source,
         NEW db, DOMAIN db = DOMAIN source,
         NEW reports \in SUBSET DOMAIN rr, Delete(G, db, reports)
  PROVE  /\ Tables'
         /\ DOMAIN source' = DOMAIN source \ G
         /\ \A s \in DOMAIN source' : source'[s] = db[s]
         /\ DOMAIN rr' \subseteq DOMAIN rr
         /\ \A p \in DOMAIN rr' : rr'[p] = rr[p]
<1>1. /\ DOMAIN source' = DOMAIN source \ G
      /\ \A s \in DOMAIN source' : source'[s] = db[s]
      /\ DOMAIN rr' = {q \in reports : q[1] \notin G /\ q[2] \notin G}
      /\ \A p \in DOMAIN rr' : rr'[p] = rr[p]
  BY DEF Delete
<1>2. Cardinality(DOMAIN source \ G) = Cardinality(DOMAIN source) - Cardinality(G)
  <2>1. DOMAIN source \cap G = G
    OBVIOUS
  <2>2. IsFiniteSet(DOMAIN source)
    BY FiniteTables
  <2>3. Cardinality(DOMAIN source \ G)
          = Cardinality(DOMAIN source) - Cardinality(DOMAIN source \cap G)
    BY ONLY <2>2, FS_Difference
  <2>. QED BY ONLY <2>1, <2>3
<1>3. ssrc_count' = Cardinality(DOMAIN source')
  BY <1>1, <1>2 DEF Tables, Delete
<1>4. pdb' \subseteq DOMAIN source' /\ DOMAIN source' \subseteq pdb' \cup {Self}
  BY <1>1 DEF Tables, Delete
<1>5. \A p \in DOMAIN rr' : p[1] \in DOMAIN source' /\ p[2] \in DOMAIN source'
  BY <1>1 DEF Tables
<1>. QED BY <1>1, <1>3, <1>4, <1>5 DEF Tables

\* What a packet does to a source it is not from.
Carried(x) ==
  IF x \in DOMAIN source
  THEN source'[x] \in {source[x], [source[x] EXCEPT !.age = 0]}
  ELSE source'[x] = NewSource(0)

\* What a source keeps that is as before, or heard again, or new.
LEMMA CarriedSource ==
  ASSUME TypeOK, NEW x, Carried(x)
  PROVE  /\ source'[x] \in SourceFields
         /\ source'[x].sender => x \in DOMAIN source /\ source[x].sender
         /\ source'[x].got_bye => x \in DOMAIN source /\ source[x].got_bye
         /\ source'[x].age = 0 \/ (x \in DOMAIN source /\ source'[x].age = source[x].age)
         /\ x \in DOMAIN source =>
              /\ source'[x].probation = source[x].probation
              /\ source'[x].max_seq = source[x].max_seq
              /\ source'[x].bad_seq = source[x].bad_seq
<1>1. CASE x \in DOMAIN source
  <2>1. source[x] \in SourceFields
    BY <1>1 DEF TypeOK
  <2>2. CASE source'[x] = source[x]
    BY <1>1, <2>1, <2>2
  <2>3. CASE source'[x] = [source[x] EXCEPT !.age = 0]
    BY <1>1, <2>1, <2>3 DEF SourceFields
  <2>. QED BY <1>1, <2>2, <2>3 DEF Carried
<1>2. CASE x \notin DOMAIN source
  <2>1. source'[x] = NewSource(0)
    BY <1>2 DEF Carried
  <2>2. NewSource(0) \in SourceFields /\ NewSource(0).age = 0
        /\ NewSource(0).sender = FALSE /\ NewSource(0).got_bye = FALSE
    BY SessionAssumption DEF NewSource, SourceFields, Seqs
  <2>. QED BY <1>2, <2>1, <2>2
<1>. QED BY <1>1, <1>2

\* A step that adds one source at most to the senders, and counts it.
LEMMA CountsSenders ==
  ASSUME TypeOK, SendersCounted, NEW s,
         Senders(source)' \subseteq Senders(source) \cup {s},
         \/ sender_count' = sender_count + 1
         \/ sender_count' = sender_count /\ (s \in Senders(source)' => s \in Senders(source))
  PROVE  SendersCounted'
<1>. DEFINE S == Senders(source)
<1>1. IsFiniteSet(S) /\ Cardinality(S) \in Nat
  BY FiniteTables
<1>2. sender_count \in Int /\ sender_count >= Cardinality(S)
  BY DEF TypeOK, SendersCounted
<1>3. CASE sender_count' = sender_count + 1
  <2>1. IsFiniteSet(S \cup {s}) /\ Cardinality(S \cup {s}) <= Cardinality(S) + 1
    <3>1. Cardinality(S \cup {s}) = IF s \in S THEN Cardinality(S) ELSE Cardinality(S) + 1
      BY <1>1, FS_AddElement
    <3>2. IsFiniteSet(S \cup {s})
      BY <1>1, FS_AddElement
    <3>. HIDE DEF S
    <3>. QED BY <1>1, <3>1, <3>2
  <2>2. Cardinality(S') <= Cardinality(S \cup {s}) /\ Cardinality(S') \in Nat
        /\ Cardinality(S \cup {s}) \in Nat
    BY <2>1, FS_Subset, FS_CardinalityType
  <2>. HIDE DEF S
  <2>. QED BY <1>1, <1>2, <1>3, <2>1, <2>2 DEF SendersCounted, S
<1>4. CASE sender_count' = sender_count /\ (s \in Senders(source)' => s \in Senders(source))
  <2>1. S' \in SUBSET S
    BY <1>4
  <2>2. Cardinality(S') <= Cardinality(S) /\ Cardinality(S') \in Nat
    BY <1>1, <2>1, FS_Subset, FS_CardinalityType
  <2>. HIDE DEF S
  <2>. QED BY <1>1, <1>2, <1>4, <2>2 DEF SendersCounted, S
<1>. QED BY <1>3, <1>4

-----------------------------------------------------------------------------
(* The steps.                                                              *)

\* A packet from s: sources in A exist afterwards, those but s as they were.
LEMMA PacketStep ==
  ASSUME SessionInv, NEW A \in SUBSET Ssrcs, NEW s \in A,
         Created(A), DOMAIN source' = DOMAIN source \cup A,
         \A x \in DOMAIN source' : x # s => Carried(x),
         source'[s] \in SourceFields, source'[s].age = 0,
         DOMAIN rr' \subseteq DOMAIN rr \cup (A \X A),
         \A p \in DOMAIN rr' : rr'[p] \in Nat,
         sender_count' \in Int,
         \/ sender_count' = sender_count + 1
         \/ sender_count' = sender_count /\ (s \in Senders(source)' => s \in Senders(source)),
         last' \in [ssrc: Ssrcs, seq: Seqs, streak: 0 .. 3, delivered: BOOLEAN],
         UNCHANGED <<late, asserted>>, phase = "up",
         phase' = "up" \/ (phase' = "crashed" /\ last'.ssrc \notin pdb' /\ last'.ssrc \in A)
  PROVE  SessionInv'
<1>1. TypeOK /\ DatabasesAgree /\ SendersCounted /\ ByeInv /\ NeverDeletedTwice
  BY DEF SessionInv
<1>2. \A x \in DOMAIN source' : source'[x] \in SourceFields
  BY <1>1, CarriedSource
<1>3. TypeOK'
  <2>1. A \subseteq Ssrcs
    BY DEF Ssrcs
  <2>2. ssrc_count' \in Nat
    <3>1. IsFiniteSet(A \ DOMAIN source)
      <4>1. A \ DOMAIN source \in SUBSET Ssrcs
        OBVIOUS
      <4>. QED BY <4>1, FiniteSsrcs
    <3>2. Cardinality(A \ DOMAIN source) \in Nat
      BY <3>1, FS_CardinalityType
    <3>. QED BY <1>1, <3>2 DEF TypeOK, Created
  <2>3. pdb' \subseteq Ssrcs
    BY <1>1 DEF TypeOK, Created
  <2>. QED BY <1>1, <1>2, <2>1, <2>2, <2>3 DEF TypeOK
<1>4. DatabasesAgree'
  <2>1. Tables'
    BY <1>1, CreateAgrees DEF DatabasesAgree, Tables
  <2>2. Missed'
    BY <2>1 DEF Missed, Tables
  <2>. QED BY <2>1, <2>2 DEF DatabasesAgree, Tables, Missed
<1>5. SendersCounted'
  <2>1. Senders(source)' \subseteq Senders(source) \cup {s}
    BY <1>1, CarriedSource DEF Senders
  <2>. QED BY <1>1, <2>1, CountsSenders
<1>6. ByeInv'
  <2>. SUFFICES ASSUME NEW x \in DOMAIN source', source'[x].got_bye
       PROVE  source'[x].age <= ByeDelay + late
    BY DEF ByeInv
  <2>1. ByeDelay + late \in Nat
    BY <1>1, SessionAssumption DEF TypeOK
  <2>2. CASE source'[x].age = 0
    BY <2>1, <2>2
  <2>3. CASE source'[x].age # 0
    BY <1>1, <2>3, CarriedSource DEF ByeInv
  <2>. QED BY <2>2, <2>3
<1>7. NeverDeletedTwice'
  BY <1>1 DEF NeverDeletedTwice
<1>. QED BY <1>3, <1>4, <1>5, <1>6, <1>7 DEF SessionInv

\* create_source for a source that exists.
LEMMA TouchedField ==
  ASSUME TypeOK, NEW s \in DOMAIN source
  PROVE  /\ [source[s] EXCEPT !.age = 0] \in SourceFields
         /\ [source[s] EXCEPT !.age = 0].sender = source[s].sender
         /\ [source[s] EXCEPT !.age = 0].age = 0
BY DEF TypeOK, SourceFields

\* The record of the last packet has its type.
LEMMA StreakType ==
  ASSUME TypeOK, NEW s \in Media, NEW seq \in Seqs, NEW valid \in BOOLEAN
  PROVE  [ssrc |-> s, seq |-> seq, streak |-> Streak(s, seq), delivered |-> valid]
           \in [ssrc: Ssrcs, seq: Seqs, streak: 0 .. 3, delivered: BOOLEAN]
<1>1. s \in Ssrcs
  BY FiniteSsrcs
<1>2. Streak(s, seq) \in 0 .. 3
  BY DEF Streak, TypeOK
<1>. QED BY <1>1, <1>2

\* What a media packet does to its source: e is the source as update_seq
\* finds it.
LEMMA RtpEffect ==
  ASSUME TypeOK, NEW s \in Media, NEW seq \in Seqs,
         NEW csrcs \in SUBSET (Mentioned \ Media), RecvRtp(s, seq, csrcs)
  PROVE  \E e \in SourceFields, named \in SUBSET (Mentioned \ Media) :
           LET u == UpdateSeq(e, seq)
           IN  /\ u.s \in SourceFields /\ u.valid \in BOOLEAN
               /\ s \in DOMAIN source => e = [source[s] EXCEPT !.age = 0]
               /\ source'[s] = [u.s EXCEPT !.sender = @ \/ u.valid]
               /\ source'[s] \in SourceFields /\ source'[s].age = 0
               /\ Create({s} \cup named)
               /\ phase = "up"
               /\ phase' = IF u.valid /\ s \notin pdb' THEN "crashed" ELSE phase
               /\ DOMAIN source' = DOMAIN source \cup ({s} \cup named)
               /\ \A x \in DOMAIN source' : x # s => Carried(x)
               /\ last' = [ssrc |-> s, seq |-> seq, streak |-> Streak(s, seq),
                           delivered |-> u.valid]
               /\ \/ sender_count' = sender_count + 1
                  \/ /\ sender_count' = sender_count
                     /\ s \in Senders(source)' => s \in Senders(source)
<1>. DEFINE met   == Touched({s}, -1)
            e     == Expecting(met[s], seq)
            u     == UpdateSeq(e, seq)
            named == IF u.valid THEN csrcs ELSE {}
<1>1. /\ source' = [x \in DOMAIN met \cup named |->
                     IF x = s THEN [u.s EXCEPT !.sender = @ \/ u.valid]
                     ELSE IF x \notin DOMAIN met THEN NewSource(0)
                     ELSE IF x \in named THEN [met[x] EXCEPT !.age = 0]
                     ELSE met[x]]
      /\ Create({s} \cup named)
      /\ sender_count' = IF u.valid /\ ~met[s].sender THEN sender_count + 1
                         ELSE sender_count
      /\ last' = [ssrc |-> s, seq |-> seq, streak |-> Streak(s, seq),
                  delivered |-> u.valid]
      /\ phase = "up"
      /\ phase' = IF u.valid /\ s \notin pdb' THEN "crashed" ELSE phase
  BY DEF RecvRtp
<1>2. /\ DOMAIN met = DOMAIN source \cup {s}
      /\ s \in DOMAIN source =>
           /\ met[s] = [source[s] EXCEPT !.age = 0] /\ met[s] \in SourceFields
           /\ met[s].sender = source[s].sender
      /\ s \notin DOMAIN source => met[s] = NewSource(-1)
      /\ met[s].age = 0
  <2>1. /\ DOMAIN met = DOMAIN source \cup {s}
        /\ s \in DOMAIN source =>
             /\ met[s] = [source[s] EXCEPT !.age = 0] /\ met[s] \in SourceFields
             /\ met[s].sender = source[s].sender /\ met[s].age = 0
        /\ s \notin DOMAIN source => met[s] = NewSource(-1)
    <3>1. /\ DOMAIN met = DOMAIN source \cup {s}
          /\ s \in DOMAIN source => met[s] = [source[s] EXCEPT !.age = 0]
          /\ s \notin DOMAIN source => met[s] = NewSource(-1)
      BY DEF Touched
    <3>. HIDE DEF met
    <3>. QED BY <3>1, TouchedField
  <2>2. NewSource(-1).age = 0
    BY DEF NewSource
  <2>. HIDE DEF met
  <2>. QED BY <2>1, <2>2, Zenon
<1>3. \A x \in DOMAIN source : x # s => met[x] = source[x]
  BY DEF Touched
<1>. HIDE DEF met
<1>4. /\ e \in SourceFields /\ e.sender = met[s].sender /\ e.age = 0
      /\ s \in DOMAIN source => e = met[s]
  BY <1>2, ExpectingType
<1>. HIDE DEF e
<1>5. /\ u.s \in SourceFields /\ u.valid \in BOOLEAN
      /\ u.s.sender = e.sender /\ u.s.age = 0
  BY <1>4, UpdateSeqType
<1>6. named \in SUBSET (Mentioned \ Media)
  OBVIOUS
<1>. HIDE DEF u, named
<1>7. /\ source'[s] = [u.s EXCEPT !.sender = @ \/ u.valid]
      /\ DOMAIN source' = DOMAIN source \cup ({s} \cup named)
  BY <1>1, <1>2
<1>8. source'[s] \in SourceFields /\ source'[s].age = 0
      /\ source'[s].sender = (u.s.sender \/ u.valid)
  BY <1>5, <1>7 DEF SourceFields
<1>9. \A x \in DOMAIN source' : x # s => Carried(x)
  BY <1>1, <1>2, <1>3 DEF Carried
<1>10. \/ sender_count' = sender_count + 1
       \/ sender_count' = sender_count /\ (s \in Senders(source)' => s \in Senders(source))
  <2>1. CASE u.valid /\ ~met[s].sender
    BY <1>1, <2>1
  <2>2. CASE met[s].sender
    <3>1. s \in DOMAIN source
      <4>1. NewSource(-1).sender = FALSE
        BY DEF NewSource
      <4>. QED BY <1>2, <2>2, <4>1, Zenon
    <3>2. s \in Senders(source)
      BY <1>2, <2>2, <3>1 DEF Senders
    <3>. QED BY <1>1, <2>2, <3>2
  <2>3. CASE ~u.valid /\ ~met[s].sender
    <3>1. ~source'[s].sender
      BY <1>4, <1>5, <1>8, <2>3
    <3>. QED BY <1>1, <2>3, <3>1 DEF Senders
  <2>. QED BY <2>1, <2>2, <2>3
<1>11. s \in DOMAIN source => e = [source[s] EXCEPT !.age = 0]
  BY <1>2, <1>4
<1>. QED BY <1>1, <1>4, <1>5, <1>6, <1>7, <1>8, <1>9, <1>10, <1>11 DEF u

\* After a silence: the sources that leave, and those that no longer send.
LEMMA UpdateEffect ==
  ASSUME SessionInv, Update
  PROVE  /\ DatabasesAgree'
         /\ DOMAIN source' \subseteq DOMAIN source
         /\ DOMAIN rr' \subseteq DOMAIN rr
         /\ \A p \in DOMAIN rr' : rr'[p] = rr[p]
         /\ \A s \in DOMAIN source' :
              /\ source'[s] \in {source[s], [source[s] EXCEPT !.sender = FALSE]}
              /\ s \notin Leaving \cup Dead
              /\ source'[s].sender => source[s].sender /\ s \notin Inactive
<1>. DEFINE G == Leaving \cup Dead
<1>1. TypeOK /\ DatabasesAgree
  BY DEF SessionInv
<1>2. G \in SUBSET DOMAIN source /\ DOMAIN Quieted = DOMAIN source
  BY DEF Leaving, Dead, Quieted
<1>3. {p \in DOMAIN rr : rr[p] <= ReportAge} \in SUBSET DOMAIN rr
  OBVIOUS
<1>4. Delete(G, Quieted, {p \in DOMAIN rr : rr[p] <= ReportAge})
  BY DEF Update
<1>. HIDE DEF G
<1>5. /\ Tables'
      /\ DOMAIN source' = DOMAIN source \ G
      /\ \A s \in DOMAIN source' : source'[s] = Quieted[s]
      /\ DOMAIN rr' \subseteq DOMAIN rr
      /\ \A p \in DOMAIN rr' : rr'[p] = rr[p]
  BY <1>1, <1>2, <1>3, <1>4, DeleteAgrees DEF DatabasesAgree, Tables
<1>7. DatabasesAgree'
  <2>1. phase' = "up"
    BY DEF Update
  <2>. QED BY <1>5, <2>1 DEF DatabasesAgree, Tables
<1>6. ASSUME NEW s \in DOMAIN source'
      PROVE  /\ source'[s] \in {source[s], [source[s] EXCEPT !.sender = FALSE]}
             /\ source'[s].sender => source[s].sender /\ s \notin Inactive
  <2>1. s \in DOMAIN source /\ source[s] \in SourceFields
    BY <1>1, <1>5, <1>6 DEF TypeOK
  <2>2. source'[s] = IF s \in Inactive THEN [source[s] EXCEPT !.sender = FALSE]
                     ELSE source[s]
    BY <1>5, <1>6, <2>1 DEF Quieted
  <2>3. [source[s] EXCEPT !.sender = FALSE].sender = FALSE
    BY <2>1 DEF SourceFields
  <2>. QED BY <2>2, <2>3, Zenon
<1>. QED BY <1>5, <1>6, <1>7 DEF G

\* ... and so the session stays in agreement.
LEMMA UpdateKeeps == SessionInv /\ Update => SessionInv'
<1>. SUFFICES ASSUME SessionInv, Update
     PROVE  SessionInv'
  OBVIOUS
<1>1. TypeOK /\ DatabasesAgree /\ SendersCounted /\ ByeInv /\ NeverDeletedTwice
  BY DEF SessionInv
<1>2. \A s \in DOMAIN source' :
        /\ s \in DOMAIN source /\ source[s] \in SourceFields
        /\ source'[s] \in SourceFields
        /\ source'[s].age = source[s].age /\ source'[s].got_bye = source[s].got_bye
  <2>. SUFFICES ASSUME NEW s \in DOMAIN source'
       PROVE  /\ s \in DOMAIN source /\ source[s] \in SourceFields
              /\ source'[s] \in SourceFields
              /\ source'[s].age = source[s].age
              /\ source'[s].got_bye = source[s].got_bye
    OBVIOUS
  <2>1. s \in DOMAIN source /\ source[s] \in SourceFields
    BY <1>1, UpdateEffect DEF TypeOK
  <2>2. source'[s] = source[s] \/ source'[s] = [source[s] EXCEPT !.sender = FALSE]
    BY UpdateEffect
  <2>3. LET r == [source[s] EXCEPT !.sender = FALSE]
        IN  r \in SourceFields /\ r.age = source[s].age /\ r.got_bye = source[s].got_bye
    BY <2>1 DEF SourceFields
  <2>. QED BY <2>1, <2>2, <2>3, Zenon
<1>. DEFINE S == Senders(source)
            I == Inactive \cap S
<1>3. IsFiniteSet(S) /\ Cardinality(S) \in Nat
  BY <1>1, FiniteTables
<1>4. Cardinality(S \ I) = Cardinality(S) - Cardinality(I) /\ Cardinality(I) \in Nat
  <2>1. S \cap I = I /\ I \in SUBSET S
    OBVIOUS
  <2>2. IsFiniteSet(I) /\ Cardinality(S \ I) = Cardinality(S) - Cardinality(I)
    <3>. HIDE DEF S, I
    <3>1. IsFiniteSet(I)
      BY <1>3, <2>1, FS_Subset
    <3>. QED BY <1>3, <2>1, <3>1, FS_Difference
  <2>. QED BY <2>2, FS_CardinalityType
<1>5. sender_count' = sender_count - Cardinality(I)
  BY DEF Update
<1>6. SendersCounted'
  <2>1. S' \in SUBSET (S \ I)
    BY UpdateEffect DEF Senders
  <2>2. IsFiniteSet(S \ I)
    BY <1>3, FS_Difference
  <2>3. Cardinality(S') <= Cardinality(S \ I) /\ Cardinality(S') \in Nat
    BY <2>1, <2>2, FS_Subset, FS_CardinalityType
  <2>4. sender_count \in Int /\ sender_count >= Cardinality(S)
    BY <1>1 DEF TypeOK, SendersCounted
  <2>. HIDE DEF S, I
  <2>5. sender_count' >= Cardinality(S')
    BY <1>3, <1>4, <1>5, <2>3, <2>4
  <2>. QED BY <2>5 DEF SendersCounted, S
<1>7. TypeOK'
  <2>1. DOMAIN source' \subseteq Ssrcs
    BY <1>1, <1>2 DEF TypeOK
  <2>2. DOMAIN rr' \subseteq Ssrcs \X Ssrcs /\ \A p \in DOMAIN rr' : rr'[p] \in Nat
    BY <1>1, UpdateEffect DEF TypeOK
  <2>3. ssrc_count' \in Nat
    <3>1. ssrc_count' = Cardinality(DOMAIN source')
      BY UpdateEffect DEF DatabasesAgree
    <3>2. IsFiniteSet(DOMAIN source')
      <4>1. DOMAIN source' \in SUBSET DOMAIN source
        BY UpdateEffect
      <4>. QED BY <1>1, <4>1, FiniteTables, FS_Subset
    <3>. QED BY <3>1, <3>2, FS_CardinalityType
  <2>4. sender_count' \in Int
    <3>. HIDE DEF I
    <3>. QED BY <1>1, <1>4, <1>5 DEF TypeOK
  <2>5. pdb' \subseteq Ssrcs
    BY <1>1 DEF TypeOK, Update, Delete
  <2>6. /\ late' \in 0 .. MaxStall /\ asserted' \in BOOLEAN
        /\ phase' \in {"up", "done", "crashed", "failed"}
    <3>1. MaxStall \in Nat
      BY SessionAssumption
    <3>. QED BY <1>1, <3>1 DEF TypeOK, Update
  <2>7. last' \in [ssrc: Ssrcs, seq: Seqs, streak: 0 .. 3, delivered: BOOLEAN]
    <3>1. [last EXCEPT !.streak = 0] \in
             [ssrc: Ssrcs, seq: Seqs, streak: 0 .. 3, delivered: BOOLEAN]
      BY <1>1 DEF TypeOK
    <3>. QED BY <1>1, <3>1 DEF TypeOK, Update
  <2>. QED BY <1>2, <2>1, <2>2, <2>3, <2>4, <2>5, <2>6, <2>7 DEF TypeOK
<1>8. NeverDeletedTwice'
  <2>1. Leaving \cap Dead = {}
    <3>. SUFFICES ASSUME NEW s \in Leaving, s \in Dead
         PROVE  FALSE
      OBVIOUS
    <3>1. source[s].age \in Nat /\ source[s].age <= ByeDelay + late
          /\ source[s].age > DeadAge
      BY <1>1 DEF Leaving, Dead, ByeInv, TypeOK, SourceFields
    <3>2. late \in 0 .. MaxStall
      BY <1>1 DEF TypeOK
    <3>. QED BY <3>1, <3>2, SessionAssumption
  <2>. QED BY <1>1, <2>1 DEF NeverDeletedTwice, Update
<1>9. ByeInv'
  <2>. SUFFICES ASSUME NEW s \in DOMAIN source', source'[s].got_bye
       PROVE  source'[s].age <= ByeDelay + late'
    BY DEF ByeInv
  <2>1. s \in DOMAIN source /\ source[s].got_bye /\ source[s].age \in Nat
    BY <1>2 DEF SourceFields
  <2>2. s \notin Leaving
    BY UpdateEffect
  <2>3. source[s].age <= ByeDelay
    BY <2>1, <2>2, SessionAssumption DEF Leaving
  <2>4. late' = 0
    BY DEF Update
  <2>. QED BY <1>2, <2>3, <2>4, SessionAssumption
<1>. QED BY <1>6, <1>7, <1>8, <1>9, UpdateEffect DEF SessionInv

\* The session is in agreement at first.
LEMMA InitSession == Init => SessionInv
<1>. SUFFICES ASSUME Init
     PROVE  SessionInv
  OBVIOUS
<1>1. DOMAIN source = {Self} /\ source[Self] = NewSource(0)
  BY DEF Init
<1>2. NewSource(0) \in SourceFields /\ NewSource(0).sender = FALSE
      /\ NewSource(0).got_bye = FALSE
  BY SessionAssumption DEF NewSource, SourceFields, Seqs
<1>3. 0 \in Seqs /\ 0 \in 0 .. MaxStall
  BY SessionAssumption DEF Seqs
<1>4. TypeOK
  <2>1. DOMAIN rr = {} /\ last \in [ssrc: Ssrcs, seq: Seqs, streak: 0 .. 3,
                                    delivered: BOOLEAN]
    BY <1>3 DEF Init, Ssrcs
  <2>2. pdb \subseteq Ssrcs
        /\ ssrc_count \in Nat /\ sender_count \in Int
    BY DEF Init
  <2>3. late \in 0 .. MaxStall /\ DOMAIN source \subseteq Ssrcs
    BY <1>1, <1>3 DEF Init, Ssrcs
  <2>4. phase \in {"up", "done", "crashed", "failed"} /\ asserted \in BOOLEAN
    BY Zenon DEF Init
  <2>. QED BY <1>1, <1>2, <2>1, <2>2, <2>3, <2>4 DEF TypeOK
<1>5. DatabasesAgree
  BY <1>1, FS_Singleton DEF Init, DatabasesAgree
<1>6. SendersCounted
  <2>1. Senders(source) = {}
    BY <1>1, <1>2 DEF Senders
  <2>2. Cardinality(Senders(source)) = 0
    BY <2>1, FS_EmptySet, Zenon
  <2>3. sender_count = 0
    BY DEF Init
  <2>. QED BY <2>2, <2>3 DEF SendersCounted
<1>7. ByeInv /\ NeverDeletedTwice
  BY <1>1, <1>2 DEF Init, ByeInv, NeverDeletedTwice
<1>. QED BY <1>4, <1>5, <1>6, <1>7 DEF SessionInv

\* A data packet keeps the session in agreement...
LEMMA RecvRtpKeeps ==
  ASSUME SessionInv, NEW s \in Media, NEW seq \in Seqs,
         NEW csrcs \in SUBSET (Mentioned \ Media), RecvRtp(s, seq, csrcs)
  PROVE  SessionInv'
<1>1. TypeOK
  BY DEF SessionInv
<1>2. PICK e \in SourceFields, named \in SUBSET (Mentioned \ Media) :
        /\ UpdateSeq(e, seq).valid \in BOOLEAN
        /\ source'[s] \in SourceFields /\ source'[s].age = 0
        /\ Create({s} \cup named)
        /\ phase = "up"
        /\ phase' = IF UpdateSeq(e, seq).valid /\ s \notin pdb' THEN "crashed" ELSE phase
        /\ DOMAIN source' = DOMAIN source \cup ({s} \cup named)
        /\ \A x \in DOMAIN source' : x # s => Carried(x)
        /\ last' = [ssrc |-> s, seq |-> seq, streak |-> Streak(s, seq),
                    delivered |-> UpdateSeq(e, seq).valid]
        /\ \/ sender_count' = sender_count + 1
           \/ /\ sender_count' = sender_count
              /\ s \in Senders(source)' => s \in Senders(source)
  BY <1>1, RtpEffect
<1>. DEFINE A == {s} \cup named
<1>3. A \in SUBSET Ssrcs /\ s \in A
  BY FiniteSsrcs
<1>4. last' \in [ssrc: Ssrcs, seq: Seqs, streak: 0 .. 3, delivered: BOOLEAN]
  BY <1>1, <1>2, StreakType
<1>5. UNCHANGED <<rr, late, asserted>>
  BY DEF RecvRtp
<1>6. sender_count' \in Int /\ \A p \in DOMAIN rr' : rr'[p] \in Nat
  BY <1>1, <1>2, <1>5 DEF TypeOK
<1>7. DOMAIN rr' \subseteq DOMAIN rr \cup (A \X A)
  BY <1>5
<1>8. Created(A) /\ DOMAIN source' = DOMAIN source \cup A
  BY <1>2 DEF Create, Created
<1>9. phase' = "up" \/ (phase' = "crashed" /\ last'.ssrc \notin pdb' /\ last'.ssrc \in A)
  BY <1>2, <1>3
<1>. HIDE DEF A
<1>. QED BY <1>2, <1>3, <1>4, <1>5, <1>6, <1>7, <1>8, <1>9, PacketStep

\* ... a report...
LEMMA RecvReportKeeps ==
  ASSUME SessionInv, NEW s \in Speakers, NEW isSender \in BOOLEAN,
         NEW about \in SUBSET (Mentioned \ {s}), RecvReport(s, isSender, about)
  PROVE  SessionInv'
<1>. DEFINE A   == {s} \cup about
            met == Touched(A, 0)
<1>1. TypeOK
  BY DEF SessionInv
<1>2. A \in SUBSET Ssrcs /\ s \in A
  BY FiniteSsrcs
<1>3. /\ source' = [met EXCEPT ![s].sender = @ \/ isSender]
      /\ sender_count' = IF isSender /\ ~met[s].sender THEN sender_count + 1
                         ELSE sender_count
      /\ Created(A) /\ rr' = Reported(s, about)
      /\ phase = "up" /\ UNCHANGED <<late, phase, asserted, last>>
  BY DEF RecvReport, Create, Created
<1>. HIDE DEF A
<1>4. /\ DOMAIN met = DOMAIN source \cup A
      /\ met[s] \in SourceFields /\ met[s].age = 0
      /\ met[s].sender => s \in DOMAIN source /\ source[s].sender
  <2>1. NewSource(0) \in SourceFields /\ NewSource(0).age = 0
        /\ NewSource(0).sender = FALSE
    BY SessionAssumption DEF NewSource, SourceFields, Seqs
  <2>2. /\ DOMAIN met = DOMAIN source \cup A
        /\ s \in DOMAIN source => met[s] = [source[s] EXCEPT !.age = 0]
        /\ s \notin DOMAIN source => met[s] = NewSource(0)
    BY <1>2 DEF Touched
  <2>. HIDE DEF met
  <2>. QED BY <1>1, <2>1, <2>2, TouchedField
<1>5. \A x \in DOMAIN met : x # s =>
        IF x \in DOMAIN source
        THEN met[x] \in {source[x], [source[x] EXCEPT !.age = 0]}
        ELSE met[x] = NewSource(0)
  BY DEF Touched
<1>. HIDE DEF met
<1>6. DOMAIN source' = DOMAIN source \cup A
      /\ \A x \in DOMAIN source' : x # s => Carried(x)
  BY <1>3, <1>4, <1>5 DEF Carried
<1>7. source'[s] = [met[s] EXCEPT !.sender = @ \/ isSender]
  BY <1>2, <1>3, <1>4
<1>8. source'[s] \in SourceFields /\ source'[s].age = 0
      /\ source'[s].sender = (met[s].sender \/ isSender)
  <2>. DEFINE r == met[s]
  <2>1. r \in SourceFields /\ source'[s] = [r EXCEPT !.sender = r.sender \/ isSender]
        /\ r.age = 0
    BY <1>4, <1>7
  <2>. HIDE DEF r
  <2>2. source'[s] \in SourceFields /\ source'[s].age = 0
        /\ source'[s].sender = (r.sender \/ isSender)
    BY <2>1 DEF SourceFields
  <2>. QED BY <2>2 DEF r
<1>9. \/ sender_count' = sender_count + 1
      \/ sender_count' = sender_count /\ (s \in Senders(source)' => s \in Senders(source))
  <2>1. CASE isSender /\ ~met[s].sender
    BY <1>3, <2>1
  <2>2. CASE met[s].sender
    BY <1>3, <1>4, <2>2 DEF Senders
  <2>3. CASE ~isSender /\ ~met[s].sender
    <3>1. ~source'[s].sender
      BY <1>8, <2>3
    <3>. QED BY <1>3, <2>3, <3>1 DEF Senders
  <2>. QED BY <2>1, <2>2, <2>3
<1>10. DOMAIN rr' \subseteq DOMAIN rr \cup (A \X A) /\ \A p \in DOMAIN rr' : rr'[p] \in Nat
  BY <1>1, <1>3 DEF Reported, TypeOK, A
<1>11. sender_count' \in Int
       /\ last' \in [ssrc: Ssrcs, seq: Seqs, streak: 0 .. 3, delivered: BOOLEAN]
  BY <1>1, <1>3, <1>9 DEF TypeOK
<1>. QED BY <1>2, <1>3, <1>6, <1>8, <1>9, <1>10, <1>11, PacketStep

\* ... an SDES packet...
LEMMA RecvSdesKeeps ==
  ASSUME SessionInv, NEW s \in Speakers, RecvSdes(s)
  PROVE  SessionInv'
<1>. DEFINE A   == {s}
            met == Touched(A, 0)
<1>1. TypeOK
  BY DEF SessionInv
<1>2. A \in SUBSET Ssrcs /\ s \in A
  BY FiniteSsrcs
<1>3. /\ source' = met
      /\ Created(A) /\ phase = "up"
      /\ UNCHANGED <<sender_count, rr, late, phase, asserted, last>>
  BY DEF RecvSdes, Created
<1>. HIDE DEF A
<1>4. /\ DOMAIN met = DOMAIN source \cup A
      /\ met[s] \in SourceFields /\ met[s].age = 0
      /\ met[s].sender => s \in DOMAIN source /\ source[s].sender
  <2>1. NewSource(0) \in SourceFields /\ NewSource(0).age = 0
        /\ NewSource(0).sender = FALSE
    BY SessionAssumption DEF NewSource, SourceFields, Seqs
  <2>2. /\ DOMAIN met = DOMAIN source \cup A
        /\ s \in DOMAIN source => met[s] = [source[s] EXCEPT !.age = 0]
        /\ s \notin DOMAIN source => met[s] = NewSource(0)
    BY <1>2 DEF Touched
  <2>. HIDE DEF met
  <2>. QED BY <1>1, <2>1, <2>2, TouchedField
<1>5. \A x \in DOMAIN met : x # s =>
        IF x \in DOMAIN source
        THEN met[x] \in {source[x], [source[x] EXCEPT !.age = 0]}
        ELSE met[x] = NewSource(0)
  BY DEF Touched
<1>. HIDE DEF met
<1>6. DOMAIN source' = DOMAIN source \cup A
      /\ \A x \in DOMAIN source' : x # s => Carried(x)
  BY <1>3, <1>4, <1>5 DEF Carried
<1>7. source'[s] = met[s]
  BY <1>2, <1>3, <1>4
<1>8. source'[s] \in SourceFields /\ source'[s].age = 0
      /\ source'[s].sender = met[s].sender
  BY <1>4, <1>7 DEF SourceFields
<1>9. \/ sender_count' = sender_count + 1
      \/ sender_count' = sender_count /\ (s \in Senders(source)' => s \in Senders(source))
  BY <1>3, <1>4, <1>8 DEF Senders
<1>10. sender_count' \in Int
       /\ last' \in [ssrc: Ssrcs, seq: Seqs, streak: 0 .. 3, delivered: BOOLEAN]
  BY <1>1, <1>3 DEF TypeOK
<1>11. DOMAIN rr' \subseteq DOMAIN rr \cup (A \X A)
  BY <1>3
<1>13. \A p \in DOMAIN rr' : rr'[p] \in Nat
  BY <1>1, <1>3 DEF TypeOK
<1>12. UNCHANGED <<late, phase, asserted>> /\ Created(A) /\ phase = "up"
  BY <1>3
<1>. QED BY <1>2, <1>6, <1>8, <1>9, <1>10, <1>11, <1>12, <1>13, PacketStep

\* ... a BYE packet...
LEMMA RecvByeKeeps ==
  ASSUME SessionInv, NEW s \in Speakers, RecvBye(s)
  PROVE  SessionInv'
<1>. DEFINE A   == {s}
            met == Touched(A, 0)
<1>1. TypeOK
  BY DEF SessionInv
<1>2. A \in SUBSET Ssrcs /\ s \in A
  BY FiniteSsrcs
<1>3. /\ source' = [met EXCEPT ![s].got_bye = TRUE]
      /\ Created(A) /\ phase = "up"
      /\ UNCHANGED <<sender_count, rr, late, phase, asserted, last>>
  BY DEF RecvBye, Create, Created
<1>. HIDE DEF A
<1>4. /\ DOMAIN met = DOMAIN source \cup A
      /\ met[s] \in SourceFields /\ met[s].age = 0
      /\ met[s].sender => s \in DOMAIN source /\ source[s].sender
  <2>1. NewSource(0) \in SourceFields /\ NewSource(0).age = 0
        /\ NewSource(0).sender = FALSE
    BY SessionAssumption DEF NewSource, SourceFields, Seqs
  <2>2. /\ DOMAIN met = DOMAIN source \cup A
        /\ s \in DOMAIN source => met[s] = [source[s] EXCEPT !.age = 0]
        /\ s \notin DOMAIN source => met[s] = NewSource(0)
    BY <1>2 DEF Touched
  <2>. HIDE DEF met
  <2>. QED BY <1>1, <2>1, <2>2, TouchedField
<1>5. \A x \in DOMAIN met : x # s =>
        IF x \in DOMAIN source
        THEN met[x] \in {source[x], [source[x] EXCEPT !.age = 0]}
        ELSE met[x] = NewSource(0)
  BY DEF Touched
<1>. HIDE DEF met
<1>6. DOMAIN source' = DOMAIN source \cup A
      /\ \A x \in DOMAIN source' : x # s => Carried(x)
  BY <1>3, <1>4, <1>5 DEF Carried
<1>7. source'[s] = [met[s] EXCEPT !.got_bye = TRUE]
  BY <1>2, <1>3, <1>4
<1>8. source'[s] \in SourceFields /\ source'[s].age = 0
      /\ source'[s].sender = met[s].sender
  BY <1>4, <1>7 DEF SourceFields
<1>9. \/ sender_count' = sender_count + 1
      \/ sender_count' = sender_count /\ (s \in Senders(source)' => s \in Senders(source))
  BY <1>3, <1>4, <1>8 DEF Senders
<1>10. sender_count' \in Int
       /\ last' \in [ssrc: Ssrcs, seq: Seqs, streak: 0 .. 3, delivered: BOOLEAN]
  BY <1>1, <1>3 DEF TypeOK
<1>11. DOMAIN rr' \subseteq DOMAIN rr \cup (A \X A)
  BY <1>3
<1>13. \A p \in DOMAIN rr' : rr'[p] \in Nat
  BY <1>1, <1>3 DEF TypeOK
<1>12. UNCHANGED <<late, phase, asserted>> /\ Created(A) /\ phase = "up"
  BY <1>3
<1>. QED BY <1>2, <1>6, <1>8, <1>9, <1>10, <1>11, <1>12, <1>13, PacketStep

\* ... rtp_done...
LEMMA DoneKeeps == SessionInv /\ Done => SessionInv'
<1>. SUFFICES ASSUME SessionInv, Done
     PROVE  SessionInv'
  OBVIOUS
<1>1. TypeOK /\ DatabasesAgree /\ SendersCounted /\ ByeInv /\ NeverDeletedTwice
  BY DEF SessionInv
<1>2. Delete(DOMAIN source, source, DOMAIN rr) /\ phase' \in {"done", "failed"}
      /\ UNCHANGED <<sender_count, late, asserted, last>>
  BY DEF Done
<1>3. DatabasesAgree' /\ DOMAIN source' = {}
      /\ DOMAIN rr' \subseteq DOMAIN rr /\ \A p \in DOMAIN rr' : rr'[p] = rr[p]
  <2>1. Tables
    BY <1>1 DEF DatabasesAgree, Tables
  <2>2. Tables' /\ DOMAIN source' = {}
        /\ DOMAIN rr' \subseteq DOMAIN rr /\ \A p \in DOMAIN rr' : rr'[p] = rr[p]
    BY <1>1, <1>2, <2>1, DeleteAgrees
  <2>. QED BY <1>2, <2>2 DEF DatabasesAgree, Tables
<1>4. ssrc_count' = 0
  BY <1>3, FS_EmptySet DEF DatabasesAgree
<1>5. TypeOK'
  <2>1. pdb' = {}
    BY <1>3 DEF DatabasesAgree
  <2>2. DOMAIN rr' \subseteq Ssrcs \X Ssrcs /\ \A p \in DOMAIN rr' : rr'[p] \in Nat
    BY <1>1, <1>3 DEF TypeOK
  <2>3. sender_count' \in Int /\ late' \in 0 .. MaxStall /\ asserted' \in BOOLEAN
        /\ last' \in [ssrc: Ssrcs, seq: Seqs, streak: 0 .. 3, delivered: BOOLEAN]
    BY <1>1, <1>2 DEF TypeOK
  <2>. QED BY <1>2, <1>3, <1>4, <2>1, <2>2, <2>3 DEF TypeOK
<1>6. SendersCounted'
  <2>1. Senders(source)' = {}
    BY <1>3 DEF Senders
  <2>2. Cardinality(Senders(source)') = 0
    BY <2>1, FS_EmptySet, Zenon
  <2>3. sender_count \in Int /\ sender_count >= 0
    BY <1>1, FiniteTables DEF SendersCounted, TypeOK
  <2>. QED BY <1>2, <2>2, <2>3 DEF SendersCounted
<1>7. ByeInv' /\ NeverDeletedTwice'
  BY <1>1, <1>2, <1>3 DEF ByeInv, NeverDeletedTwice
<1>. QED BY <1>3, <1>5, <1>6, <1>7 DEF SessionInv

\* ... time that passes...
LEMMA TickKeeps == SessionInv /\ Tick => SessionInv'
<1>. SUFFICES ASSUME SessionInv, Tick
     PROVE  SessionInv'
  OBVIOUS
<1>1. TypeOK /\ DatabasesAgree /\ SendersCounted /\ ByeInv /\ NeverDeletedTwice
  BY DEF SessionInv
<1>2. /\ phase = "up" /\ late < MaxStall /\ late' = late + 1
      /\ source' = [s \in DOMAIN source |-> [source[s] EXCEPT !.age = Older(@)]]
      /\ rr' = [p \in DOMAIN rr |-> Older(rr[p])]
      /\ UNCHANGED <<ssrc_count, sender_count, pdb, phase, asserted, last>>
  BY DEF Tick
<1>3. \A age \in Nat : Older(age) \in Nat /\ Older(age) <= age + 1
  BY DEF Older
<1>4. /\ DOMAIN source' = DOMAIN source
      /\ \A s \in DOMAIN source :
           /\ source'[s] \in SourceFields
           /\ source'[s].sender = source[s].sender
           /\ source'[s].got_bye = source[s].got_bye
           /\ source[s].age \in Nat /\ source'[s].age <= source[s].age + 1
  <2>1. DOMAIN source' = DOMAIN source
    BY <1>2
  <2>2. ASSUME NEW s \in DOMAIN source
        PROVE  /\ source'[s] \in SourceFields
               /\ source'[s].sender = source[s].sender
               /\ source'[s].got_bye = source[s].got_bye
               /\ source[s].age \in Nat /\ source'[s].age <= source[s].age + 1
    <3>1. source'[s] = [source[s] EXCEPT !.age = Older(source[s].age)]
          /\ source[s] \in SourceFields /\ source[s].age \in Nat
      BY <1>1, <1>2 DEF TypeOK, SourceFields
    <3>2. Older(source[s].age) \in Nat /\ Older(source[s].age) <= source[s].age + 1
      BY <1>3, <3>1
    <3>. DEFINE o == Older(source[s].age)
    <3>3. source'[s] = [source[s] EXCEPT !.age = o] /\ o \in Nat /\ o <= source[s].age + 1
      BY <3>1, <3>2
    <3>. HIDE DEF o
    <3>. QED BY <3>1, <3>3 DEF SourceFields
  <2>. QED BY <2>1, <2>2
<1>5. TypeOK'
  <2>1. DOMAIN rr' = DOMAIN rr /\ \A p \in DOMAIN rr' : rr'[p] \in Nat
    BY <1>1, <1>2, <1>3 DEF TypeOK
  <2>2. late' \in 0 .. MaxStall
    BY <1>1, <1>2, SessionAssumption DEF TypeOK
  <2>. QED BY <1>1, <1>2, <1>4, <2>1, <2>2 DEF TypeOK
<1>6. DatabasesAgree'
  BY <1>1, <1>2, <1>4 DEF DatabasesAgree
<1>7. SendersCounted'
  <2>1. Senders(source)' = Senders(source)
    BY <1>4 DEF Senders
  <2>. QED BY <1>1, <1>2, <2>1, Zenon DEF SendersCounted
<1>8. ByeInv' /\ NeverDeletedTwice'
  <2>. SUFFICES ASSUME NEW s \in DOMAIN source, source'[s].got_bye
       PROVE  source'[s].age <= ByeDelay + late'
    BY <1>1, <1>2, <1>4 DEF ByeInv, NeverDeletedTwice
  <2>. DEFINE a == source[s].age
              b == source'[s].age
  <2>1. a \in Nat /\ b \in Nat /\ b <= a + 1 /\ a <= ByeDelay + late
    BY <1>1, <1>4 DEF ByeInv, SourceFields
  <2>2. ByeDelay \in Nat /\ late \in Nat /\ late' = late + 1
    BY <1>1, <1>2, SessionAssumption DEF TypeOK
  <2>. HIDE DEF a, b
  <2>3. b <= ByeDelay + late'
    BY <2>1, <2>2
  <2>. QED BY <2>3 DEF b
<1>. QED BY <1>5, <1>6, <1>7, <1>8 DEF SessionInv

\* ... and so every step.
LEMMA StepKeeps == SessionInv /\ [Next]_vars => SessionInv'
<1>. SUFFICES ASSUME SessionInv, [Next]_vars
     PROVE  SessionInv'
  OBVIOUS
<1>1. CASE Network
  BY <1>1, RecvRtpKeeps, RecvReportKeeps, RecvSdesKeeps, RecvByeKeeps DEF Network
<1>2. CASE Update
  BY <1>2, UpdateKeeps
<1>3. CASE Tick
  BY <1>3, TickKeeps
<1>4. CASE Done
  BY <1>4, DoneKeeps
<1>5. CASE UNCHANGED vars
  BY <1>5 DEF vars, SessionInv, TypeOK, DatabasesAgree, SendersCounted, Senders,
     ByeInv, NeverDeletedTwice
<1>. QED BY <1>1, <1>2, <1>3, <1>4, <1>5 DEF Next

\* In every state the session is typed and its tables agree.
LEMMA SessionHolds == Spec => []SessionInv
<1>. QED BY InitSession, StepKeeps, PTL DEF Spec

\* Whoever the packets are from, ourselves included: the participant database
\* holds the session's sources but possibly ourselves, so the callback finds the
\* participant of every packet but our own; reports are about sources that
\* exist; and ssrc_count counts them (rtp.c check_database, rtp.c:633,
\* rtp_callback.c:205).
THEOREM TablesAgree == Spec => []DatabasesAgree
<1>1. SessionInv => DatabasesAgree
  BY DEF SessionInv
<1>. QED BY <1>1, SessionHolds, PTL

\* No source marked as a sender is missing in sender_count (rtp.c process_rtp,
\* process_rtcp_sr, rtp_update).
THEOREM SendersAllCounted == Spec => []SendersCounted
<1>1. SessionInv => SendersCounted
  BY DEF SessionInv
<1>. QED BY <1>1, SessionHolds, PTL

\* rtp_update never asks delete_source for a source it has deleted, while it is
\* called at least every MaxStall ticks (rtp.c rtp_update).
THEOREM DeletedOnce == Spec => []NeverDeletedTwice
<1>1. SessionInv => NeverDeletedTwice
  BY DEF SessionInv
<1>. QED BY <1>1, SessionHolds, PTL

\* Whatever arrives and however long it is silent, our own source leaves before
\* rtp_done only on a BYE with our own SSRC (rtp.c:3278, 3287, 3297).
THEOREM OursLeavesByBye == Spec => OursStays
<1>1. ASSUME [Next]_vars, phase' # "done", Self \in DOMAIN source, Self \notin DOMAIN source'
      PROVE  source[Self].got_bye
  <2>1. CASE Network
    <3>1. ASSUME NEW A, NEW probation PROVE DOMAIN source \subseteq DOMAIN Touched(A, probation)
      BY DEF Touched
    <3>2. ASSUME NEW s, NEW seq, NEW csrcs, RecvRtp(s, seq, csrcs)
          PROVE  DOMAIN source \subseteq DOMAIN source'
      BY <3>1, <3>2 DEF RecvRtp
    <3>3. ASSUME NEW s, NEW isSender, NEW about, RecvReport(s, isSender, about)
          PROVE  DOMAIN source \subseteq DOMAIN source'
      BY <3>1, <3>3 DEF RecvReport
    <3>4. ASSUME NEW s, RecvSdes(s) \/ RecvBye(s)
          PROVE  DOMAIN source \subseteq DOMAIN source'
      BY <3>1, <3>4 DEF RecvSdes, RecvBye
    <3>. QED BY <1>1, <2>1, <3>2, <3>3, <3>4 DEF Network
  <2>2. CASE Update
    <3>1. Self \in Leaving \cup Dead
      BY <1>1, <2>2 DEF Update, Delete, Quieted
    <3>. QED BY <3>1 DEF Leaving, Dead
  <2>3. CASE Tick
    BY <1>1, <2>3 DEF Tick
  <2>4. CASE Done
    BY <1>1, <2>4 DEF Done
  <2>. QED BY <1>1, <2>1, <2>2, <2>3, <2>4 DEF Next, vars
<1>2. [Next]_vars => [phase' # "done" /\ Self \in DOMAIN source \ DOMAIN source'
                        => source[Self].got_bye]_vars
  BY <1>1
<1>. QED BY <1>2, PTL DEF Spec, OursStays

-----------------------------------------------------------------------------
(* A source in sequence is heard.                                          *)

\* A packet that is valid comes from a source that is off probation.
LEMMA ValidEndsProbation ==
  ASSUME NEW r \in SourceFields, NEW seq, UpdateSeq(r, seq).valid
  PROVE  UpdateSeq(r, seq).s.probation = 0
<1>1. CASE r.probation # 0
  BY <1>1 DEF UpdateSeq, OnProbation, InitSeq, SourceFields
<1>2. CASE r.probation = 0
  BY <1>2 DEF UpdateSeq, AfterJump, InitSeq, SourceFields
<1>. QED BY <1>1, <1>2

SameSeq(r, q) ==
  r.probation = q.probation /\ r.max_seq = q.max_seq /\ r.bad_seq = q.bad_seq

\* A source expects what another with its sequence state expects.
LEMMA SameSeqExpects ==
  ASSUME NEW r, NEW q, NEW seq, SameSeq(r, q), Expects(q, seq)
  PROVE  Expects(r, seq)
BY DEF SameSeq, Expects

\* The first packet of a sequence of its source, and each that follows.
LEMMA RecvRtpAdmits ==
  ASSUME MinSequential = 2, MaxDropout > 1,
         TypeOK, AdmitInv, AdmitsSequence, NEW s \in Media, NEW seq \in Seqs,
         NEW csrcs \in SUBSET (Mentioned \ Media), RecvRtp(s, seq, csrcs)
  PROVE  AdmitInv' /\ AdmitsSequence'
<1>0. TypeOK
  OBVIOUS
<1>1. PICK e \in SourceFields, named \in SUBSET (Mentioned \ Media) :
        LET u == UpdateSeq(e, seq)
        IN  /\ u.s \in SourceFields /\ u.valid \in BOOLEAN
            /\ s \in DOMAIN source => e = [source[s] EXCEPT !.age = 0]
            /\ source'[s] = [u.s EXCEPT !.sender = @ \/ u.valid]
            /\ source'[s] \in SourceFields /\ source'[s].age = 0
            /\ Create({s} \cup named)
            /\ phase = "up"
            /\ phase' = IF u.valid /\ s \notin pdb' THEN "crashed" ELSE phase
            /\ DOMAIN source' = DOMAIN source \cup ({s} \cup named)
            /\ \A x \in DOMAIN source' : x # s => Carried(x)
            /\ last' = [ssrc |-> s, seq |-> seq, streak |-> Streak(s, seq),
                        delivered |-> u.valid]
            /\ \/ sender_count' = sender_count + 1
               \/ /\ sender_count' = sender_count
                  /\ s \in Senders(source)' => s \in Senders(source)
  BY <1>0, RtpEffect
<1>. DEFINE u  == UpdateSeq(e, seq)
            st == Streak(s, seq)
<1>2. SameSeq(source'[s], u.s) /\ s \in DOMAIN source'
  <2>1. u.s \in SourceFields /\ source'[s] = [u.s EXCEPT !.sender = @ \/ u.valid]
    BY <1>1
  <2>2. s \in DOMAIN source'
    BY <1>1
  <2>. HIDE DEF u
  <2>. QED BY <2>1, <2>2 DEF SameSeq, SourceFields
<1>3. /\ last'.ssrc = s /\ last'.seq = seq /\ last'.streak = st
      /\ last'.delivered = u.valid
  BY <1>1
<1>4. st \in {1, 2, 3}
  BY DEF Streak, TypeOK
<1>5. phase = "up"
  BY DEF RecvRtp
<1>6. u.valid \/ ~(st = 3 \/ (st = 2 /\ seq # 0))
  <2>. SUFFICES ASSUME st = 3 \/ (st = 2 /\ seq # 0)
       PROVE  u.valid
    OBVIOUS
  <2>1. /\ last.ssrc = s /\ last.streak > 0 /\ seq = (last.seq + 1) % SeqMod
        /\ st = 3 => last.streak >= 2
        /\ last.seq \in Seqs
    BY DEF Streak, TypeOK
  <2>2. /\ s \in DOMAIN source /\ Expects(source[s], last.seq)
        /\ last.streak >= 2 /\ source[s].probation # 0 => last.seq = 0
    BY <1>5, <2>1 DEF AdmitInv
  <2>3. SameSeq(e, source[s])
    BY <1>1, <2>2 DEF SameSeq, TypeOK, SourceFields
  <2>4. u.valid \/ (e.probation = 1 /\ last.seq = SeqMod - 1 /\ seq = 0)
    BY <2>1, <2>2, <2>3, SameSeqExpects, ExpectedIsValid
  <2>5. ASSUME e.probation = 1, last.seq = SeqMod - 1, seq = 0
        PROVE  FALSE
    <3>1. st = 3
      BY <2>5
    <3>2. source[s].probation = 1
      BY <2>3, <2>5 DEF SameSeq
    <3>3. last.seq = 0
      BY <2>1, <2>2, <3>1, <3>2
    <3>4. SeqMod > 1 /\ SeqMod \in Nat
      BY SessionAssumption
    <3>. QED BY <2>5, <3>3, <3>4
  <2>. QED BY <2>4, <2>5
<1>7. AdmitsSequence'
  <2>. HIDE DEF u, st
  <2>. QED BY <1>3, <1>6 DEF AdmitsSequence
<1>8. Expects(source'[s], seq)
  BY <1>1, <1>2, UpdateSeqExpects, SameSeqExpects
<1>9. u.valid => source'[s].probation = 0
  BY <1>1, <1>2, ValidEndsProbation DEF SameSeq
<1>. HIDE DEF u, st
<1>. QED BY <1>2, <1>3, <1>4, <1>6, <1>7, <1>8, <1>9 DEF AdmitInv

\* A step that leaves the numbers of the last packet's source alone.
LEMMA KeepsNumbers ==
  ASSUME AdmitInv, AdmitsSequence, last' = last, phase' = phase,
         \A x \in DOMAIN source :
           x \in DOMAIN source' /\ SameSeq(source'[x], source[x])
  PROVE  AdmitInv' /\ AdmitsSequence'
<1>1. AdmitsSequence'
  BY DEF AdmitsSequence
<1>2. AdmitInv'
  <2>. SUFFICES ASSUME phase = "up", last.streak > 0
       PROVE  /\ last.ssrc \in DOMAIN source'
              /\ Expects(source'[last.ssrc], last.seq)
              /\ last.streak >= 2 /\ source'[last.ssrc].probation # 0 =>
                   last.streak = 2 /\ last.seq = 0
    BY DEF AdmitInv
  <2>. DEFINE x == last.ssrc
              q == last.seq
  <2>1. x \in DOMAIN source /\ Expects(source[x], q)
        /\ (last.streak >= 2 /\ source[x].probation # 0 =>
               last.streak = 2 /\ q = 0)
    BY DEF AdmitInv
  <2>2. x \in DOMAIN source' /\ SameSeq(source'[x], source[x])
    BY <2>1
  <2>3. source'[x].probation = source[x].probation
    BY <2>2 DEF SameSeq
  <2>4. Expects(source'[x], q)
    BY <2>1, <2>2 DEF SameSeq, Expects
  <2>. QED BY <2>1, <2>2, <2>3, <2>4
<1>. QED BY <1>1, <1>2

\* Every step keeps a source in sequence admitted.
LEMMA AdmitKeeps ==
  ASSUME MinSequential = 2, MaxDropout > 1,
         SessionInv, AdmitInv, AdmitsSequence, [Next]_vars
  PROVE  AdmitInv' /\ AdmitsSequence'
<1>1. TypeOK
  BY DEF SessionInv
<1>2. ASSUME NEW s \in Media, NEW seq \in Seqs,
             NEW csrcs \in SUBSET (Mentioned \ Media), RecvRtp(s, seq, csrcs)
      PROVE  AdmitInv' /\ AdmitsSequence'
  BY <1>1, <1>2, RecvRtpAdmits
<1>3. ASSUME NEW s \in Speakers, NEW isSender \in BOOLEAN,
             NEW about \in SUBSET (Mentioned \ {s}), RecvReport(s, isSender, about)
      PROVE  AdmitInv' /\ AdmitsSequence'
  <2>1. /\ source' = [Touched({s} \cup about, 0) EXCEPT ![s].sender = @ \/ isSender]
        /\ last' = last /\ phase' = phase
    BY <1>3 DEF RecvReport
  <2>2. ASSUME NEW x \in DOMAIN source
        PROVE  x \in DOMAIN source' /\ SameSeq(source'[x], source[x])
    <3>1. source[x] \in SourceFields
      BY <1>1 DEF TypeOK
    <3>. DEFINE m == Touched({s} \cup about, 0)
    <3>2. x \in DOMAIN m /\ SameSeq(m[x], source[x]) /\ m[x] \in SourceFields
      BY <3>1 DEF Touched, SameSeq, SourceFields
    <3>. HIDE DEF m
    <3>3. x \in DOMAIN source' /\ SameSeq(source'[x], m[x])
      <4>1. source' = [m EXCEPT ![s].sender = @ \/ isSender]
        BY <2>1 DEF m
      <4>. QED BY <3>2, <4>1 DEF SameSeq, SourceFields
    <3>. QED BY <3>2, <3>3 DEF SameSeq
  <2>. QED BY <2>1, <2>2, KeepsNumbers
<1>4. ASSUME NEW s \in Speakers, RecvBye(s)
      PROVE  AdmitInv' /\ AdmitsSequence'
  <2>1. /\ source' = [Touched({s}, 0) EXCEPT ![s].got_bye = TRUE]
        /\ last' = last /\ phase' = phase
    BY <1>4 DEF RecvBye
  <2>2. ASSUME NEW x \in DOMAIN source
        PROVE  x \in DOMAIN source' /\ SameSeq(source'[x], source[x])
    <3>1. source[x] \in SourceFields
      BY <1>1 DEF TypeOK
    <3>. DEFINE m == Touched({s}, 0)
    <3>2. x \in DOMAIN m /\ SameSeq(m[x], source[x]) /\ m[x] \in SourceFields
      BY <3>1 DEF Touched, SameSeq, SourceFields
    <3>. HIDE DEF m
    <3>3. x \in DOMAIN source' /\ SameSeq(source'[x], m[x])
      <4>1. source' = [m EXCEPT ![s].got_bye = TRUE]
        BY <2>1 DEF m
      <4>. QED BY <3>2, <4>1 DEF SameSeq, SourceFields
    <3>. QED BY <3>2, <3>3 DEF SameSeq
  <2>. QED BY <2>1, <2>2, KeepsNumbers
<1>9. ASSUME NEW s \in Speakers, RecvSdes(s)
      PROVE  AdmitInv' /\ AdmitsSequence'
  <2>1. source' = Touched({s}, 0) /\ last' = last /\ phase' = phase
    BY <1>9 DEF RecvSdes
  <2>2. ASSUME NEW x \in DOMAIN source
        PROVE  x \in DOMAIN source' /\ SameSeq(source'[x], source[x])
    <3>1. source[x] \in SourceFields
      BY <1>1 DEF TypeOK
    <3>. QED BY <2>1, <3>1 DEF Touched, SameSeq, SourceFields
  <2>. QED BY <2>1, <2>2, KeepsNumbers
<1>5. ASSUME Update
      PROVE  AdmitInv' /\ AdmitsSequence'
  <2>. DEFINE G == Leaving \cup Dead
  <2>1. phase' = phase /\ last' = IF last.ssrc \in G THEN [last EXCEPT !.streak = 0] ELSE last
    BY <1>5 DEF Update
  <2>2. CASE last.ssrc \in G
    <3>1. last'.streak = 0 /\ last'.seq = last.seq
      BY <1>1, <2>1, <2>2 DEF TypeOK
    <3>. QED BY <3>1 DEF AdmitInv, AdmitsSequence
  <2>3. CASE last.ssrc \notin G
    <3>1. \A x \in DOMAIN source' : x \in DOMAIN source /\ SameSeq(source'[x], source[x])
      <4>. SUFFICES ASSUME NEW x \in DOMAIN source'
           PROVE  x \in DOMAIN source /\ SameSeq(source'[x], source[x])
        OBVIOUS
      <4>1. x \in DOMAIN source
            /\ source'[x] \in {source[x], [source[x] EXCEPT !.sender = FALSE]}
        BY <1>5, UpdateEffect
      <4>. QED BY <1>1, <4>1 DEF TypeOK, SourceFields, SameSeq
    <3>2. DOMAIN source' = DOMAIN source \ G
      BY <1>5 DEF Update, Delete, Quieted
    <3>. HIDE DEF G
    <3>3. last.ssrc \in DOMAIN source => last.ssrc \in DOMAIN source'
      BY <2>3, <3>2
    <3>4. last' = last
      BY <2>1, <2>3
    <3>. DEFINE x == last.ssrc
                q == last.seq
    <3>5. AdmitInv'
      <4>. SUFFICES ASSUME phase = "up", last.streak > 0
           PROVE  /\ x \in DOMAIN source' /\ Expects(source'[x], q)
                  /\ last.streak >= 2 /\ source'[x].probation # 0 =>
                       last.streak = 2 /\ q = 0
        BY <2>1, <3>4 DEF AdmitInv
      <4>1. x \in DOMAIN source /\ Expects(source[x], q)
            /\ (last.streak >= 2 /\ source[x].probation # 0 =>
                   last.streak = 2 /\ q = 0)
        BY DEF AdmitInv
      <4>2. x \in DOMAIN source' /\ SameSeq(source'[x], source[x])
        BY <3>1, <3>3, <4>1
      <4>3. Expects(source'[x], q) /\ source'[x].probation = source[x].probation
        BY <4>1, <4>2 DEF SameSeq, Expects
      <4>. QED BY <4>1, <4>2, <4>3
    <3>6. AdmitsSequence'
      BY <3>4 DEF AdmitsSequence
    <3>. QED BY <3>5, <3>6
  <2>. QED BY <2>2, <2>3
<1>6. ASSUME Tick
      PROVE  AdmitInv' /\ AdmitsSequence'
  <2>1. /\ source' = [s \in DOMAIN source |-> [source[s] EXCEPT !.age = Older(@)]]
        /\ last' = last /\ phase' = phase
    BY <1>6 DEF Tick
  <2>2. ASSUME NEW x \in DOMAIN source
        PROVE  x \in DOMAIN source' /\ SameSeq(source'[x], source[x])
    <3>1. source[x] \in SourceFields
      BY <1>1 DEF TypeOK
    <3>. DEFINE o == Older(source[x].age)
    <3>2. x \in DOMAIN source' /\ source'[x] = [source[x] EXCEPT !.age = o]
      BY <2>1
    <3>. HIDE DEF o
    <3>. QED BY <3>1, <3>2 DEF SameSeq, SourceFields
  <2>. QED BY <2>1, <2>2, KeepsNumbers
<1>7. ASSUME Done
      PROVE  AdmitInv' /\ AdmitsSequence'
  BY <1>7 DEF Done, AdmitInv, AdmitsSequence
<1>8. ASSUME UNCHANGED vars
      PROVE  AdmitInv' /\ AdmitsSequence'
  BY <1>8 DEF vars, AdmitInv, AdmitsSequence
<1>. QED BY <1>2, <1>3, <1>4, <1>5, <1>6, <1>7, <1>8, <1>9 DEF Next, Network

\* Nobody has been heard at first.
LEMMA InitAdmits == Init => AdmitInv /\ AdmitsSequence
BY DEF Init, AdmitInv, AdmitsSequence

\* Of three packets in a row from one source the last is delivered, and of two
\* unless they wrap, with MIN_SEQUENTIAL 2 as in rtp.h: whatever was received
\* before, whatever the width of the numbers (rtp.c update_seq).
THEOREM SequenceAdmitted ==
  ASSUME MinSequential = 2, MaxDropout > 1
  PROVE  Spec => []AdmitsSequence
<1>. DEFINE I == SessionInv /\ AdmitInv /\ AdmitsSequence
<1>1. Init => I
  BY InitSession, InitAdmits
<1>2. I /\ [Next]_vars => I'
  BY StepKeeps, AdmitKeeps
<1>3. I => AdmitsSequence
  OBVIOUS
<1>. QED BY <1>1, <1>2, <1>3, PTL DEF Spec
=============================================================================
