-------------------------- MODULE H264TransportProof --------------------------
(***************************************************************************)
(* Proofs about H264Transport: for every size of a packet and every length *)
(* of a unit the packets fit, a frame comes out as it went in, and a loss  *)
(* damages only the unit it hits.                                          *)
(*                                                                         *)
(* FlattenSeq is a fold; the first part says what it does, and where the   *)
(* elements of each part end up.  With that, the start codes of a stream   *)
(* are found exactly where the units were put (ParseIs), the fragments of  *)
(* a unit add up to the unit (FragmentsWhole), and so do the packets of    *)
(* each unit of a frame (AllSentIs).  TransportInv ties the packets on the *)
(* wire to the frame they were cut from.                                   *)
(***************************************************************************)
EXTENDS H264Transport, SequenceTheorems, FiniteSetTheorems,
        WellFoundedInduction, TLAPS

-----------------------------------------------------------------------------
(* Induction over the natural numbers, for the numbers in a set.           *)

\* A set of natural numbers with 0 and every successor has all of them.
LEMMA NatInd ==
  ASSUME NEW S, 0 \in S, \A n \in Nat : n \in S => n + 1 \in S
  PROVE  Nat \subseteq S
<1> SUFFICES ASSUME Nat \ S # {} PROVE FALSE
  OBVIOUS
<1> DEFINE R == {ss \in Nat \X Nat : ss[1] < ss[2]}
<1>1. IsWellFoundedOn(R, Nat)
  BY NatLessThanWellFounded DEF OpToRel
<1>2. PICK x \in Nat \ S : \A y \in Nat \ S : <<y, x>> \notin R
  <2> HIDE DEF R
  <2> QED BY <1>1, WFMin
<1>3. x # 0
  BY <1>2
<1>4. x - 1 \in Nat /\ x - 1 < x
  BY <1>3
<1>5. x - 1 \notin S
  BY <1>4, <1>2
<1>6. <<x-1, x>> \in R
  BY <1>4
<1> QED BY <1>2, <1>4, <1>5, <1>6

-----------------------------------------------------------------------------
(* FlattenSeq, without its recursion. *)

\* f accumulates the first n sequences of s.
Accumulates(f, s, n) == f = [i \in 1 .. n |-> IF i = 1 THEN s[i] ELSE f[i - 1] \o s[i]]

\* The same, element by element.
LEMMA AccumulatesStep ==
  ASSUME NEW s, NEW n \in Nat, NEW f, Accumulates(f, s, n)
  PROVE  \A i \in 1 .. n : f[i] = IF i = 1 THEN s[i] ELSE f[i - 1] \o s[i]
BY Zenon DEF Accumulates

\* Two accumulations of one sequence agree as far as both go.
LEMMA AccumulatesUnique ==
  ASSUME NEW s, NEW n \in Nat, NEW f, NEW g, NEW m \in Nat, n <= m,
         Accumulates(f, s, n), Accumulates(g, s, m)
  PROVE  \A i \in 1 .. n : f[i] = g[i]
<1>f. \A i \in 1 .. n : f[i] = IF i = 1 THEN s[i] ELSE f[i - 1] \o s[i]
  BY AccumulatesStep
<1>g. \A i \in 1 .. m : g[i] = IF i = 1 THEN s[i] ELSE g[i - 1] \o s[i]
  BY AccumulatesStep
<1>. DEFINE S == {i \in Nat : i \in 1 .. n => f[i] = g[i]}
<1>1. 0 \in S
  OBVIOUS
<1>2. ASSUME NEW i \in Nat, i \in S PROVE i + 1 \in S
  <2>1. SUFFICES ASSUME i + 1 \in 1 .. n PROVE f[i + 1] = g[i + 1]
    OBVIOUS
  <2>2. CASE i = 0
    BY <2>1, <2>2 DEF Accumulates
  <2>3. CASE i # 0
    <3>1. f[i] = g[i]
      BY <1>2, <2>1, <2>3
    <3>2. i + 1 \in 1 .. m /\ i + 1 # 1 /\ (i + 1) - 1 = i
      BY <2>1, <2>3
    <3>3. f[i + 1] = f[i] \o s[i + 1]
      BY <2>1, <3>2, <1>f
    <3>4. g[i + 1] = g[i] \o s[i + 1]
      BY <3>2, <1>g
    <3>. QED BY <3>1, <3>3, <3>4
  <2>. QED BY <2>2, <2>3
<1>3. Nat \subseteq S
  <2>. HIDE DEF S
  <2>. QED BY <1>1, <1>2, NatInd
<1>. QED BY <1>3

\* An accumulation can be continued by one more sequence.
LEMMA AccumulatesExtends ==
  ASSUME NEW s, NEW n \in Nat, NEW f, Accumulates(f, s, n)
  PROVE  \E g : Accumulates(g, s, n + 1)
<1>. DEFINE g == [i \in 1 .. n + 1 |->
                    IF i = 1 THEN s[i]
                    ELSE IF i <= n THEN f[i] ELSE f[i - 1] \o s[i]]
<1>1. \A i \in 1 .. n : f[i] = IF i = 1 THEN s[i] ELSE f[i - 1] \o s[i]
  BY DEF Accumulates
<1>2. ASSUME NEW i \in 1 .. n + 1 PROVE g[i] = IF i = 1 THEN s[i] ELSE g[i - 1] \o s[i]
  <2>1. CASE i = 1
    BY <2>1
  <2>2. CASE i # 1
    <3>1. i - 1 \in 1 .. n
      BY <2>2
    <3>2. g[i - 1] = f[i - 1]
      BY <3>1, <1>1
    <3>3. g[i] = f[i - 1] \o s[i]
      <4>1. CASE i <= n
        <5>1. i \in 1 .. n
          BY <4>1
        <5>2. f[i] = f[i - 1] \o s[i]
          BY <5>1, <1>1, <2>2
        <5>. QED BY <5>2, <2>2, <4>1
      <4>. QED BY <4>1, <2>2
    <3>. QED BY <3>2, <3>3, <2>2
  <2>. QED BY <2>1, <2>2
<1>3. Accumulates(g, s, n + 1)
  BY <1>2, Zenon DEF Accumulates
<1>. QED BY <1>3

\* So there is one of every length: the recursion is well defined.
LEMMA AccumulatesExists ==
  ASSUME NEW s
  PROVE  \A n \in Nat : \E f : Accumulates(f, s, n)
<1>. DEFINE S == {n \in Nat : \E f : Accumulates(f, s, n)}
<1>1. 0 \in S
  <2>1. Accumulates([i \in 1 .. 0 |-> 0], s, 0)
    BY DEF Accumulates
  <2>. QED BY <2>1
<1>2. ASSUME NEW n \in Nat, n \in S PROVE n + 1 \in S
  BY <1>2, AccumulatesExtends
<1>3. Nat \subseteq S
  <2>. HIDE DEF S
  <2>. QED BY <1>1, <1>2, NatInd
<1>. QED BY <1>3

\* FlattenSeq is the last element of the accumulation.
LEMMA FlattenDef ==
  ASSUME NEW s, Len(s) \in Nat \ {0}
  PROVE  \E f : Accumulates(f, s, Len(s)) /\ FlattenSeq(s) = f[Len(s)]
<1>. DEFINE f == CHOOSE g : Accumulates(g, s, Len(s))
<1>1. Accumulates(f, s, Len(s))
  BY AccumulatesExists
<1>2. FlattenSeq(s) = f[Len(s)]
  BY DEF FlattenSeq, Accumulates
<1>. QED BY <1>1, <1>2

\* Nothing to flatten.
LEMMA FlattenEmpty == FlattenSeq(<<>>) = <<>>
BY DEF FlattenSeq

\* A bag added at the rear adds its parts at the end.
LEMMA FlattenAppend ==
  ASSUME NEW T, NEW s \in Seq(Seq(T)), NEW e \in Seq(T)
  PROVE  FlattenSeq(Append(s, e)) = FlattenSeq(s) \o e
<1>. DEFINE t == Append(s, e)
            n == Len(s)
<1>1. n \in Nat /\ Len(t) = n + 1 /\ t[n + 1] = e /\ \A i \in 1 .. n : t[i] = s[i]
  BY AppendProperties
<1>2. PICK f : Accumulates(f, t, n + 1) /\ FlattenSeq(t) = f[n + 1]
  <2>1. Len(t) \in Nat \ {0}
    BY <1>1
  <2>. HIDE DEF t, n
  <2>. QED BY <2>1, <1>1, FlattenDef
<1>3. \A i \in 1 .. n + 1 : f[i] = IF i = 1 THEN t[i] ELSE f[i - 1] \o t[i]
  <2>. HIDE DEF t, n
  <2>. QED BY <1>1, <1>2, AccumulatesStep
<1>4. CASE n = 0
  <2>1. s = <<>>
    BY <1>4, EmptySeq
  <2>2. f[1] = e
    BY <1>1, <1>3, <1>4
  <2>. QED BY <2>1, <2>2, <1>2, <1>4, FlattenEmpty
<1>5. CASE n # 0
  <2>1. PICK g : Accumulates(g, s, n) /\ FlattenSeq(s) = g[n]
    BY <1>1, <1>5, FlattenDef
  <2>2. Accumulates([i \in 1 .. n |-> f[i]], s, n)
    <3>. DEFINE h == [i \in 1 .. n |-> f[i]]
    <3>1. ASSUME NEW i \in 1 .. n PROVE h[i] = IF i = 1 THEN s[i] ELSE h[i - 1] \o s[i]
      <4>1. i \in 1 .. n + 1 /\ h[i] = f[i] /\ t[i] = s[i]
        BY <1>1
      <4>2. CASE i = 1
        BY <4>1, <4>2, <1>3
      <4>3. CASE i # 1
        <5>1. i - 1 \in 1 .. n
          BY <4>3
        <5>2. f[i] = f[i - 1] \o t[i]
          BY <4>1, <4>3, <1>3
        <5>. QED BY <4>1, <4>3, <5>1, <5>2
      <4>. QED BY <4>2, <4>3
    <3>2. h = [i \in 1 .. n |-> IF i = 1 THEN s[i] ELSE h[i - 1] \o s[i]]
      BY <3>1, Zenon
    <3>. QED BY <3>2 DEF Accumulates
  <2>3. f[n] = g[n]
    <3>1. \A i \in 1 .. n : [j \in 1 .. n |-> f[j]][i] = g[i]
      <4>. DEFINE h == [j \in 1 .. n |-> f[j]]
      <4>. HIDE DEF h, n
      <4>. QED BY <2>1, <2>2, <1>1, AccumulatesUnique DEF h
    <3>. QED BY <3>1, <1>1, <1>5
  <2>4. f[n + 1] = f[n] \o e
    <3>1. n + 1 \in 1 .. n + 1 /\ n + 1 # 1 /\ (n + 1) - 1 = n
      BY <1>1, <1>5
    <3>2. f[n + 1] = f[(n + 1) - 1] \o t[n + 1]
      <4>. HIDE DEF n, t
      <4>. QED BY <3>1, <1>3
    <3>. QED BY <3>1, <3>2, <1>1
  <2>. QED BY <2>1, <2>3, <2>4, <1>2
<1>. QED BY <1>4, <1>5

\* The flattened sequence has the elements of its parts.
LEMMA FlattenType ==
  ASSUME NEW T
  PROVE  \A s \in Seq(Seq(T)) : FlattenSeq(s) \in Seq(T)
<1>. DEFINE S == {n \in Nat : \A s \in Seq(Seq(T)) : Len(s) = n => FlattenSeq(s) \in Seq(T)}
<1>1. 0 \in S
  BY EmptySeq, FlattenEmpty
<1>2. ASSUME NEW n \in Nat, n \in S PROVE n + 1 \in S
  <2>1. SUFFICES ASSUME NEW s \in Seq(Seq(T)), Len(s) = n + 1
                 PROVE  FlattenSeq(s) \in Seq(T)
    OBVIOUS
  <2>2. PICK t \in Seq(Seq(T)), e \in Seq(T) : s = Append(t, e)
    <3>1. s # <<>>
      BY <2>1
    <3>. QED BY <3>1, SequenceEmptyOrAppend
  <2>3. Len(t) = n
    BY <2>1, <2>2, AppendProperties
  <2>4. FlattenSeq(t) \in Seq(T)
    BY <1>2, <2>3
  <2>5. FlattenSeq(s) = FlattenSeq(t) \o e
    BY <2>2, FlattenAppend
  <2>. QED BY <2>4, <2>5
<1>3. Nat \subseteq S
  <2>. HIDE DEF S
  <2>. QED BY <1>1, <1>2, NatInd
<1>. QED BY <1>3

\* Flattening one after the other.
LEMMA FlattenConcat ==
  ASSUME NEW T, NEW s \in Seq(Seq(T)), NEW t \in Seq(Seq(T))
  PROVE  FlattenSeq(s \o t) = FlattenSeq(s) \o FlattenSeq(t)
<1>. DEFINE U == Seq(T)
            P(n) == \A u \in Seq(U) :
                      Len(u) = n => FlattenSeq(s \o u) = FlattenSeq(s) \o FlattenSeq(u)
<1>s. s \in Seq(U) /\ FlattenSeq(s) \in Seq(T)
  BY FlattenType
<1>1. P(0)
  <2>1. SUFFICES ASSUME NEW u \in Seq(U), Len(u) = 0
                 PROVE  FlattenSeq(s \o u) = FlattenSeq(s) \o FlattenSeq(u)
    OBVIOUS
  <2>2. u = <<>> /\ s \o u = s
    BY <2>1, <1>s, EmptySeq, ConcatEmptySeq
  <2>. QED BY <2>2, <1>s, FlattenEmpty, ConcatEmptySeq
<1>2. ASSUME NEW n \in Nat, P(n) PROVE P(n + 1)
  <2>1. SUFFICES ASSUME NEW u \in Seq(U), Len(u) = n + 1
                 PROVE  FlattenSeq(s \o u) = FlattenSeq(s) \o FlattenSeq(u)
    OBVIOUS
  <2>2. PICK v \in Seq(U), x \in U : u = Append(v, x)
    <3>. HIDE DEF U
    <3>1. u # <<>>
      BY <2>1
    <3>. QED BY <3>1, SequenceEmptyOrAppend
  <2>3. Len(v) = n
    BY <2>1, <2>2, AppendProperties
  <2>4. FlattenSeq(s \o v) = FlattenSeq(s) \o FlattenSeq(v)
    BY <1>2, <2>3
  <2>5. s \o v \in Seq(U) /\ s \o u = Append(s \o v, x)
    <3>. HIDE DEF U
    <3>1. s \o v \in Seq(U)
      BY <1>s, ConcatProperties
    <3>2. <<x>> \in Seq(U) /\ u = v \o <<x>> /\ Append(s \o v, x) = (s \o v) \o <<x>>
      BY <2>2, <3>1, AppendIsConcat
    <3>3. (s \o v) \o <<x>> = s \o (v \o <<x>>)
      BY <1>s, <3>2, ConcatAssociative
    <3>. QED BY <3>1, <3>2, <3>3
  <2>6. FlattenSeq(s \o u) = FlattenSeq(s \o v) \o x
    BY <2>5, FlattenAppend
  <2>7. FlattenSeq(u) = FlattenSeq(v) \o x
    BY <2>2, FlattenAppend
  <2>8. FlattenSeq(v) \in Seq(T)
    BY FlattenType
  <2>9. (FlattenSeq(s) \o FlattenSeq(v)) \o x = FlattenSeq(s) \o (FlattenSeq(v) \o x)
    BY <1>s, <2>8, ConcatAssociative, SMTT(20)
  <2>. QED BY <2>4, <2>6, <2>7, <2>9
<1>3. \A n \in Nat : P(n)
  <2>. DEFINE S == {n \in Nat : P(n)}
  <2>. HIDE DEF P
  <2>1. 0 \in S /\ \A n \in Nat : n \in S => n + 1 \in S
    BY <1>1, <1>2
  <2>2. Nat \subseteq S
    <3>. HIDE DEF S
    <3>. QED BY <2>1, NatInd
  <2>. QED BY <2>2
<1>4. P(Len(t))
  <2>. HIDE DEF P
  <2>. QED BY <1>3, LenProperties
<1>. QED BY <1>4, Zenon

\* What does not fall from one number to the next does not fall.
LEMMA Rises ==
  ASSUME NEW n \in Nat, NEW f \in [0 .. n -> Nat], \A k \in 1 .. n : f[k - 1] <= f[k]
  PROVE  \A i, j \in 0 .. n : i <= j => f[i] <= f[j]
<1>. SUFFICES ASSUME NEW i \in 0 .. n PROVE \A j \in 0 .. n : i <= j => f[i] <= f[j]
  OBVIOUS
<1>. DEFINE S == {d \in Nat : i + d <= n => f[i] <= f[i + d]}
<1>1. 0 \in S
  OBVIOUS
<1>2. ASSUME NEW d \in Nat, d \in S PROVE d + 1 \in S
  <2>1. SUFFICES ASSUME i + (d + 1) <= n PROVE f[i] <= f[i + (d + 1)]
    OBVIOUS
  <2>2. f[i] <= f[i + d]
    BY <1>2, <2>1
  <2>3. i + (d + 1) \in 1 .. n /\ (i + (d + 1)) - 1 = i + d
    BY <2>1
  <2>4. f[(i + (d + 1)) - 1] <= f[i + (d + 1)]
    BY <2>3
  <2>5. f[i] \in Nat /\ f[i + d] \in Nat /\ f[i + (d + 1)] \in Nat
    BY <2>1
  <2>. QED BY <2>2, <2>3, <2>4, <2>5
<1>3. Nat \subseteq S
  <2>. HIDE DEF S
  <2>. QED BY <1>1, <1>2, NatInd
<1>4. ASSUME NEW j \in 0 .. n, i <= j PROVE f[i] <= f[j]
  <2>1. j - i \in Nat /\ i + (j - i) = j /\ j <= n
    BY <1>4
  <2>2. j - i \in S
    BY <1>3, <2>1
  <2>3. i + (j - i) <= n => f[i] <= f[i + (j - i)]
    BY <2>2
  <2>. QED BY <2>1, <2>3
<1>. QED BY <1>4

\* off says where the parts of s begin and end in FlattenSeq(s).
Offsets(off, s) ==
  /\ off \in [0 .. Len(s) -> Nat]
  /\ off[0] = 0
  /\ \A k \in 1 .. Len(s) : off[k] = off[k - 1] + Len(s[k])
  /\ off[Len(s)] = Len(FlattenSeq(s))
  /\ \A k \in 1 .. Len(s) : \A i \in 1 .. Len(s[k]) : FlattenSeq(s)[off[k - 1] + i] = s[k][i]
  /\ \A p \in 1 .. Len(FlattenSeq(s)) :
       \E k \in 1 .. Len(s) : \E i \in 1 .. Len(s[k]) : p = off[k - 1] + i

\* One more part begins where the others end.
LEMMA OffsetsAppend ==
  ASSUME NEW T, NEW s \in Seq(Seq(T)), NEW e \in Seq(T), NEW off, Offsets(off, s)
  PROVE  Offsets([k \in 0 .. Len(s) + 1 |->
                    IF k <= Len(s) THEN off[k] ELSE off[Len(s)] + Len(e)], Append(s, e))
<1>. DEFINE n == Len(s)
            t == Append(s, e)
            f == FlattenSeq(s)
            g == FlattenSeq(t)
            m == Len(f)
            l == Len(e)
            new == [k \in 0 .. n + 1 |-> IF k <= n THEN off[k] ELSE off[n] + l]
<1>1. /\ n \in Nat /\ Len(t) = n + 1 /\ t[n + 1] = e
      /\ \A k \in 1 .. n : t[k] = s[k] /\ s[k] \in Seq(T)
  BY AppendProperties
<1>2. f \in Seq(T) /\ g = f \o e
  BY FlattenType, FlattenAppend
<1>3. /\ m \in Nat /\ l \in Nat /\ Len(g) = m + l
      /\ \A i \in 1 .. m + l : g[i] = IF i <= m THEN f[i] ELSE e[i - m]
  <2>. HIDE DEF f, g
  <2>. QED BY <1>2, ConcatProperties, LenProperties
<1>4. /\ off \in [0 .. n -> Nat]
      /\ off[0] = 0
      /\ \A k \in 1 .. n : off[k] = off[k - 1] + Len(s[k])
      /\ off[n] = m
      /\ \A k \in 1 .. n : \A i \in 1 .. Len(s[k]) : f[off[k - 1] + i] = s[k][i]
      /\ \A p \in 1 .. m : \E k \in 1 .. n : \E i \in 1 .. Len(s[k]) : p = off[k - 1] + i
  BY DEF Offsets
<1>n. /\ \A k \in 0 .. n : new[k] = off[k]
      /\ new[n + 1] = m + l
      /\ new \in [0 .. n + 1 -> Nat]
  <2>. HIDE DEF n, m, l
  <2>. QED BY <1>1, <1>3, <1>4
<1>. HIDE DEF new, g, f, m, l, n, t
\* The offsets do not fall.
<1>5. \A j \in 0 .. n : off[j] <= m
  <2>1. \A k \in 1 .. n : off[k - 1] <= off[k]
    <3>. SUFFICES ASSUME NEW k \in 1 .. n PROVE off[k - 1] <= off[k]
      OBVIOUS
    <3>1. k - 1 \in 0 .. n /\ k \in 0 .. n /\ Len(s[k]) \in Nat
      BY <1>1, LenProperties
    <3>2. off[k] = off[k - 1] + Len(s[k]) /\ off[k - 1] \in Nat
      BY <1>4, <3>1
    <3>. QED BY <3>1, <3>2
  <2>2. \A i, j \in 0 .. n : i <= j => off[i] <= off[j]
    BY <1>1, <1>4, <2>1, Rises
  <2>. QED BY <1>1, <1>4, <2>2
<1>6. \A k \in 1 .. n + 1 : new[k] = new[k - 1] + Len(t[k])
  <2>. SUFFICES ASSUME NEW k \in 1 .. n + 1 PROVE new[k] = new[k - 1] + Len(t[k])
    OBVIOUS
  <2>1. CASE k = n + 1
    <3>1. k - 1 = n /\ n \in 0 .. n
      BY <1>1, <2>1
    <3>. QED BY <1>1, <1>4, <1>n, <2>1, <3>1 DEF l
  <2>2. CASE k # n + 1
    <3>1. k \in 1 .. n /\ k \in 0 .. n /\ k - 1 \in 0 .. n
      BY <1>1, <2>2
    <3>. QED BY <1>1, <1>4, <1>n, <3>1
  <2>. QED BY <2>1, <2>2
<1>7. \A k \in 1 .. n + 1 : \A i \in 1 .. Len(t[k]) : g[new[k - 1] + i] = t[k][i]
  <2>. SUFFICES ASSUME NEW k \in 1 .. n + 1, NEW i \in 1 .. Len(t[k])
                PROVE  g[new[k - 1] + i] = t[k][i]
    OBVIOUS
  <2>1. CASE k = n + 1
    <3>1. k - 1 = n /\ n \in 0 .. n /\ i \in 1 .. l
      BY <1>1, <2>1 DEF l
    <3>2. new[k - 1] + i = m + i /\ m + i \in 1 .. m + l /\ ~(m + i <= m) /\ (m + i) - m = i
      BY <1>3, <1>4, <1>n, <3>1
    <3>. QED BY <3>2, <1>1, <1>3, <2>1
  <2>2. CASE k # n + 1
    <3>1. k \in 1 .. n /\ k \in 0 .. n /\ k - 1 \in 0 .. n
      BY <1>1, <2>2
    <3>2. i \in 1 .. Len(s[k]) /\ t[k] = s[k] /\ Len(s[k]) \in Nat
      BY <1>1, <3>1, LenProperties
    <3>3. f[off[k - 1] + i] = s[k][i] /\ off[k] = off[k - 1] + Len(s[k])
          /\ off[k] <= m /\ off[k - 1] \in Nat /\ off[k] \in Nat
      BY <1>4, <1>5, <3>1, <3>2
    <3>4. off[k - 1] + i \in 1 .. m + l /\ off[k - 1] + i <= m
      <4>1. m \in Nat /\ l \in Nat
        BY <1>3
      <4>. DEFINE a == off[k - 1]
                  b == off[k]
                  c == Len(s[k])
      <4>2. a \in Nat /\ b \in Nat /\ c \in Nat /\ b = a + c /\ b <= m /\ i \in 1 .. c
        BY <3>2, <3>3
      <4>. HIDE DEF a, b, c
      <4>3. a + i \in 1 .. m + l /\ a + i <= m
        BY <4>1, <4>2
      <4>. QED BY <4>3 DEF a
    <3>. QED BY <3>1, <3>2, <3>3, <3>4, <1>3, <1>n
  <2>. QED BY <2>1, <2>2
<1>8. \A p \in 1 .. m + l : \E k \in 1 .. n + 1 : \E i \in 1 .. Len(t[k]) : p = new[k - 1] + i
  <2>. SUFFICES ASSUME NEW p \in 1 .. m + l
                PROVE  \E k \in 1 .. n + 1 : \E i \in 1 .. Len(t[k]) : p = new[k - 1] + i
    OBVIOUS
  <2>1. CASE p <= m
    <3>1. p \in 1 .. m
      BY <2>1, <1>3
    <3>2. PICK k \in 1 .. n : \E i \in 1 .. Len(s[k]) : p = off[k - 1] + i
      BY <3>1, <1>4
    <3>3. k \in 1 .. n + 1 /\ k - 1 \in 0 .. n /\ t[k] = s[k] /\ new[k - 1] = off[k - 1]
      BY <1>1, <1>n
    <3>. QED BY <3>2, <3>3
  <2>2. CASE ~(p <= m)
    <3>1. p - m \in 1 .. l /\ p = m + (p - m)
      BY <2>2, <1>3
    <3>2. n + 1 \in 1 .. n + 1 /\ (n + 1) - 1 = n /\ new[n] = m
      BY <1>1, <1>4, <1>n
    <3>3. p - m \in 1 .. Len(t[n + 1])
      BY <1>1, <3>1 DEF l
    <3>. QED BY <3>1, <3>2, <3>3
  <2>. QED BY <2>1, <2>2
<1>9. new[0] = 0
  BY <1>1, <1>4, <1>n
<1>10. /\ new \in [0 .. Len(t) -> Nat]
       /\ new[Len(t)] = Len(g)
       /\ \A p \in 1 .. Len(g) :
            \E k \in 1 .. Len(t) : \E i \in 1 .. Len(t[k]) : p = new[k - 1] + i
       /\ \A k \in 1 .. Len(t) : new[k] = new[k - 1] + Len(t[k])
       /\ \A k \in 1 .. Len(t) : \A i \in 1 .. Len(t[k]) : g[new[k - 1] + i] = t[k][i]
  BY <1>1, <1>3, <1>n, <1>6, <1>7, <1>8
<1>11. Offsets(new, t)
  BY <1>9, <1>10 DEF Offsets, g
<1>. QED BY <1>11 DEF new, t, n, l

\* Every sequence of sequences has its offsets.
LEMMA OffsetsExist ==
  ASSUME NEW T
  PROVE  \A s \in Seq(Seq(T)) : \E off : Offsets(off, s)
<1>. DEFINE U == Seq(T)
            P(n) == \A s \in Seq(U) : Len(s) = n => \E off : Offsets(off, s)
<1>1. P(0)
  <2>1. SUFFICES ASSUME NEW s \in Seq(U), Len(s) = 0 PROVE \E off : Offsets(off, s)
    OBVIOUS
  <2>2. s = <<>> /\ Len(FlattenSeq(s)) = 0
    BY <2>1, EmptySeq, FlattenEmpty
  <2>3. Offsets([k \in 0 .. 0 |-> 0], s)
    BY <2>1, <2>2 DEF Offsets
  <2>. QED BY <2>3
<1>2. ASSUME NEW n \in Nat, P(n) PROVE P(n + 1)
  <2>1. SUFFICES ASSUME NEW u \in Seq(U), Len(u) = n + 1 PROVE \E off : Offsets(off, u)
    OBVIOUS
  <2>2. PICK v \in Seq(U), x \in U : u = Append(v, x)
    <3>. HIDE DEF U
    <3>1. u # <<>>
      BY <2>1
    <3>. QED BY <3>1, SequenceEmptyOrAppend
  <2>3. Len(v) = n
    BY <2>1, <2>2, AppendProperties
  <2>4. PICK off : Offsets(off, v)
    BY <1>2, <2>3
  <2>. QED BY <2>2, <2>4, OffsetsAppend
<1>3. \A n \in Nat : P(n)
  <2>. DEFINE S == {n \in Nat : P(n)}
  <2>. HIDE DEF P
  <2>1. 0 \in S /\ \A n \in Nat : n \in S => n + 1 \in S
    BY <1>1, <1>2
  <2>2. Nat \subseteq S
    <3>. HIDE DEF S
    <3>. QED BY <2>1, NatInd
  <2>. QED BY <2>2
<1>4. ASSUME NEW s \in Seq(U) PROVE \E off : Offsets(off, s)
  <2>1. P(Len(s))
    <3>. HIDE DEF P
    <3>. QED BY <1>3, LenProperties
  <2>. QED BY <2>1, Zenon
<1>. QED BY <1>4, Zenon

-----------------------------------------------------------------------------
(* The rising enumeration of a set, by which Starts orders the units. *)

Rising(s) == \A i, j \in DOMAIN s : i < j => s[i] < s[j]

\* Two rising enumerations of one set are the same.
LEMMA RisingUnique ==
  ASSUME NEW n \in Nat, NEW S \in SUBSET Nat,
         NEW g \in [1 .. n -> S], Rising(g), \A x \in S : \E k \in 1 .. n : x = g[k],
         NEW s \in [1 .. n -> S], Rising(s), \A x \in S : \E k \in 1 .. n : x = s[k]
  PROVE  s = g
<1>. DEFINE E == {i \in Nat : \A j \in 1 .. n : j <= i => s[j] = g[j]}
<1>1. 0 \in E
  OBVIOUS
<1>2. ASSUME NEW i \in Nat, i \in E PROVE i + 1 \in E
  <2>1. SUFFICES ASSUME i + 1 \in 1 .. n PROVE s[i + 1] = g[i + 1]
    <3>1. ASSUME NEW j \in 1 .. n, j <= i + 1, j # i + 1 PROVE s[j] = g[j]
      <4>1. j <= i
        BY <3>1
      <4>. QED BY <4>1, <1>2
    <3>. QED BY <3>1
  <2>. DEFINE h == i + 1
  <2>2. h \in 1 .. n /\ s[h] \in Nat /\ g[h] \in Nat /\ s[h] \in S /\ g[h] \in S
    BY <2>1
  <2>3. \A j \in 1 .. n : j < h => s[j] = g[j]
    BY <1>2
  <2>. HIDE DEF h
  <2>4. g[h] <= s[h]
    <3>1. PICK j \in 1 .. n : s[h] = g[j]
      BY <2>2
    <3>2. ~(j < h)
      BY <2>2, <2>3, <3>1 DEF Rising
    <3>3. h < j => g[h] < g[j]
      BY <2>2 DEF Rising
    <3>. QED BY <2>2, <3>1, <3>2, <3>3
  <2>5. s[h] <= g[h]
    <3>1. PICK j \in 1 .. n : g[h] = s[j]
      BY <2>2
    <3>2. ~(j < h)
      BY <2>2, <2>3, <3>1 DEF Rising
    <3>3. h < j => s[h] < s[j]
      BY <2>2 DEF Rising
    <3>. QED BY <2>2, <3>1, <3>2, <3>3
  <2>6. s[h] = g[h]
    BY <2>2, <2>4, <2>5
  <2>. QED BY <2>6 DEF h
<1>3. Nat \subseteq E
  <2>. HIDE DEF E
  <2>. QED BY <1>1, <1>2, NatInd
<1>4. \A j \in 1 .. n : s[j] = g[j]
  BY <1>3
<1>. QED BY <1>4

\* And there is no other than the one that is found.
LEMMA RisingChosen ==
  ASSUME NEW n \in Nat, NEW S \in SUBSET Nat,
         NEW g \in [1 .. n -> S], Rising(g), \A x \in S : \E k \in 1 .. n : x = g[k]
  PROVE  (CHOOSE s \in [1 .. Cardinality(S) -> S] :
            \A i, j \in DOMAIN s : i < j => s[i] < s[j]) = g
<1>1. \A i, j \in 1 .. n : g[i] = g[j] => i = j
  <2>. SUFFICES ASSUME NEW i \in 1 .. n, NEW j \in 1 .. n, g[i] = g[j], i # j PROVE FALSE
    OBVIOUS
  <2>1. g[i] \in Nat /\ g[j] \in Nat
    OBVIOUS
  <2>2. i < j \/ j < i
    OBVIOUS
  <2>. QED BY <2>1, <2>2 DEF Rising
<1>2. g \in Bijection(1 .. n, S)
  BY <1>1 DEF Bijection, Injection, Surjection, IsInjective
<1>3. IsFiniteSet(1 .. n) /\ Cardinality(1 .. n) = n
  BY FS_Interval
<1>4. IsFiniteSet(S) /\ Cardinality(S) = n
  <2>1. ExistsBijection(1 .. n, S)
    BY <1>2 DEF ExistsBijection
  <2>. QED BY <2>1, <1>3, FS_Bijection
<1>5. ASSUME NEW s \in [1 .. n -> S], Rising(s) PROVE s = g
  <2>1. \A i, j \in 1 .. n : s[i] = s[j] => i = j
    <3>. SUFFICES ASSUME NEW i \in 1 .. n, NEW j \in 1 .. n, s[i] = s[j], i # j PROVE FALSE
      OBVIOUS
    <3>1. s[i] \in Nat /\ s[j] \in Nat
      OBVIOUS
    <3>2. i < j \/ j < i
      OBVIOUS
    <3>. QED BY <1>5, <3>1, <3>2 DEF Rising
  <2>2. s \in Injection(1 .. n, S)
    BY <2>1 DEF Injection, IsInjective
  <2>3. s \in Surjection(1 .. n, S)
    BY <2>2, <1>3, <1>4, FS_Injection
  <2>4. \A x \in S : \E k \in 1 .. n : x = s[k]
    BY <2>3 DEF Surjection
  <2>. QED BY <1>5, <2>4, RisingUnique
<1>6. g \in [1 .. Cardinality(S) -> S] /\ \A i, j \in DOMAIN g : i < j => g[i] < g[j]
  BY <1>4 DEF Rising
<1>. DEFINE c == CHOOSE s \in [1 .. Cardinality(S) -> S] :
                   \A i, j \in DOMAIN s : i < j => s[i] < s[j]
<1>7. c \in [1 .. n -> S] /\ Rising(c)
  BY <1>4, <1>6 DEF Rising
<1>. QED BY <1>5, <1>7

-----------------------------------------------------------------------------
(* The encoder's output, and the units the sender finds in it.             *)

\* What H.264 promises of a payload: it does not look like a start code
\* anywhere, and it does not end in zero.
GoodUnits ==
  {u \in [type : 1 .. 31, nri : 0 .. 3, zeros : {2, 3}, payload : Seq(Nat)] :
     /\ u.payload # <<>>
     /\ u.payload[Len(u.payload)] # 0
     /\ \A j \in 1 .. Len(u.payload) - 2 :
          ~(u.payload[j] = 0 /\ u.payload[j + 1] = 0 /\ u.payload[j + 2] = 1)}

\* The encoder keeps that promise.
LEMMA UnitIsGood ==
  ASSUME NEW n \in Nat \ {0}, NEW len \in Lengths, NEW kind \in Kinds(len),
         NEW zeros \in {2, 3}, NEW escape \in Escapes(len)
  PROVE  Unit(n, kind, zeros, len, escape) \in GoodUnits
<1>. DEFINE u == Unit(n, kind, zeros, len, escape)
            p == [k \in 1 .. len |-> Byte(n, k, escape)]
<1>1. len \in Nat \ {0} /\ (escape => len >= 5)
  <2>1. len \in Nat \ {0}
    BY TransportAssumption
  <2>2. len < 5 => ~escape
    BY DEF Escapes
  <2>. QED BY <2>1, <2>2
<1>2. kind.type \in 1 .. 31 /\ kind.nri \in 0 .. 3
  BY DEF Kinds, SliceB, SliceP, Idr, Sps
<1>3. \A k \in 1 .. len : /\ Byte(n, k, escape) \in Nat
                          /\ Byte(n, k, escape) = 0 => escape /\ k < 3
                          /\ Byte(n, k, escape) = 1 => escape /\ k = 4
  <2>. SUFFICES ASSUME NEW k \in 1 .. len
                PROVE  /\ Byte(n, k, escape) \in Nat
                       /\ Byte(n, k, escape) = 0 => escape /\ k < 3
                       /\ Byte(n, k, escape) = 1 => escape /\ k = 4
    OBVIOUS
  <2>1. CASE escape /\ k < 5
    <3>1. k = 1 \/ k = 2 \/ k = 3 \/ k = 4
      BY <1>1, <2>1
    <3>2. Byte(n, k, escape) = <<0, 0, 3, 1>>[k]
      BY <2>1 DEF Byte
    <3>3. /\ k = 1 => Byte(n, k, escape) = 0
          /\ k = 2 => Byte(n, k, escape) = 0
          /\ k = 3 => Byte(n, k, escape) = 3
          /\ k = 4 => Byte(n, k, escape) = 1
      BY <3>2
    <3>4. Byte(n, k, escape) \in {0, 1, 3} /\ (Byte(n, k, escape) = 0 => k < 3)
          /\ (Byte(n, k, escape) = 1 => k = 4)
      BY <3>1, <3>3
    <3>5. Byte(n, k, escape) \in Nat
      BY <3>4
    <3>. QED BY <2>1, <3>4, <3>5, Zenon
  <2>2. CASE ~(escape /\ k < 5)
    <3>1. Byte(n, k, escape) = 40 * n + k
      BY <2>2 DEF Byte
    <3>. QED BY <1>1, <3>1
  <2>. QED BY <2>1, <2>2
<1>4. p \in Seq(Nat) /\ Len(p) = len /\ \A k \in 1 .. len : p[k] = Byte(n, k, escape)
  <2>1. p \in [1 .. len -> Nat]
    BY <1>3
  <2>. QED BY <1>1, <2>1
<1>5. u = [type |-> kind.type, nri |-> kind.nri, zeros |-> zeros, payload |-> p]
  BY DEF Unit
<1>. HIDE DEF p, u
<1>6. u.type \in 1 .. 31 /\ u.nri \in 0 .. 3 /\ u.zeros \in {2, 3} /\ u.payload = p
      /\ u \in [type : 1 .. 31, nri : 0 .. 3, zeros : {2, 3}, payload : Seq(Nat)]
  BY <1>2, <1>4, <1>5
<1>7. p # <<>> /\ p[len] # 0
  <2>1. len \in 1 .. len
    BY <1>1
  <2>. QED BY <1>1, <1>3, <1>4, <2>1
<1>8. \A j \in 1 .. len - 2 : ~(p[j] = 0 /\ p[j + 1] = 0 /\ p[j + 2] = 1)
  <2>. SUFFICES ASSUME NEW j \in 1 .. len - 2, p[j + 1] = 0, p[j + 2] = 1 PROVE FALSE
    OBVIOUS
  <2>1. j + 1 \in 1 .. len /\ j + 2 \in 1 .. len
    BY <1>1
  <2>2. j + 1 < 3 /\ j + 2 = 4
    BY <1>3, <1>4, <2>1
  <2>. QED BY <2>2
<1>. QED BY <1>4, <1>6, <1>7, <1>8 DEF GoodUnits, u

\* A unit after a start code of z zeros.
Coded(z, u) == StartCode(z) \o <<Header(u)>> \o u.payload

\* It, byte by byte.
LEMMA CodedIs ==
  ASSUME NEW u \in GoodUnits, NEW z \in {2, 3}
  PROVE  /\ Coded(z, u) \in Seq(Nat)
         /\ Len(Coded(z, u)) = z + 2 + Len(u.payload)
         /\ \A i \in 1 .. z : Coded(z, u)[i] = 0
         /\ Coded(z, u)[z + 1] = 1
         /\ Coded(z, u)[z + 2] = Header(u)
         /\ Header(u) \in Nat \ {0}
         /\ \A j \in 1 .. Len(u.payload) : Coded(z, u)[z + 2 + j] = u.payload[j]
<1>. DEFINE p == u.payload
            h == Header(u)
            s == [i \in 1 .. z |-> 0]
<1>1. p \in Seq(Nat) /\ Len(p) \in Nat /\ h \in Nat \ {0}
  <2>1. p \in Seq(Nat) /\ u.type \in 1 .. 31 /\ u.nri \in 0 .. 3
    BY DEF GoodUnits
  <2>2. h = u.type + 32 * u.nri
    BY DEF Header
  <2>3. Len(p) \in Nat
    BY <2>1, LenProperties
  <2>4. h \in Nat \ {0}
    <3>. DEFINE t == u.type
                r == u.nri
    <3>1. t \in 1 .. 31 /\ r \in 0 .. 3 /\ h = t + 32 * r
      BY <2>1, <2>2
    <3>. HIDE DEF t, r, h
    <3>. QED BY <3>1
  <2>. QED BY <2>1, <2>3, <2>4
<1>2. s \in Seq(Nat) /\ Len(s) = z /\ \A i \in 1 .. z : s[i] = 0
  OBVIOUS
<1>3. Coded(z, u) = ((s \o <<1>>) \o <<h>>) \o p
  BY DEF Coded, StartCode
<1>. HIDE DEF p, h, s
<1>4. /\ s \o <<1>> \in Seq(Nat) /\ Len(s \o <<1>>) = z + 1
      /\ \A i \in 1 .. z : (s \o <<1>>)[i] = 0
      /\ (s \o <<1>>)[z + 1] = 1
  BY <1>2
<1>. DEFINE c == s \o <<1>>
<1>. HIDE DEF c
<1>5. /\ c \o <<h>> \in Seq(Nat) /\ Len(c \o <<h>>) = z + 2
      /\ \A i \in 1 .. z : (c \o <<h>>)[i] = 0
      /\ (c \o <<h>>)[z + 1] = 1
      /\ (c \o <<h>>)[z + 2] = h
  <2>1. c \in Seq(Nat) /\ Len(c) = z + 1 /\ (\A i \in 1 .. z : c[i] = 0) /\ c[z + 1] = 1
    BY <1>4 DEF c
  <2>. QED BY <1>1, <2>1
<1>. DEFINE d == c \o <<h>>
<1>. HIDE DEF d
<1>6. /\ d \o p \in Seq(Nat) /\ Len(d \o p) = z + 2 + Len(p)
      /\ \A i \in 1 .. z : (d \o p)[i] = 0
      /\ (d \o p)[z + 1] = 1
      /\ (d \o p)[z + 2] = h
      /\ \A j \in 1 .. Len(p) : (d \o p)[z + 2 + j] = p[j]
  <2>1. d \in Seq(Nat) /\ Len(d) = z + 2 /\ (\A i \in 1 .. z : d[i] = 0) /\ d[z + 1] = 1
        /\ d[z + 2] = h
    BY <1>5 DEF d
  <2>2. /\ d \o p \in Seq(Nat) /\ Len(d \o p) = Len(d) + Len(p)
        /\ \A i \in 1 .. Len(d) + Len(p) :
             (d \o p)[i] = IF i <= Len(d) THEN d[i] ELSE p[i - Len(d)]
    BY <1>1, <2>1, ConcatProperties
  <2>3. \A i \in 1 .. z + 2 : (d \o p)[i] = d[i]
    BY <1>1, <2>1, <2>2
  <2>4. \A j \in 1 .. Len(p) : (d \o p)[z + 2 + j] = p[j]
    <3>. SUFFICES ASSUME NEW j \in 1 .. Len(p) PROVE (d \o p)[z + 2 + j] = p[j]
      OBVIOUS
    <3>1. z + 2 + j \in 1 .. Len(d) + Len(p) /\ ~(z + 2 + j <= Len(d)) /\ (z + 2 + j) - Len(d) = j
      BY <1>1, <2>1
    <3>. QED BY <2>2, <3>1
  <2>. QED BY <2>1, <2>2, <2>3, <2>4
<1>7. Coded(z, u) = d \o p
  BY <1>3 DEF d, c
<1>. QED BY <1>1, <1>6, <1>7 DEF p, h

\* The encoder's output as the flattened sequence of its coded units.
CodedUnits(units) == [i \in DOMAIN units |-> Coded(units[i].zeros, units[i])]

\* Every start code of the output is that of a unit, and the search for it
\* comes out where the unit begins: what is found are the units.
LEMMA ParseIs ==
  ASSUME NEW units \in Seq(GoodUnits)
  PROVE  ParseNalUnits(Stream(units)) = CodedUnits(units)
<1>. DEFINE n == Len(units)
            s == CodedUnits(units)
            b == Stream(units)
            L == Len(b)
            z(k) == units[k].zeros
            p(k) == units[k].payload
            l(k) == Len(units[k].payload)
<1>1. n \in Nat /\ DOMAIN units = 1 .. n /\ \A k \in 1 .. n : units[k] \in GoodUnits
  BY LenProperties
<1>2. \A k \in 1 .. n :
        /\ z(k) \in {2, 3}
        /\ p(k) \in Seq(Nat)
        /\ l(k) \in Nat \ {0}
        /\ p(k)[l(k)] # 0
        /\ \A j \in 1 .. l(k) - 2 : ~(p(k)[j] = 0 /\ p(k)[j + 1] = 0 /\ p(k)[j + 2] = 1)
  <2>. SUFFICES ASSUME NEW u \in GoodUnits
                PROVE  /\ u.zeros \in {2, 3}
                       /\ u.payload \in Seq(Nat)
                       /\ Len(u.payload) \in Nat \ {0}
                       /\ u.payload[Len(u.payload)] # 0
                       /\ \A j \in 1 .. Len(u.payload) - 2 :
                            ~(u.payload[j] = 0 /\ u.payload[j + 1] = 0 /\ u.payload[j + 2] = 1)
    BY <1>1
  <2>1. u.payload \in Seq(Nat) /\ u.payload # <<>>
    BY DEF GoodUnits
  <2>2. Len(u.payload) \in Nat \ {0}
    BY <2>1, EmptySeq
  <2>. QED BY <2>1, <2>2 DEF GoodUnits
<1>3. \A k \in 1 .. n : s[k] = Coded(z(k), units[k])
  BY <1>1 DEF CodedUnits
<1>4. \A k \in 1 .. n :
        /\ s[k] \in Seq(Nat)
        /\ Len(s[k]) = z(k) + 2 + l(k)
        /\ \A i \in 1 .. z(k) : s[k][i] = 0
        /\ s[k][z(k) + 1] = 1
        /\ s[k][z(k) + 2] \in Nat \ {0}
        /\ \A j \in 1 .. l(k) : s[k][z(k) + 2 + j] = p(k)[j]
  <2>. SUFFICES ASSUME NEW k \in 1 .. n
                PROVE  /\ s[k] \in Seq(Nat)
                       /\ Len(s[k]) = z(k) + 2 + l(k)
                       /\ \A i \in 1 .. z(k) : s[k][i] = 0
                       /\ s[k][z(k) + 1] = 1
                       /\ s[k][z(k) + 2] \in Nat \ {0}
                       /\ \A j \in 1 .. l(k) : s[k][z(k) + 2 + j] = p(k)[j]
    OBVIOUS
  <2>1. units[k] \in GoodUnits /\ z(k) \in {2, 3} /\ s[k] = Coded(z(k), units[k])
    BY <1>1, <1>2, <1>3
  <2>. DEFINE u == units[k]
              y == z(k)
              c == Coded(y, u)
  <2>2. u \in GoodUnits /\ y \in {2, 3} /\ s[k] = c
    BY <2>1
  <2>3. p(k) = u.payload /\ l(k) = Len(u.payload)
    OBVIOUS
  <2>. HIDE DEF s, u, y, z, p, l
  <2>4. /\ c \in Seq(Nat)
        /\ Len(c) = y + 2 + Len(u.payload)
        /\ \A i \in 1 .. y : c[i] = 0
        /\ c[y + 1] = 1
        /\ c[y + 2] \in Nat \ {0}
        /\ \A j \in 1 .. Len(u.payload) : c[y + 2 + j] = u.payload[j]
    BY <2>2, CodedIs
  <2>. HIDE DEF c
  <2>. QED BY <2>2, <2>3, <2>4 DEF y
<1>5. s \in Seq(Seq(Nat)) /\ Len(s) = n /\ b = FlattenSeq(s)
  <2>1. s \in [1 .. n -> Seq(Nat)]
    BY <1>1, <1>4 DEF CodedUnits
  <2>2. b = FlattenSeq(s)
    BY DEF Stream, CodedUnits, Coded
  <2>. HIDE DEF s
  <2>. QED BY <1>1, <2>1, <2>2
<1>6. PICK off : Offsets(off, s)
  BY <1>5, OffsetsExist
<1>. HIDE DEF n, s, b
<1>7. /\ off \in [0 .. n -> Nat]
      /\ off[0] = 0
      /\ \A k \in 1 .. n : off[k] = off[k - 1] + Len(s[k])
      /\ off[n] = L
      /\ \A k \in 1 .. n : \A i \in 1 .. Len(s[k]) : b[off[k - 1] + i] = s[k][i]
      /\ \A q \in 1 .. L : \E k \in 1 .. n : \E i \in 1 .. Len(s[k]) : q = off[k - 1] + i
  BY <1>5, <1>6 DEF Offsets
<1>8. b \in Seq(Nat) /\ L \in Nat
  <2>1. b \in Seq(Nat)
    BY <1>5, FlattenType
  <2>. QED BY <2>1, LenProperties
<1>. HIDE DEF z, p, l, L
\* Where each unit begins and ends in the output, and what it is.
<1>9. \A k \in 1 .. n :
        /\ off[k - 1] \in Nat /\ off[k] \in Nat
        /\ off[k] = off[k - 1] + z(k) + 2 + l(k)
        /\ off[k] <= L
        /\ off[k - 1] < off[k]
  <2>1. \A k \in 1 .. n : off[k - 1] \in Nat /\ off[k] \in Nat
    <3>1. \A k \in 1 .. n : k - 1 \in 0 .. n /\ k \in 0 .. n
      BY <1>1
    <3>. QED BY <1>7, <3>1
  <2>2. \A k \in 1 .. n : off[k] = off[k - 1] + z(k) + 2 + l(k)
    <3>. SUFFICES ASSUME NEW k \in 1 .. n PROVE off[k] = off[k - 1] + z(k) + 2 + l(k)
      OBVIOUS
    <3>1. off[k] = off[k - 1] + Len(s[k]) /\ Len(s[k]) = z(k) + 2 + l(k)
      BY <1>4, <1>7
    <3>2. off[k - 1] \in Nat /\ z(k) \in Nat /\ l(k) \in Nat
      BY <1>2, <2>1
    <3>. HIDE DEF z, l
    <3>. QED BY <3>1, <3>2
  <2>3. \A k \in 1 .. n : off[k - 1] < off[k] /\ off[k - 1] <= off[k]
    <3>. SUFFICES ASSUME NEW k \in 1 .. n PROVE off[k - 1] < off[k] /\ off[k - 1] <= off[k]
      OBVIOUS
    <3>1. off[k] = off[k - 1] + z(k) + 2 + l(k) /\ off[k - 1] \in Nat
      BY <2>1, <2>2
    <3>2. z(k) \in {2, 3} /\ l(k) \in Nat
      BY <1>2
    <3>. QED BY <3>1, <3>2
  <2>4. \A i, j \in 0 .. n : i <= j => off[i] <= off[j]
    BY <1>1, <1>7, <2>3, Rises
  <2>5. \A k \in 1 .. n : off[k] <= L
    BY <1>1, <1>7, <2>4
  <2>. QED BY <2>1, <2>2, <2>3, <2>5
<1>10. ASSUME NEW k \in 1 .. n
       PROVE  /\ \A i \in 1 .. z(k) : b[off[k - 1] + i] = 0
              /\ b[off[k - 1] + (z(k) + 1)] = 1
              /\ b[off[k - 1] + (z(k) + 2)] # 0
              /\ \A j \in 1 .. l(k) : b[off[k - 1] + (z(k) + 2 + j)] = p(k)[j]
              /\ b[off[k]] # 0
  <2>1. \A i \in 1 .. z(k) + 2 + l(k) : b[off[k - 1] + i] = s[k][i]
    BY <1>4, <1>7
  <2>2. z(k) \in {2, 3} /\ l(k) \in Nat \ {0}
    BY <1>2
  <2>3. \A i \in 1 .. z(k) : b[off[k - 1] + i] = 0
    <3>. SUFFICES ASSUME NEW i \in 1 .. z(k) PROVE b[off[k - 1] + i] = 0
      OBVIOUS
    <3>1. i \in 1 .. z(k) + 2 + l(k)
      BY <2>2
    <3>. QED BY <1>4, <2>1, <3>1
  <2>4. b[off[k - 1] + (z(k) + 1)] = 1 /\ b[off[k - 1] + (z(k) + 2)] # 0
    <3>1. z(k) + 1 \in 1 .. z(k) + 2 + l(k) /\ z(k) + 2 \in 1 .. z(k) + 2 + l(k)
      BY <2>2
    <3>. QED BY <1>4, <2>1, <3>1
  <2>5. \A j \in 1 .. l(k) : b[off[k - 1] + (z(k) + 2 + j)] = p(k)[j]
    <3>. SUFFICES ASSUME NEW j \in 1 .. l(k) PROVE b[off[k - 1] + (z(k) + 2 + j)] = p(k)[j]
      OBVIOUS
    <3>1. z(k) + 2 + j \in 1 .. z(k) + 2 + l(k)
      BY <2>2
    <3>. QED BY <1>4, <2>1, <3>1
  <2>6. b[off[k]] # 0
    <3>1. l(k) \in 1 .. l(k)
      BY <2>2
    <3>2. off[k - 1] \in Nat /\ off[k] = off[k - 1] + z(k) + 2 + l(k)
      BY <1>9
    <3>3. off[k] = off[k - 1] + (z(k) + 2 + l(k))
      BY <2>2, <3>2
    <3>. QED BY <1>2, <2>5, <3>1, <3>3
  <2>. QED BY <2>3, <2>4, <2>5, <2>6
<1>11. ASSUME NEW k \in 1 .. n
       PROVE  /\ off[k - 1] + z(k) - 1 \in 1 .. L
              /\ StartCodeAt(b, off[k - 1] + z(k) - 1)
              /\ Found(b, off[k - 1] + z(k) - 1) = off[k - 1] + 1
  <2>. DEFINE o == off[k - 1]
              y == z(k)
              i == o + y - 1
  <2>1. o \in Nat /\ y \in {2, 3} /\ l(k) \in Nat /\ off[k] = o + y + 2 + l(k) /\ off[k] <= L
    BY <1>2, <1>9
  <2>2. i + 2 <= L /\ i \in 1 .. L
    <3>1. L \in Nat /\ off[k] \in Nat /\ o + y + 2 <= off[k]
      BY <1>8, <2>1
    <3>. HIDE DEF o, y
    <3>. QED BY <2>1, <3>1
  <2>3. i = o + (y - 1) /\ i + 1 = o + y /\ i + 2 = o + (y + 1) /\ i - 1 = o + (y - 2)
        /\ y - 1 \in 1 .. y /\ y \in 1 .. y
    <3>1. o \in Nat /\ y \in {2, 3}
      BY <2>1
    <3>. HIDE DEF o, y
    <3>. QED BY <3>1
  <2>4. b[i] = 0 /\ b[i + 1] = 0 /\ b[i + 2] = 1
    BY <1>10, <2>3
  <2>5. StartCodeAt(b, i)
    BY <2>2, <2>4 DEF StartCodeAt, L
  <2>6. CASE y = 3
    <3>1. i > 1 /\ i - 1 = o + 1 /\ 1 \in 1 .. y
      BY <2>1, <2>6
    <3>2. b[i - 1] = 0
      BY <1>10, <3>1
    <3>. QED BY <2>2, <2>5, <3>1, <3>2 DEF Found
  <2>7. CASE y = 2 /\ o = 0
    <3>1. i = 1
      BY <2>7
    <3>. QED BY <2>2, <2>5, <2>7, <3>1 DEF Found
  <2>8. CASE y = 2 /\ o # 0
    <3>1. i = o + 1 /\ i - 1 = o
      BY <2>1, <2>8
    <3>2. k - 1 \in 1 .. n
      BY <1>1, <1>7, <2>8
    <3>3. b[o] # 0
      BY <3>2, <1>10
    <3>. QED BY <2>2, <2>5, <3>1, <3>3 DEF Found
  <2>. QED BY <2>1, <2>6, <2>7, <2>8
<1>12. ASSUME NEW i \in 1 .. L, StartCodeAt(b, i)
       PROVE  \E k \in 1 .. n : i = off[k - 1] + z(k) - 1
  <2>1. PICK k \in 1 .. n : \E m \in 1 .. Len(s[k]) : i = off[k - 1] + m
    BY <1>7
  <2>2. PICK m \in 1 .. Len(s[k]) : i = off[k - 1] + m
    BY <2>1
  <2>. DEFINE o == off[k - 1]
              y == z(k)
              e == l(k)
              c == p(k)
  <2>3. /\ o \in Nat /\ y \in {2, 3} /\ e \in Nat \ {0} /\ m \in 1 .. y + 2 + e /\ i = o + m
        /\ c[e] # 0
        /\ \A j \in 1 .. e - 2 : ~(c[j] = 0 /\ c[j + 1] = 0 /\ c[j + 2] = 1)
    BY <1>2, <1>4, <1>9, <2>2
  <2>4. /\ \A j \in 1 .. y : b[o + j] = 0
        /\ b[o + (y + 1)] = 1
        /\ b[o + (y + 2)] # 0
        /\ \A j \in 1 .. e : b[o + (y + 2 + j)] = c[j]
    BY <1>10
  <2>5. b[i] = 0 /\ b[i + 1] = 0 /\ b[i + 2] = 1
    BY <1>12 DEF StartCodeAt
  <2>. HIDE DEF o, y, e, c
  <2>6. m # y + 1 /\ m # y + 2
    BY <2>3, <2>4, <2>5
  <2>7. m # y
    <3>1. m = y => i + 1 = o + (y + 1)
      BY <2>3
    <3>. QED BY <2>4, <2>5, <3>1
  <2>8. ~(m < y - 1)
    <3>. SUFFICES ASSUME m < y - 1 PROVE FALSE
      OBVIOUS
    <3>1. y = 3 /\ m = 1 /\ i + 2 = o + 3 /\ 3 \in 1 .. y
      BY <2>3
    <3>2. b[o + 3] = 0
      BY <2>4, <3>1
    <3>. QED BY <2>5, <3>1, <3>2
  <2>9. ~(m > y + 2)
    <3>. SUFFICES ASSUME m > y + 2 PROVE FALSE
      OBVIOUS
    <3>. DEFINE j == m - y - 2
    <3>1. j \in 1 .. e /\ i = o + (y + 2 + j) /\ i + 1 = o + (y + 2 + (j + 1))
          /\ i + 2 = o + (y + 2 + (j + 2))
      BY <2>3
    <3>. HIDE DEF j
    <3>2. c[j] = 0
      BY <2>4, <2>5, <3>1
    <3>3. j # e
      BY <2>3, <3>2
    <3>4. j + 1 \in 1 .. e
      BY <2>3, <3>1, <3>3
    <3>5. c[j + 1] = 0
      BY <2>4, <2>5, <3>1, <3>4
    <3>6. j + 1 # e
      BY <2>3, <3>5
    <3>7. j + 2 \in 1 .. e /\ j \in 1 .. e - 2
      BY <2>3, <3>1, <3>4, <3>6
    <3>8. c[j + 2] = 1
      BY <2>4, <2>5, <3>1, <3>7
    <3>. QED BY <2>3, <3>2, <3>5, <3>7, <3>8
  <2>10. m = y - 1
    BY <2>3, <2>6, <2>7, <2>8, <2>9
  <2>11. i = o + y - 1
    BY <2>3, <2>10
  <2>. QED BY <2>11 DEF o, y
<1>. DEFINE at == {Found(b, i) : i \in {j \in DOMAIN b : StartCodeAt(b, j)}}
            g == [k \in 1 .. n |-> off[k - 1] + 1]
<1>13. DOMAIN b = 1 .. L
  BY <1>8, LenProperties DEF L
<1>14. at = {off[k - 1] + 1 : k \in 1 .. n}
  <2>1. ASSUME NEW x \in at PROVE \E k \in 1 .. n : x = off[k - 1] + 1
    <3>1. PICK i \in 1 .. L : StartCodeAt(b, i) /\ x = Found(b, i)
      BY <1>13
    <3>2. PICK k \in 1 .. n : i = off[k - 1] + z(k) - 1
      BY <3>1, <1>12
    <3>. QED BY <3>1, <3>2, <1>11
  <2>2. ASSUME NEW k \in 1 .. n PROVE off[k - 1] + 1 \in at
    BY <1>11, <1>13
  <2>. QED BY <2>1, <2>2
<1>. HIDE DEF at
<1>15. /\ at \in SUBSET Nat
       /\ g \in [1 .. n -> at]
       /\ Rising(g)
       /\ \A x \in at : \E k \in 1 .. n : x = g[k]
  <2>1. at \in SUBSET Nat
    BY <1>9, <1>14
  <2>2. g \in [1 .. n -> at] /\ \A x \in at : \E k \in 1 .. n : x = g[k]
    BY <1>14
  <2>3. ASSUME NEW i \in 1 .. n, NEW j \in 1 .. n, i < j PROVE g[i] < g[j]
    <3>1. \A k \in 1 .. n : off[k - 1] <= off[k]
      BY <1>9
    <3>2. \A x, y \in 0 .. n : x <= y => off[x] <= off[y]
      BY <1>1, <1>7, <3>1, Rises
    <3>3. off[i] <= off[j - 1]
      <4>1. i \in 0 .. n /\ j - 1 \in 0 .. n /\ i <= j - 1
        BY <1>1, <2>3
      <4>. QED BY <3>2, <4>1
    <3>4. off[i - 1] \in Nat /\ off[i] \in Nat /\ off[j - 1] \in Nat /\ off[i - 1] < off[i]
      BY <1>9
    <3>. QED BY <3>3, <3>4
  <2>4. Rising(g)
    BY <2>3 DEF Rising
  <2>. QED BY <2>1, <2>2, <2>4
<1>16. Starts(b) = g
  <2>1. (CHOOSE q \in [1 .. Cardinality(at) -> at] :
           \A i, j \in DOMAIN q : i < j => q[i] < q[j]) = g
    <3>. HIDE DEF g
    <3>. QED BY <1>1, <1>15, RisingChosen
  <2>. QED BY <2>1 DEF Starts, at
<1>17. DOMAIN g = 1 .. n /\ Len(g) = n
  <2>1. g \in [1 .. n -> Nat]
    BY <1>15
  <2>. HIDE DEF g
  <2>. QED BY <1>1, <2>1
<1>18. \A k \in 1 .. n : SubSeq(b, g[k], IF k < n THEN g[k + 1] - 1 ELSE L) = s[k]
  <2>. SUFFICES ASSUME NEW k \in 1 .. n
                PROVE  SubSeq(b, g[k], IF k < n THEN g[k + 1] - 1 ELSE L) = s[k]
    OBVIOUS
  <2>1. (IF k < n THEN g[k + 1] - 1 ELSE L) = off[k]
    <3>1. CASE k < n
      <4>1. k + 1 \in 1 .. n /\ (k + 1) - 1 = k /\ off[k] \in Nat
        BY <1>1, <1>9, <3>1
      <4>2. g[k + 1] = off[k] + 1
        BY <4>1
      <4>. QED BY <3>1, <4>1, <4>2
    <3>2. CASE ~(k < n)
      <4>1. k = n
        BY <1>1, <3>2
      <4>. QED BY <1>7, <3>2, <4>1
    <3>. QED BY <3>1, <3>2
  <2>2. g[k] = off[k - 1] + 1
    OBVIOUS
  <2>. DEFINE o == off[k - 1]
              e == off[k]
  <2>3. o \in Nat /\ e \in Nat /\ e = o + Len(s[k]) /\ e <= L /\ Len(s[k]) \in Nat
        /\ s[k] \in Seq(Nat)
    BY <1>4, <1>7, <1>9, LenProperties
  <2>4. \A i \in 1 .. Len(s[k]) : b[o + i] = s[k][i]
    BY <1>7
  <2>. HIDE DEF o, e
  <2>5. \A i \in o + 1 .. e : b[i] \in Nat
    <3>1. \A i \in o + 1 .. e : i \in 1 .. L
      BY <1>8, <2>3
    <3>. QED BY <1>8, <3>1, ElementOfSeq DEF L
  <2>6. /\ SubSeq(b, o + 1, e) \in Seq(Nat)
        /\ Len(SubSeq(b, o + 1, e)) = Len(s[k])
        /\ \A i \in 1 .. Len(s[k]) : SubSeq(b, o + 1, e)[i] = b[o + i]
    <3>1. o + 1 \in Int /\ e \in Int /\ e - (o + 1) + 1 = Len(s[k])
          /\ (IF o + 1 <= e THEN e - (o + 1) + 1 ELSE 0) = Len(s[k])
      BY <2>3
    <3>2. \A i \in 1 .. Len(s[k]) : (o + 1) + i - 1 = o + i
      BY <2>3
    <3>3. /\ SubSeq(b, o + 1, e) \in Seq(Nat)
          /\ Len(SubSeq(b, o + 1, e)) = IF o + 1 <= e THEN e - (o + 1) + 1 ELSE 0
          /\ \A i \in 1 .. e - (o + 1) + 1 : SubSeq(b, o + 1, e)[i] = b[(o + 1) + i - 1]
      BY <2>5, <3>1, SubSeqProperties
    <3>. QED BY <3>1, <3>2, <3>3
  <2>7. SubSeq(b, o + 1, e) = s[k]
    BY <2>3, <2>4, <2>6, SeqEqual
  <2>. QED BY <2>1, <2>2, <2>7 DEF o, e
<1>19. ParseNalUnits(b) = [k \in 1 .. n |-> SubSeq(b, g[k], IF k < n THEN g[k + 1] - 1 ELSE L)]
  <2>. HIDE DEF g
  <2>. QED BY <1>16, <1>17 DEF ParseNalUnits, L
<1>20. ParseNalUnits(b) = [k \in 1 .. n |-> s[k]]
  BY <1>18, <1>19
<1>21. s = [k \in 1 .. n |-> s[k]]
  BY <1>1 DEF s, CodedUnits
<1>. QED BY <1>20, <1>21 DEF b, s

-----------------------------------------------------------------------------
(* A unit in packets.                                                      *)

Packets == [fu : BOOLEAN, type : 1 .. 31, nri : 0 .. 3, start : BOOLEAN,
            data : Seq(Nat), m : BOOLEAN]

\* What is sent of a unit: its header and its payload.
Nal(u) == <<Header(u)>> \o u.payload

\* A unit without its start code has the header first, whose fields are those
\* of the unit, and then the payload.
LEMMA NalIs ==
  ASSUME NEW u \in GoodUnits
  PROVE  /\ Nal(u) \in Seq(Nat)
         /\ Len(Nal(u)) = Len(u.payload) + 1
         /\ Nal(u)[1] = Header(u)
         /\ Tail(Nal(u)) = u.payload
         /\ u.payload \in Seq(Nat)
         /\ Len(u.payload) \in Nat \ {0}
         /\ u.type \in 1 .. 31 /\ u.nri \in 0 .. 3 /\ u.zeros \in {2, 3}
         /\ Header(u) % 32 = u.type
         /\ (Header(u) \div 32) % 4 = u.nri
         /\ Header(u) \in Nat
<1>. DEFINE p == u.payload
            h == Header(u)
<1>1. p \in Seq(Nat) /\ p # <<>> /\ u.type \in 1 .. 31 /\ u.nri \in 0 .. 3 /\ u.zeros \in {2, 3}
  BY DEF GoodUnits
<1>2. Len(p) \in Nat \ {0}
  BY <1>1, EmptySeq
<1>3. h \in Nat /\ h % 32 = u.type /\ (h \div 32) % 4 = u.nri
  <2>1. \A a \in 1 .. 31, c \in 0 .. 3 :
          /\ a + 32 * c \in Nat
          /\ (a + 32 * c) % 32 = a
          /\ ((a + 32 * c) \div 32) % 4 = c
    BY Z3
  <2>. QED BY <1>1, <2>1 DEF Header
<1>. HIDE DEF p, h
<1>4. /\ <<h>> \o p \in Seq(Nat)
      /\ Len(<<h>> \o p) = Len(p) + 1
      /\ (<<h>> \o p)[1] = h
      /\ Tail(<<h>> \o p) = p
  <2>1. <<h>> \in Seq(Nat) /\ Len(<<h>>) = 1
    BY <1>3
  <2>2. /\ <<h>> \o p \in Seq(Nat)
        /\ Len(<<h>> \o p) = 1 + Len(p)
        /\ \A i \in 1 .. 1 + Len(p) : (<<h>> \o p)[i] = IF i <= 1 THEN <<h>>[i] ELSE p[i - 1]
    BY <1>1, <2>1, ConcatProperties
  <2>. DEFINE c == <<h>> \o p
  <2>. HIDE DEF c
  <2>3. c \in Seq(Nat) /\ Len(c) = 1 + Len(p) /\ c # <<>>
    BY <1>2, <2>2 DEF c
  <2>4. \A i \in 1 .. Len(p) : c[i + 1] = p[i]
    <3>. SUFFICES ASSUME NEW i \in 1 .. Len(p) PROVE c[i + 1] = p[i]
      OBVIOUS
    <3>1. i + 1 \in 1 .. 1 + Len(p) /\ ~(i + 1 <= 1) /\ (i + 1) - 1 = i
      BY <1>2
    <3>. QED BY <2>2, <3>1 DEF c
  <2>5. /\ Tail(c) \in Seq(Nat) /\ Len(Tail(c)) = Len(p)
        /\ \A i \in 1 .. Len(p) : Tail(c)[i] = p[i]
    <3>1. /\ Tail(c) \in Seq(Nat) /\ Len(Tail(c)) = Len(c) - 1
          /\ \A i \in 1 .. Len(Tail(c)) : Tail(c)[i] = c[i + 1]
      BY <2>3, HeadTailProperties
    <3>. QED BY <1>2, <2>3, <2>4, <3>1
  <2>6. Tail(c) = p
    BY <1>1, <2>5, SeqEqual
  <2>7. c[1] = h
    BY <1>2, <2>2 DEF c
  <2>. QED BY <1>2, <2>3, <2>6, <2>7 DEF c
<1>. QED BY <1>1, <1>2, <1>3, <1>4 DEF p, h, Nal

\* The sender leaves out the start code, however long, and nothing else.
LEMMA AfterIs ==
  ASSUME NEW u \in GoodUnits, NEW z \in {2, 3}
  PROVE  AfterStartCode(Coded(z, u)) = Nal(u)
<1>. DEFINE c == Coded(z, u)
            l == Len(u.payload)
            one == CHOOSE i \in DOMAIN c : c[i] # 0 /\ \A j \in 1 .. i - 1 : c[j] = 0
<1>1. /\ c \in Seq(Nat) /\ Len(c) = z + 2 + l
      /\ \A i \in 1 .. z : c[i] = 0
      /\ c[z + 1] = 1
      /\ c[z + 2] = Header(u)
      /\ \A j \in 1 .. l : c[z + 2 + j] = u.payload[j]
  BY CodedIs
<1>2. l \in Nat \ {0} /\ u.payload \in Seq(Nat) /\ Nal(u) \in Seq(Nat) /\ Len(Nal(u)) = l + 1
      /\ Nal(u)[1] = Header(u) /\ Tail(Nal(u)) = u.payload
  BY NalIs
<1>. HIDE DEF c, l
<1>3. DOMAIN c = 1 .. z + 2 + l
  BY <1>1, LenProperties
<1>4. one = z + 1
  <2>1. z + 1 \in DOMAIN c /\ c[z + 1] # 0 /\ \A j \in 1 .. (z + 1) - 1 : c[j] = 0
    <3>1. z + 1 \in 1 .. z + 2 + l /\ (z + 1) - 1 = z
      BY <1>2
    <3>2. \A j \in 1 .. (z + 1) - 1 : c[j] = 0
      BY <1>1, <3>1, Zenon
    <3>3. c[z + 1] # 0
      <4>1. c[z + 1] = 1
        BY <1>1
      <4>. QED BY <4>1
    <3>. QED BY <1>3, <3>1, <3>2, <3>3, Zenon
  <2>2. one \in DOMAIN c /\ c[one] # 0 /\ \A j \in 1 .. one - 1 : c[j] = 0
    BY <2>1
  <2>. HIDE DEF one
  <2>3. ~(one < z + 1)
    BY <1>1, <1>3, <2>2
  <2>4. ~(z + 1 < one)
    <3>1. z + 1 < one => z + 1 \in 1 .. one - 1
      BY <1>2, <1>3, <2>2
    <3>. QED BY <1>1, <2>2, <3>1
  <2>. QED BY <1>2, <1>3, <2>2, <2>3, <2>4
<1>5. AfterStartCode(c) = SubSeq(c, z + 2, z + 2 + l)
  <2>1. AfterStartCode(c) = SubSeq(c, one + 1, Len(c))
    BY DEF AfterStartCode
  <2>2. one + 1 = z + 2
    <3>. HIDE DEF one
    <3>. QED BY <1>4
  <2>. QED BY <1>1, <2>1, <2>2
<1>6. \A i \in z + 2 .. z + 2 + l : c[i] \in Nat
  <2>1. \A i \in z + 2 .. z + 2 + l : i \in 1 .. Len(c)
    BY <1>1, <1>2
  <2>. QED BY <1>1, <2>1, ElementOfSeq
<1>7. /\ SubSeq(c, z + 2, z + 2 + l) \in Seq(Nat)
      /\ Len(SubSeq(c, z + 2, z + 2 + l)) = l + 1
      /\ \A i \in 1 .. l + 1 : SubSeq(c, z + 2, z + 2 + l)[i] = c[z + 1 + i]
  <2>1. z + 2 \in Int /\ z + 2 + l \in Int /\ (z + 2 + l) - (z + 2) + 1 = l + 1 /\ z + 2 <= z + 2 + l
    BY <1>2
  <2>2. \A i \in 1 .. l + 1 : (z + 2) + i - 1 = z + 1 + i
    BY <1>2
  <2>3. /\ SubSeq(c, z + 2, z + 2 + l) \in Seq(Nat)
        /\ Len(SubSeq(c, z + 2, z + 2 + l))
             = IF z + 2 <= z + 2 + l THEN (z + 2 + l) - (z + 2) + 1 ELSE 0
        /\ \A i \in 1 .. (z + 2 + l) - (z + 2) + 1 :
             SubSeq(c, z + 2, z + 2 + l)[i] = c[(z + 2) + i - 1]
    BY <1>6, <2>1, SubSeqProperties
  <2>. QED BY <2>1, <2>2, <2>3
<1>8. \A i \in 1 .. l + 1 : c[z + 1 + i] = Nal(u)[i]
  <2>. SUFFICES ASSUME NEW i \in 1 .. l + 1 PROVE c[z + 1 + i] = Nal(u)[i]
    OBVIOUS
  <2>1. CASE i = 1
    <3>1. z + 1 + i = z + 2
      BY <2>1
    <3>. QED BY <1>1, <1>2, <2>1, <3>1
  <2>2. CASE i # 1
    <3>1. i - 1 \in 1 .. l /\ z + 1 + i = z + 2 + (i - 1) /\ i = (i - 1) + 1
      BY <1>2, <2>2
    <3>2. c[z + 1 + i] = u.payload[i - 1]
      BY <1>1, <3>1
    <3>3. Nal(u) # <<>> /\ Len(Tail(Nal(u))) = l
      <4>1. Len(Nal(u)) # 0
        BY <1>2
      <4>. QED BY <1>2, <4>1, EmptySeq DEF l
    <3>4. Tail(Nal(u))[i - 1] = Nal(u)[(i - 1) + 1]
      BY <1>2, <3>1, <3>3, HeadTailProperties
    <3>. QED BY <1>2, <3>1, <3>2, <3>4
  <2>. QED BY <2>1, <2>2
<1>9. SubSeq(c, z + 2, z + 2 + l) = Nal(u)
  BY <1>2, <1>7, <1>8, SeqEqual
<1>. QED BY <1>5, <1>9 DEF c

\* A unit that goes in one packet.
LEMMA SingleIs ==
  ASSUME NEW u \in GoodUnits
  PROVE  /\ Single(Nal(u)) =
              <<[fu |-> FALSE, type |-> u.type, nri |-> u.nri, start |-> TRUE,
                 data |-> u.payload, m |-> FALSE]>>
         /\ Single(Nal(u)) \in Seq(Packets)
<1>1. Single(Nal(u)) =
        <<[fu |-> FALSE, type |-> u.type, nri |-> u.nri, start |-> TRUE,
           data |-> u.payload, m |-> FALSE]>>
  BY NalIs DEF Single
<1>2. [fu |-> FALSE, type |-> u.type, nri |-> u.nri, start |-> TRUE,
       data |-> u.payload, m |-> FALSE] \in Packets
  BY NalIs DEF Packets
<1>. QED BY <1>1, <1>2

\* Where the j-th of the pieces of a payload ends, of which all but the last
\* are full.
PieceEnd(payload, full, j) == IF j <= full THEN j * FragmentSize ELSE Len(payload)

\* A unit that goes in fragments: what is in each, and that each one fits.
LEMMA FragmentsAre ==
  ASSUME NEW u \in GoodUnits
  PROVE  \E full \in Nat :
           /\ Fragments(Nal(u)) \in Seq(Packets)
           /\ Len(Fragments(Nal(u))) = full + 1
           /\ full * FragmentSize < Len(u.payload)
           /\ full = 0 => Len(u.payload) <= FragmentSize
           /\ \A j \in 1 .. full + 1 :
                /\ Fragments(Nal(u))[j] =
                     [fu |-> TRUE, type |-> u.type, nri |-> u.nri, start |-> j = 1 /\ j <= full,
                      data |-> SubSeq(u.payload, (j - 1) * FragmentSize + 1,
                                      PieceEnd(u.payload, full, j)),
                      m |-> FALSE]
                /\ (j - 1) * FragmentSize \in Nat
                /\ (j - 1) * FragmentSize < PieceEnd(u.payload, full, j)
                /\ PieceEnd(u.payload, full, j) <= (j - 1) * FragmentSize + FragmentSize
                /\ PieceEnd(u.payload, full, j) \in 1 .. Len(u.payload)
<1>. DEFINE p == u.payload
            L == Len(p)
            F == FragmentSize
            full == (L - 1) \div F
            e(j) == PieceEnd(p, full, j)
            s == Fragments(Nal(u))
<1>1. p \in Seq(Nat) /\ L \in Nat \ {0} /\ u.type \in 1 .. 31 /\ u.nri \in 0 .. 3
  BY NalIs
<1>2. F \in Nat \ {0}
  BY TransportAssumption DEF FragmentSize
<1>3. s = [j \in 1 .. full + 1 |->
             [fu |-> TRUE, type |-> u.type, nri |-> u.nri, start |-> j = 1 /\ j <= full,
              data |-> SubSeq(p, (j - 1) * F + 1, e(j)), m |-> FALSE]]
  <2>1. Tail(Nal(u)) = p /\ Nal(u)[1] % 32 = u.type /\ (Nal(u)[1] \div 32) % 4 = u.nri
    BY NalIs
  <2>. QED BY <2>1 DEF Fragments, PieceEnd
<1>. HIDE DEF p, s
<1>4. full \in Nat /\ full * F <= L - 1 /\ L - 1 < full * F + F
  <2>. HIDE DEF L, F
  <2>1. L - 1 \in Nat
    BY <1>1
  <2>. QED BY <1>2, <2>1
<1>. HIDE DEF full
<1>5. ASSUME NEW j \in 1 .. full + 1
      PROVE  /\ (j - 1) * F \in Nat
             /\ (j - 1) * F < e(j)
             /\ e(j) <= (j - 1) * F + F
             /\ e(j) \in 1 .. L
  <2>. HIDE DEF L, F
  <2>1. (j - 1) * F \in Nat /\ j * F = (j - 1) * F + F
    <3>1. \A i \in Nat : i * F \in Nat /\ (i + 1) * F = i * F + F
      BY <1>2
    <3>2. j - 1 \in Nat /\ (j - 1) + 1 = j
      BY <1>4
    <3>. QED BY <3>1, <3>2
  <2>2. CASE j <= full
    <3>1. j * F <= full * F /\ full * F \in Nat
      BY <1>2, <1>4, <2>2
    <3>2. e(j) = j * F
      BY <2>2 DEF PieceEnd, F
    <3>. QED BY <1>1, <1>2, <1>4, <2>1, <3>1, <3>2
  <2>3. CASE ~(j <= full)
    <3>1. j - 1 = full
      BY <1>4, <2>3
    <3>2. e(j) = L
      BY <2>3 DEF PieceEnd, L
    <3>. QED BY <1>1, <1>2, <1>4, <2>1, <3>1, <3>2
  <2>. QED BY <2>2, <2>3
<1>6. ASSUME NEW j \in 1 .. full + 1 PROVE SubSeq(p, (j - 1) * F + 1, e(j)) \in Seq(Nat)
  <2>. DEFINE a == (j - 1) * F + 1
              c == e(j)
  <2>1. a \in Int /\ c \in Int /\ a >= 1 /\ c <= L
    BY <1>5
  <2>. HIDE DEF a, c
  <2>2. \A i \in a .. c : p[i] \in Nat
    <3>1. \A i \in a .. c : i \in 1 .. L
      BY <1>1, <2>1
    <3>. QED BY <1>1, <3>1, ElementOfSeq
  <2>3. SubSeq(p, a, c) \in Seq(Nat)
    BY <2>1, <2>2, SubSeqProperties
  <2>. QED BY <2>3 DEF a, c
<1>7. s \in [1 .. full + 1 -> Packets]
  <2>1. ASSUME NEW j \in 1 .. full + 1
        PROVE  [fu |-> TRUE, type |-> u.type, nri |-> u.nri, start |-> j = 1 /\ j <= full,
                data |-> SubSeq(p, (j - 1) * F + 1, e(j)), m |-> FALSE] \in Packets
    BY <1>1, <1>6 DEF Packets
  <2>. QED BY <1>3, <2>1
<1>8. s \in Seq(Packets) /\ Len(s) = full + 1
  BY <1>4, <1>7
<1>9. full = 0 => L <= F
  <2>. HIDE DEF L, F
  <2>. QED BY <1>1, <1>2, <1>4
<1>10. full * F < L
  <2>. HIDE DEF L, F
  <2>1. full * F \in Nat
    BY <1>2, <1>4
  <2>. QED BY <1>1, <1>4, <2>1
<1>11. \A j \in 1 .. full + 1 : s[j] =
         [fu |-> TRUE, type |-> u.type, nri |-> u.nri, start |-> j = 1 /\ j <= full,
          data |-> SubSeq(p, (j - 1) * F + 1, e(j)), m |-> FALSE]
  BY <1>3
<1>. QED BY <1>4, <1>5, <1>8, <1>9, <1>10, <1>11 DEF p, s

\* The packets of a unit.
Sent(u) == Packetized(Coded(u.zeros, u))

\* A unit is cut into fragments when it and its start code do not fit.
LEMMA SentIs ==
  ASSUME NEW u \in GoodUnits
  PROVE  /\ u.zeros + 2 + Len(u.payload) > MaxSize => Sent(u) = Fragments(Nal(u))
         /\ u.zeros + 2 + Len(u.payload) <= MaxSize => Sent(u) = Single(Nal(u))
<1>1. u.zeros \in {2, 3} /\ Len(u.payload) \in Nat
  BY NalIs
<1>2. Len(Coded(u.zeros, u)) = u.zeros + 2 + Len(u.payload)
      /\ AfterStartCode(Coded(u.zeros, u)) = Nal(u)
  BY <1>1, CodedIs, AfterIs
<1>3. Sent(u) = IF u.zeros + 2 + Len(u.payload) > MaxSize THEN Fragments(Nal(u)) ELSE Single(Nal(u))
  BY <1>2 DEF Sent, Packetized
<1>. DEFINE t == u.zeros + 2 + Len(u.payload)
<1>4. t \in Nat /\ MaxSize \in Nat
  <2>1. \A z \in {2, 3}, l \in Nat : z + 2 + l \in Nat
    OBVIOUS
  <2>. QED BY <1>1, <2>1, TransportAssumption
<1>5. t <= MaxSize => ~(t > MaxSize)
  <2>. HIDE DEF t
  <2>. QED BY <1>4
<1>. QED BY <1>3, <1>5

\* Every packet of a unit fits, tells what the unit is, and is not marked yet.
LEMMA SentFits ==
  ASSUME NEW u \in GoodUnits
  PROVE  /\ Sent(u) \in Seq(Packets)
         /\ Len(Sent(u)) \in Nat \ {0}
         /\ \A i \in 1 .. Len(Sent(u)) :
              /\ Size(Sent(u)[i]) <= MaxSize
              /\ ~Sent(u)[i].m
              /\ Sent(u)[i].type = u.type
              /\ Sent(u)[i].nri = u.nri
              /\ ~Sent(u)[i].fu => /\ u.zeros + 2 + Len(u.payload) <= MaxSize
<1>1. u.zeros \in {2, 3} /\ Len(u.payload) \in Nat /\ u.payload \in Seq(Nat)
  BY NalIs
<1>2. CASE u.zeros + 2 + Len(u.payload) > MaxSize
  <2>1. Sent(u) = Fragments(Nal(u))
    BY <1>2, SentIs
  <2>. DEFINE s == Fragments(Nal(u))
              F == FragmentSize
  <2>2. PICK full \in Nat :
           /\ s \in Seq(Packets)
           /\ Len(s) = full + 1
           /\ \A j \in 1 .. full + 1 :
                /\ s[j] =
                     [fu |-> TRUE, type |-> u.type, nri |-> u.nri, start |-> j = 1 /\ j <= full,
                      data |-> SubSeq(u.payload, (j - 1) * F + 1, PieceEnd(u.payload, full, j)),
                      m |-> FALSE]
                /\ (j - 1) * F \in Nat
                /\ (j - 1) * F < PieceEnd(u.payload, full, j)
                /\ PieceEnd(u.payload, full, j) <= (j - 1) * F + F
                /\ PieceEnd(u.payload, full, j) \in 1 .. Len(u.payload)
    BY FragmentsAre
  <2>. HIDE DEF s
  <2>3. ASSUME NEW j \in 1 .. full + 1
        PROVE  Len(SubSeq(u.payload, (j - 1) * F + 1, PieceEnd(u.payload, full, j))) <= F
    <3>. DEFINE a == (j - 1) * F
                c == PieceEnd(u.payload, full, j)
    <3>1. a \in Nat /\ c \in 1 .. Len(u.payload) /\ a < c /\ c <= a + F
      BY <2>2
    <3>2. F \in Nat
      BY TransportAssumption DEF FragmentSize
    <3>. HIDE DEF a, c, F
    <3>3. a + 1 \in Int /\ c \in Int /\ (\A i \in a + 1 .. c : u.payload[i] \in Nat)
      <4>1. \A i \in a + 1 .. c : i \in 1 .. Len(u.payload)
        BY <1>1, <3>1
      <4>2. \A i \in 1 .. Len(u.payload) : u.payload[i] \in Nat
        BY <1>1, ElementOfSeq
      <4>. QED BY <3>1, <4>1, <4>2
    <3>4. Len(SubSeq(u.payload, a + 1, c)) = IF a + 1 <= c THEN c - (a + 1) + 1 ELSE 0
      BY <3>3, SubSeqProperties
    <3>5. Len(SubSeq(u.payload, a + 1, c)) <= F
      BY <3>1, <3>2, <3>4
    <3>. QED BY <3>5 DEF a, c
  <2>4. ASSUME NEW j \in 1 .. full + 1
        PROVE  Size(s[j]) <= MaxSize /\ ~s[j].m /\ s[j].type = u.type /\ s[j].nri = u.nri /\ s[j].fu
    <3>. DEFINE d == SubSeq(u.payload, (j - 1) * F + 1, PieceEnd(u.payload, full, j))
    <3>1. s[j] = [fu |-> TRUE, type |-> u.type, nri |-> u.nri, start |-> j = 1 /\ j <= full,
                  data |-> d, m |-> FALSE]
      BY <2>2
    <3>2. d \in Seq(Nat)
      <4>1. s[j] \in Packets
        BY <2>2, ElementOfSeq
      <4>2. s[j].data = d
        <5>. DEFINE b == j = 1 /\ j <= full
        <5>1. s[j] = [fu |-> TRUE, type |-> u.type, nri |-> u.nri, start |-> b,
                      data |-> d, m |-> FALSE]
          BY <3>1
        <5>. HIDE DEF d, b
        <5>. QED BY <5>1
      <4>. QED BY <4>1, <4>2 DEF Packets
    <3>3. Len(d) \in Nat /\ Len(d) <= F
      BY <2>3, <3>2, LenProperties
    <3>. HIDE DEF d
    <3>4. Size(s[j]) = Len(d) + 2
      BY <3>1 DEF Size
    <3>5. Size(s[j]) <= MaxSize
      BY <3>3, <3>4, TransportAssumption DEF FragmentSize
    <3>. QED BY <3>1, <3>5
  <2>. QED BY <2>1, <2>2, <2>4 DEF s
<1>3. CASE u.zeros + 2 + Len(u.payload) <= MaxSize
  <2>. DEFINE q == [fu |-> FALSE, type |-> u.type, nri |-> u.nri, start |-> TRUE,
                    data |-> u.payload, m |-> FALSE]
  <2>1. Sent(u) = <<q>> /\ <<q>> \in Seq(Packets)
    BY <1>3, SentIs, SingleIs
  <2>2. ~q.m /\ q.type = u.type /\ q.nri = u.nri /\ ~q.fu /\ q.data = u.payload
    OBVIOUS
  <2>. HIDE DEF q
  <2>3. Size(q) <= MaxSize
    <3>1. Size(q) = Len(u.payload) + 1
      BY <2>2 DEF Size
    <3>. DEFINE l == Len(u.payload)
                z == u.zeros
    <3>2. z \in {2, 3} /\ l \in Nat /\ z + 2 + l <= MaxSize /\ MaxSize \in Nat /\ Size(q) = l + 1
      BY <1>1, <1>3, <3>1, TransportAssumption
    <3>. HIDE DEF l, z
    <3>. QED BY <3>2
  <2>4. Len(<<q>>) = 1 /\ \A i \in 1 .. 1 : <<q>>[i] = q
    OBVIOUS
  <2>. QED BY <1>3, <2>1, <2>2, <2>3, <2>4
<1>4. u.zeros + 2 + Len(u.payload) > MaxSize \/ u.zeros + 2 + Len(u.payload) <= MaxSize
  <2>. DEFINE t == u.zeros + 2 + Len(u.payload)
  <2>1. t \in Nat /\ MaxSize \in Nat
    <3>1. \A z \in {2, 3}, l \in Nat : z + 2 + l \in Nat
      OBVIOUS
    <3>. QED BY <1>1, <3>1, TransportAssumption
  <2>2. t > MaxSize \/ t <= MaxSize
    <3>. HIDE DEF t
    <3>. QED BY <2>1
  <2>. QED BY <2>2
<1>. QED BY <1>2, <1>3, <1>4

-----------------------------------------------------------------------------
(* What the receiver makes of packets.                                     *)

AddedAll(ps) == [i \in DOMAIN ps |-> Added(ps[i])]

Body(ps) == FlattenSeq(AddedAll(ps))

\* What a packet adds to the frame are bytes.
LEMMA AddedType ==
  ASSUME NEW p \in Packets
  PROVE  /\ Added(p) \in Seq(Nat)
         /\ p.data \in Seq(Nat)
         /\ StartCode(3) \o <<p.type + 32 * p.nri>> \in Seq(Nat)
<1>1. p.data \in Seq(Nat) /\ p.type \in Nat /\ p.nri \in Nat
  <2>1. p.data \in Seq(Nat)
    BY DEF Packets
  <2>2. p.type \in 1 .. 31 /\ p.nri \in 0 .. 3
    BY DEF Packets
  <2>3. 1 .. 31 \subseteq Nat /\ 0 .. 3 \subseteq Nat
    OBVIOUS
  <2>. QED BY <2>1, <2>2, <2>3, Zenon
<1>2. StartCode(3) \in Seq(Nat)
  BY DEF StartCode
<1>3. StartCode(3) \o <<p.type + 32 * p.nri>> \in Seq(Nat)
  <2>1. <<p.type + 32 * p.nri>> \in Seq(Nat)
    BY <1>1
  <2>. QED BY <1>2, <2>1, ConcatProperties
<1>4. (StartCode(3) \o <<p.type + 32 * p.nri>>) \o p.data \in Seq(Nat)
  BY <1>1, <1>3, ConcatProperties
<1>. QED BY <1>1, <1>3, <1>4 DEF Added

\* What packets add are as many pieces as there are packets.
LEMMA AddedAllType ==
  ASSUME NEW ps \in Seq(Packets)
  PROVE  /\ AddedAll(ps) \in Seq(Seq(Nat))
         /\ Len(AddedAll(ps)) = Len(ps)
         /\ \A i \in 1 .. Len(ps) : AddedAll(ps)[i] = Added(ps[i])
         /\ Body(ps) \in Seq(Nat)
<1>1. DOMAIN ps = 1 .. Len(ps) /\ Len(ps) \in Nat /\ \A i \in 1 .. Len(ps) : ps[i] \in Packets
  BY LenProperties
<1>2. AddedAll(ps) = [i \in 1 .. Len(ps) |-> Added(ps[i])]
  BY <1>1 DEF AddedAll
<1>3. AddedAll(ps) \in [1 .. Len(ps) -> Seq(Nat)]
  BY <1>1, <1>2, AddedType
<1>4. AddedAll(ps) \in Seq(Seq(Nat)) /\ Len(AddedAll(ps)) = Len(ps)
  <2>. DEFINE U == Seq(Nat)
              a == AddedAll(ps)
  <2>1. a \in [1 .. Len(ps) -> U]
    BY <1>3
  <2>. HIDE DEF U, a
  <2>2. a \in Seq(U) /\ Len(a) = Len(ps)
    BY <1>1, <2>1
  <2>. QED BY <2>2 DEF U, a
<1>5. Body(ps) \in Seq(Nat)
  BY <1>4, FlattenType DEF Body
<1>. QED BY <1>2, <1>4, <1>5

\* Packets one after the other add one after the other.
LEMMA BodyConcat ==
  ASSUME NEW a \in Seq(Packets), NEW c \in Seq(Packets)
  PROVE  Body(a \o c) = Body(a) \o Body(c)
<1>1. /\ a \o c \in Seq(Packets) /\ Len(a \o c) = Len(a) + Len(c)
      /\ \A i \in 1 .. Len(a) + Len(c) : (a \o c)[i] = IF i <= Len(a) THEN a[i] ELSE c[i - Len(a)]
  BY ConcatProperties
<1>2. AddedAll(a) \in Seq(Seq(Nat)) /\ AddedAll(c) \in Seq(Seq(Nat))
      /\ AddedAll(a \o c) \in Seq(Seq(Nat)) /\ Len(AddedAll(a)) = Len(a)
      /\ Len(AddedAll(c)) = Len(c) /\ Len(AddedAll(a \o c)) = Len(a) + Len(c)
  BY <1>1, AddedAllType
<1>3. AddedAll(a \o c) = AddedAll(a) \o AddedAll(c)
  <2>. DEFINE x == AddedAll(a)
              y == AddedAll(c)
              w == AddedAll(a \o c)
              U == Seq(Nat)
  <2>1. /\ x \o y \in Seq(U) /\ Len(x \o y) = Len(a) + Len(c)
        /\ \A i \in 1 .. Len(a) + Len(c) :
             (x \o y)[i] = IF i <= Len(a) THEN x[i] ELSE y[i - Len(a)]
    <3>. HIDE DEF x, y, U
    <3>1. x \in Seq(U) /\ y \in Seq(U) /\ Len(x) = Len(a) /\ Len(y) = Len(c)
      BY <1>2 DEF x, y, U
    <3>2. /\ x \o y \in Seq(U) /\ Len(x \o y) = Len(x) + Len(y)
          /\ \A i \in 1 .. Len(x) + Len(y) :
               (x \o y)[i] = IF i <= Len(x) THEN x[i] ELSE y[i - Len(x)]
      BY <3>1, ConcatProperties
    <3>. QED BY <3>1, <3>2
  <2>2. \A i \in 1 .. Len(a) + Len(c) : w[i] = (x \o y)[i]
    <3>. SUFFICES ASSUME NEW i \in 1 .. Len(a) + Len(c) PROVE w[i] = (x \o y)[i]
      OBVIOUS
    <3>1. Len(a) \in Nat /\ Len(c) \in Nat
      BY LenProperties
    <3>2. w[i] = Added((a \o c)[i])
      BY <1>1, AddedAllType
    <3>3. CASE i <= Len(a)
      <4>1. i \in 1 .. Len(a)
        BY <3>1, <3>3
      <4>2. x[i] = Added(a[i])
        BY <4>1, AddedAllType
      <4>. QED BY <1>1, <2>1, <3>2, <3>3, <4>2
    <3>4. CASE ~(i <= Len(a))
      <4>1. i - Len(a) \in 1 .. Len(c)
        BY <3>1, <3>4
      <4>2. y[i - Len(a)] = Added(c[i - Len(a)])
        BY <4>1, AddedAllType
      <4>. QED BY <1>1, <2>1, <3>2, <3>4, <4>2
    <3>. QED BY <3>3, <3>4
  <2>3. w \in Seq(U) /\ Len(w) = Len(a) + Len(c)
    BY <1>2
  <2>. HIDE DEF x, y, w, U
  <2>4. w = x \o y
    BY <2>1, <2>2, <2>3, SeqEqual
  <2>. QED BY <2>4 DEF w, x, y
<1>. QED BY <1>2, <1>3, FlattenConcat DEF Body

\* Flattening one part.
LEMMA FlattenOne ==
  ASSUME NEW T, NEW x \in Seq(T)
  PROVE  FlattenSeq(<<x>>) = x
<1>. DEFINE U == Seq(T)
<1>1. <<>> \in Seq(U) /\ Append(<<>>, x) = <<x>>
  OBVIOUS
<1>2. FlattenSeq(Append(<<>>, x)) = FlattenSeq(<<>>) \o x
  BY <1>1, FlattenAppend
<1>3. FlattenSeq(<<>>) \o x = x
  BY FlattenEmpty, ConcatEmptySeq
<1>. QED BY <1>1, <1>2, <1>3

\* The fragments of a unit put together: the start code and the header once,
\* then the payload without a gap.  The first has the start bit if there are
\* two of them.
LEMMA FragmentsWhole ==
  ASSUME NEW u \in GoodUnits, Len(u.payload) > FragmentSize
  PROVE  Body(Fragments(Nal(u))) = Whole(u)
<1>. DEFINE s == Fragments(Nal(u))
            F == FragmentSize
            p == u.payload
            L == Len(u.payload)
            e(full, j) == PieceEnd(u.payload, full, j)
<1>1. p \in Seq(Nat) /\ L \in Nat \ {0}
  BY NalIs
<1>2. PICK full \in Nat :
         /\ s \in Seq(Packets)
         /\ Len(s) = full + 1
         /\ full = 0 => L <= F
         /\ \A j \in 1 .. full + 1 :
              /\ s[j] =
                   [fu |-> TRUE, type |-> u.type, nri |-> u.nri, start |-> j = 1 /\ j <= full,
                    data |-> SubSeq(p, (j - 1) * F + 1, e(full, j)), m |-> FALSE]
              /\ (j - 1) * F \in Nat
              /\ (j - 1) * F < e(full, j)
              /\ e(full, j) \in 1 .. L
  <2>. HIDE DEF s
  <2>. QED BY FragmentsAre DEF s
<1>3. F \in Nat /\ full > 0
  <2>1. F \in Nat
    BY TransportAssumption DEF FragmentSize
  <2>. HIDE DEF F, L
  <2>2. L > F
    BY DEF F, L
  <2>. QED BY <1>1, <1>2, <2>1, <2>2
<1>. DEFINE hd == StartCode(3) \o <<Header(u)>>
            pre(j) == [i \in 1 .. j |-> Added(s[i])]
            part(j) == SubSeq(p, (j - 1) * F + 1, e(full, j))
<1>. HIDE DEF s, F
<1>4. ASSUME NEW j \in 1 .. full + 1
      PROVE  /\ s[j] \in Packets
             /\ part(j) \in Seq(Nat)
             /\ Added(s[j]) = IF j = 1 THEN hd \o part(j) ELSE part(j)
  <2>1. s[j] \in Packets
    BY <1>2, ElementOfSeq
  <2>. DEFINE b == j = 1 /\ j <= full
              d == part(j)
  <2>2. s[j] = [fu |-> TRUE, type |-> u.type, nri |-> u.nri, start |-> b, data |-> d, m |-> FALSE]
    BY <1>2
  <2>3. b <=> j = 1
    BY <1>3
  <2>. HIDE DEF b, d
  <2>4. s[j].fu /\ s[j].start = b /\ s[j].data = d /\ s[j].type = u.type /\ s[j].nri = u.nri
    BY <2>2
  <2>5. d \in Seq(Nat)
    BY <2>1, <2>4 DEF Packets
  <2>6. Added(s[j]) = IF b THEN hd \o d ELSE d
    BY <2>4, Zenon DEF Added, Header
  <2>. QED BY <2>1, <2>3, <2>5, <2>6 DEF d
<1>5. hd \in Seq(Nat)
  <2>1. s[1] \in Packets /\ s[1].type = u.type /\ s[1].nri = u.nri
    <3>1. 1 \in 1 .. full + 1
      BY <1>3
    <3>2. s[1] \in Packets
      BY <1>4, <3>1
    <3>. DEFINE b == 1 = 1 /\ 1 <= full
                d == part(1)
    <3>3. s[1] = [fu |-> TRUE, type |-> u.type, nri |-> u.nri, start |-> b, data |-> d, m |-> FALSE]
      BY <1>2, <3>1
    <3>. HIDE DEF b, d
    <3>. QED BY <3>2, <3>3
  <2>. QED BY <2>1, AddedType DEF Header
<1>. HIDE DEF hd, part
<1>6. \A j \in 1 .. full + 1 : pre(j) \in Seq(Seq(Nat)) /\ Len(pre(j)) = j
  <2>. SUFFICES ASSUME NEW j \in 1 .. full + 1 PROVE pre(j) \in Seq(Seq(Nat)) /\ Len(pre(j)) = j
    OBVIOUS
  <2>. DEFINE U == Seq(Nat)
              a == pre(j)
  <2>1. \A i \in 1 .. j : Added(s[i]) \in U
    <3>1. \A i \in 1 .. j : i \in 1 .. full + 1
      OBVIOUS
    <3>. QED BY <1>4, <3>1, AddedType
  <2>2. a \in [1 .. j -> U]
    BY <2>1
  <2>. HIDE DEF a, U
  <2>3. a \in Seq(U) /\ Len(a) = j
    BY <2>2
  <2>. QED BY <2>3 DEF a, U
<1>. DEFINE G(j) == FlattenSeq(pre(j)) = hd \o SubSeq(p, 1, e(full, j))
<1>7. G(1)
  <2>1. 1 \in 1 .. full + 1
    BY <1>3
  <2>2. pre(1) = <<hd \o part(1)>>
    <3>1. Added(s[1]) = hd \o part(1)
      BY <1>4, <2>1
    <3>2. pre(1) = <<Added(s[1])>>
      OBVIOUS
    <3>. QED BY <3>1, <3>2
  <2>3. hd \o part(1) \in Seq(Nat)
    BY <1>4, <1>5, <2>1, ConcatProperties
  <2>4. FlattenSeq(pre(1)) = hd \o part(1)
    BY <2>2, <2>3, FlattenOne
  <2>5. part(1) = SubSeq(p, 1, e(full, 1))
    <3>1. (1 - 1) * F + 1 = 1
      BY <1>3
    <3>. QED BY <3>1 DEF part
  <2>. HIDE DEF pre, part
  <2>. QED BY <2>4, <2>5
<1>8. ASSUME NEW k \in 1 .. full, G(k) PROVE G(k + 1)
  <2>2. k \in 1 .. full + 1 /\ k + 1 \in 1 .. full + 1 /\ k <= full
    OBVIOUS
  <2>3. FlattenSeq(pre(k)) = hd \o SubSeq(p, 1, e(full, k))
    BY <1>8
  <2>4. pre(k + 1) = Append(pre(k), part(k + 1))
    <3>1. Added(s[k + 1]) = part(k + 1)
      BY <1>4, <2>2
    <3>. DEFINE a == pre(k)
                c == pre(k + 1)
                U == Seq(Nat)
                x == part(k + 1)
    <3>2. a \in Seq(U) /\ c \in Seq(U) /\ Len(a) = k /\ Len(c) = k + 1 /\ x \in U
      BY <1>4, <1>6, <2>2
    <3>3. (\A i \in 1 .. k : c[i] = a[i]) /\ c[k + 1] = x
      BY <2>2, <3>1
    <3>. HIDE DEF a, c, U, x
    <3>4. /\ Append(a, x) \in Seq(U) /\ Len(Append(a, x)) = k + 1
          /\ \A i \in 1 .. k + 1 : Append(a, x)[i] = c[i]
      <4>1. /\ Append(a, x) \in Seq(U) /\ Len(Append(a, x)) = k + 1
            /\ \A i \in 1 .. k : Append(a, x)[i] = a[i]
            /\ Append(a, x)[k + 1] = x
        BY <3>2, AppendProperties
      <4>. QED BY <2>2, <3>3, <4>1
    <3>5. c = Append(a, x)
      BY <3>2, <3>4, SeqEqual
    <3>. QED BY <3>5 DEF a, c, x
  <2>5. FlattenSeq(pre(k + 1)) = FlattenSeq(pre(k)) \o part(k + 1)
    <3>1. pre(k) \in Seq(Seq(Nat)) /\ part(k + 1) \in Seq(Nat)
      BY <1>4, <1>6, <2>2
    <3>. HIDE DEF pre
    <3>. QED BY <2>4, <3>1, FlattenAppend
  <2>. DEFINE m == e(full, k)
              n == e(full, k + 1)
  <2>6. m = k * F /\ ((k + 1) - 1) * F = k * F
    BY <2>2 DEF PieceEnd, F
  <2>7. m \in Nat /\ m < n /\ n \in 1 .. L
    <3>1. ((k + 1) - 1) * F \in Nat /\ ((k + 1) - 1) * F < n /\ n \in 1 .. L
      BY <1>2, <2>2
    <3>. HIDE DEF m, n
    <3>. QED BY <2>6, <3>1
  <2>8. part(k + 1) = SubSeq(p, m + 1, n)
    <3>. HIDE DEF m
    <3>. QED BY <2>6 DEF part
  <2>. HIDE DEF m, n
  <2>9. SubSeq(p, 1, m) \o SubSeq(p, m + 1, n) = SubSeq(p, 1, n)
    <3>. HIDE DEF p, L
    <3>1. 1 \in 1 .. Len(p) + 1 /\ m \in 1 - 1 .. Len(p) /\ n \in m .. Len(p)
      BY <1>1, <2>7 DEF L, p
    <3>2. p \in Seq(Nat)
      BY <1>1
    <3>. QED BY <3>1, <3>2, ConcatAdjacentSubSeq
  <2>10. SubSeq(p, 1, m) \in Seq(Nat) /\ SubSeq(p, m + 1, n) \in Seq(Nat)
    <3>1. \A i \in 1 .. L : p[i] \in Nat
      BY <1>1, ElementOfSeq
    <3>. HIDE DEF p, L
    <3>2. (\A i \in 1 .. m : p[i] \in Nat) /\ (\A i \in m + 1 .. n : p[i] \in Nat)
      BY <1>1, <2>7, <3>1
    <3>3. m \in Int /\ n \in Int /\ m + 1 \in Int
      BY <2>7
    <3>. QED BY <3>2, <3>3, SubSeqProperties
  <2>11. (hd \o SubSeq(p, 1, m)) \o SubSeq(p, m + 1, n) = hd \o (SubSeq(p, 1, m) \o SubSeq(p, m + 1, n))
    <3>. DEFINE x == SubSeq(p, 1, m)
                y == SubSeq(p, m + 1, n)
    <3>1. x \in Seq(Nat) /\ y \in Seq(Nat)
      BY <2>10
    <3>. HIDE DEF x, y
    <3>2. (hd \o x) \o y = hd \o (x \o y)
      <4>1. \A c, d, t \in Seq(Nat) : (c \o d) \o t = c \o (d \o t)
        BY ConcatAssociative
      <4>2. hd \in Seq(Nat)
        BY <1>5
      <4>. QED BY <3>1, <4>1, <4>2, Zenon
    <3>. QED BY <3>2 DEF x, y
  <2>12. FlattenSeq(pre(k + 1)) = hd \o SubSeq(p, 1, n)
    <3>. HIDE DEF pre, p
    <3>1. FlattenSeq(pre(k)) = hd \o SubSeq(p, 1, m)
      BY <2>3 DEF m, p
    <3>. QED BY <2>5, <2>8, <2>9, <2>11, <3>1
  <2>. QED BY <2>12 DEF n
<1>9. G(full + 1)
  <2>. DEFINE S == {j \in Nat : j <= full => G(j + 1)}
  <2>. HIDE DEF G
  <2>1. 0 \in S
    BY <1>7
  <2>2. ASSUME NEW j \in Nat, j \in S PROVE j + 1 \in S
    <3>1. j + 1 <= full => j + 1 \in 1 .. full /\ j <= full
      OBVIOUS
    <3>. QED BY <1>8, <2>2, <3>1
  <2>3. Nat \subseteq S
    <3>. HIDE DEF S
    <3>. QED BY <2>1, <2>2, NatInd
  <2>. QED BY <2>3
<1>10. FlattenSeq(pre(full + 1)) = hd \o SubSeq(p, 1, e(full, full + 1))
  BY <1>9, Zenon
<1>11. e(full, full + 1) = L /\ SubSeq(p, 1, L) = p
  <2>1. ~(full + 1 <= full)
    OBVIOUS
  <2>2. SubSeq(p, 1, L) = p
    BY <1>1, SubSeqFull
  <2>. QED BY <2>1, <2>2 DEF PieceEnd
<1>12. AddedAll(s) = pre(full + 1)
  <2>1. DOMAIN s = 1 .. full + 1
    BY <1>2, LenProperties
  <2>. QED BY <2>1 DEF AddedAll
<1>13. Whole(u) = hd \o p
  BY DEF Whole, hd
<1>. QED BY <1>10, <1>11, <1>12, <1>13 DEF Body, s

\* What the receiver makes of the packets of a unit is the unit, except for
\* a unit that goes in one fragment.
LEMMA SentWhole ==
  ASSUME NEW u \in GoodUnits, ~Headless(u)
  PROVE  Body(Sent(u)) = Whole(u)
<1>1. u.zeros \in {2, 3} /\ Len(u.payload) \in Nat
  BY NalIs
<1>2. CASE u.zeros + 2 + Len(u.payload) > MaxSize
  <2>1. ~(Len(u.payload) <= FragmentSize)
    BY <1>2 DEF Headless
  <2>2. FragmentSize \in Nat
    BY TransportAssumption DEF FragmentSize
  <2>3. Len(u.payload) > FragmentSize
    BY <1>1, <2>1, <2>2
  <2>. QED BY <1>2, <2>3, SentIs, FragmentsWhole
<1>3. CASE ~(u.zeros + 2 + Len(u.payload) > MaxSize)
  <2>. DEFINE q == [fu |-> FALSE, type |-> u.type, nri |-> u.nri, start |-> TRUE,
                    data |-> u.payload, m |-> FALSE]
              t == u.zeros + 2 + Len(u.payload)
  <2>1. t <= MaxSize
    <3>1. \A z \in {2, 3}, l \in Nat : z + 2 + l \in Nat
      OBVIOUS
    <3>2. t \in Nat /\ MaxSize \in Nat /\ ~(t > MaxSize)
      BY <1>1, <1>3, <3>1, TransportAssumption
    <3>. HIDE DEF t
    <3>. QED BY <3>2
  <2>2. Sent(u) = <<q>> /\ <<q>> \in Seq(Packets)
    BY <2>1, SentIs, SingleIs
  <2>3. Added(q) = Whole(u)
    BY DEF Added, Whole, Header
  <2>4. q \in Packets
    BY NalIs DEF Packets
  <2>. HIDE DEF q
  <2>5. Added(q) \in Seq(Nat)
    BY <2>4, AddedType
  <2>6. AddedAll(<<q>>) = <<Added(q)>>
    BY DEF AddedAll
  <2>7. FlattenSeq(<<Added(q)>>) = Added(q)
    BY <2>5, FlattenOne
  <2>. QED BY <2>2, <2>3, <2>6, <2>7 DEF Body
<1>. QED BY <1>2, <1>3

\* The length of an SPS is the only thing a pass of the receiver changes.
LEMMA SentIntact ==
  ASSUME NEW u \in GoodUnits, ~Shortened(u), NEW p \in Packets, p.type = u.type,
         ~p.fu => u.zeros + 2 + Len(u.payload) <= MaxSize
  PROVE  Shrunk(p) = p
<1>1. ~(~p.fu /\ p.type = 7)
  BY DEF Shortened
<1>. QED BY <1>1 DEF Shrunk

\* What a pass leaves of a packet is a packet.
LEMMA ShrunkType ==
  ASSUME NEW p \in Packets
  PROVE  Shrunk(p) \in Packets
<1>. DEFINE d == p.data
            E == {i \in 3 .. Len(d) : d[i] = 3 /\ d[i-1] = 0 /\ d[i-2] = 0}
            n == RbspLen(d) - 1
<1>1. d \in Seq(Nat) /\ Len(d) \in Nat
  BY LenProperties DEF Packets
<1>2. n \in Int /\ n <= Len(d)
  <2>. HIDE DEF d
  <2>1. IsFiniteSet(3 .. Len(d))
    BY <1>1, FS_Interval
  <2>2. E \in SUBSET (3 .. Len(d))
    OBVIOUS
  <2>3. Cardinality(E) \in Nat
    <3>. HIDE DEF E
    <3>. QED BY <2>1, <2>2, FS_Subset, FS_CardinalityType
  <2>4. n = Len(d) - Cardinality(E) - 1
    BY DEF RbspLen
  <2>. HIDE DEF E, n
  <2>. QED BY <1>1, <2>3, <2>4
<1>3. SubSeq(d, 1, n) \in Seq(Nat)
  <2>. HIDE DEF d, n
  <2>1. \A i \in 1 .. n : d[i] \in Nat
    <3>1. \A i \in 1 .. n : i \in 1 .. Len(d)
      BY <1>1, <1>2
    <3>. QED BY <1>1, <3>1, ElementOfSeq
  <2>. QED BY <1>2, <2>1, SubSeqProperties
<1>4. [p EXCEPT !.data = SubSeq(d, 1, n)] \in Packets
  <2>. DEFINE x == SubSeq(d, 1, n)
  <2>. HIDE DEF x, d
  <2>1. x \in Seq(Nat)
    BY <1>3 DEF x
  <2>2. [p EXCEPT !.data = x] \in Packets
    BY <2>1 DEF Packets
  <2>. QED BY <2>2 DEF x
<1>5. [p EXCEPT !.data = SubSeq(@, 1, RbspLen(@) - 1)] = [p EXCEPT !.data = SubSeq(d, 1, n)]
  OBVIOUS
<1>6. Shrunk(p) = p \/ Shrunk(p) = [p EXCEPT !.data = SubSeq(d, 1, n)]
  BY <1>5 DEF Shrunk
<1>. QED BY <1>4, <1>6

\* The packets of several units add what the packets of each unit add.
LEMMA BodyFlatten ==
  \A pk \in Seq(Seq(Packets)) :
    Body(FlattenSeq(pk)) = FlattenSeq([k \in DOMAIN pk |-> Body(pk[k])])
<1>. DEFINE U == Seq(Packets)
            bodies(pk) == [k \in DOMAIN pk |-> Body(pk[k])]
            P(n) == \A pk \in Seq(U) :
                      Len(pk) = n => Body(FlattenSeq(pk)) = FlattenSeq(bodies(pk))
<1>0. \A x \in U : x \in Seq(Packets)
  OBVIOUS
<1>1. P(0)
  <2>1. SUFFICES ASSUME NEW pk \in Seq(U), Len(pk) = 0
                 PROVE  Body(FlattenSeq(pk)) = FlattenSeq(bodies(pk))
    OBVIOUS
  <2>2. pk = <<>>
    BY <2>1, EmptySeq
  <2>3. AddedAll(<<>>) = <<>> /\ bodies(<<>>) = <<>>
    BY DEF AddedAll
  <2>. QED BY <2>2, <2>3, FlattenEmpty DEF Body
<1>2. \A pk \in Seq(U) : /\ bodies(pk) \in Seq(Seq(Nat))
                         /\ Len(bodies(pk)) = Len(pk)
                         /\ \A k \in 1 .. Len(pk) : bodies(pk)[k] = Body(pk[k])
  <2>. SUFFICES ASSUME NEW pk \in Seq(U)
                PROVE  /\ bodies(pk) \in Seq(Seq(Nat))
                       /\ Len(bodies(pk)) = Len(pk)
                       /\ \A k \in 1 .. Len(pk) : bodies(pk)[k] = Body(pk[k])
    OBVIOUS
  <2>. DEFINE b == bodies(pk)
              V == Seq(Nat)
  <2>1. DOMAIN pk = 1 .. Len(pk) /\ Len(pk) \in Nat /\ \A k \in 1 .. Len(pk) : pk[k] \in U
    <3>. HIDE DEF U
    <3>. QED BY LenProperties
  <2>2. \A k \in 1 .. Len(pk) : Body(pk[k]) \in V
    BY <2>1, <1>0, AddedAllType
  <2>3. b = [k \in 1 .. Len(pk) |-> Body(pk[k])]
    BY <2>1
  <2>4. b \in [1 .. Len(pk) -> V]
    BY <2>2, <2>3
  <2>5. \A k \in 1 .. Len(pk) : b[k] = Body(pk[k])
    BY <2>3
  <2>. HIDE DEF b, V
  <2>6. b \in Seq(V) /\ Len(b) = Len(pk)
    <3>. DEFINE n == Len(pk)
    <3>1. n \in Nat /\ b \in [1 .. n -> V]
      BY <2>1, <2>4
    <3>. HIDE DEF n
    <3>2. b \in Seq(V) /\ Len(b) = n
      BY <3>1
    <3>. QED BY <3>2 DEF n
  <2>. QED BY <2>5, <2>6 DEF b, V
<1>3. ASSUME NEW n \in Nat, P(n) PROVE P(n + 1)
  <2>1. SUFFICES ASSUME NEW pk \in Seq(U), Len(pk) = n + 1
                 PROVE  Body(FlattenSeq(pk)) = FlattenSeq(bodies(pk))
    OBVIOUS
  <2>2. PICK v \in Seq(U), x \in U : pk = Append(v, x)
    <3>. HIDE DEF U
    <3>1. pk # <<>>
      BY <2>1
    <3>. QED BY <3>1, SequenceEmptyOrAppend
  <2>3. Len(v) = n
    BY <2>1, <2>2, AppendProperties
  <2>4. Body(FlattenSeq(v)) = FlattenSeq(bodies(v))
    BY <1>3, <2>3
  <2>5. FlattenSeq(pk) = FlattenSeq(v) \o x
    BY <2>2, FlattenAppend
  <2>6. Body(FlattenSeq(v) \o x) = Body(FlattenSeq(v)) \o Body(x)
    <3>1. FlattenSeq(v) \in Seq(Packets)
      BY FlattenType
    <3>. QED BY <1>0, <3>1, BodyConcat
  <2>7. bodies(pk) = Append(bodies(v), Body(x))
    <3>. DEFINE a == bodies(v)
                c == bodies(pk)
                y == Body(x)
                V == Seq(Nat)
    <3>1. a \in Seq(V) /\ Len(a) = n /\ c \in Seq(V) /\ Len(c) = n + 1 /\ y \in V
      BY <1>0, <1>2, <2>1, <2>3, AddedAllType
    <3>2. (\A k \in 1 .. n : c[k] = a[k]) /\ c[n + 1] = y
      <4>1. (\A k \in 1 .. n : pk[k] = v[k]) /\ pk[n + 1] = x
        <5>. HIDE DEF U
        <5>. QED BY <2>2, <2>3, AppendProperties
      <4>2. \A k \in 1 .. n : k \in 1 .. n + 1
        OBVIOUS
      <4>3. n + 1 \in 1 .. n + 1
        OBVIOUS
      <4>4. (\A k \in 1 .. n : a[k] = Body(v[k])) /\ \A k \in 1 .. n + 1 : c[k] = Body(pk[k])
        BY <1>2, <2>1, <2>3
      <4>. HIDE DEF a, c, y
      <4>. QED BY <4>1, <4>2, <4>3, <4>4 DEF y
    <3>. HIDE DEF a, c, y, V
    <3>3. /\ Append(a, y) \in Seq(V) /\ Len(Append(a, y)) = n + 1
          /\ \A k \in 1 .. n + 1 : Append(a, y)[k] = c[k]
      <4>1. /\ Append(a, y) \in Seq(V) /\ Len(Append(a, y)) = n + 1
            /\ \A k \in 1 .. n : Append(a, y)[k] = a[k]
            /\ Append(a, y)[n + 1] = y
        BY <3>1, AppendProperties
      <4>. QED BY <3>2, <4>1
    <3>4. c = Append(a, y)
      BY <3>1, <3>3, SeqEqual
    <3>. QED BY <3>4 DEF a, c, y
  <2>8. FlattenSeq(Append(bodies(v), Body(x))) = FlattenSeq(bodies(v)) \o Body(x)
    <3>1. bodies(v) \in Seq(Seq(Nat)) /\ Body(x) \in Seq(Nat)
      BY <1>0, <1>2, AddedAllType
    <3>. HIDE DEF bodies
    <3>. QED BY <3>1, FlattenAppend
  <2>. HIDE DEF bodies
  <2>. QED BY <2>4, <2>5, <2>6, <2>7, <2>8
<1>4. \A n \in Nat : P(n)
  <2>. DEFINE S == {n \in Nat : P(n)}
  <2>. HIDE DEF P
  <2>1. 0 \in S /\ \A n \in Nat : n \in S => n + 1 \in S
    BY <1>1, <1>3
  <2>2. Nat \subseteq S
    <3>. HIDE DEF S
    <3>. QED BY <2>1, NatInd
  <2>. QED BY <2>2
<1>5. ASSUME NEW pk \in Seq(U) PROVE Body(FlattenSeq(pk)) = FlattenSeq(bodies(pk))
  <2>1. P(Len(pk))
    <3>. HIDE DEF P
    <3>. QED BY <1>4, LenProperties
  <2>. QED BY <2>1, Zenon
<1>. QED BY <1>5, Zenon

\* The marker does not matter for what a packet adds.
LEMMA AddedUnmarked ==
  ASSUME NEW p \in Packets, NEW m \in BOOLEAN
  PROVE  /\ [p EXCEPT !.m = m] \in Packets
         /\ Added([p EXCEPT !.m = m]) = Added(p)
<1>. DEFINE q == [p EXCEPT !.m = m]
<1>1. q \in Packets /\ q.fu = p.fu /\ q.start = p.start /\ q.type = p.type /\ q.nri = p.nri
      /\ q.data = p.data
  BY DEF Packets
<1>. HIDE DEF q
<1>2. Added(q) = Added(p)
  BY <1>1, Zenon DEF Added
<1>. QED BY <1>1, <1>2 DEF q

-----------------------------------------------------------------------------
(* A frame in packets.                                                     *)

SentAll(units) == [i \in DOMAIN units |-> Sent(units[i])]

AllSent(units) == FlattenSeq(SentAll(units))

\* What is sent of a frame are the packets of its units, the last one marked.
LEMMA TxSendIs ==
  ASSUME NEW units \in Seq(GoodUnits)
  PROVE  TxSend(Stream(units)) = [AllSent(units) EXCEPT ![Len(AllSent(units))].m = TRUE]
<1>. DEFINE c == CodedUnits(units)
<1>1. DOMAIN c = DOMAIN units /\ \A i \in DOMAIN units : c[i] = Coded(units[i].zeros, units[i])
  BY DEF CodedUnits
<1>2. [i \in DOMAIN c |-> Packetized(c[i])] = SentAll(units)
  <2>. HIDE DEF c
  <2>. QED BY <1>1 DEF SentAll, Sent
<1>3. ParseNalUnits(Stream(units)) = c
  BY ParseIs
<1>. HIDE DEF c
<1>. QED BY <1>2, <1>3 DEF TxSend, Marked, AllSent

\* Every packet of a frame is a packet of one of its units, every unit has its
\* first packet there, and the packets add what those of the units add.
LEMMA AllSentIs ==
  ASSUME NEW units \in Seq(GoodUnits)
  PROVE  /\ AllSent(units) \in Seq(Packets)
         /\ units # <<>> => Len(AllSent(units)) > 0
         /\ \A i \in 1 .. Len(AllSent(units)) :
              \E k \in 1 .. Len(units) : \E j \in 1 .. Len(Sent(units[k])) :
                AllSent(units)[i] = Sent(units[k])[j]
         /\ \A k \in 1 .. Len(units) : \E i \in 1 .. Len(AllSent(units)) :
              AllSent(units)[i] = Sent(units[k])[1]
         /\ Body(AllSent(units)) = FlattenSeq([k \in DOMAIN units |-> Body(Sent(units[k]))])
<1>. DEFINE s == SentAll(units)
            a == AllSent(units)
            n == Len(units)
            L == Len(a)
<1>1. DOMAIN units = 1 .. n /\ n \in Nat /\ \A k \in 1 .. n : units[k] \in GoodUnits
  BY LenProperties
<1>2. s \in Seq(Seq(Packets)) /\ Len(s) = n /\ DOMAIN s = 1 .. n /\ \A k \in 1 .. n : s[k] = Sent(units[k])
  <2>. DEFINE U == Seq(Packets)
  <2>1. s = [k \in 1 .. n |-> Sent(units[k])]
    BY <1>1 DEF SentAll
  <2>2. s \in [1 .. n -> U]
    BY <1>1, <2>1, SentFits
  <2>3. (\A k \in 1 .. n : s[k] = Sent(units[k])) /\ DOMAIN s = 1 .. n
    BY <2>1
  <2>. HIDE DEF s, n, U
  <2>4. s \in Seq(U) /\ Len(s) = n
    BY <1>1, <2>2
  <2>. QED BY <2>3, <2>4 DEF U
<1>3. a = FlattenSeq(s)
  BY DEF AllSent
<1>. HIDE DEF s, a
<1>4. a \in Seq(Packets) /\ L \in Nat
  <2>1. a \in Seq(Packets)
    BY <1>2, <1>3, FlattenType
  <2>. QED BY <2>1, LenProperties
<1>5. PICK off : Offsets(off, s)
  BY <1>2, OffsetsExist
<1>. HIDE DEF n, L
<1>6. /\ off \in [0 .. n -> Nat]
      /\ \A k \in 1 .. n : off[k] = off[k - 1] + Len(s[k])
      /\ off[n] = L
      /\ \A k \in 1 .. n : \A i \in 1 .. Len(s[k]) : a[off[k - 1] + i] = s[k][i]
      /\ \A p \in 1 .. L : \E k \in 1 .. n : \E i \in 1 .. Len(s[k]) : p = off[k - 1] + i
  BY <1>2, <1>3, <1>5 DEF Offsets, L
<1>7. \A k \in 1 .. n : Len(s[k]) \in Nat \ {0}
  BY <1>1, <1>2, SentFits
<1>8. \A k \in 1 .. n : off[k - 1] + 1 \in 1 .. L
  <2>. SUFFICES ASSUME NEW k \in 1 .. n PROVE off[k - 1] + 1 \in 1 .. L
    OBVIOUS
  <2>1. \A i \in 1 .. n : off[i - 1] \in Nat /\ off[i] \in Nat
    <3>1. \A i \in 1 .. n : i - 1 \in 0 .. n /\ i \in 0 .. n
      BY <1>1
    <3>. QED BY <1>6, <3>1
  <2>2. \A i \in 1 .. n : off[i - 1] < off[i] /\ off[i - 1] <= off[i]
    BY <1>6, <1>7, <2>1
  <2>3. \A i, j \in 0 .. n : i <= j => off[i] <= off[j]
    BY <1>1, <1>6, <2>2, Rises
  <2>4. off[k] <= L
    BY <1>1, <1>6, <2>3
  <2>5. off[k - 1] < off[k] /\ off[k - 1] \in Nat /\ off[k] \in Nat
    BY <2>1, <2>2
  <2>. QED BY <1>4, <2>4, <2>5
<1>9. \A i \in 1 .. L : \E k \in 1 .. n : \E j \in 1 .. Len(Sent(units[k])) : a[i] = Sent(units[k])[j]
  <2>. SUFFICES ASSUME NEW i \in 1 .. L
                PROVE  \E k \in 1 .. n : \E j \in 1 .. Len(Sent(units[k])) : a[i] = Sent(units[k])[j]
    OBVIOUS
  <2>1. PICK k \in 1 .. n : \E j \in 1 .. Len(s[k]) : i = off[k - 1] + j
    BY <1>6
  <2>2. PICK j \in 1 .. Len(s[k]) : i = off[k - 1] + j
    BY <2>1
  <2>3. a[i] = s[k][j] /\ s[k] = Sent(units[k])
    BY <1>2, <1>6, <2>2
  <2>. QED BY <2>2, <2>3
<1>10. \A k \in 1 .. n : \E i \in 1 .. L : a[i] = Sent(units[k])[1]
  <2>. SUFFICES ASSUME NEW k \in 1 .. n PROVE \E i \in 1 .. L : a[i] = Sent(units[k])[1]
    OBVIOUS
  <2>1. 1 \in 1 .. Len(s[k])
    BY <1>7
  <2>2. a[off[k - 1] + 1] = Sent(units[k])[1]
    BY <1>2, <1>6, <2>1
  <2>. QED BY <1>8, <2>2
<1>11. units # <<>> => L > 0
  <2>. SUFFICES ASSUME units # <<>> PROVE L > 0
    OBVIOUS
  <2>1. n # 0
    BY EmptySeq DEF n
  <2>2. 1 \in 1 .. n
    BY <1>1, <2>1
  <2>3. off[1 - 1] + 1 \in 1 .. L
    BY <1>8, <2>2
  <2>. QED BY <1>4, <2>3
<1>12. Body(a) = FlattenSeq([k \in DOMAIN units |-> Body(Sent(units[k]))])
  <2>1. Body(a) = FlattenSeq([k \in DOMAIN s |-> Body(s[k])])
    BY <1>2, <1>3, BodyFlatten
  <2>2. [k \in DOMAIN s |-> Body(s[k])] = [k \in DOMAIN units |-> Body(Sent(units[k]))]
    BY <1>1, <1>2
  <2>. QED BY <2>1, <2>2
<1>. QED BY <1>4, <1>9, <1>10, <1>11, <1>12 DEF a, n, L

\* Marking the last of some packets.
LEMMA MarkedIs ==
  ASSUME NEW a \in Seq(Packets), Len(a) > 0
  PROVE  /\ [a EXCEPT ![Len(a)].m = TRUE] \in Seq(Packets)
         /\ Len([a EXCEPT ![Len(a)].m = TRUE]) = Len(a)
         /\ \A i \in 1 .. Len(a) :
              [a EXCEPT ![Len(a)].m = TRUE][i] = [a[i] EXCEPT !.m = IF i = Len(a) THEN TRUE ELSE @]
         /\ \A i \in 1 .. Len(a) : \E m \in BOOLEAN :
              [a EXCEPT ![Len(a)].m = TRUE][i] = [a[i] EXCEPT !.m = m]
<1>. DEFINE L == Len(a)
            e == [a[L] EXCEPT !.m = TRUE]
            w == [a EXCEPT ![L] = e]
<1>1. L \in Nat /\ L \in 1 .. L /\ \A i \in 1 .. L : a[i] \in Packets
  BY LenProperties
<1>2. e \in Packets
  <2>1. a[L] \in Packets
    BY <1>1
  <2>. QED BY <2>1, AddedUnmarked
<1>3. w = [a EXCEPT ![L].m = TRUE]
  OBVIOUS
<1>4. w \in Seq(Packets) /\ Len(w) = L /\ \A i \in 1 .. L : w[i] = IF i = L THEN e ELSE a[i]
  <2>. HIDE DEF e
  <2>. QED BY <1>1, <1>2, ExceptSeq
<1>5. \A p \in Packets : p.m \in BOOLEAN /\ [p EXCEPT !.m = p.m] = p
  BY DEF Packets
<1>. HIDE DEF w, L
<1>6. \A i \in 1 .. L : w[i] = [a[i] EXCEPT !.m = IF i = L THEN TRUE ELSE @]
  <2>. SUFFICES ASSUME NEW i \in 1 .. L PROVE w[i] = [a[i] EXCEPT !.m = IF i = L THEN TRUE ELSE @]
    OBVIOUS
  <2>1. CASE i = L
    BY <1>4, <2>1
  <2>2. CASE i # L
    <3>1. [a[i] EXCEPT !.m = a[i].m] = a[i]
      BY <1>1, <1>5
    <3>2. [a[i] EXCEPT !.m = IF i = L THEN TRUE ELSE @] = [a[i] EXCEPT !.m = a[i].m]
      BY <2>2
    <3>. QED BY <1>4, <2>2, <3>1, <3>2
  <2>. QED BY <2>1, <2>2
<1>7. \A i \in 1 .. L : \E m \in BOOLEAN : w[i] = [a[i] EXCEPT !.m = m]
  <2>. SUFFICES ASSUME NEW i \in 1 .. L PROVE \E m \in BOOLEAN : w[i] = [a[i] EXCEPT !.m = m]
    OBVIOUS
  <2>1. CASE i = L
    BY <1>4, <2>1
  <2>2. CASE i # L
    <3>1. [a[i] EXCEPT !.m = a[i].m] = a[i] /\ a[i].m \in BOOLEAN
      BY <1>1, <1>5
    <3>2. w[i] = a[i]
      BY <1>4, <2>2
    <3>. QED BY <3>1, <3>2
  <2>. QED BY <2>1, <2>2
<1>. QED BY <1>3, <1>4, <1>6, <1>7 DEF w, L

\* Taking one element out of a sequence.
LEMMA RemoveAtIs ==
  ASSUME NEW T, NEW s \in Seq(T), NEW i \in 1 .. Len(s)
  PROVE  /\ RemoveAt(s, i) \in Seq(T)
         /\ Len(RemoveAt(s, i)) = Len(s) - 1
         /\ \A j \in 1 .. Len(s) - 1 : RemoveAt(s, i)[j] = IF j < i THEN s[j] ELSE s[j + 1]
<1>. DEFINE L == Len(s)
            a == SubSeq(s, 1, i - 1)
            c == SubSeq(s, i + 1, L)
<1>1. L \in Nat /\ \A j \in 1 .. L : s[j] \in T
  BY LenProperties, ElementOfSeq
<1>. HIDE DEF L
<1>2. i \in 1 .. L
  BY DEF L
<1>3. a \in Seq(T) /\ Len(a) = i - 1 /\ \A j \in 1 .. i - 1 : a[j] = s[j]
  <2>1. 1 \in Int /\ i - 1 \in Int /\ (\A j \in 1 .. i - 1 : s[j] \in T)
    BY <1>1, <1>2
  <2>2. /\ a \in Seq(T) /\ Len(a) = IF 1 <= i - 1 THEN (i - 1) - 1 + 1 ELSE 0
        /\ \A j \in 1 .. (i - 1) - 1 + 1 : a[j] = s[1 + j - 1]
    <3>. HIDE DEF a
    <3>. QED BY <2>1, SubSeqProperties DEF a
  <2>3. \A j \in 1 .. i - 1 : j \in 1 .. (i - 1) - 1 + 1 /\ 1 + j - 1 = j
    BY <1>2
  <2>. HIDE DEF a
  <2>. QED BY <1>2, <2>2, <2>3
<1>4. c \in Seq(T) /\ Len(c) = L - i /\ \A j \in 1 .. L - i : c[j] = s[i + j]
  <2>1. i + 1 \in Int /\ L \in Int /\ (\A j \in i + 1 .. L : s[j] \in T)
    BY <1>1, <1>2
  <2>2. /\ c \in Seq(T) /\ Len(c) = IF i + 1 <= L THEN L - (i + 1) + 1 ELSE 0
        /\ \A j \in 1 .. L - (i + 1) + 1 : c[j] = s[(i + 1) + j - 1]
    <3>. HIDE DEF c
    <3>. QED BY <2>1, SubSeqProperties DEF c
  <2>3. \A j \in 1 .. L - i : j \in 1 .. L - (i + 1) + 1 /\ (i + 1) + j - 1 = i + j
    BY <1>1, <1>2
  <2>. HIDE DEF c
  <2>. QED BY <1>1, <1>2, <2>2, <2>3
<1>5. RemoveAt(s, i) = a \o c
  BY DEF RemoveAt, L
<1>. HIDE DEF a, c
<1>6. /\ a \o c \in Seq(T) /\ Len(a \o c) = Len(a) + Len(c)
      /\ \A j \in 1 .. Len(a) + Len(c) : (a \o c)[j] = IF j <= Len(a) THEN a[j] ELSE c[j - Len(a)]
  BY <1>3, <1>4, ConcatProperties
<1>7. Len(a) + Len(c) = L - 1
  BY <1>1, <1>2, <1>3, <1>4
<1>8. ASSUME NEW j \in 1 .. L - 1 PROVE (a \o c)[j] = IF j < i THEN s[j] ELSE s[j + 1]
  <2>1. CASE j < i
    <3>1. j \in 1 .. i - 1 /\ j <= Len(a)
      BY <1>2, <1>3, <2>1
    <3>. QED BY <1>3, <1>6, <1>7, <2>1, <3>1
  <2>2. CASE ~(j < i)
    <3>1. ~(j <= Len(a)) /\ j - Len(a) \in 1 .. L - i /\ i + (j - Len(a)) = j + 1
      BY <1>1, <1>2, <1>3, <2>2
    <3>. QED BY <1>4, <1>6, <1>7, <2>2, <3>1
  <2>. QED BY <2>1, <2>2
<1>. QED BY <1>5, <1>6, <1>7, <1>8 DEF L

-----------------------------------------------------------------------------
(* The inductive invariant.                                                *)

\* Packets that fit, of which the last and no other has the marker.
Fit(w) == /\ w # <<>>
          /\ \A i \in 1 .. Len(w) : Size(w[i]) <= MaxSize /\ (w[i].m <=> i = Len(w))

\* Nothing is lost before it is counted, and a decoded frame is what the
\* packets that arrived give.
TransportInv ==
  /\ nals \in Seq(GoodUnits)
  /\ phase \in {"encode", "sent", "decoded"}
  /\ lost \in Nat
  /\ wire \in Seq(Packets)
  /\ phase # "encode" => nals # <<>> /\ Fit(wire)
  /\ phase # "encode" /\ lost = 0 => wire = TxSend(Stream(nals))
  /\ phase = "decoded" => frame = Decode(wire)

\* What the sender makes of a frame fits, and has its marker at the end.
LEMMA SendFits ==
  ASSUME NEW units \in Seq(GoodUnits), units # <<>>
  PROVE  TxSend(Stream(units)) \in Seq(Packets) /\ Fit(TxSend(Stream(units)))
<1>. DEFINE a == AllSent(units)
            L == Len(a)
            w == [a EXCEPT ![L].m = TRUE]
<1>1. TxSend(Stream(units)) = w
  BY TxSendIs
<1>2. a \in Seq(Packets) /\ L \in Nat /\ L > 0 /\ \A i \in 1 .. L : a[i] \in Packets
  BY AllSentIs, LenProperties, ElementOfSeq
<1>3. \A i \in 1 .. L : Size(a[i]) <= MaxSize /\ ~a[i].m
  <2>. SUFFICES ASSUME NEW i \in 1 .. L PROVE Size(a[i]) <= MaxSize /\ ~a[i].m
    OBVIOUS
  <2>1. PICK k \in 1 .. Len(units) : \E j \in 1 .. Len(Sent(units[k])) : a[i] = Sent(units[k])[j]
    BY AllSentIs
  <2>2. units[k] \in GoodUnits
    BY ElementOfSeq
  <2>. QED BY <2>1, <2>2, SentFits
<1>. HIDE DEF a
<1>4. /\ w \in Seq(Packets) /\ Len(w) = L
      /\ \A i \in 1 .. L : w[i] = [a[i] EXCEPT !.m = IF i = L THEN TRUE ELSE @]
  BY <1>2, MarkedIs
<1>. HIDE DEF w, L
<1>5. \A i \in 1 .. L : Size(w[i]) <= MaxSize /\ (w[i].m <=> i = L)
  <2>. SUFFICES ASSUME NEW i \in 1 .. L PROVE Size(w[i]) <= MaxSize /\ (w[i].m <=> i = L)
    OBVIOUS
  <2>1. w[i].fu = a[i].fu /\ w[i].data = a[i].data /\ w[i].m = IF i = L THEN TRUE ELSE a[i].m
    <3>1. a[i] \in Packets
      BY <1>2
    <3>. QED BY <1>4, <3>1 DEF Packets
  <2>2. Size(w[i]) = Size(a[i])
    BY <2>1 DEF Size
  <2>. QED BY <1>3, <2>1, <2>2
<1>6. w # <<>>
  BY <1>2, <1>4
<1>. QED BY <1>1, <1>4, <1>5, <1>6 DEF Fit

\* A loss leaves what is left as it was, and the marker where it was.
LEMMA LossFits ==
  ASSUME NEW w \in Seq(Packets), Fit(w), NEW i \in 1 .. Len(w), ~w[i].m
  PROVE  RemoveAt(w, i) \in Seq(Packets) /\ Fit(RemoveAt(w, i))
<1>. DEFINE r == RemoveAt(w, i)
            L == Len(w)
<1>1. L \in Nat /\ i < L
  BY LenProperties DEF Fit
<1>2. /\ r \in Seq(Packets) /\ Len(r) = L - 1
      /\ \A j \in 1 .. L - 1 : r[j] = IF j < i THEN w[j] ELSE w[j + 1]
  BY RemoveAtIs
<1>. HIDE DEF r
<1>3. \A j \in 1 .. L - 1 : Size(r[j]) <= MaxSize /\ (r[j].m <=> j = L - 1)
  <2>. SUFFICES ASSUME NEW j \in 1 .. L - 1
                PROVE  Size(r[j]) <= MaxSize /\ (r[j].m <=> j = L - 1)
    OBVIOUS
  <2>1. CASE j < i
    <3>1. r[j] = w[j]
      BY <1>2, <2>1
    <3>2. j # L - 1 /\ j # L /\ j \in 1 .. L
      <4>1. i \in Nat
        OBVIOUS
      <4>. HIDE DEF L
      <4>. QED BY <1>1, <2>1, <4>1
    <3>. QED BY <3>1, <3>2 DEF Fit
  <2>2. CASE ~(j < i)
    <3>1. r[j] = w[j + 1] /\ (j = L - 1 <=> j + 1 = L) /\ j + 1 \in 1 .. L
      BY <1>1, <1>2, <2>2
    <3>. QED BY <3>1 DEF Fit
  <2>. QED BY <2>1, <2>2
<1>4. r # <<>>
  BY <1>1, <1>2
<1>. QED BY <1>2, <1>3, <1>4 DEF Fit, r

\* At the beginning the invariant holds.
LEMMA InitTransport == Init => TransportInv
BY DEF Init, TransportInv

\* Each step of the sender, the network and the receiver keeps the invariant.
LEMMA StepTransport == TransportInv /\ [Next]_vars => TransportInv'
<1>. SUFFICES ASSUME TransportInv, [Next]_vars PROVE TransportInv'
  OBVIOUS
<1>1. CASE Encode
  <2>1. PICK zeros \in {2, 3}, len \in Lengths :
          \E kind \in Kinds(len), escape \in Escapes(len) :
            nals' = Append(nals, Unit(Len(nals) + 1, kind, zeros, len, escape))
    BY <1>1 DEF Encode
  <2>2. PICK kind \in Kinds(len), escape \in Escapes(len) :
          nals' = Append(nals, Unit(Len(nals) + 1, kind, zeros, len, escape))
    BY <2>1
  <2>3. nals \in Seq(GoodUnits) /\ Len(nals) + 1 \in Nat \ {0}
    <3>1. nals \in Seq(GoodUnits)
      BY DEF TransportInv
    <3>. QED BY <3>1, LenProperties
  <2>4. Unit(Len(nals) + 1, kind, zeros, len, escape) \in GoodUnits
    BY <2>3, UnitIsGood
  <2>5. nals' \in Seq(GoodUnits)
    BY <2>2, <2>3, <2>4, AppendProperties
  <2>6. phase' = "encode" /\ wire' = wire /\ lost' = lost
    BY <1>1 DEF Encode
  <2>. QED BY <2>5, <2>6 DEF TransportInv
<1>2. CASE Send
  <2>1. /\ nals # <<>> /\ nals' = nals /\ phase' = "sent" /\ lost' = lost
        /\ wire' = TxSend(Stream(nals))
    BY <1>2 DEF Send
  <2>2. nals \in Seq(GoodUnits)
    BY DEF TransportInv
  <2>3. TxSend(Stream(nals)) \in Seq(Packets) /\ Fit(TxSend(Stream(nals)))
    BY <2>1, <2>2, SendFits
  <2>4. wire' \in Seq(Packets) /\ Fit(wire') /\ wire' = TxSend(Stream(nals'))
    BY <2>1, <2>3
  <2>. QED BY <2>1, <2>2, <2>4 DEF TransportInv, Fit
<1>3. CASE Lose
  <2>1. PICK i \in DOMAIN wire : ~wire[i].m /\ wire' = RemoveAt(wire, i)
    BY <1>3 DEF Lose
  <2>2. phase = "sent" /\ phase' = "sent" /\ lost' = lost + 1 /\ nals' = nals
    BY <1>3 DEF Lose
  <2>3. wire \in Seq(Packets) /\ Fit(wire) /\ lost \in Nat /\ nals # <<>> /\ nals \in Seq(GoodUnits)
    BY <2>2 DEF TransportInv
  <2>4. i \in 1 .. Len(wire)
    BY <2>3, LenProperties
  <2>5. wire' \in Seq(Packets) /\ Fit(wire')
    BY <2>1, <2>3, <2>4, LossFits
  <2>6. lost' \in Nat /\ lost' # 0
    BY <2>2, <2>3
  <2>. QED BY <2>2, <2>3, <2>5, <2>6 DEF TransportInv, Fit
<1>4. CASE DecodeFrame
  BY <1>4 DEF DecodeFrame, TransportInv, Fit
<1>5. CASE Again
  BY <1>5 DEF Again, TransportInv
<1>6. CASE UNCHANGED vars
  BY <1>6 DEF vars, TransportInv, Fit
<1>. QED BY <1>1, <1>2, <1>3, <1>4, <1>5, <1>6 DEF Next

\* The invariant always holds.
LEMMA AlwaysTransport == Spec => []TransportInv
BY InitTransport, StepTransport, PTL DEF Spec

\* However a frame is cut and whatever is lost of it, every packet fits, and
\* the marker by which the receiver takes a frame for complete is on the last
\* of the packets that are left, and only there.
THEOREM Fitting == Spec => []PacketsFit
<1>1. TransportInv => PacketsFit
  <2>. SUFFICES ASSUME TransportInv, phase = "sent", NEW i \in DOMAIN wire
                PROVE  Size(wire[i]) <= MaxSize /\ (wire[i].m <=> i = Len(wire))
    BY DEF PacketsFit
  <2>1. wire \in Seq(Packets) /\ Fit(wire)
    BY DEF TransportInv
  <2>2. i \in 1 .. Len(wire)
    BY <2>1, LenProperties
  <2>. QED BY <2>1, <2>2 DEF Fit
<1>. QED BY <1>1, AlwaysTransport, PTL

-----------------------------------------------------------------------------
(* A frame that arrives whole.                                             *)

\* When nothing is shortened or headless, the packets add the units.
LEMMA BodyIs ==
  ASSUME NEW units \in Seq(GoodUnits),
         \A i \in DOMAIN units : ~Headless(units[i])
  PROVE  Body(AllSent(units)) = FlattenSeq([i \in DOMAIN units |-> Whole(units[i])])
<1>1. \A k \in DOMAIN units : units[k] \in GoodUnits
  BY LenProperties
<1>2. \A k \in DOMAIN units : Body(Sent(units[k])) = Whole(units[k])
  BY <1>1, SentWhole
<1>3. [k \in DOMAIN units |-> Body(Sent(units[k]))] = [i \in DOMAIN units |-> Whole(units[i])]
  BY <1>2
<1>. QED BY <1>3, AllSentIs

\* The marker does not matter for what packets add.
LEMMA BodyUnmarked ==
  ASSUME NEW a \in Seq(Packets), NEW w \in Seq(Packets), Len(w) = Len(a),
         \A i \in 1 .. Len(a) : \E m \in BOOLEAN : w[i] = [a[i] EXCEPT !.m = m]
  PROVE  Body(w) = Body(a)
<1>1. \A i \in 1 .. Len(a) : Added(w[i]) = Added(a[i])
  <2>. SUFFICES ASSUME NEW i \in 1 .. Len(a) PROVE Added(w[i]) = Added(a[i])
    OBVIOUS
  <2>1. PICK m \in BOOLEAN : w[i] = [a[i] EXCEPT !.m = m]
    OBVIOUS
  <2>2. a[i] \in Packets
    BY ElementOfSeq
  <2>. QED BY <2>1, <2>2, AddedUnmarked
<1>2. DOMAIN w = 1 .. Len(a) /\ DOMAIN a = 1 .. Len(a)
  BY LenProperties
<1>3. AddedAll(w) = AddedAll(a)
  BY <1>1, <1>2 DEF AddedAll
<1>. QED BY <1>3 DEF Body

\* The packets of a frame, as they go out, are those of its units but for the
\* marker.
LEMMA TxSendPackets ==
  ASSUME NEW units \in Seq(GoodUnits), units # <<>>
  PROVE  /\ AllSent(units) \in Seq(Packets) /\ Len(AllSent(units)) > 0
         /\ TxSend(Stream(units)) \in Seq(Packets)
         /\ Len(TxSend(Stream(units))) = Len(AllSent(units))
         /\ \A i \in 1 .. Len(AllSent(units)) : \E m \in BOOLEAN :
              TxSend(Stream(units))[i] = [AllSent(units)[i] EXCEPT !.m = m]
<1>. DEFINE a == AllSent(units)
            w == [a EXCEPT ![Len(a)].m = TRUE]
<1>1. TxSend(Stream(units)) = w
  BY TxSendIs
<1>2. a \in Seq(Packets) /\ Len(a) > 0
  BY AllSentIs
<1>. HIDE DEF a
<1>3. /\ w \in Seq(Packets) /\ Len(w) = Len(a)
      /\ \A i \in 1 .. Len(a) : \E m \in BOOLEAN : w[i] = [a[i] EXCEPT !.m = m]
  BY <1>2, MarkedIs
<1>. HIDE DEF w
<1>. QED BY <1>1, <1>2, <1>3 DEF a

\* The packets of a frame with nothing shortened go through both passes of the
\* receiver as they are.
LEMMA PassesKeep ==
  ASSUME NEW units \in Seq(GoodUnits), units # <<>>,
         \A i \in DOMAIN units : ~Shortened(units[i])
  PROVE  LET w == TxSend(Stream(units))
         IN  \A i \in 1 .. Len(w) :
               /\ Shrunk(w[i]) = w[i]
               /\ \E k \in 1 .. Len(units) : w[i].type = units[k].type /\ w[i].nri = units[k].nri
<1>. DEFINE a == AllSent(units)
            w == TxSend(Stream(units))
<1>1. a \in Seq(Packets)
  BY AllSentIs
<1>2. /\ w \in Seq(Packets) /\ Len(w) = Len(a)
      /\ \A i \in 1 .. Len(a) : \E m \in BOOLEAN : w[i] = [a[i] EXCEPT !.m = m]
  BY TxSendPackets
<1>. HIDE DEF a, w
<1>3. ASSUME NEW i \in 1 .. Len(w)
      PROVE  /\ Shrunk(w[i]) = w[i]
             /\ \E k \in 1 .. Len(units) : w[i].type = units[k].type /\ w[i].nri = units[k].nri
  <2>1. i \in 1 .. Len(a) /\ a[i] \in Packets /\ w[i] \in Packets
    BY <1>1, <1>2, ElementOfSeq
  <2>2. PICK m \in BOOLEAN : w[i] = [a[i] EXCEPT !.m = m]
    BY <1>2, <2>1
  <2>3. PICK k \in 1 .. Len(units) : \E j \in 1 .. Len(Sent(units[k])) : a[i] = Sent(units[k])[j]
    BY <2>1, AllSentIs DEF a
  <2>4. units[k] \in GoodUnits /\ ~Shortened(units[k])
    <3>1. k \in DOMAIN units
      BY LenProperties
    <3>. QED BY <3>1, ElementOfSeq
  <2>5. a[i].type = units[k].type /\ a[i].nri = units[k].nri
        /\ (~a[i].fu => units[k].zeros + 2 + Len(units[k].payload) <= MaxSize)
    BY <2>3, <2>4, SentFits
  <2>6. w[i].type = a[i].type /\ w[i].nri = a[i].nri /\ w[i].fu = a[i].fu
    BY <2>1, <2>2 DEF Packets
  <2>7. w[i].type = units[k].type /\ w[i].nri = units[k].nri
        /\ (~w[i].fu => units[k].zeros + 2 + Len(units[k].payload) <= MaxSize)
    BY <2>5, <2>6, Zenon
  <2>8. Shrunk(w[i]) = w[i]
    BY <2>1, <2>4, <2>7, SentIntact
  <2>. QED BY <2>7, <2>8
<1>. QED BY <1>3 DEF w

\* The type of the frame is that of its units.
LEMMA TypeIs ==
  ASSUME NEW units \in Seq(GoodUnits), units # <<>>,
         \A i \in DOMAIN units : ~Shortened(units[i])
  PROVE  FrameType(TxSend(Stream(units))) = TypeOfUnits(units)
<1>. DEFINE a == AllSent(units)
            w == TxSend(Stream(units))
<1>1. a \in Seq(Packets) /\ Len(a) > 0
  BY AllSentIs
<1>2. \A i \in 1 .. Len(w) :
        \E k \in 1 .. Len(units) : w[i].type = units[k].type /\ w[i].nri = units[k].nri
  BY PassesKeep
<1>3. /\ w \in Seq(Packets) /\ Len(w) = Len(a)
      /\ \A i \in 1 .. Len(a) : \E m \in BOOLEAN : w[i] = [a[i] EXCEPT !.m = m]
  BY TxSendPackets
<1>4. \A k \in 1 .. Len(units) : \E i \in 1 .. Len(w) :
        w[i].type = units[k].type /\ w[i].nri = units[k].nri
  <2>. SUFFICES ASSUME NEW k \in 1 .. Len(units)
                PROVE  \E i \in 1 .. Len(w) : w[i].type = units[k].type /\ w[i].nri = units[k].nri
    OBVIOUS
  <2>1. PICK i \in 1 .. Len(a) : a[i] = Sent(units[k])[1]
    BY AllSentIs
  <2>2. units[k] \in GoodUnits
    BY ElementOfSeq
  <2>3. 1 \in 1 .. Len(Sent(units[k]))
    BY <2>2, SentFits
  <2>4. a[i].type = units[k].type /\ a[i].nri = units[k].nri
    BY <2>1, <2>2, <2>3, SentFits
  <2>. HIDE DEF a, w
  <2>5. PICK m \in BOOLEAN : w[i] = [a[i] EXCEPT !.m = m]
    BY <1>3
  <2>6. a[i] \in Packets
    BY <1>1, ElementOfSeq
  <2>7. w[i].type = a[i].type /\ w[i].nri = a[i].nri
    BY <2>5, <2>6 DEF Packets
  <2>. QED BY <1>3, <2>4, <2>7
<1>5. DOMAIN w = 1 .. Len(w) /\ DOMAIN units = 1 .. Len(units)
  <2>1. w \in Seq(Packets)
    BY <1>3
  <2>. HIDE DEF w
  <2>2. DOMAIN w = 1 .. Len(w)
    BY <2>1, LenProperties
  <2>3. DOMAIN units = 1 .. Len(units)
    BY LenProperties
  <2>. QED BY <2>2, <2>3
<1>. HIDE DEF w, a
<1>6. (\E i \in DOMAIN w : w[i].type = 5) <=> \E k \in DOMAIN units : units[k].type = 5
  <2>1. ASSUME NEW i \in DOMAIN w, w[i].type = 5 PROVE \E k \in DOMAIN units : units[k].type = 5
    BY <1>2, <1>5, <2>1, Zenon
  <2>2. ASSUME NEW k \in DOMAIN units, units[k].type = 5 PROVE \E i \in DOMAIN w : w[i].type = 5
    BY <1>4, <1>5, <2>2, Zenon
  <2>. QED BY <2>1, <2>2
<1>7. (\E i \in DOMAIN w : w[i].nri # 0) <=> \E k \in DOMAIN units : units[k].nri # 0
  <2>1. ASSUME NEW i \in DOMAIN w, w[i].nri # 0 PROVE \E k \in DOMAIN units : units[k].nri # 0
    BY <1>2, <1>5, <2>1, Zenon
  <2>2. ASSUME NEW k \in DOMAIN units, units[k].nri # 0 PROVE \E i \in DOMAIN w : w[i].nri # 0
    BY <1>4, <1>5, <2>2, Zenon
  <2>. QED BY <2>1, <2>2
<1>8. FrameType(w) = TypeOfUnits(units)
  BY <1>6, <1>7 DEF FrameType, TypeOfUnits
<1>. QED BY <1>8 DEF w

\* For every size of a packet and every length of a unit, a frame of which
\* nothing is lost comes out of the receiver as it went into the sender.
THEOREM RoundTrips == Spec => []RoundTrip
<1>1. TransportInv => RoundTrip
  <2>. SUFFICES ASSUME TransportInv, phase = "decoded", lost = 0,
                       \A i \in DOMAIN nals : ~Shortened(nals[i]) /\ ~Headless(nals[i])
                PROVE  /\ frame.buffer = FlattenSeq([i \in DOMAIN nals |-> Whole(nals[i])])
                       /\ frame.type = TypeOfUnits(nals)
    BY DEF RoundTrip
  <2>1. /\ nals \in Seq(GoodUnits) /\ nals # <<>>
        /\ wire = TxSend(Stream(nals)) /\ wire \in Seq(Packets)
        /\ frame = Decode(wire)
    BY DEF TransportInv
  <2>. DEFINE first  == [i \in DOMAIN wire |-> Shrunk(wire[i])]
              second == [i \in DOMAIN wire |-> Shrunk(first[i])]
              t      == Len(FlattenSeq([i \in DOMAIN wire |-> Added(first[i])]))
              out    == FlattenSeq([i \in DOMAIN wire |-> Added(second[i])])
  <2>2. Decode(wire) = [buffer |-> [i \in 1 .. t - Len(out) |-> Junk] \o out,
                        type |-> FrameType(wire)]
    BY DEF Decode
  <2>3. \A i \in DOMAIN wire : Shrunk(wire[i]) = wire[i]
    <3>1. DOMAIN wire = 1 .. Len(wire)
      BY <2>1, LenProperties
    <3>. QED BY <2>1, <3>1, PassesKeep
  <2>4. out = Body(wire) /\ t = Len(Body(wire))
    <3>1. \A i \in DOMAIN wire : Added(first[i]) = Added(wire[i]) /\ Added(second[i]) = Added(wire[i])
      BY <2>3
    <3>2. [i \in DOMAIN wire |-> Added(first[i])] = AddedAll(wire)
          /\ [i \in DOMAIN wire |-> Added(second[i])] = AddedAll(wire)
      BY <3>1 DEF AddedAll
    <3>. QED BY <3>2 DEF Body
  <2>5. Body(wire) = FlattenSeq([i \in DOMAIN nals |-> Whole(nals[i])])
    <3>1. AllSent(nals) \in Seq(Packets)
      BY <2>1, AllSentIs
    <3>2. Len(wire) = Len(AllSent(nals))
          /\ \A i \in 1 .. Len(AllSent(nals)) : \E m \in BOOLEAN : wire[i] = [AllSent(nals)[i] EXCEPT !.m = m]
      BY <2>1, TxSendPackets
    <3>3. Body(wire) = Body(AllSent(nals))
      BY <2>1, <3>1, <3>2, BodyUnmarked
    <3>. QED BY <2>1, <3>3, BodyIs
  <2>6. [i \in 1 .. t - Len(out) |-> Junk] \o out = Body(wire)
    <3>1. Body(wire) \in Seq(Nat)
      BY <2>1, AddedAllType
    <3>2. t - Len(out) = 0
      BY <2>4, <3>1, LenProperties
    <3>3. [i \in 1 .. t - Len(out) |-> Junk] = <<>>
      <4>. HIDE DEF t, out
      <4>. QED BY <3>2
    <3>. QED BY <2>4, <3>1, <3>3, ConcatEmptySeq
  <2>7. FrameType(wire) = TypeOfUnits(nals)
    BY <2>1, TypeIs
  <2>8. frame.buffer = [i \in 1 .. t - Len(out) |-> Junk] \o out /\ frame.type = FrameType(wire)
    <3>. DEFINE b == [i \in 1 .. t - Len(out) |-> Junk] \o out
                y == FrameType(wire)
    <3>1. frame = [buffer |-> b, type |-> y]
      BY <2>1, <2>2
    <3>2. frame.buffer = b /\ frame.type = y
      <4>. HIDE DEF b, y
      <4>. QED BY <3>1
    <3>. QED BY <3>2
  <2>9. frame.buffer = Body(wire)
    BY <2>6, <2>8
  <2>10. frame.type = TypeOfUnits(nals)
    BY <2>7, <2>8
  <2>. QED BY <2>5, <2>9, <2>10, Zenon
<1>. QED BY <1>1, AlwaysTransport, PTL

-----------------------------------------------------------------------------
(* A unit of which every packet arrives.                                   *)

\* A function on nothing is the empty sequence.
LEMMA EmptyFunction ==
  ASSUME NEW S, S = {}, NEW j
  PROVE  [x \in S |-> j] = <<>>
OBVIOUS

\* A function on the first numbers is a sequence.
LEMMA SeqIs ==
  ASSUME NEW T, NEW n \in Nat, NEW f \in [1 .. n -> T]
  PROVE  f \in Seq(T)
OBVIOUS

\* Nothing at all, or what begins with a start code.
Opening(c) ==
  \/ c = <<>>
  \/ /\ Len(StartCode(3)) <= Len(c)
     /\ \A k \in DOMAIN StartCode(3) : c[k] = StartCode(3)[k]

\* A sequence between two others is delimited by the second.
LEMMA DelimitedBetween ==
  ASSUME NEW T, NEW a \in Seq(T), NEW w \in Seq(T), NEW c \in Seq(T), Opening(c)
  PROVE  Delimited(w, a \o (w \o c))
<1>. DEFINE t == a \o (w \o c)
            S == StartCode(3)
<1>1. Len(a) \in Nat /\ Len(w) \in Nat /\ Len(c) \in Nat /\ DOMAIN w = 1 .. Len(w)
  BY LenProperties
<1>2. /\ w \o c \in Seq(T) /\ Len(w \o c) = Len(w) + Len(c)
      /\ \A k \in 1 .. Len(w) + Len(c) : (w \o c)[k] = IF k <= Len(w) THEN w[k] ELSE c[k - Len(w)]
  BY ConcatProperties
<1>3. /\ Len(t) = Len(a) + Len(w \o c)
      /\ \A k \in 1 .. Len(a) + Len(w \o c) : t[k] = IF k <= Len(a) THEN a[k] ELSE (w \o c)[k - Len(a)]
  BY <1>2, ConcatProperties
<1>. HIDE DEF t
<1>4. Len(a) \in 0 .. Len(t) - Len(w)
  BY <1>1, <1>2, <1>3
<1>5. ASSUME NEW k \in 1 .. Len(w) PROVE t[Len(a) + k] = w[k]
  <2>1. /\ Len(a) + k \in 1 .. Len(a) + Len(w \o c) /\ ~(Len(a) + k <= Len(a))
        /\ (Len(a) + k) - Len(a) = k /\ k \in 1 .. Len(w) + Len(c) /\ k <= Len(w)
    BY <1>1, <1>2
  <2>. QED BY <1>2, <1>3, <2>1
<1>6. S \in Seq(Nat)
  BY DEF StartCode
<1>7. Len(S) \in Nat /\ DOMAIN S = 1 .. Len(S)
  BY <1>6, LenProperties
<1>. HIDE DEF S
<1>8. CASE c = <<>>
  <2>1. Len(a) + Len(w) = Len(t)
    BY <1>1, <1>2, <1>3, <1>8
  <2>. QED BY <1>1, <1>4, <1>5, <2>1 DEF Delimited, t
<1>9. CASE Len(S) <= Len(c) /\ \A k \in DOMAIN S : c[k] = S[k]
  <2>1. Len(a) + Len(w) + Len(S) <= Len(t)
    BY <1>1, <1>2, <1>3, <1>7, <1>9
  <2>2. ASSUME NEW k \in DOMAIN S PROVE t[Len(a) + Len(w) + k] = S[k]
    <3>. DEFINE x == Len(a) + Len(w) + k
    <3>1. /\ x \in 1 .. Len(a) + Len(w \o c) /\ ~(x <= Len(a))
          /\ x - Len(a) \in 1 .. Len(w) + Len(c) /\ ~(x - Len(a) <= Len(w))
          /\ (x - Len(a)) - Len(w) = k
      <4>1. /\ k \in 1 .. Len(S) /\ Len(S) <= Len(c) /\ Len(S) \in Nat
            /\ Len(a) \in Nat /\ Len(w) \in Nat /\ Len(c) \in Nat
            /\ Len(w \o c) = Len(w) + Len(c)
        BY <1>1, <1>2, <1>7, <1>9
      <4>. QED BY <4>1
    <3>. HIDE DEF x
    <3>2. t[x] = c[k]
      BY <1>2, <1>3, <3>1
    <3>. QED BY <1>9, <3>2 DEF x
  <2>. QED BY <1>1, <1>4, <1>5, <2>1, <2>2 DEF Delimited, t, S
<1>. QED BY <1>8, <1>9 DEF Opening, S

\* What is delimited in a sequence is delimited in a longer one.
LEMMA DelimitedLater ==
  ASSUME NEW T, NEW w \in Seq(T), NEW t \in Seq(T), NEW b \in Seq(T), Delimited(w, t)
  PROVE  Delimited(w, b \o t)
<1>. DEFINE r == b \o t
            L == Len(b)
            M == Len(t)
            N == Len(w)
            S == StartCode(3)
            Z == Len(S)
<1>1. L \in Nat /\ M \in Nat /\ N \in Nat /\ DOMAIN w = 1 .. N
  BY LenProperties
<1>2. Len(r) = L + M /\ \A k \in 1 .. L + M : r[k] = IF k <= L THEN b[k] ELSE t[k - L]
  BY ConcatProperties
<1>3. PICK i \in 0 .. M - N :
        /\ \A k \in DOMAIN w : t[i + k] = w[k]
        /\ \/ i + N = M
           \/ i + N + Z <= M /\ \A k \in DOMAIN S : t[i + N + k] = S[k]
  BY DEF Delimited
<1>4. S \in Seq(Nat)
  BY DEF StartCode
<1>5. Z \in Nat /\ DOMAIN S = 1 .. Z
  BY <1>4, LenProperties
<1>. HIDE DEF r, L, M, N, S, Z
<1>6. L + i \in 0 .. Len(r) - N
  BY <1>1, <1>2
<1>7. ASSUME NEW k \in 1 .. N PROVE r[(L + i) + k] = w[k]
  <2>1. /\ (L + i) + k \in 1 .. L + M /\ ~((L + i) + k <= L) /\ ((L + i) + k) - L = i + k
    BY <1>1
  <2>2. r[(L + i) + k] = t[i + k]
    BY <1>2, <2>1
  <2>. QED BY <1>1, <1>3, <2>2
<1>8. CASE i + N = M
  <2>1. (L + i) + N = Len(r)
    BY <1>1, <1>2, <1>8
  <2>. QED BY <1>1, <1>6, <1>7, <2>1 DEF Delimited, r, N
<1>9. CASE i + N + Z <= M /\ \A k \in DOMAIN S : t[i + N + k] = S[k]
  <2>1. (L + i) + N + Z <= Len(r)
    BY <1>1, <1>2, <1>5, <1>9
  <2>2. ASSUME NEW k \in DOMAIN S PROVE r[(L + i) + N + k] = S[k]
    <3>. DEFINE x == (L + i) + N + k
    <3>1. x \in 1 .. L + M /\ ~(x <= L) /\ x - L = i + N + k
      BY <1>1, <1>5, <1>9
    <3>. HIDE DEF x
    <3>2. r[x] = t[i + N + k]
      BY <1>2, <3>1
    <3>. QED BY <1>9, <3>2 DEF x
  <2>. QED BY <1>1, <1>6, <1>7, <2>1, <2>2 DEF Delimited, r, N, S, Z
<1>. QED BY <1>3, <1>8, <1>9 DEF r

\* Packets of which the first is no fragment in the middle of a unit add what
\* begins with a start code.
LEMMA BodyOpens ==
  ASSUME NEW ps \in Seq(Packets), ps = <<>> \/ (ps[1].fu => ps[1].start)
  PROVE  Opening(Body(ps))
<1>1. CASE ps = <<>>
  <2>1. AddedAll(ps) = <<>>
    BY <1>1 DEF AddedAll
  <2>. QED BY <2>1, FlattenEmpty DEF Body, Opening
<1>2. CASE ps # <<>>
  <2>. DEFINE p == ps[1]
              r == Tail(ps)
              S == StartCode(3)
  <2>1. /\ p \in Packets /\ r \in Seq(Packets) /\ <<p>> \in Seq(Packets)
        /\ ps = <<p>> \o r
    BY <1>2
  <2>2. Body(ps) = Body(<<p>>) \o Body(r)
    <3>. HIDE DEF p, r
    <3>. QED BY <2>1, BodyConcat
  <2>3. Body(<<p>>) = Added(p)
    <3>1. AddedAll(<<p>>) = <<Added(p)>>
      <4>. HIDE DEF p
      <4>. QED BY DEF AddedAll
    <3>2. Added(p) \in Seq(Nat)
      BY <2>1, AddedType
    <3>. HIDE DEF p
    <3>. QED BY <3>1, <3>2, FlattenOne DEF Body
  <2>4. Added(p) = (S \o <<p.type + 32 * p.nri>>) \o p.data
    BY <1>2 DEF Added
  <2>5. S \in Seq(Nat)
    BY DEF StartCode
  <2>. DEFINE h == <<p.type + 32 * p.nri>>
              d == p.data
              e == Body(r)
  <2>6. h \in Seq(Nat) /\ d \in Seq(Nat) /\ e \in Seq(Nat)
    <3>1. d \in Seq(Nat) /\ e \in Seq(Nat)
      BY <2>1, AddedType, AddedAllType
    <3>2. p.type \in 1 .. 31 /\ p.nri \in 0 .. 3
      BY <2>1 DEF Packets
    <3>3. p.type + 32 * p.nri \in Nat
      <4>. DEFINE x == p.type
                  y == p.nri
      <4>1. x \in 1 .. 31 /\ y \in 0 .. 3
        BY <3>2
      <4>. HIDE DEF x, y
      <4>2. x + 32 * y \in Nat
        BY <4>1
      <4>. QED BY <4>2 DEF x, y
    <3>. HIDE DEF p, r, d, e
    <3>4. h \in Seq(Nat)
      BY <3>3
    <3>. QED BY <3>1, <3>4
  <2>7. Body(ps) = ((S \o h) \o d) \o e
    BY <2>2, <2>3, <2>4
  <2>. HIDE DEF S, h, d, e, p, r
  <2>8. /\ S \o h \in Seq(Nat) /\ Len(S \o h) = Len(S) + Len(h) /\ Len(S) \in Nat /\ Len(h) \in Nat
        /\ DOMAIN S = 1 .. Len(S) /\ \A k \in 1 .. Len(S) : (S \o h)[k] = S[k]
    BY <2>5, <2>6, ConcatProperties, LenProperties
  <2>. DEFINE x == S \o h
  <2>. HIDE DEF x
  <2>9. /\ x \o d \in Seq(Nat) /\ Len(x \o d) = Len(x) + Len(d) /\ Len(d) \in Nat
        /\ \A k \in 1 .. Len(x) : (x \o d)[k] = x[k]
    BY <2>6, <2>8, ConcatProperties, LenProperties DEF x
  <2>. DEFINE y == x \o d
  <2>. HIDE DEF y
  <2>10. /\ Len(y \o e) = Len(y) + Len(e) /\ Len(e) \in Nat
         /\ \A k \in 1 .. Len(y) : (y \o e)[k] = y[k]
    BY <2>6, <2>9, ConcatProperties, LenProperties DEF y
  <2>11. Len(S) <= Len(y \o e) /\ \A k \in DOMAIN S : (y \o e)[k] = S[k]
    <3>1. Len(x) = Len(S) + Len(h) /\ Len(y) = Len(x) + Len(d)
      BY <2>8, <2>9 DEF x, y
    <3>2. \A k \in 1 .. Len(S) : x[k] = S[k] /\ (k \in 1 .. Len(x) => y[k] = x[k])
      BY <2>8, <2>9 DEF x, y
    <3>. QED BY <2>8, <2>9, <2>10, <3>1, <3>2
  <2>12. Body(ps) = y \o e
    BY <2>7 DEF x, y
  <2>. QED BY <2>11, <2>12 DEF Opening, S
<1>. QED BY <1>1, <1>2

\* What some packets in a row add is in what all of them add.
LEMMA BodyWithin ==
  ASSUME NEW ps \in Seq(Packets), NEW i \in Nat, NEW n \in Nat, i + n <= Len(ps)
  PROVE  LET after == SubSeq(ps, i + n + 1, Len(ps))
         IN  /\ after \in Seq(Packets)
             /\ \E a \in Seq(Nat) :
                  Body(ps) = a \o (Body(SubSeq(ps, i + 1, i + n)) \o Body(after))
<1>. DEFINE L == Len(ps)
            before == SubSeq(ps, 1, i)
            mid    == SubSeq(ps, i + 1, i + n)
            after  == SubSeq(ps, i + n + 1, L)
            rest   == SubSeq(ps, i + 1, L)
<1>1. L \in Nat /\ \A j \in 1 .. L : ps[j] \in Packets
  BY LenProperties, ElementOfSeq
<1>2. before \in Seq(Packets) /\ mid \in Seq(Packets) /\ after \in Seq(Packets) /\ rest \in Seq(Packets)
  <2>1. ASSUME NEW x \in Nat \ {0}, NEW y \in Nat, y <= L PROVE SubSeq(ps, x, y) \in Seq(Packets)
    <3>1. \A j \in x .. y : ps[j] \in Packets
      BY <1>1, <2>1
    <3>2. x \in Int /\ y \in Int
      OBVIOUS
    <3>. QED BY <3>1, <3>2, SubSeqProperties
  <2>2. /\ 1 \in Nat \ {0} /\ i + 1 \in Nat \ {0} /\ i + n + 1 \in Nat \ {0}
        /\ i \in Nat /\ i + n \in Nat /\ L \in Nat /\ i <= L /\ i + n <= L /\ L <= L
    BY <1>1
  <2>. HIDE DEF L
  <2>. QED BY <2>1, <2>2
<1>3. ps = before \o rest
  <2>1. 1 \in 1 .. L + 1 /\ i \in 1 - 1 .. L /\ L \in i .. L
    BY <1>1
  <2>2. before \o rest = SubSeq(ps, 1, L)
    BY <2>1, ConcatAdjacentSubSeq
  <2>. QED BY <2>2, SubSeqFull
<1>4. rest = mid \o after
  <2>1. i + 1 \in 1 .. L + 1 /\ i + n \in (i + 1) - 1 .. L /\ L \in i + n .. L
    BY <1>1
  <2>. QED BY <2>1, ConcatAdjacentSubSeq
<1>. HIDE DEF before, mid, after, rest
<1>5. Body(ps) = Body(before) \o (Body(mid) \o Body(after))
  <2>1. Body(before \o rest) = Body(before) \o Body(rest)
    BY <1>2, BodyConcat
  <2>2. Body(mid \o after) = Body(mid) \o Body(after)
    BY <1>2, BodyConcat
  <2>. QED BY <1>3, <1>4, <2>1, <2>2
<1>6. Body(before) \in Seq(Nat) /\ Body(after) \in Seq(Nat)
  BY <1>2, AddedAllType
<1>. QED BY <1>2, <1>5, <1>6 DEF mid, after

\* A frame of one unit is sent as that unit.
LEMMA OneSent ==
  ASSUME NEW u \in GoodUnits
  PROVE  AllSent(<<u>>) = Sent(u)
<1>1. DOMAIN <<u>> = {1} /\ <<u>>[1] = u
  OBVIOUS
<1>2. SentAll(<<u>>) = [i \in {1} |-> Sent(u)]
  BY <1>1 DEF SentAll
<1>3. [i \in {1} |-> Sent(u)] = <<Sent(u)>>
  OBVIOUS
<1>. QED BY <1>2, <1>3, SentFits, FlattenOne DEF AllSent

\* What a frame of one unit is sent as is a sequence.
LEMMA OneSentType ==
  ASSUME NEW u \in GoodUnits
  PROVE  Len(TxSend(Stream(<<u>>))) \in Nat
<1>. DEFINE units == <<u>>
<1>1. units \in Seq(GoodUnits) /\ units # <<>>
  OBVIOUS
<1>2. TxSend(Stream(units)) \in Seq(Packets)
  <2>. HIDE DEF units
  <2>. QED BY <1>1, TxSendPackets
<1>. QED BY <1>2, LenProperties

\* A pass of the receiver leaves the head of a packet alone.
LEMMA ShrunkKeeps ==
  ASSUME NEW p \in Packets
  PROVE  Shrunk(p).fu = p.fu /\ Shrunk(p).start = p.start
BY DEF Shrunk, Packets

\* The packets as the second pass of the receiver sees them.
Passed(ps) == [i \in DOMAIN ps |-> Shrunk(Shrunk(ps[i]))]

\* Whatever else is there: when the packets of a unit are there in a row, and
\* the next one opens a unit, what the receiver adds up has the unit in it,
\* whole, and after it nothing or a start code.
LEMMA UnitArrives ==
  ASSUME NEW ps \in Seq(Packets), NEW u \in GoodUnits, ~Shortened(u), ~Headless(u),
         NEW i \in 0 .. Len(ps) - Len(TxSend(Stream(<<u>>))),
         \A k \in DOMAIN TxSend(Stream(<<u>>)) : \E m \in BOOLEAN :
           ps[i + k] = [TxSend(Stream(<<u>>))[k] EXCEPT !.m = m],
         i + Len(TxSend(Stream(<<u>>))) < Len(ps) =>
           (ps[i + Len(TxSend(Stream(<<u>>))) + 1].fu =>
              ps[i + Len(TxSend(Stream(<<u>>))) + 1].start)
  PROVE  \E a, c \in Seq(Nat) :
           Opening(c) /\ Body(Passed(ps)) = a \o (Whole(u) \o c)
<1>. DEFINE units == <<u>>
            w == TxSend(Stream(units))
            s == Sent(u)
            n == Len(s)
            q == Passed(ps)
            mid == SubSeq(q, i + 1, i + n)
<1>1. units \in Seq(GoodUnits) /\ units # <<>>
  OBVIOUS
<1>2. AllSent(units) = s
  BY OneSent
<1>3. /\ s \in Seq(Packets) /\ w \in Seq(Packets) /\ Len(w) = n
      /\ \A k \in 1 .. n : \E m \in BOOLEAN : w[k] = [s[k] EXCEPT !.m = m]
  <2>1. /\ AllSent(units) \in Seq(Packets)
        /\ w \in Seq(Packets) /\ Len(w) = Len(AllSent(units))
        /\ \A k \in 1 .. Len(AllSent(units)) : \E m \in BOOLEAN :
             w[k] = [AllSent(units)[k] EXCEPT !.m = m]
    <3>. HIDE DEF units
    <3>. QED BY <1>1, TxSendPackets
  <2>. HIDE DEF units, s, w
  <2>. QED BY <1>2, <2>1
<1>4. /\ n \in Nat
      /\ \A k \in 1 .. n : /\ s[k].type = u.type
                           /\ ~s[k].fu => u.zeros + 2 + Len(u.payload) <= MaxSize
  BY SentFits
<1>5. /\ i \in 0 .. Len(ps) - Len(w)
      /\ \A k \in DOMAIN w : \E m \in BOOLEAN : ps[i + k] = [w[k] EXCEPT !.m = m]
      /\ i + Len(w) < Len(ps) => (ps[i + Len(w) + 1].fu => ps[i + Len(w) + 1].start)
  OBVIOUS
<1>6. Body(s) = Whole(u)
  BY SentWhole
<1>. HIDE DEF units, w, s, n
<1>7. Len(ps) \in Nat /\ DOMAIN ps = 1 .. Len(ps) /\ DOMAIN w = 1 .. n
      /\ (\A j \in 1 .. Len(ps) : ps[j] \in Packets)
      /\ \A k \in 1 .. n : w[k] \in Packets /\ s[k] \in Packets
  BY <1>3, LenProperties, ElementOfSeq DEF n
<1>8. i \in Nat /\ i + n <= Len(ps)
  BY <1>3, <1>4, <1>5, <1>7
<1>9. q \in Seq(Packets) /\ Len(q) = Len(ps) /\ \A j \in 1 .. Len(ps) : q[j] = Shrunk(Shrunk(ps[j]))
  <2>1. \A j \in 1 .. Len(ps) : Shrunk(Shrunk(ps[j])) \in Packets
    BY <1>7, ShrunkType
  <2>2. q = [j \in 1 .. Len(ps) |-> Shrunk(Shrunk(ps[j]))]
    BY <1>7 DEF Passed
  <2>3. q \in [1 .. Len(ps) -> Packets]
    BY <2>1, <2>2
  <2>4. \A j \in 1 .. Len(ps) : q[j] = Shrunk(Shrunk(ps[j]))
    BY <2>2
  <2>. HIDE DEF q
  <2>5. Len(ps) \in Nat
    BY <1>7
  <2>6. q \in Seq(Packets) /\ Len(q) = Len(ps)
    BY ONLY <2>3, <2>5
  <2>. QED BY ONLY <2>4, <2>6
<1>. HIDE DEF q
<1>10. ASSUME NEW k \in 1 .. n
       PROVE  i + k \in 1 .. Len(ps) /\ \E m \in BOOLEAN : q[i + k] = [s[k] EXCEPT !.m = m]
  <2>1. i + k \in 1 .. Len(ps)
    BY <1>4, <1>8
  <2>2. PICK m1 \in BOOLEAN : w[k] = [s[k] EXCEPT !.m = m1]
    BY <1>3
  <2>3. PICK m2 \in BOOLEAN : ps[i + k] = [w[k] EXCEPT !.m = m2]
    BY <1>5, <1>7
  <2>4. ps[i + k] = [s[k] EXCEPT !.m = m2]
    BY <1>7, <2>2, <2>3 DEF Packets
  <2>5. ps[i + k] \in Packets /\ ps[i + k].type = u.type
        /\ (~ps[i + k].fu => u.zeros + 2 + Len(u.payload) <= MaxSize)
    <3>1. ps[i + k] \in Packets
      BY <1>7, <2>1
    <3>2. ps[i + k].type = s[k].type /\ ps[i + k].fu = s[k].fu
      BY <1>7, <2>4 DEF Packets
    <3>3. s[k].type = u.type /\ (~s[k].fu => u.zeros + 2 + Len(u.payload) <= MaxSize)
      BY <1>4
    <3>. QED BY <3>1, <3>2, <3>3, Zenon
  <2>6. Shrunk(ps[i + k]) = ps[i + k]
    BY <2>5, SentIntact
  <2>7. q[i + k] = ps[i + k]
    BY <1>9, <2>1, <2>6
  <2>. QED BY <2>1, <2>4, <2>7
<1>11. mid \in Seq(Packets) /\ Len(mid) = n /\ \A k \in 1 .. n : mid[k] = q[i + k]
  <2>1. i + 1 \in Int /\ i + n \in Int /\ \A j \in i + 1 .. i + n : q[j] \in Packets
    <3>1. \A j \in i + 1 .. i + n : j \in 1 .. Len(q)
      BY <1>4, <1>8, <1>9
    <3>. QED BY <1>4, <1>8, <1>9, <3>1, ElementOfSeq
  <2>2. /\ mid \in Seq(Packets) /\ Len(mid) = IF i + 1 <= i + n THEN (i + n) - (i + 1) + 1 ELSE 0
        /\ \A k \in 1 .. (i + n) - (i + 1) + 1 : mid[k] = q[(i + 1) + k - 1]
    <3>. HIDE DEF mid
    <3>. QED BY <2>1, SubSeqProperties DEF mid
  <2>3. \A k \in 1 .. n : k \in 1 .. (i + n) - (i + 1) + 1 /\ (i + 1) + k - 1 = i + k
    BY <1>4, <1>8
  <2>. HIDE DEF mid
  <2>. QED BY <1>4, <1>8, <2>2, <2>3
<1>12. Body(mid) = Body(s)
  <2>. HIDE DEF mid
  <2>1. Len(mid) = Len(s) /\ \A k \in 1 .. Len(s) : \E m \in BOOLEAN : mid[k] = [s[k] EXCEPT !.m = m]
    BY <1>10, <1>11 DEF n
  <2>. QED BY <1>3, <1>11, <2>1, BodyUnmarked
<1>. DEFINE after == SubSeq(q, i + n + 1, Len(q))
<1>13. after \in Seq(Packets) /\ \E a \in Seq(Nat) : Body(q) = a \o (Body(mid) \o Body(after))
  BY <1>4, <1>8, <1>9, BodyWithin
<1>14. after = <<>> \/ (after[1].fu => after[1].start)
  <2>1. CASE i + n = Len(ps)
    <3>1. Len(q) = i + n /\ i + n + 1 \in Int /\ Len(q) \in Int /\ i + n + 1 > Len(q)
      BY <1>4, <1>7, <1>8, <1>9, <2>1
    <3>2. after = <<>>
      BY <3>1, SubSeqEmpty
    <3>. QED BY <3>2
  <2>2. CASE i + n < Len(ps)
    <3>. DEFINE j == i + n + 1
    <3>1. j \in 1 .. Len(ps) /\ Len(q) = Len(ps) /\ j \in Int /\ Len(q) \in Int
      BY <1>4, <1>7, <1>8, <1>9, <2>2
    <3>2. ps[j].fu => ps[j].start
      BY <1>3, <1>5, <2>2
    <3>3. q[j] = Shrunk(Shrunk(ps[j])) /\ ps[j] \in Packets
      BY <1>7, <1>9, <3>1
    <3>4. q[j].fu = ps[j].fu /\ q[j].start = ps[j].start
      <4>1. \A p \in Packets : Shrunk(p).fu = p.fu /\ Shrunk(p).start = p.start
        BY ShrunkKeeps
      <4>. QED BY <3>3, <4>1, ShrunkType
    <3>5. after[1] = q[j]
      <4>1. \A k \in j .. Len(q) : q[k] \in Packets
        <5>1. \A k \in j .. Len(q) : k \in 1 .. Len(q)
          BY <3>1
        <5>. HIDE DEF j
        <5>. QED BY <1>9, <5>1, ElementOfSeq
      <4>2. 1 \in 1 .. Len(q) - j + 1 /\ j + 1 - 1 = j /\ j <= Len(q)
        BY <3>1
      <4>3. \A k \in 1 .. Len(q) - j + 1 : SubSeq(q, j, Len(q))[k] = q[j + k - 1]
        <5>. HIDE DEF j
        <5>. QED BY <3>1, <4>1, SubSeqProperties
      <4>4. SubSeq(q, j, Len(q))[1] = q[j + 1 - 1]
        <5>. HIDE DEF j
        <5>. QED BY <4>2, <4>3
      <4>. QED BY <4>2, <4>4
    <3>. HIDE DEF j, after
    <3>. QED BY <3>2, <3>4, <3>5
  <2>3. i + n = Len(ps) \/ i + n < Len(ps)
    BY <1>4, <1>7, <1>8
  <2>. HIDE DEF after
  <2>. QED BY <2>1, <2>2, <2>3
<1>15. Opening(Body(after)) /\ Body(after) \in Seq(Nat)
  <2>. HIDE DEF after
  <2>. QED BY <1>13, <1>14, BodyOpens, AddedAllType
<1>. QED BY <1>6, <1>12, <1>13, <1>15 DEF q

\* For every size of a packet and every length of a unit: whatever a loss hits,
\* a unit whose packets all arrive, the first of the next unit after them, is in
\* the decoded frame, whole and between start codes.
THEOREM LossesAreLocal == Spec => []LossIsLocal
<1>1. TransportInv => LossIsLocal
  <2>. SUFFICES ASSUME TransportInv, phase = "decoded", NEW v \in DOMAIN nals,
                       NEW at \in 0 .. Len(wire), Arrived(nals[v], at),
                       ~Shortened(nals[v]), ~Headless(nals[v])
                PROVE  Delimited(Whole(nals[v]), frame.buffer)
    BY DEF LossIsLocal
  <2>. DEFINE u == nals[v]
              first  == [i \in DOMAIN wire |-> Shrunk(wire[i])]
              second == [i \in DOMAIN wire |-> Shrunk(first[i])]
              t      == Len(FlattenSeq([i \in DOMAIN wire |-> Added(first[i])]))
              out    == FlattenSeq([i \in DOMAIN wire |-> Added(second[i])])
              pad    == [i \in 1 .. t - Len(out) |-> Junk]
              T      == Nat \cup {Junk}
  <2>1. nals \in Seq(GoodUnits) /\ wire \in Seq(Packets) /\ frame = Decode(wire)
    BY DEF TransportInv
  <2>2. u \in GoodUnits
    <3>1. v \in 1 .. Len(nals)
      BY <2>1, LenProperties
    <3>. QED BY <2>1, <3>1, ElementOfSeq
  <2>3. frame.buffer = pad \o out
    <3>. DEFINE b == pad \o out
                y == FrameType(wire)
    <3>1. frame = [buffer |-> b, type |-> y]
      BY <2>1 DEF Decode
    <3>2. frame.buffer = b
      <4>. HIDE DEF b, y
      <4>. QED BY <3>1
    <3>. QED BY <3>2
  <2>4. DOMAIN wire = 1 .. Len(wire) /\ \A i \in 1 .. Len(wire) : wire[i] \in Packets
    BY <2>1, LenProperties, ElementOfSeq
  <2>5. out = Body(Passed(wire))
    <3>1. second = Passed(wire) /\ DOMAIN second = DOMAIN wire
      BY DEF Passed
    <3>. QED BY <3>1 DEF Body, AddedAll
  <2>. DEFINE sent == TxSend(Stream(<<u>>))
  <2>6. /\ at \in 0 .. Len(wire) - Len(sent)
        /\ \A k \in DOMAIN sent : \E m \in BOOLEAN : wire[at + k] = [sent[k] EXCEPT !.m = m]
        /\ at + Len(sent) < Len(wire) =>
             (wire[at + Len(sent) + 1].fu => wire[at + Len(sent) + 1].start)
    <3>1. /\ at + Len(sent) <= Len(wire)
          /\ \A k \in DOMAIN sent : \E m \in BOOLEAN : wire[at + k] = [sent[k] EXCEPT !.m = m]
          /\ at + Len(sent) < Len(wire) =>
               (wire[at + Len(sent) + 1].fu => wire[at + Len(sent) + 1].start)
      BY DEF Arrived
    <3>2. Len(wire) \in Nat
      BY <2>1, LenProperties
    <3>3. Len(sent) \in Nat
      BY <2>2, OneSentType
    <3>4. at \in 0 .. Len(wire) - Len(sent)
      <4>. HIDE DEF sent
      <4>. QED BY <3>1, <3>2, <3>3
    <3>. QED BY <3>1, <3>4
  <2>7. PICK a \in Seq(Nat), c \in Seq(Nat) : Opening(c) /\ out = a \o (Whole(u) \o c)
    <3>. HIDE DEF u, out
    <3>1. ~Shortened(u) /\ ~Headless(u)
      BY DEF u
    <3>2. \E a, c \in Seq(Nat) : Opening(c) /\ Body(Passed(wire)) = a \o (Whole(u) \o c)
      BY <2>1, <2>2, <2>6, <3>1, UnitArrives
    <3>. QED BY <2>5, <3>2
  <2>8. ASSUME NEW s \in Seq(Nat) PROVE s \in Seq(T)
    <3>1. Len(s) \in Nat /\ s \in [1 .. Len(s) -> T]
      BY LenProperties, ElementOfSeq
    <3>. HIDE DEF T
    <3>. QED BY <3>1, SeqIs
  <2>9. Whole(u) \in Seq(Nat)
    <3>1. Body(Sent(u)) = Whole(u) /\ Sent(u) \in Seq(Packets)
      BY <2>2, SentWhole, SentFits
    <3>. QED BY <3>1, AddedAllType
  <2>10. pad \in Seq(T)
    <3>1. t \in Nat /\ Len(out) \in Nat
      <4>1. \A ps \in Seq(Packets) : Len(Body(ps)) \in Nat
        BY AddedAllType, LenProperties
      <4>2. first \in Seq(Packets)
        <5>1. first \in [1 .. Len(wire) -> Packets]
          BY <2>4, ShrunkType
        <5>2. Len(wire) \in Nat
          BY <2>1, LenProperties
        <5>. HIDE DEF first
        <5>. QED BY <5>1, <5>2, SeqIs
      <4>3. second \in Seq(Packets)
        <5>1. \A x \in DOMAIN wire : first[x] \in Packets
          BY <2>4, ShrunkType
        <5>2. second \in [1 .. Len(wire) -> Packets]
          <6>. HIDE DEF first
          <6>. QED BY <2>4, <5>1, ShrunkType
        <5>3. Len(wire) \in Nat
          BY <2>1, LenProperties
        <5>. HIDE DEF second
        <5>. QED BY <5>2, <5>3, SeqIs
      <4>4. t = Len(Body(first)) /\ out = Body(second)
        BY DEF Body, AddedAll
      <4>. HIDE DEF first, second, t, out
      <4>. QED BY <4>1, <4>2, <4>3, <4>4
    <3>. DEFINE d == t - Len(out)
    <3>2. d \in Int
      BY <3>1
    <3>3. pad = [x \in 1 .. d |-> Junk]
      OBVIOUS
    <3>. HIDE DEF d, pad
    <3>4. CASE d \in Nat
      <4>1. pad \in [1 .. d -> T]
        <5>1. Junk \in T
          OBVIOUS
        <5>. HIDE DEF T
        <5>. QED BY <3>3, <5>1
      <4>. QED BY <3>4, <4>1
    <3>5. CASE d \notin Nat
      <4>1. 1 .. d = {}
        BY <3>2, <3>5
      <4>2. pad = <<>>
        <5>1. [x \in 1 .. d |-> Junk] = <<>>
          BY <4>1, EmptyFunction
        <5>. QED BY <3>3, <5>1, Zenon
      <4>. QED BY <4>2
    <3>. QED BY <3>4, <3>5
  <2>. DEFINE W == Whole(u)
  <2>11. W \in Seq(T) /\ a \in Seq(T) /\ c \in Seq(T)
    BY <2>7, <2>8, <2>9
  <2>. HIDE DEF pad, out, T, W
  <2>12. Delimited(W, pad \o (a \o (W \o c)))
    <3>. DEFINE x == a \o (W \o c)
    <3>1. Delimited(W, x)
      BY <2>11, <2>7, DelimitedBetween
    <3>2. W \o c \in Seq(T)
      BY <2>11, ConcatProperties
    <3>3. x \in Seq(T)
      BY <2>11, <3>2, ConcatProperties
    <3>. HIDE DEF x
    <3>4. Delimited(W, pad \o x)
      BY <2>10, <2>11, <3>1, <3>3, DelimitedLater
    <3>. QED BY <3>4 DEF x
  <2>13. frame.buffer = pad \o (a \o (W \o c))
    BY <2>3, <2>7 DEF W
  <2>. QED BY <2>12, <2>13 DEF W
<1>. QED BY <1>1, AlwaysTransport, PTL

=============================================================================
