-------------------------- MODULE ParticipantDbProof --------------------------
(***************************************************************************)
(* Proofs about ParticipantDb, for any set of keys and any placement of    *)
(* the nodes: the tree passes the checks of pdb_validate, and implements   *)
(* the dictionary ParticipantSet.                                          *)
(*                                                                         *)
(* Every node n has an interval (lo[n], hi[n]) that the keys below it are  *)
(* in: its parent's, cut at the parent's key.  TreeInv says that there are *)
(* such intervals, and that no key is in one where a link is null.  The    *)
(* loops of the code are recursive functions here; each of them goes from  *)
(* a node to one whose interval is narrower, or wider, and that is the     *)
(* measure by which the inductions go.                                     *)
(***************************************************************************)
EXTENDS ParticipantDb, FiniteSetTheorems, NaturalsInduction, WellFoundedInduction, TLAPS

(***************************************************************************)
(* Numbers and recursion.                                                  *)
(***************************************************************************)
\* A set of numbers has a least element.
LEMMA LeastElement ==
  ASSUME NEW S, S \subseteq Nat, S # {}
  PROVE  \E x \in S : \A y \in S : x <= y
<1>. DEFINE R == {ss \in Nat \X Nat : ss[1] < ss[2]}
<1>1. IsWellFoundedOn(R, Nat)
  BY NatLessThanWellFounded DEF OpToRel
<1>2. PICK x \in S : \A y \in S : <<y, x>> \notin R
  <2>. HIDE DEF R
  <2>. QED BY <1>1, WFMin
<1>3. ASSUME NEW y \in S PROVE x <= y
  <2>1. x \in Nat /\ y \in Nat
    OBVIOUS
  <2>2. ~(y < x)
    BY <1>2, <2>1
  <2>. QED BY <2>1, <2>2
<1>. QED BY <1>3

\* Induction over the rank of the elements of a set: T has them all if it has
\* each whose predecessors it has.
LEMMA RankInduction ==
  ASSUME NEW S, NEW rank \in [S -> Nat], NEW T,
         \A n \in S : (\A m \in S : rank[m] < rank[n] => m \in T) => n \in T
  PROVE  S \subseteq T
<1>. SUFFICES ASSUME S \ T # {} PROVE FALSE
  OBVIOUS
<1>. DEFINE R == {rank[n] : n \in S \ T}
<1>1. R \subseteq Nat /\ R # {}
  OBVIOUS
<1>2. PICK r \in R : \A q \in R : r <= q
  <2>. HIDE DEF R
  <2>. QED BY <1>1, LeastElement
<1>3. PICK n \in S \ T : r = rank[n]
  BY <1>2
<1>4. ASSUME NEW m \in S, rank[m] < rank[n] PROVE m \in T
  <2>1. SUFFICES ASSUME m \notin T PROVE FALSE
    OBVIOUS
  <2>2. rank[n] <= rank[m]
    BY <2>1, <1>2, <1>3
  <2>3. rank[n] \in Nat /\ rank[m] \in Nat
    BY <1>3
  <2>. QED BY <1>4, <2>2, <2>3
<1>. QED BY <1>3, <1>4

\* A loop over S that goes from n to next[n] until it is in Stop, and then
\* returns out[n].
Loops(f, S, Stop, out, next) ==
  f = [n \in S |-> IF n \in Stop THEN out[n] ELSE f[next[n]]]

\* Part of such a function, on a set that the loop does not leave.
Partial(g, S, Stop, out, next) ==
  /\ DOMAIN g \subseteq S
  /\ \A n \in DOMAIN g \ Stop : next[n] \in DOMAIN g
  /\ Loops(g, DOMAIN g, Stop, out, next)

\* Element by element.
LEMMA LoopStep ==
  ASSUME NEW S, NEW Stop, NEW out, NEW next, NEW f, Loops(f, S, Stop, out, next)
  PROVE  /\ DOMAIN f = S
         /\ \A n \in S : f[n] = IF n \in Stop THEN out[n] ELSE f[next[n]]
BY Zenon DEF Loops

\* Two parts agree where they overlap.
LEMMA PartsAgree ==
  ASSUME NEW S, NEW Stop, NEW out, NEW next, NEW rank \in [S -> Nat],
         \A n \in S \ Stop : next[n] \in S /\ rank[next[n]] < rank[n],
         NEW g, NEW h, Partial(g, S, Stop, out, next), Partial(h, S, Stop, out, next)
  PROVE  \A n \in DOMAIN g \cap DOMAIN h : g[n] = h[n]
<1>g. \A n \in DOMAIN g : g[n] = IF n \in Stop THEN out[n] ELSE g[next[n]]
  BY LoopStep DEF Partial
<1>h. \A n \in DOMAIN h : h[n] = IF n \in Stop THEN out[n] ELSE h[next[n]]
  BY LoopStep DEF Partial
<1>. DEFINE T == {n \in S : n \in DOMAIN g \cap DOMAIN h => g[n] = h[n]}
<1>1. ASSUME NEW n \in S, \A m \in S : rank[m] < rank[n] => m \in T PROVE n \in T
  <2>1. SUFFICES ASSUME n \in DOMAIN g \cap DOMAIN h PROVE g[n] = h[n]
    OBVIOUS
  <2>2. CASE n \in Stop
    BY <2>1, <2>2, <1>g, <1>h
  <2>3. CASE n \notin Stop
    <3>1. next[n] \in DOMAIN g \cap DOMAIN h /\ next[n] \in T
      BY <2>1, <2>3, <1>1 DEF Partial
    <3>. QED BY <2>1, <2>3, <3>1, <1>g, <1>h
  <2>. QED BY <2>2, <2>3
<1>2. S \subseteq T
  <2>. HIDE DEF T
  <2>. QED BY <1>1, RankInduction
<1>. QED BY <1>2 DEF Partial

\* Each element is in the domain of some part.
LEMMA PartsCover ==
  ASSUME NEW S, NEW Stop, NEW out, NEW next, NEW rank \in [S -> Nat],
         \A n \in S \ Stop : next[n] \in S /\ rank[next[n]] < rank[n]
  PROVE  \A n \in S : \E g : Partial(g, S, Stop, out, next) /\ n \in DOMAIN g
<1>. DEFINE T == {n \in S : \E g : Partial(g, S, Stop, out, next) /\ n \in DOMAIN g}
<1>1. ASSUME NEW n \in S, \A m \in S : rank[m] < rank[n] => m \in T PROVE n \in T
  <2>1. CASE n \in Stop
    <3>. DEFINE g == [m \in {n} |-> out[m]]
    <3>1. g = [m \in {n} |-> IF m \in Stop THEN out[m] ELSE g[next[m]]]
      BY <2>1
    <3>2. Partial(g, S, Stop, out, next)
      BY <3>1, <2>1 DEF Partial, Loops
    <3>3. n \in DOMAIN g
      OBVIOUS
    <3>. HIDE DEF g
    <3>. QED BY <3>2, <3>3
  <2>2. CASE n \notin Stop
    <3>1. PICK h : Partial(h, S, Stop, out, next) /\ next[n] \in DOMAIN h
      BY <1>1, <2>2
    <3>. DEFINE D == DOMAIN h \cup {n}
                g == [m \in D |-> IF m \in DOMAIN h THEN h[m] ELSE h[next[m]]]
    <3>h. \A m \in DOMAIN h : h[m] = IF m \in Stop THEN out[m] ELSE h[next[m]]
      BY <3>1, LoopStep DEF Partial
    <3>2. \A m \in D \ Stop : next[m] \in DOMAIN h
      BY <3>1, <2>2 DEF Partial
    <3>3. ASSUME NEW m \in D PROVE g[m] = IF m \in Stop THEN out[m] ELSE g[next[m]]
      <4>1. CASE m \in DOMAIN h
        BY <4>1, <3>h, <3>2
      <4>2. CASE m \notin DOMAIN h
        BY <4>2, <3>2, <2>2
      <4>. QED BY <4>1, <4>2
    <3>4. g = [m \in D |-> IF m \in Stop THEN out[m] ELSE g[next[m]]]
      BY <3>3, Zenon
    <3>5. DOMAIN g = D /\ D \subseteq S
      BY <3>1 DEF Partial
    <3>. HIDE DEF g
    <3>6. Partial(g, S, Stop, out, next)
      BY <3>2, <3>4, <3>5 DEF Partial, Loops
    <3>. QED BY <3>5, <3>6
  <2>. QED BY <2>1, <2>2
<1>2. S \subseteq T
  <2>. HIDE DEF T
  <2>. QED BY <1>1, RankInduction
<1>. QED BY <1>2

\* A loop that gets ahead by a measure is well defined.
LEMMA LoopExists ==
  ASSUME NEW S, NEW Stop, NEW out, NEW next, NEW rank \in [S -> Nat],
         \A n \in S \ Stop : next[n] \in S /\ rank[next[n]] < rank[n]
  PROVE  \E f : Loops(f, S, Stop, out, next)
<1>. DEFINE P(n) == CHOOSE g : Partial(g, S, Stop, out, next) /\ n \in DOMAIN g
            f == [n \in S |-> P(n)[n]]
<1>1. \A n \in S : Partial(P(n), S, Stop, out, next) /\ n \in DOMAIN P(n)
  BY PartsCover
<1>2. ASSUME NEW n \in S PROVE f[n] = IF n \in Stop THEN out[n] ELSE f[next[n]]
  <2>1. P(n)[n] = IF n \in Stop THEN out[n] ELSE P(n)[next[n]]
    <3>. DEFINE g == P(n)
    <3>1. Partial(g, S, Stop, out, next) /\ n \in DOMAIN g
      BY <1>1
    <3>. HIDE DEF g
    <3>2. g[n] = IF n \in Stop THEN out[n] ELSE g[next[n]]
      BY <3>1, LoopStep DEF Partial
    <3>. QED BY <3>2 DEF g
  <2>2. CASE n \in Stop
    BY <2>1, <2>2
  <2>3. CASE n \notin Stop
    <3>1. next[n] \in S /\ next[n] \in DOMAIN P(n)
      BY <1>1, <2>3 DEF Partial
    <3>2. P(n)[next[n]] = P(next[n])[next[n]]
      <4>1. /\ Partial(P(n), S, Stop, out, next)
            /\ Partial(P(next[n]), S, Stop, out, next) /\ next[n] \in DOMAIN P(next[n])
        BY <3>1, <1>1
      <4>. HIDE DEF P
      <4>. QED BY <3>1, <4>1, PartsAgree
    <3>. QED BY <2>1, <2>3, <3>1, <3>2
  <2>. QED BY <2>2, <2>3
<1>. HIDE DEF P
<1>3. Loops(f, S, Stop, out, next)
  BY <1>2, Zenon DEF Loops
<1>. QED BY <1>3

-----------------------------------------------------------------------------
(***************************************************************************)
(* Search trees.                                                           *)
(***************************************************************************)
\* Below every key, and above every key.
Bottom == -1

Top == CHOOSE t \in Nat : \A k \in Ssrcs : k < t

Links == Addresses \cup {Nil}

Fields == [key : Ssrcs, data : Ssrcs, parent : Links, left : Links, right : Links]

\* The nodes of a tree N with root r: each holds a key of its own.
Shape(N, r) ==
  /\ DOMAIN N \subseteq Addresses /\ N \in [DOMAIN N -> Fields]
  /\ r \in DOMAIN N \cup {Nil} /\ (r = Nil => DOMAIN N = {})
  /\ \A a \in DOMAIN N : N[a].data = N[a].key
  /\ \A a, b \in DOMAIN N : N[a].key = N[b].key => a = b

\* Children and parents name each other, and only the root has no parent.
Linked(N, r) ==
  \A a \in DOMAIN N :
    /\ {N[a].left, N[a].right, N[a].parent} \subseteq DOMAIN N \cup {Nil}
    /\ N[a].left # Nil => N[N[a].left].parent = a
    /\ N[a].right # Nil => N[N[a].right].parent = a
    /\ N[a].parent # Nil => a \in {N[N[a].parent].left, N[N[a].parent].right}
    /\ N[a].parent = Nil <=> a = r

\* The intervals of the nodes.
Intervals(N, r, lo, hi) ==
  /\ lo \in [DOMAIN N -> Int] /\ hi \in [DOMAIN N -> Int]
  /\ r # Nil => lo[r] = Bottom /\ hi[r] = Top
  /\ \A a \in DOMAIN N :
       /\ lo[a] < N[a].key /\ N[a].key < hi[a]
       /\ N[a].left # Nil => lo[N[a].left] = lo[a] /\ hi[N[a].left] = N[a].key
       /\ N[a].right # Nil => lo[N[a].right] = N[a].key /\ hi[N[a].right] = hi[a]

\* Where a link is null there is no key that would belong there.
Gaps(N, lo, hi) ==
  \A a, b \in DOMAIN N :
    /\ N[a].left = Nil => ~(lo[a] < N[b].key /\ N[b].key < N[a].key)
    /\ N[a].right = Nil => ~(N[a].key < N[b].key /\ N[b].key < hi[a])

\* An interval ends at keys of nodes further up.
Ends(N, lo, hi) ==
  \A a \in DOMAIN N :
    /\ lo[a] # Bottom => \E b \in DOMAIN N : N[b].key = lo[a]
    /\ hi[a] # Top => \E b \in DOMAIN N : N[b].key = hi[a]
    /\ \A b \in DOMAIN N :
         /\ N[b].key = lo[a] => N[b].right # Nil /\ hi[a] <= hi[b]
         /\ N[b].key = hi[a] => N[b].left # Nil /\ lo[b] <= lo[a]

Tree(N, r, lo, hi) ==
  Shape(N, r) /\ Linked(N, r) /\ Intervals(N, r, lo, hi) /\ Gaps(N, lo, hi) /\ Ends(N, lo, hi)

TreeInv == \E lo, hi : Tree(node, root, lo, hi)

DbInv == TreeInv /\ count = Cardinality(DOMAIN node) /\ it \in Pointers

-----------------------------------------------------------------------------
\* A finite set of numbers has an upper bound.
LEMMA FiniteBound ==
  ASSUME NEW K, IsFiniteSet(K), K \subseteq Nat
  PROVE  \E t \in Nat : \A k \in K : k < t
<1>. DEFINE S == SUBSET K
            rank == [X \in S |-> Cardinality(X)]
            T == {X \in S : \E t \in Nat : \A k \in X : k < t}
<1>1. rank \in [S -> Nat]
  BY FS_Subset, FS_CardinalityType
<1>2. ASSUME NEW X \in S, \A Y \in S : rank[Y] < rank[X] => Y \in T PROVE X \in T
  <2>1. CASE X = {}
    BY <2>1
  <2>2. CASE X # {}
    <3>1. PICK x \in X : TRUE
      BY <2>2
    <3>2. IsFiniteSet(X)
      BY FS_Subset
    <3>3. Cardinality(X \ {x}) = Cardinality(X) - 1 /\ Cardinality(X) \in Nat
      BY <3>2, FS_RemoveElement, FS_CardinalityType
    <3>4. X \ {x} \in T
      <4>1. X \ {x} \in S /\ rank[X \ {x}] = Cardinality(X \ {x}) /\ rank[X] = Cardinality(X)
        OBVIOUS
      <4>2. rank[X \ {x}] < rank[X]
        BY <4>1, <3>3
      <4>. HIDE DEF S, T, rank
      <4>. QED BY <1>2, <4>1, <4>2
    <3>5. PICK t \in Nat : \A k \in X \ {x} : k < t
      BY <3>4
    <3>6. x \in Nat
      OBVIOUS
    <3>. DEFINE u == IF x < t THEN t ELSE x + 1
    <3>7. u \in Nat /\ \A k \in X : k < u
      <4>1. u \in Nat /\ x < u /\ t <= u
        BY <3>5, <3>6
      <4>2. ASSUME NEW k \in X PROVE k < u
        <5>1. CASE k = x
          BY <4>1, <5>1
        <5>2. CASE k # x
          <6>1. k < t /\ k \in Nat
            BY <5>2, <3>5
          <6>. HIDE DEF u
          <6>. QED BY <6>1, <4>1, <3>5
        <5>. QED BY <5>1, <5>2
      <4>. QED BY <4>1, <4>2
    <3>. QED BY <3>7
  <2>. QED BY <2>1, <2>2
<1>3. S \subseteq T
  <2>. HIDE DEF S, T, rank
  <2>. QED BY <1>1, <1>2, RankInduction
<1>. QED BY <1>3

\* All keys are between Bottom and Top.
LEMMA TopIs == Top \in Nat /\ \A k \in Ssrcs : k \in Nat /\ Bottom < k /\ k < Top
<1>1. \E t \in Nat : \A k \in Ssrcs : k < t
  BY DbAssumption, FiniteBound
<1>2. Top \in Nat /\ \A k \in Ssrcs : k < Top
  BY <1>1 DEF Top
<1>. QED BY <1>2, DbAssumption DEF Bottom

\* What a tree knows of one of its nodes.
LEMMA NodeIs ==
  ASSUME NEW N, NEW r, NEW lo, NEW hi, Tree(N, r, lo, hi), NEW a \in DOMAIN N
  PROVE  /\ a # Nil /\ a \in Addresses
         /\ N[a] \in Fields /\ N[a].key \in Ssrcs /\ N[a].key \in Nat /\ N[a].key < Top
         /\ lo[a] \in Int /\ hi[a] \in Int /\ Top \in Nat
         /\ lo[a] < N[a].key /\ N[a].key < hi[a]
         /\ Bottom <= lo[a] /\ hi[a] <= Top
         /\ {N[a].left, N[a].right, N[a].parent} \subseteq DOMAIN N \cup {Nil}
<1>1. a # Nil /\ a \in Addresses /\ N[a] \in Fields
  BY DbAssumption DEF Tree, Shape
<1>2. N[a].key \in Ssrcs
  BY <1>1 DEF Fields
<1>3. /\ lo[a] \in Int /\ hi[a] \in Int
      /\ lo[a] < N[a].key /\ N[a].key < hi[a]
  BY DEF Tree, Intervals
<1>4. \A b \in DOMAIN N : N[b].key \in Nat /\ N[b].key < Top /\ Bottom < N[b].key
  BY TopIs DEF Tree, Shape, Fields
<1>5. Bottom <= lo[a]
  <2>1. CASE lo[a] = Bottom
    BY <2>1, <1>3
  <2>2. CASE lo[a] # Bottom
    BY <2>2, <1>4 DEF Tree, Ends, Bottom
  <2>. QED BY <2>1, <2>2
<1>6. hi[a] <= Top
  <2>1. CASE hi[a] = Top
    BY <2>1, <1>3
  <2>2. CASE hi[a] # Top
    BY <2>2, <1>4, TopIs DEF Tree, Ends
  <2>. QED BY <2>1, <2>2
<1>7. {N[a].left, N[a].right, N[a].parent} \subseteq DOMAIN N \cup {Nil}
  BY DEF Tree, Linked
<1>. QED BY <1>1, <1>2, <1>3, <1>4, <1>5, <1>6, <1>7, TopIs

\* Width of the intervals, by which the loops that go down get ahead.
Width(lo, hi) == [n \in Pointers |-> IF n = Nil THEN 0 ELSE hi[n] - lo[n]]

\* It gets smaller from a node to its children.
LEMMA Narrower ==
  ASSUME NEW lo, NEW hi, Tree(node, root, lo, hi)
  PROVE  /\ Width(lo, hi) \in [Pointers -> Nat]
         /\ \A n \in DOMAIN node :
              /\ node[n].left \in Pointers /\ Width(lo, hi)[node[n].left] < Width(lo, hi)[n]
              /\ node[n].right \in Pointers /\ Width(lo, hi)[node[n].right] < Width(lo, hi)[n]
<1>. DEFINE w == Width(lo, hi)
<1>1. Nil \notin DOMAIN node
  BY NodeIs
<1>2. ASSUME NEW n \in DOMAIN node
      PROVE  w[n] = hi[n] - lo[n] /\ w[n] \in Nat /\ w[n] > 0
  <2>1. w[n] = hi[n] - lo[n]
    BY <1>1 DEF Width, Pointers
  <2>. QED BY <2>1, NodeIs
<1>3. w[Nil] = 0
  BY DEF Width, Pointers
<1>4. w \in [Pointers -> Nat]
  <2>1. \A n \in Pointers : w[n] \in Nat
    BY <1>2, <1>3 DEF Pointers
  <2>2. w = [n \in Pointers |-> w[n]]
    BY DEF Width
  <2>. HIDE DEF w
  <2>. QED BY <2>1, <2>2
<1>5. ASSUME NEW n \in DOMAIN node
      PROVE  /\ node[n].left \in Pointers /\ w[node[n].left] < w[n]
             /\ node[n].right \in Pointers /\ w[node[n].right] < w[n]
  <2>1. /\ node[n].left \in Pointers /\ node[n].right \in Pointers
        /\ lo[n] \in Int /\ hi[n] \in Int /\ node[n].key \in Nat
        /\ lo[n] < node[n].key /\ node[n].key < hi[n]
    BY NodeIs DEF Pointers
  <2>2. w[node[n].left] < w[n]
    <3>1. CASE node[n].left = Nil
      BY <3>1, <1>2, <1>3
    <3>2. CASE node[n].left # Nil
      <4>1. /\ node[n].left \in DOMAIN node
            /\ lo[node[n].left] = lo[n] /\ hi[node[n].left] = node[n].key
        BY <3>2, <2>1 DEF Pointers, Tree, Intervals
      <4>2. w[node[n].left] = hi[node[n].left] - lo[node[n].left] /\ w[n] = hi[n] - lo[n]
        BY <4>1, <1>2
      <4>. HIDE DEF w
      <4>. QED BY <2>1, <4>1, <4>2
    <3>. QED BY <3>1, <3>2
  <2>3. w[node[n].right] < w[n]
    <3>1. CASE node[n].right = Nil
      BY <3>1, <1>2, <1>3
    <3>2. CASE node[n].right # Nil
      <4>1. /\ node[n].right \in DOMAIN node
            /\ lo[node[n].right] = node[n].key /\ hi[node[n].right] = hi[n]
        BY <3>2, <2>1 DEF Pointers, Tree, Intervals
      <4>2. w[node[n].right] = hi[node[n].right] - lo[node[n].right] /\ w[n] = hi[n] - lo[n]
        BY <4>1, <1>2
      <4>. HIDE DEF w
      <4>. QED BY <2>1, <4>1, <4>2
    <3>. QED BY <3>1, <3>2
  <2>. QED BY <2>1, <2>2, <2>3
<1>. QED BY <1>4, <1>5

-----------------------------------------------------------------------------
(***************************************************************************)
(* What the loops find.                                                    *)
(***************************************************************************)
\* pdb_search goes on from each node but the one it looks for.
LEMMA SearchLoop ==
  ASSUME NEW lo, NEW hi, Tree(node, root, lo, hi), NEW k
  PROVE  \E f : /\ \A n \in Pointers : f[n] = IF n = Nil THEN Nil
                                               ELSE IF node[n].key = k THEN n ELSE f[Toward(n, k)]
                /\ Search(k) = f[root]
<1>. DEFINE Stop == {n \in Pointers : n = Nil \/ node[n].key = k}
            out == [n \in Pointers |-> n]
            next == [n \in Pointers |-> Toward(n, k)]
            Is(f) == f = [n \in Pointers |->
                           IF n = Nil THEN Nil
                           ELSE IF node[n].key = k THEN n ELSE f[Toward(n, k)]]
<1>1. \A n \in Pointers \ Stop : next[n] \in Pointers /\ Width(lo, hi)[next[n]] < Width(lo, hi)[n]
  BY Narrower DEF Toward, Pointers
<1>2. PICK f : Loops(f, Pointers, Stop, out, next)
  <2>1. Width(lo, hi) \in [Pointers -> Nat]
    BY Narrower
  <2>. HIDE DEF Stop, out, next
  <2>. QED BY <1>1, <2>1, LoopExists
<1>3. Is(f)
  <2>1. \A n \in Pointers : f[n] = IF n = Nil THEN Nil
                                   ELSE IF node[n].key = k THEN n ELSE f[Toward(n, k)]
    BY <1>2, LoopStep
  <2>2. f = [n \in Pointers |-> f[n]]
    BY <1>2, Zenon DEF Loops
  <2>. QED BY <2>1, <2>2, Zenon
<1>. DEFINE g == CHOOSE h : Is(h)
<1>4. Is(g)
  <2>. HIDE DEF Is
  <2>. QED BY <1>3
<1>5. Search(k) = g[root]
  BY DEF Search
<1>6. \A n \in Pointers : g[n] = IF n = Nil THEN Nil
                                 ELSE IF node[n].key = k THEN n ELSE g[Toward(n, k)]
  <2>. HIDE DEF g
  <2>. QED BY <1>4, Zenon
<1>. QED BY <1>5, <1>6

\* It finds the node of a key, if there is one.
LEMMA SearchFinds ==
  ASSUME NEW lo, NEW hi, Tree(node, root, lo, hi), NEW k \in Ssrcs
  PROVE  /\ Search(k) # Nil => Search(k) \in DOMAIN node /\ node[Search(k)].key = k
         /\ Search(k) = Nil => \A a \in DOMAIN node : node[a].key # k
<1>. DEFINE Found(v) == /\ v # Nil => v \in DOMAIN node /\ node[v].key = k
                        /\ v = Nil => \A a \in DOMAIN node : node[a].key # k
<1>1. PICK f : /\ \A n \in Pointers : f[n] = IF n = Nil THEN Nil
                                             ELSE IF node[n].key = k THEN n ELSE f[Toward(n, k)]
               /\ Search(k) = f[root]
  BY SearchLoop
<1>. DEFINE T == {n \in Pointers : n # Nil /\ lo[n] < k /\ k < hi[n] => Found(f[n])}
<1>2. ASSUME NEW n \in Pointers, \A m \in Pointers : Width(lo, hi)[m] < Width(lo, hi)[n] => m \in T
      PROVE  n \in T
  <2>1. SUFFICES ASSUME n # Nil, lo[n] < k, k < hi[n] PROVE Found(f[n])
    OBVIOUS
  <2>2. n \in DOMAIN node
    BY <2>1 DEF Pointers
  <2>3. k \in Nat /\ node[n].key \in Nat /\ Nil \in Pointers
    BY <2>2, TopIs, NodeIs DEF Pointers
  <2>4. CASE node[n].key = k
    BY <2>1, <2>2, <2>4, <1>1
  <2>5. CASE k < node[n].key
    <3>1. Toward(n, k) = node[n].left /\ f[n] = f[node[n].left]
      BY <2>1, <2>3, <2>5, <1>1 DEF Toward
    <3>2. CASE node[n].left = Nil
      <4>1. f[n] = Nil
        BY <3>1, <3>2, <2>3, <1>1
      <4>2. \A a \in DOMAIN node : node[a].key # k
        BY <2>1, <2>2, <2>5, <3>2 DEF Tree, Gaps
      <4>. QED BY <4>1, <4>2
    <3>3. CASE node[n].left # Nil
      <4>1. lo[node[n].left] = lo[n] /\ hi[node[n].left] = node[n].key
        BY <2>2, <3>3 DEF Tree, Intervals
      <4>2. node[n].left \in T
        BY <1>2, <2>2, Narrower
      <4>. QED BY <4>1, <4>2, <3>1, <3>3, <2>1, <2>5
    <3>. QED BY <3>2, <3>3
  <2>6. CASE node[n].key < k
    <3>1. Toward(n, k) = node[n].right /\ f[n] = f[node[n].right]
      BY <2>1, <2>3, <2>6, <1>1 DEF Toward
    <3>2. CASE node[n].right = Nil
      <4>1. f[n] = Nil
        BY <3>1, <3>2, <2>3, <1>1
      <4>2. \A a \in DOMAIN node : node[a].key # k
        BY <2>1, <2>2, <2>6, <3>2 DEF Tree, Gaps
      <4>. QED BY <4>1, <4>2
    <3>3. CASE node[n].right # Nil
      <4>1. lo[node[n].right] = node[n].key /\ hi[node[n].right] = hi[n]
        BY <2>2, <3>3 DEF Tree, Intervals
      <4>2. node[n].right \in T
        BY <1>2, <2>2, Narrower
      <4>. QED BY <4>1, <4>2, <3>1, <3>3, <2>1, <2>6
    <3>. QED BY <3>2, <3>3
  <2>. QED BY <2>3, <2>4, <2>5, <2>6
<1>3. Pointers \subseteq T
  <2>1. Width(lo, hi) \in [Pointers -> Nat]
    BY Narrower
  <2>. HIDE DEF T
  <2>. QED BY <1>2, <2>1, RankInduction
<1>4. root \in Pointers /\ (root = Nil => DOMAIN node = {}) /\ Nil \in Pointers
  BY DEF Tree, Shape, Pointers
<1>5. CASE root = Nil
  BY <1>1, <1>4, <1>5
<1>6. CASE root # Nil
  <2>1. lo[root] < k /\ k < hi[root]
    BY <1>6, TopIs DEF Tree, Intervals
  <2>2. Found(f[root])
    BY <1>3, <1>4, <1>6, <2>1
  <2>. QED BY <1>1, <2>2
<1>. QED BY <1>5, <1>6

\* The search for the place of a new key.
LEMMA InsertionLoop ==
  ASSUME NEW lo, NEW hi, Tree(node, root, lo, hi), NEW k
  PROVE  \E f : /\ \A n \in Pointers : f[n] = IF n = Nil \/ Toward(n, k) = Nil THEN n
                                               ELSE f[Toward(n, k)]
                /\ InsertionPoint(k) = f[root]
<1>. DEFINE Stop == {n \in Pointers : n = Nil \/ Toward(n, k) = Nil}
            out == [n \in Pointers |-> n]
            next == [n \in Pointers |-> Toward(n, k)]
            Is(f) == f = [n \in Pointers |->
                           IF n = Nil \/ Toward(n, k) = Nil THEN n ELSE f[Toward(n, k)]]
<1>1. \A n \in Pointers \ Stop : next[n] \in Pointers /\ Width(lo, hi)[next[n]] < Width(lo, hi)[n]
  BY Narrower DEF Toward, Pointers
<1>2. PICK f : Loops(f, Pointers, Stop, out, next)
  <2>1. Width(lo, hi) \in [Pointers -> Nat]
    BY Narrower
  <2>. HIDE DEF Stop, out, next
  <2>. QED BY <1>1, <2>1, LoopExists
<1>3. Is(f)
  <2>1. \A n \in Pointers : f[n] = IF n = Nil \/ Toward(n, k) = Nil THEN n ELSE f[Toward(n, k)]
    BY <1>2, LoopStep
  <2>2. f = [n \in Pointers |-> f[n]]
    BY <1>2, Zenon DEF Loops
  <2>. QED BY <2>1, <2>2, Zenon
<1>. DEFINE g == CHOOSE h : Is(h)
<1>4. Is(g)
  <2>. HIDE DEF Is
  <2>. QED BY <1>3
<1>5. InsertionPoint(k) = g[root]
  BY DEF InsertionPoint
<1>6. \A n \in Pointers : g[n] = IF n = Nil \/ Toward(n, k) = Nil THEN n ELSE g[Toward(n, k)]
  <2>. HIDE DEF g
  <2>. QED BY <1>4, Zenon
<1>. QED BY <1>5, <1>6

\* A key that is not there belongs below the insertion point.
LEMMA InsertionPlace ==
  ASSUME NEW lo, NEW hi, Tree(node, root, lo, hi), NEW k \in Ssrcs,
         \A a \in DOMAIN node : node[a].key # k
  PROVE  LET y == InsertionPoint(k)
         IN  /\ root = Nil => y = Nil
             /\ root # Nil => y \in DOMAIN node /\ lo[y] < k /\ k < hi[y] /\ Toward(y, k) = Nil
<1>. DEFINE Place(y) == y \in DOMAIN node /\ lo[y] < k /\ k < hi[y] /\ Toward(y, k) = Nil
<1>1. PICK f : /\ \A n \in Pointers : f[n] = IF n = Nil \/ Toward(n, k) = Nil THEN n
                                             ELSE f[Toward(n, k)]
               /\ InsertionPoint(k) = f[root]
  BY InsertionLoop
<1>. DEFINE T == {n \in Pointers : n # Nil /\ lo[n] < k /\ k < hi[n] => Place(f[n])}
<1>2. ASSUME NEW n \in Pointers, \A m \in Pointers : Width(lo, hi)[m] < Width(lo, hi)[n] => m \in T
      PROVE  n \in T
  <2>1. SUFFICES ASSUME n # Nil, lo[n] < k, k < hi[n] PROVE Place(f[n])
    OBVIOUS
  <2>2. n \in DOMAIN node
    BY <2>1 DEF Pointers
  <2>3. k \in Nat /\ node[n].key \in Nat /\ node[n].key # k
    BY <2>2, TopIs, NodeIs
  <2>4. CASE Toward(n, k) = Nil
    BY <2>1, <2>2, <2>4, <1>1
  <2>5. CASE Toward(n, k) # Nil
    <3>. DEFINE m == Toward(n, k)
    <3>1. f[n] = f[m]
      BY <2>1, <2>5, <1>1
    <3>2. m \in T
      BY <1>2, <2>2, Narrower DEF Toward
    <3>3. lo[m] < k /\ k < hi[m]
      <4>1. CASE k < node[n].key
        BY <4>1, <2>1, <2>2, <2>5 DEF Tree, Intervals, Toward
      <4>2. CASE node[n].key < k
        <5>1. m = node[n].right
          BY <4>2, <2>3 DEF Toward
        <5>. QED BY <5>1, <4>2, <2>1, <2>2, <2>5 DEF Tree, Intervals
      <4>. QED BY <2>3, <4>1, <4>2
    <3>. QED BY <3>1, <3>2, <3>3, <2>5
  <2>. QED BY <2>4, <2>5
<1>3. Pointers \subseteq T
  <2>1. Width(lo, hi) \in [Pointers -> Nat]
    BY Narrower
  <2>. HIDE DEF T
  <2>. QED BY <1>2, <2>1, RankInduction
<1>4. root \in Pointers /\ Nil \in Pointers
  BY DEF Tree, Shape, Pointers
<1>5. CASE root = Nil
  BY <1>1, <1>4, <1>5
<1>6. CASE root # Nil
  <2>1. lo[root] < k /\ k < hi[root]
    BY <1>6, TopIs DEF Tree, Intervals
  <2>2. Place(f[root])
    BY <1>3, <1>4, <1>6, <2>1
  <2>. QED BY <1>1, <1>6, <2>2
<1>. QED BY <1>5, <1>6

\* pdb_min goes to the left as long as it can.
LEMMA LeftmostIs ==
  ASSUME NEW lo, NEW hi, Tree(node, root, lo, hi), NEW x \in DOMAIN node
  PROVE  LET m == Leftmost(x)
         IN  m \in DOMAIN node /\ node[m].left = Nil /\ lo[m] = lo[x] /\ hi[m] <= hi[x]
<1>. DEFINE S == DOMAIN node
            rank == [n \in S |-> Width(lo, hi)[n]]
            Stop == {n \in S : node[n].left = Nil}
            out == [n \in S |-> n]
            next == [n \in S |-> node[n].left]
            Is(f) == f = [n \in S |-> IF node[n].left = Nil THEN n ELSE f[node[n].left]]
<1>1. rank \in [S -> Nat] /\ \A n \in S \ Stop : next[n] \in S /\ rank[next[n]] < rank[n]
  BY Narrower DEF Pointers
<1>2. PICK f : Loops(f, S, Stop, out, next)
  <2>. HIDE DEF S, Stop, out, next, rank
  <2>. QED BY <1>1, LoopExists
<1>3. Is(f)
  <2>1. \A n \in S : f[n] = IF node[n].left = Nil THEN n ELSE f[node[n].left]
    BY <1>2, LoopStep
  <2>2. f = [n \in S |-> f[n]]
    BY <1>2, Zenon DEF Loops
  <2>. QED BY <2>1, <2>2, Zenon
<1>. DEFINE g == CHOOSE h : Is(h)
<1>4. Is(g)
  <2>. HIDE DEF Is
  <2>. QED BY <1>3
<1>5. Leftmost(x) = g[x]
  BY DEF Leftmost
<1>6. \A n \in S : g[n] = IF node[n].left = Nil THEN n ELSE g[node[n].left]
  <2>. HIDE DEF g
  <2>. QED BY <1>4, Zenon
<1>. HIDE DEF g
<1>. DEFINE T == {n \in S : /\ g[n] \in S /\ node[g[n]].left = Nil
                            /\ lo[g[n]] = lo[n] /\ hi[g[n]] <= hi[n]}
<1>7. ASSUME NEW n \in S, \A m \in S : rank[m] < rank[n] => m \in T PROVE n \in T
  <2>0. lo[n] \in Int /\ hi[n] \in Int /\ node[n].key \in Nat /\ node[n].key < hi[n]
    BY NodeIs
  <2>1. CASE node[n].left = Nil
    BY <2>0, <2>1, <1>6
  <2>2. CASE node[n].left # Nil
    <3>1. /\ node[n].left \in S /\ node[n].left \in T
          /\ lo[node[n].left] = lo[n] /\ hi[node[n].left] = node[n].key
      BY <1>1, <1>7, <2>2 DEF Tree, Intervals
    <3>2. g[n] = g[node[n].left]
      BY <2>2, <1>6
    <3>3. hi[g[n]] \in Int
      BY <3>1, <3>2, NodeIs
    <3>. QED BY <3>1, <3>2, <3>3, <2>0
  <2>. QED BY <2>1, <2>2
<1>8. S \subseteq T
  <2>. HIDE DEF S, T, rank
  <2>. QED BY <1>1, <1>7, RankInduction
<1>. QED BY <1>5, <1>8

\* The part of pdb_successor that goes up: to the node at whose key the
\* interval ends.
LEMMA ClimbIs ==
  ASSUME NEW lo, NEW hi, Tree(node, root, lo, hi), NEW x \in DOMAIN node,
         node[x].right = Nil
  PROVE  LET s == Successor(x)
         IN  /\ s = Nil => hi[x] = Top
             /\ s # Nil => s \in DOMAIN node /\ node[s].key = hi[x]
<1>. DEFINE S == DOMAIN node
            rank == [n \in S |-> (Top + 1) - (hi[n] - lo[n])]
            Stop == {n \in S : node[n].parent = Nil \/ n # node[node[n].parent].right}
            out == [n \in S |-> node[n].parent]
            next == [n \in S |-> node[n].parent]
            Is(f) == f = [n \in S |-> LET y == node[n].parent
                                      IN  IF y = Nil THEN Nil
                                          ELSE IF n = node[y].right THEN f[y] ELSE y]
<1>1. rank \in [S -> Nat]
  <2>1. ASSUME NEW n \in S PROVE (Top + 1) - (hi[n] - lo[n]) \in Nat
    <3>1. /\ lo[n] \in Int /\ hi[n] \in Int /\ Top \in Nat /\ Bottom <= lo[n] /\ hi[n] <= Top
          /\ Bottom = -1
      BY NodeIs DEF Bottom
    <3>. QED BY <3>1
  <2>. QED BY <2>1
<1>2. ASSUME NEW n \in S \ Stop PROVE next[n] \in S /\ rank[next[n]] < rank[n]
  <2>. DEFINE y == node[n].parent
  <2>1. y \in S /\ n = node[y].right /\ n # Nil
    BY NodeIs
  <2>2. lo[n] = node[y].key /\ hi[n] = hi[y]
    BY <2>1 DEF Tree, Intervals
  <2>3. /\ lo[y] \in Int /\ hi[y] \in Int /\ node[y].key \in Nat /\ lo[y] < node[y].key
        /\ Top \in Nat
    BY <2>1, NodeIs
  <2>4. rank[y] = (Top + 1) - (hi[y] - lo[y]) /\ rank[n] = (Top + 1) - (hi[n] - lo[n])
    BY <2>1
  <2>. HIDE DEF rank
  <2>5. rank[y] < rank[n]
    BY <2>2, <2>3, <2>4
  <2>. QED BY <2>1, <2>5
<1>3. PICK f : Loops(f, S, Stop, out, next)
  <2>. HIDE DEF S, Stop, out, next, rank
  <2>. QED BY <1>1, <1>2, LoopExists
<1>4. Is(f)
  <2>1. \A n \in S : f[n] = LET y == node[n].parent
                            IN  IF y = Nil THEN Nil ELSE IF n = node[y].right THEN f[y] ELSE y
    BY <1>3, LoopStep
  <2>2. f = [n \in S |-> f[n]]
    BY <1>3, Zenon DEF Loops
  <2>. QED BY <2>1, <2>2, Zenon
<1>. DEFINE g == CHOOSE h : Is(h)
<1>5. Is(g)
  <2>. HIDE DEF Is
  <2>. QED BY <1>4
<1>6. Successor(x) = g[x]
  BY DEF Successor
<1>7. \A n \in S : g[n] = LET y == node[n].parent
                          IN  IF y = Nil THEN Nil ELSE IF n = node[y].right THEN g[y] ELSE y
  <2>. HIDE DEF g
  <2>. QED BY <1>5, Zenon
<1>. HIDE DEF g
<1>. DEFINE T == {n \in S : /\ g[n] = Nil => hi[n] = Top
                            /\ g[n] # Nil => g[n] \in S /\ node[g[n]].key = hi[n]}
<1>8. ASSUME NEW n \in S, \A m \in S : rank[m] < rank[n] => m \in T PROVE n \in T
  <2>. DEFINE y == node[n].parent
  <2>1. CASE y = Nil
    <3>1. n = root /\ root # Nil
      BY <2>1, NodeIs DEF Tree, Linked
    <3>2. hi[n] = Top /\ g[n] = Nil
      BY <2>1, <3>1, <1>7 DEF Tree, Intervals
    <3>. QED BY <3>2
  <2>2. CASE y # Nil /\ n = node[y].right
    <3>1. y \in S /\ y \in T
      BY <2>2, <1>2, <1>8
    <3>2. g[n] = g[y]
      BY <2>2, <1>7
    <3>3. hi[n] = hi[y]
      BY <3>1, <2>2, NodeIs DEF Tree, Intervals
    <3>. QED BY <3>1, <3>2, <3>3
  <2>3. CASE y # Nil /\ n # node[y].right
    <3>1. y \in S /\ n = node[y].left /\ n # Nil
      BY <2>3, NodeIs DEF Tree, Linked
    <3>2. hi[n] = node[y].key
      BY <3>1 DEF Tree, Intervals
    <3>3. g[n] = y
      BY <2>3, <1>7
    <3>. QED BY <3>1, <3>2, <3>3, <2>3
  <2>. QED BY <2>1, <2>2, <2>3
<1>9. S \subseteq T
  <2>. HIDE DEF S, T, rank
  <2>. QED BY <1>1, <1>8, RankInduction
<1>. QED BY <1>6, <1>9

\* pdb_successor finds the next key, if there is one.  From a node that has a
\* right child it gets to one without a left child.
LEMMA SuccessorIs ==
  ASSUME NEW lo, NEW hi, Tree(node, root, lo, hi), NEW x \in DOMAIN node
  PROVE  LET s == Successor(x)
         IN  /\ s = Nil => \A a \in DOMAIN node : node[a].key <= node[x].key
             /\ s # Nil => /\ s \in DOMAIN node /\ node[x].key < node[s].key
                           /\ \A a \in DOMAIN node : ~(node[x].key < node[a].key
                                                       /\ node[a].key < node[s].key)
             /\ node[x].right # Nil => /\ s # Nil /\ node[s].left = Nil
                                       /\ lo[s] = node[x].key
<1>. DEFINE s == Successor(x)
<1>0. \A a \in DOMAIN node : node[a].key \in Nat /\ a # Nil
  BY NodeIs
<1>1. CASE node[x].right = Nil
  <2>1. /\ s = Nil => hi[x] = Top
        /\ s # Nil => s \in DOMAIN node /\ node[s].key = hi[x]
    BY <1>1, ClimbIs
  <2>2. \A a \in DOMAIN node : ~(node[x].key < node[a].key /\ node[a].key < hi[x])
    BY <1>1 DEF Tree, Gaps
  <2>3. \A a \in DOMAIN node : node[a].key < Top
    BY NodeIs
  <2>4. s = Nil => \A a \in DOMAIN node : node[a].key <= node[x].key
    BY <2>1, <2>2, <2>3, <1>0
  <2>5. node[x].key < hi[x]
    BY NodeIs
  <2>. HIDE DEF s
  <2>6. s # Nil => /\ s \in DOMAIN node /\ node[x].key < node[s].key
                   /\ \A a \in DOMAIN node : ~(node[x].key < node[a].key
                                               /\ node[a].key < node[s].key)
    BY <2>1, <2>2, <2>5
  <2>. QED BY <2>4, <2>6, <1>1 DEF s
<1>2. CASE node[x].right # Nil
  <2>1. s = Leftmost(node[x].right)
    BY <1>2 DEF Successor
  <2>2. node[x].right \in DOMAIN node /\ lo[node[x].right] = node[x].key
    BY <1>2, NodeIs DEF Tree, Intervals
  <2>3. s \in DOMAIN node /\ node[s].left = Nil /\ lo[s] = node[x].key
    BY <2>1, <2>2, LeftmostIs
  <2>. HIDE DEF s
  <2>4. lo[s] < node[s].key
    BY <2>3, NodeIs
  <2>5. \A a \in DOMAIN node : ~(node[x].key < node[a].key /\ node[a].key < node[s].key)
    BY <2>3 DEF Tree, Gaps
  <2>. QED BY <2>3, <2>4, <2>5, <1>0 DEF s
<1>. QED BY <1>1, <1>2

\* Every node hangs from the root.
LEMMA BelowRoot ==
  ASSUME NEW lo, NEW hi, Tree(node, root, lo, hi)
  PROVE  Below(root) = DOMAIN node
<1>. DEFINE Inside(l, h) == {z \in DOMAIN node : l < node[z].key /\ node[z].key < h}
            B == [x \in Pointers |-> IF x = Nil THEN {} ELSE Inside(lo[x], hi[x])]
            Is(f) == f = [x \in Pointers |->
                           IF x = Nil THEN {} ELSE {x} \cup f[node[x].left] \cup f[node[x].right]]
<1>1. ASSUME NEW x \in DOMAIN node
      PROVE  /\ node[x].left \in Pointers /\ node[x].right \in Pointers /\ x \in Pointers
             /\ x # Nil
             /\ B[x] = {x} \cup B[node[x].left] \cup B[node[x].right]
  <2>. DEFINE k == node[x].key
              l == node[x].left
              r == node[x].right
  <2>1. /\ l \in Pointers /\ r \in Pointers /\ x \in Pointers /\ x # Nil
        /\ lo[x] \in Int /\ hi[x] \in Int /\ k \in Nat /\ lo[x] < k /\ k < hi[x]
    BY NodeIs DEF Pointers
  <2>2. B[l] = Inside(lo[x], k)
    <3>1. CASE l = Nil
      BY <3>1, <2>1 DEF Tree, Gaps
    <3>2. CASE l # Nil
      BY <3>2, <2>1 DEF Tree, Intervals
    <3>. QED BY <3>1, <3>2
  <2>3. B[r] = Inside(k, hi[x])
    <3>1. CASE r = Nil
      BY <3>1, <2>1 DEF Tree, Gaps
    <3>2. CASE r # Nil
      BY <3>2, <2>1 DEF Tree, Intervals
    <3>. QED BY <3>1, <3>2
  <2>4. B[x] = Inside(lo[x], hi[x])
    BY <2>1
  <2>5. Inside(lo[x], hi[x]) = {x} \cup Inside(lo[x], k) \cup Inside(k, hi[x])
    <3>1. \A z \in DOMAIN node : node[z].key \in Nat /\ (node[z].key = k => z = x)
      BY NodeIs DEF Tree, Shape
    <3>2. \A z \in DOMAIN node : lo[x] < node[z].key /\ node[z].key < hi[x]
            <=> \/ z = x
                \/ lo[x] < node[z].key /\ node[z].key < k
                \/ k < node[z].key /\ node[z].key < hi[x]
      BY <3>1, <2>1
    <3>. QED BY <3>2
  <2>. HIDE DEF B
  <2>. QED BY <2>1, <2>2, <2>3, <2>4, <2>5
<1>2. Is(B)
  <2>1. \A x \in Pointers : B[x] = IF x = Nil THEN {}
                                   ELSE {x} \cup B[node[x].left] \cup B[node[x].right]
    <3>1. B[Nil] = {}
      BY DEF Pointers
    <3>. HIDE DEF B
    <3>. QED BY <1>1, <3>1 DEF Pointers
  <2>2. B = [x \in Pointers |-> B[x]]
    OBVIOUS
  <2>. HIDE DEF B
  <2>. QED BY <2>1, <2>2, Zenon
<1>. DEFINE g == CHOOSE h : Is(h)
<1>3. Is(g)
  <2>. HIDE DEF Is, B
  <2>. QED BY <1>2
<1>4. Below(root) = g[root]
  BY DEF Below
<1>5. \A x \in Pointers : g[x] = IF x = Nil THEN {}
                                 ELSE {x} \cup g[node[x].left] \cup g[node[x].right]
  <2>. HIDE DEF g
  <2>. QED BY <1>3, Zenon
<1>. HIDE DEF g
<1>. DEFINE T == {x \in Pointers : g[x] = B[x]}
<1>6. ASSUME NEW x \in Pointers, \A m \in Pointers : Width(lo, hi)[m] < Width(lo, hi)[x] => m \in T
      PROVE  x \in T
  <2>1. CASE x = Nil
    BY <2>1, <1>5
  <2>2. CASE x # Nil
    <3>1. x \in DOMAIN node
      BY <2>2 DEF Pointers
    <3>2. node[x].left \in T /\ node[x].right \in T
      BY <3>1, <1>6, Narrower
    <3>3. B[x] = {x} \cup B[node[x].left] \cup B[node[x].right]
      BY <3>1, <1>1
    <3>. HIDE DEF B
    <3>. QED BY <3>2, <3>3, <1>5, <2>2
  <2>. QED BY <2>1, <2>2
<1>7. Pointers \subseteq T
  <2>1. Width(lo, hi) \in [Pointers -> Nat]
    BY Narrower
  <2>. HIDE DEF T
  <2>. QED BY <1>6, <2>1, RankInduction
<1>8. root \in Pointers /\ (root = Nil => DOMAIN node = {})
  BY DEF Tree, Shape, Pointers
<1>9. root # Nil => Inside(lo[root], hi[root]) = DOMAIN node
  <2>1. root # Nil => lo[root] = Bottom /\ hi[root] = Top
    BY DEF Tree, Intervals
  <2>2. \A a \in DOMAIN node : Bottom < node[a].key /\ node[a].key < Top
    BY TopIs, NodeIs
  <2>. QED BY <2>1, <2>2
<1>. QED BY <1>4, <1>7, <1>8, <1>9

-----------------------------------------------------------------------------
(***************************************************************************)
(* Adding a key.                                                           *)
(***************************************************************************)
\* The tree N with a node z for key k to the left of y, or to the right.
LeafLeft(N, k, z, y) ==
  [a \in DOMAIN N \cup {z} |->
    IF a = z THEN [key |-> k, data |-> k, parent |-> y, left |-> Nil, right |-> Nil]
    ELSE IF a # y THEN N[a] ELSE [N[y] EXCEPT !.left = z]]

LeafRight(N, k, z, y) ==
  [a \in DOMAIN N \cup {z} |->
    IF a = z THEN [key |-> k, data |-> k, parent |-> y, left |-> Nil, right |-> Nil]
    ELSE IF a # y THEN N[a] ELSE [N[y] EXCEPT !.right = z]]

\* What NodeIs says of node a.
NodeFacts(N, lo, hi, a) ==
  /\ a # Nil /\ a \in Addresses
  /\ N[a] \in Fields /\ N[a].key \in Ssrcs /\ N[a].key \in Nat /\ N[a].key < Top
  /\ lo[a] \in Int /\ hi[a] \in Int
  /\ lo[a] < N[a].key /\ N[a].key < hi[a]
  /\ Bottom <= lo[a] /\ hi[a] <= Top
  /\ {N[a].left, N[a].right, N[a].parent} \subseteq DOMAIN N \cup {Nil}

\* It says so of all of them.
LEMMA NodeKnows ==
  ASSUME NEW N, NEW r, NEW lo, NEW hi, Tree(N, r, lo, hi)
  PROVE  \A a \in DOMAIN N : NodeFacts(N, lo, hi, a)
BY NodeIs DEF NodeFacts

\* A new leaf to the left of y, as Add links it.
LEMMA AddedLeft ==
  ASSUME NEW N, NEW r, NEW lo, NEW hi, Tree(N, r, lo, hi),
         NEW k \in Ssrcs, \A a \in DOMAIN N : N[a].key # k,
         NEW z \in Addresses \ DOMAIN N,
         NEW y \in DOMAIN N, lo[y] < k, k < hi[y], k < N[y].key, N[y].left = Nil,
         NEW M, M = LeafLeft(N, k, z, y)
  PROVE  \E lo2, hi2 : Tree(M, r, lo2, hi2)
<1>. DEFINE D == DOMAIN N
            lo2 == [a \in D \cup {z} |-> IF a = z THEN lo[y] ELSE lo[a]]
            hi2 == [a \in D \cup {z} |-> IF a = z THEN N[y].key ELSE hi[a]]
<1>1. /\ \A a \in D : NodeFacts(N, lo, hi, a)
      /\ k \in Nat /\ Bottom < k /\ k < Top /\ Top \in Nat
      /\ z \in Addresses /\ z # Nil /\ z \notin D /\ y # z
  BY NodeKnows, TopIs, DbAssumption
<1>2. /\ DOMAIN M = D \cup {z}
      /\ M[z] = [key |-> k, data |-> k, parent |-> y, left |-> Nil, right |-> Nil]
      /\ \A a \in D \ {y} : M[a] = N[a]
      /\ M[y] = [N[y] EXCEPT !.left = z]
  BY <1>1 DEF LeafLeft
<1>3. /\ M[z].key = k /\ M[z].data = k /\ M[z].parent = y /\ M[z].left = Nil /\ M[z].right = Nil
      /\ M[z] \in Fields
      /\ \A a \in D : /\ M[a] \in Fields /\ M[a].key = N[a].key /\ M[a].data = N[a].data
                      /\ M[a].parent = N[a].parent /\ M[a].right = N[a].right
                      /\ a # y => M[a].left = N[a].left
      /\ M[y].left = z
  BY <1>1, <1>2 DEF Fields, Links, NodeFacts
<1>4. /\ lo2[z] = lo[y] /\ hi2[z] = N[y].key
      /\ \A a \in D : lo2[a] = lo[a] /\ hi2[a] = hi[a]
      /\ lo2 \in [DOMAIN M -> Int] /\ hi2 \in [DOMAIN M -> Int]
  BY <1>1, <1>2 DEF NodeFacts
<1>5. Shape(M, r)
  <2>1. M \in [DOMAIN M -> Fields]
    <3>1. M = [a \in DOMAIN M |-> M[a]]
      BY <1>2 DEF LeafLeft
    <3>2. \A a \in DOMAIN M : M[a] \in Fields
      BY <1>2, <1>3
    <3>. QED BY <3>1, <3>2
  <2>2. DOMAIN M \subseteq Addresses /\ r \in DOMAIN M /\ r # Nil
    BY <1>1, <1>2 DEF Tree, Shape
  <2>3. \A a \in DOMAIN M : M[a].data = M[a].key
    BY <1>2, <1>3 DEF Tree, Shape
  <2>4. \A a, b \in DOMAIN M : M[a].key = M[b].key => a = b
    BY <1>2, <1>3 DEF Tree, Shape
  <2>. QED BY <2>1, <2>2, <2>3, <2>4 DEF Shape
<1>. HIDE DEF lo2, hi2
<1>6. Linked(M, r)
  <2>1. ASSUME NEW a \in D PROVE {M[a].left, M[a].right, M[a].parent} \subseteq D \cup {z, Nil}
    BY <1>1, <1>3 DEF NodeFacts
  <2>2. ASSUME NEW a \in D, M[a].left # Nil PROVE M[M[a].left].parent = a
    BY <1>1, <1>3, <2>2 DEF Tree, Linked, NodeFacts
  <2>3. ASSUME NEW a \in D, M[a].right # Nil PROVE M[M[a].right].parent = a
    BY <1>1, <1>3, <2>3 DEF Tree, Linked, NodeFacts
  <2>4. ASSUME NEW a \in D, M[a].parent # Nil
        PROVE  a \in {M[M[a].parent].left, M[M[a].parent].right}
    <3>1. a \in {N[N[a].parent].left, N[N[a].parent].right} /\ N[a].parent \in D
      BY <2>4, <1>1, <1>3 DEF Tree, Linked, NodeFacts
    <3>2. N[a].parent = y => a # N[y].left
      BY <1>1, <3>1 DEF NodeFacts
    <3>. QED BY <3>1, <3>2, <1>3
  <2>5. ASSUME NEW a \in D PROVE M[a].parent = Nil <=> a = r
    BY <1>3 DEF Tree, Linked
  <2>6. z # r
    BY <1>1 DEF Tree, Shape
  <2>7. ASSUME NEW a \in D PROVE {M[a].left, M[a].right, M[a].parent} \subseteq DOMAIN M \cup {Nil}
    BY <2>1, <1>2
  <2>8. /\ {M[z].left, M[z].right, M[z].parent} \subseteq DOMAIN M \cup {Nil}
        /\ M[z].left = Nil /\ M[z].right = Nil /\ M[z].parent = y /\ y # Nil
        /\ z \in {M[y].left, M[y].right}
    BY <1>1, <1>2, <1>3 DEF NodeFacts
  <2>. DEFINE Here(a) ==
                /\ {M[a].left, M[a].right, M[a].parent} \subseteq DOMAIN M \cup {Nil}
                /\ M[a].left # Nil => M[M[a].left].parent = a
                /\ M[a].right # Nil => M[M[a].right].parent = a
                /\ M[a].parent # Nil => a \in {M[M[a].parent].left, M[M[a].parent].right}
                /\ M[a].parent = Nil <=> a = r
  <2>9. ASSUME NEW a \in D PROVE Here(a)
    BY <2>2, <2>3, <2>4, <2>5, <2>7
  <2>10. Here(z)
    BY <2>6, <2>8
  <2>11. \A a \in DOMAIN M : Here(a)
    <3>. HIDE DEF Here
    <3>. QED BY <2>9, <2>10, <1>2
  <2>. QED BY <2>11 DEF Linked
<1>7. Intervals(M, r, lo2, hi2)
  <2>1. r # Nil => lo2[r] = Bottom /\ hi2[r] = Top
    BY <1>4 DEF Tree, Shape, Intervals
  <2>2. ASSUME NEW a \in D
        PROVE  /\ lo2[a] < M[a].key /\ M[a].key < hi2[a]
               /\ M[a].left # Nil => lo2[M[a].left] = lo2[a] /\ hi2[M[a].left] = M[a].key
               /\ M[a].right # Nil => lo2[M[a].right] = M[a].key /\ hi2[M[a].right] = hi2[a]
    BY <1>1, <1>3, <1>4 DEF Tree, Intervals, NodeFacts
  <2>3. lo2[z] < M[z].key /\ M[z].key < hi2[z]
    BY <1>1, <1>3, <1>4
  <2>. QED BY <2>1, <2>2, <2>3, <1>2, <1>3, <1>4 DEF Intervals
\* The new key is in the interval of y's null link, and in no other.
<1>8. ASSUME NEW a \in D
      PROVE  /\ N[a].left = Nil /\ a # y => ~(lo[a] < k /\ k < N[a].key)
             /\ N[a].right = Nil => ~(N[a].key < k /\ k < hi[a])
  <2>1. \A b \in D : ~(lo[y] < N[b].key /\ N[b].key < N[y].key)
    BY DEF Tree, Gaps
  <2>2. ASSUME N[a].left = Nil, a # y, lo[a] < k, k < N[a].key PROVE FALSE
    <3>1. lo[a] \in Int /\ N[a].key \in Nat /\ N[y].key \in Nat /\ lo[y] \in Int /\ hi[a] \in Int /\ hi[y] \in Int
      BY <1>1 DEF NodeFacts
    <3>2. ~(lo[a] < N[y].key /\ N[y].key < N[a].key)
      BY <2>2 DEF Tree, Gaps
    <3>3. N[a].key = N[y].key
      BY <3>1, <3>2, <2>1, <2>2, <1>1
    <3>. QED BY <3>3, <2>2 DEF Tree, Shape
  <2>3. ASSUME N[a].right = Nil, N[a].key < k, k < hi[a] PROVE FALSE
    <3>1. /\ lo[y] \in Int /\ N[a].key \in Nat /\ N[y].key \in Nat /\ hi[a] \in Int
          /\ lo[a] \in Int /\ hi[y] \in Int /\ lo[y] < N[y].key /\ N[y].key < hi[y]
          /\ Bottom <= lo[y] /\ N[a].key < hi[a] /\ lo[a] < N[a].key
      BY <1>1 DEF NodeFacts
    <3>2. ~(N[a].key < N[y].key /\ N[y].key < hi[a])
      BY <2>3 DEF Tree, Gaps
    <3>3. ~(lo[y] < N[a].key /\ N[a].key < N[y].key)
      BY <2>1
    <3>4. N[a].key <= lo[y] /\ hi[a] <= N[y].key
      BY <3>1, <3>2, <3>3, <2>3, <1>1
    <3>5. lo[y] # Bottom
      BY <3>1, <3>4 DEF Bottom
    <3>6. PICK c \in D : N[c].key = lo[y]
      BY <3>5 DEF Tree, Ends
    <3>7. ~(N[a].key < N[c].key /\ N[c].key < hi[a])
      BY <2>3 DEF Tree, Gaps
    <3>8. N[a].key = lo[y]
      BY <3>1, <3>4, <3>6, <3>7, <2>3, <1>1
    <3>. QED BY <3>8, <2>3 DEF Tree, Ends
  <2>. QED BY <2>2, <2>3
<1>9. Gaps(M, lo2, hi2)
  <2>1. ASSUME NEW a \in D, NEW b \in D
        PROVE  /\ M[a].left = Nil => ~(lo2[a] < M[b].key /\ M[b].key < M[a].key)
               /\ M[a].right = Nil => ~(M[a].key < M[b].key /\ M[b].key < hi2[a])
    <3>1. /\ N[a].left = Nil => ~(lo[a] < N[b].key /\ N[b].key < N[a].key)
          /\ N[a].right = Nil => ~(N[a].key < N[b].key /\ N[b].key < hi[a])
      BY DEF Tree, Gaps
    <3>2. M[a].left = Nil => a # y
      BY <1>1, <1>3
    <3>. QED BY <3>1, <3>2, <1>3, <1>4
  <2>2. ASSUME NEW a \in D
        PROVE  /\ M[a].left = Nil => ~(lo2[a] < M[z].key /\ M[z].key < M[a].key)
               /\ M[a].right = Nil => ~(M[a].key < M[z].key /\ M[z].key < hi2[a])
    <3>1. M[a].left = Nil => a # y
      BY <1>1, <1>3
    <3>. QED BY <3>1, <1>3, <1>4, <1>8
  <2>3. ASSUME NEW b \in D
        PROVE  /\ ~(lo2[z] < M[b].key /\ M[b].key < k)
               /\ ~(k < M[b].key /\ M[b].key < hi2[z])
    <3>1. ~(lo[y] < N[b].key /\ N[b].key < N[y].key)
      BY DEF Tree, Gaps
    <3>2. N[b].key \in Nat /\ N[y].key \in Nat /\ lo[y] \in Int /\ hi[y] \in Int
      BY <1>1 DEF NodeFacts
    <3>. QED BY <3>1, <3>2, <1>1, <1>3, <1>4
  <2>4. ~(lo2[z] < k /\ k < k) /\ ~(k < k /\ k < hi2[z])
    BY <1>1
  <2>5. ASSUME NEW b \in DOMAIN M
        PROVE  /\ ~(lo2[z] < M[b].key /\ M[b].key < M[z].key)
               /\ ~(M[z].key < M[b].key /\ M[b].key < hi2[z])
    BY <2>3, <2>4, <1>2, <1>3
  <2>. QED BY <2>1, <2>2, <2>5, <1>2 DEF Gaps
<1>10. Ends(M, lo2, hi2)
  <2>1. ASSUME NEW a \in D
        PROVE  /\ lo2[a] # Bottom => \E b \in D : M[b].key = lo2[a]
               /\ hi2[a] # Top => \E b \in D : M[b].key = hi2[a]
    BY <1>3, <1>4 DEF Tree, Ends
  <2>2. /\ lo2[z] # Bottom => \E b \in D : M[b].key = lo2[z]
        /\ hi2[z] # Top => \E b \in D : M[b].key = hi2[z]
    BY <1>3, <1>4 DEF Tree, Ends
  <2>3. ASSUME NEW a \in D, NEW b \in D
        PROVE  /\ M[b].key = lo2[a] => M[b].right # Nil /\ hi2[a] <= hi2[b]
               /\ M[b].key = hi2[a] => M[b].left # Nil /\ lo2[b] <= lo2[a]
    BY <1>1, <1>3, <1>4 DEF Tree, Ends
  <2>4. ASSUME NEW b \in D
        PROVE  /\ M[b].key = lo2[z] => M[b].right # Nil /\ hi2[z] <= hi2[b]
               /\ M[b].key = hi2[z] => M[b].left # Nil /\ lo2[b] <= lo2[z]
    <3>1. /\ N[b].key = lo[y] => N[b].right # Nil /\ hi[y] <= hi[b]
          /\ N[b].key = hi[y] => N[b].left # Nil /\ lo[b] <= lo[y]
      BY DEF Tree, Ends
    <3>2. N[b].key = N[y].key => b = y
      BY DEF Tree, Shape
    <3>3. /\ N[b].key \in Nat /\ lo[b] \in Int /\ hi[b] \in Int
          /\ N[y].key \in Nat /\ lo[y] \in Int /\ hi[y] \in Int
          /\ lo[y] < N[y].key /\ N[y].key < hi[y]
      BY <1>1 DEF NodeFacts
    <3>. QED BY <3>1, <3>2, <3>3, <1>1, <1>3, <1>4
  <2>5. ASSUME NEW a \in DOMAIN M PROVE M[z].key # lo2[a] /\ M[z].key # hi2[a]
    BY <2>1, <2>2, <1>1, <1>2, <1>3, <1>4
  <2>6. ASSUME NEW a \in DOMAIN M
        PROVE  /\ lo2[a] # Bottom => \E b \in DOMAIN M : M[b].key = lo2[a]
               /\ hi2[a] # Top => \E b \in DOMAIN M : M[b].key = hi2[a]
    BY <2>1, <2>2, <1>2
  <2>7. ASSUME NEW a \in DOMAIN M, NEW b \in DOMAIN M
        PROVE  /\ M[b].key = lo2[a] => M[b].right # Nil /\ hi2[a] <= hi2[b]
               /\ M[b].key = hi2[a] => M[b].left # Nil /\ lo2[b] <= lo2[a]
    BY <2>3, <2>4, <2>5, <1>2
  <2>. QED BY <2>6, <2>7 DEF Ends
<1>. QED BY <1>5, <1>6, <1>7, <1>9, <1>10 DEF Tree

\* A new leaf to the right of y, as Add links it.
LEMMA AddedRight ==
  ASSUME NEW N, NEW r, NEW lo, NEW hi, Tree(N, r, lo, hi),
         NEW k \in Ssrcs, \A a \in DOMAIN N : N[a].key # k,
         NEW z \in Addresses \ DOMAIN N,
         NEW y \in DOMAIN N, lo[y] < k, k < hi[y], N[y].key < k, N[y].right = Nil,
         NEW M, M = LeafRight(N, k, z, y)
  PROVE  \E lo2, hi2 : Tree(M, r, lo2, hi2)
<1>. DEFINE D == DOMAIN N
            lo2 == [a \in D \cup {z} |-> IF a = z THEN N[y].key ELSE lo[a]]
            hi2 == [a \in D \cup {z} |-> IF a = z THEN hi[y] ELSE hi[a]]
<1>1. /\ \A a \in D : NodeFacts(N, lo, hi, a)
      /\ k \in Nat /\ Bottom < k /\ k < Top /\ Top \in Nat
      /\ z \in Addresses /\ z # Nil /\ z \notin D /\ y # z
  BY NodeKnows, TopIs, DbAssumption
<1>2. /\ DOMAIN M = D \cup {z}
      /\ M[z] = [key |-> k, data |-> k, parent |-> y, left |-> Nil, right |-> Nil]
      /\ \A a \in D \ {y} : M[a] = N[a]
      /\ M[y] = [N[y] EXCEPT !.right = z]
  BY <1>1 DEF LeafRight
<1>3. /\ M[z].key = k /\ M[z].data = k /\ M[z].parent = y /\ M[z].left = Nil /\ M[z].right = Nil
      /\ M[z] \in Fields
      /\ \A a \in D : /\ M[a] \in Fields /\ M[a].key = N[a].key /\ M[a].data = N[a].data
                      /\ M[a].parent = N[a].parent /\ M[a].left = N[a].left
                      /\ a # y => M[a].right = N[a].right
      /\ M[y].right = z
  BY <1>1, <1>2 DEF Fields, Links, NodeFacts
<1>4. /\ lo2[z] = N[y].key /\ hi2[z] = hi[y]
      /\ \A a \in D : lo2[a] = lo[a] /\ hi2[a] = hi[a]
      /\ lo2 \in [DOMAIN M -> Int] /\ hi2 \in [DOMAIN M -> Int]
  BY <1>1, <1>2 DEF NodeFacts
<1>5. Shape(M, r)
  <2>1. M \in [DOMAIN M -> Fields]
    <3>1. M = [a \in DOMAIN M |-> M[a]]
      BY <1>2 DEF LeafRight
    <3>2. \A a \in DOMAIN M : M[a] \in Fields
      BY <1>2, <1>3
    <3>. QED BY <3>1, <3>2
  <2>2. DOMAIN M \subseteq Addresses /\ r \in DOMAIN M /\ r # Nil
    BY <1>1, <1>2 DEF Tree, Shape
  <2>3. \A a \in DOMAIN M : M[a].data = M[a].key
    BY <1>2, <1>3 DEF Tree, Shape
  <2>4. \A a, b \in DOMAIN M : M[a].key = M[b].key => a = b
    BY <1>2, <1>3 DEF Tree, Shape
  <2>. QED BY <2>1, <2>2, <2>3, <2>4 DEF Shape
<1>. HIDE DEF lo2, hi2
<1>6. Linked(M, r)
  <2>1. ASSUME NEW a \in D PROVE {M[a].left, M[a].right, M[a].parent} \subseteq D \cup {z, Nil}
    BY <1>1, <1>3 DEF NodeFacts
  <2>2. ASSUME NEW a \in D, M[a].left # Nil PROVE M[M[a].left].parent = a
    BY <1>1, <1>3, <2>2 DEF Tree, Linked, NodeFacts
  <2>3. ASSUME NEW a \in D, M[a].right # Nil PROVE M[M[a].right].parent = a
    BY <1>1, <1>3, <2>3 DEF Tree, Linked, NodeFacts
  <2>4. ASSUME NEW a \in D, M[a].parent # Nil
        PROVE  a \in {M[M[a].parent].left, M[M[a].parent].right}
    <3>1. a \in {N[N[a].parent].left, N[N[a].parent].right} /\ N[a].parent \in D
      BY <2>4, <1>1, <1>3 DEF Tree, Linked, NodeFacts
    <3>2. N[a].parent = y => a # N[y].right
      BY <1>1, <3>1 DEF NodeFacts
    <3>. QED BY <3>1, <3>2, <1>3
  <2>5. ASSUME NEW a \in D PROVE M[a].parent = Nil <=> a = r
    BY <1>3 DEF Tree, Linked
  <2>6. z # r
    BY <1>1 DEF Tree, Shape
  <2>7. ASSUME NEW a \in D PROVE {M[a].left, M[a].right, M[a].parent} \subseteq DOMAIN M \cup {Nil}
    BY <2>1, <1>2
  <2>8. /\ {M[z].left, M[z].right, M[z].parent} \subseteq DOMAIN M \cup {Nil}
        /\ M[z].left = Nil /\ M[z].right = Nil /\ M[z].parent = y /\ y # Nil
        /\ z \in {M[y].left, M[y].right}
    BY <1>1, <1>2, <1>3 DEF NodeFacts
  <2>. DEFINE Here(a) ==
                /\ {M[a].left, M[a].right, M[a].parent} \subseteq DOMAIN M \cup {Nil}
                /\ M[a].left # Nil => M[M[a].left].parent = a
                /\ M[a].right # Nil => M[M[a].right].parent = a
                /\ M[a].parent # Nil => a \in {M[M[a].parent].left, M[M[a].parent].right}
                /\ M[a].parent = Nil <=> a = r
  <2>9. ASSUME NEW a \in D PROVE Here(a)
    BY <2>2, <2>3, <2>4, <2>5, <2>7
  <2>10. Here(z)
    BY <2>6, <2>8
  <2>11. \A a \in DOMAIN M : Here(a)
    <3>. HIDE DEF Here
    <3>. QED BY <2>9, <2>10, <1>2
  <2>. QED BY <2>11 DEF Linked
<1>7. Intervals(M, r, lo2, hi2)
  <2>1. r # Nil => lo2[r] = Bottom /\ hi2[r] = Top
    BY <1>4 DEF Tree, Shape, Intervals
  <2>2. ASSUME NEW a \in D
        PROVE  /\ lo2[a] < M[a].key /\ M[a].key < hi2[a]
               /\ M[a].left # Nil => lo2[M[a].left] = lo2[a] /\ hi2[M[a].left] = M[a].key
               /\ M[a].right # Nil => lo2[M[a].right] = M[a].key /\ hi2[M[a].right] = hi2[a]
    BY <1>1, <1>3, <1>4 DEF Tree, Intervals, NodeFacts
  <2>3. lo2[z] < M[z].key /\ M[z].key < hi2[z]
    BY <1>1, <1>3, <1>4
  <2>. QED BY <2>1, <2>2, <2>3, <1>2, <1>3, <1>4 DEF Intervals
\* The new key is in the interval of y's null link, and in no other.
<1>8. ASSUME NEW a \in D
      PROVE  /\ N[a].left = Nil => ~(lo[a] < k /\ k < N[a].key)
             /\ N[a].right = Nil /\ a # y => ~(N[a].key < k /\ k < hi[a])
  <2>1. \A b \in D : ~(N[y].key < N[b].key /\ N[b].key < hi[y])
    BY DEF Tree, Gaps
  <2>2. ASSUME N[a].left = Nil, lo[a] < k, k < N[a].key PROVE FALSE
    <3>1. /\ lo[y] \in Int /\ N[a].key \in Nat /\ N[y].key \in Nat /\ hi[a] \in Int
          /\ lo[a] \in Int /\ hi[y] \in Int /\ lo[y] < N[y].key /\ N[y].key < hi[y]
          /\ hi[y] <= Top /\ N[a].key < Top /\ N[a].key < hi[a] /\ lo[a] < N[a].key
      BY <1>1 DEF NodeFacts
    <3>2. ~(lo[a] < N[y].key /\ N[y].key < N[a].key)
      BY <2>2 DEF Tree, Gaps
    <3>3. ~(N[y].key < N[a].key /\ N[a].key < hi[y])
      BY <2>1
    <3>4. hi[y] <= N[a].key /\ N[y].key <= lo[a]
      BY <3>1, <3>2, <3>3, <2>2, <1>1
    <3>5. hi[y] # Top
      BY <3>1, <3>4
    <3>6. PICK c \in D : N[c].key = hi[y]
      BY <3>5 DEF Tree, Ends
    <3>7. ~(lo[a] < N[c].key /\ N[c].key < N[a].key)
      BY <2>2 DEF Tree, Gaps
    <3>8. N[a].key = hi[y]
      BY <3>1, <3>4, <3>6, <3>7, <2>2, <1>1
    <3>. QED BY <3>8, <2>2 DEF Tree, Ends
  <2>3. ASSUME N[a].right = Nil, a # y, N[a].key < k, k < hi[a] PROVE FALSE
    <3>1. lo[a] \in Int /\ N[a].key \in Nat /\ N[y].key \in Nat /\ lo[y] \in Int /\ hi[a] \in Int /\ hi[y] \in Int
      BY <1>1 DEF NodeFacts
    <3>2. ~(N[a].key < N[y].key /\ N[y].key < hi[a])
      BY <2>3 DEF Tree, Gaps
    <3>3. N[a].key = N[y].key
      BY <3>1, <3>2, <2>1, <2>3, <1>1
    <3>. QED BY <3>3, <2>3 DEF Tree, Shape
  <2>. QED BY <2>2, <2>3
<1>9. Gaps(M, lo2, hi2)
  <2>1. ASSUME NEW a \in D, NEW b \in D
        PROVE  /\ M[a].left = Nil => ~(lo2[a] < M[b].key /\ M[b].key < M[a].key)
               /\ M[a].right = Nil => ~(M[a].key < M[b].key /\ M[b].key < hi2[a])
    <3>1. /\ N[a].left = Nil => ~(lo[a] < N[b].key /\ N[b].key < N[a].key)
          /\ N[a].right = Nil => ~(N[a].key < N[b].key /\ N[b].key < hi[a])
      BY DEF Tree, Gaps
    <3>2. M[a].right = Nil => a # y
      BY <1>1, <1>3
    <3>. QED BY <3>1, <3>2, <1>3, <1>4
  <2>2. ASSUME NEW a \in D
        PROVE  /\ M[a].left = Nil => ~(lo2[a] < M[z].key /\ M[z].key < M[a].key)
               /\ M[a].right = Nil => ~(M[a].key < M[z].key /\ M[z].key < hi2[a])
    <3>1. M[a].right = Nil => a # y
      BY <1>1, <1>3
    <3>. QED BY <3>1, <1>3, <1>4, <1>8
  <2>3. ASSUME NEW b \in D
        PROVE  /\ ~(lo2[z] < M[b].key /\ M[b].key < k)
               /\ ~(k < M[b].key /\ M[b].key < hi2[z])
    <3>1. ~(N[y].key < N[b].key /\ N[b].key < hi[y])
      BY DEF Tree, Gaps
    <3>2. N[b].key \in Nat /\ N[y].key \in Nat /\ lo[y] \in Int /\ hi[y] \in Int
      BY <1>1 DEF NodeFacts
    <3>. QED BY <3>1, <3>2, <1>1, <1>3, <1>4
  <2>4. ~(lo2[z] < k /\ k < k) /\ ~(k < k /\ k < hi2[z])
    BY <1>1
  <2>5. ASSUME NEW b \in DOMAIN M
        PROVE  /\ ~(lo2[z] < M[b].key /\ M[b].key < M[z].key)
               /\ ~(M[z].key < M[b].key /\ M[b].key < hi2[z])
    BY <2>3, <2>4, <1>2, <1>3
  <2>. QED BY <2>1, <2>2, <2>5, <1>2 DEF Gaps
<1>10. Ends(M, lo2, hi2)
  <2>1. ASSUME NEW a \in D
        PROVE  /\ lo2[a] # Bottom => \E b \in D : M[b].key = lo2[a]
               /\ hi2[a] # Top => \E b \in D : M[b].key = hi2[a]
    BY <1>3, <1>4 DEF Tree, Ends
  <2>2. /\ lo2[z] # Bottom => \E b \in D : M[b].key = lo2[z]
        /\ hi2[z] # Top => \E b \in D : M[b].key = hi2[z]
    BY <1>3, <1>4 DEF Tree, Ends
  <2>3. ASSUME NEW a \in D, NEW b \in D
        PROVE  /\ M[b].key = lo2[a] => M[b].right # Nil /\ hi2[a] <= hi2[b]
               /\ M[b].key = hi2[a] => M[b].left # Nil /\ lo2[b] <= lo2[a]
    BY <1>1, <1>3, <1>4 DEF Tree, Ends
  <2>4. ASSUME NEW b \in D
        PROVE  /\ M[b].key = lo2[z] => M[b].right # Nil /\ hi2[z] <= hi2[b]
               /\ M[b].key = hi2[z] => M[b].left # Nil /\ lo2[b] <= lo2[z]
    <3>1. /\ N[b].key = lo[y] => N[b].right # Nil /\ hi[y] <= hi[b]
          /\ N[b].key = hi[y] => N[b].left # Nil /\ lo[b] <= lo[y]
      BY DEF Tree, Ends
    <3>2. N[b].key = N[y].key => b = y
      BY DEF Tree, Shape
    <3>3. /\ N[b].key \in Nat /\ lo[b] \in Int /\ hi[b] \in Int
          /\ N[y].key \in Nat /\ lo[y] \in Int /\ hi[y] \in Int
          /\ lo[y] < N[y].key /\ N[y].key < hi[y]
      BY <1>1 DEF NodeFacts
    <3>. QED BY <3>1, <3>2, <3>3, <1>1, <1>3, <1>4
  <2>5. ASSUME NEW a \in DOMAIN M PROVE M[z].key # lo2[a] /\ M[z].key # hi2[a]
    BY <2>1, <2>2, <1>1, <1>2, <1>3, <1>4
  <2>6. ASSUME NEW a \in DOMAIN M
        PROVE  /\ lo2[a] # Bottom => \E b \in DOMAIN M : M[b].key = lo2[a]
               /\ hi2[a] # Top => \E b \in DOMAIN M : M[b].key = hi2[a]
    BY <2>1, <2>2, <1>2
  <2>7. ASSUME NEW a \in DOMAIN M, NEW b \in DOMAIN M
        PROVE  /\ M[b].key = lo2[a] => M[b].right # Nil /\ hi2[a] <= hi2[b]
               /\ M[b].key = hi2[a] => M[b].left # Nil /\ lo2[b] <= lo2[a]
    BY <2>3, <2>4, <2>5, <1>2
  <2>. QED BY <2>6, <2>7 DEF Ends
<1>. QED BY <1>5, <1>6, <1>7, <1>9, <1>10 DEF Tree

\* The first node of a tree.
LEMMA AddedFirst ==
  ASSUME NEW k \in Ssrcs, NEW z \in Addresses,
         NEW M, M = [a \in {z} |-> [key |-> k, data |-> k, parent |-> Nil,
                                    left |-> Nil, right |-> Nil]]
  PROVE  \E lo2, hi2 : Tree(M, z, lo2, hi2)
<1>. DEFINE lo2 == [a \in {z} |-> Bottom]
            hi2 == [a \in {z} |-> Top]
<1>1. /\ DOMAIN M = {z} /\ z # Nil /\ M[z] \in Fields
      /\ M[z].key = k /\ M[z].data = k /\ M[z].parent = Nil /\ M[z].left = Nil /\ M[z].right = Nil
  BY DbAssumption DEF Fields, Links
<1>2. /\ lo2 \in [DOMAIN M -> Int] /\ hi2 \in [DOMAIN M -> Int]
      /\ lo2[z] = Bottom /\ hi2[z] = Top /\ k \in Nat /\ Bottom < k /\ k < Top
  BY <1>1, TopIs DEF Bottom
<1>3. M \in [DOMAIN M -> Fields]
  BY <1>1
<1>. HIDE DEF lo2, hi2
<1>4. Shape(M, z)
  BY <1>1, <1>3 DEF Shape
<1>5. Linked(M, z)
  BY <1>1 DEF Linked
<1>6. Intervals(M, z, lo2, hi2)
  BY <1>1, <1>2 DEF Intervals
<1>7. Gaps(M, lo2, hi2) /\ Ends(M, lo2, hi2)
  BY <1>1, <1>2 DEF Gaps, Ends
<1>. QED BY <1>4, <1>5, <1>6, <1>7 DEF Tree

-----------------------------------------------------------------------------
(***************************************************************************)
(* Unlinking a node y that has at most one child: the child, or Nil, takes *)
(* its place.                                                              *)
(***************************************************************************)
Child(N, y) == IF N[y].left # Nil THEN N[y].left ELSE N[y].right

Without(N, y) ==
  LET x == Child(N, y)
      p == N[y].parent
  IN  [a \in DOMAIN N \ {y} |->
        IF a = x THEN [N[x] EXCEPT !.parent = p]
        ELSE IF a # p THEN N[a]
        ELSE IF y = N[p].left THEN [N[p] EXCEPT !.left = x]
        ELSE [N[p] EXCEPT !.right = x]]

RootWithout(N, r, y) == IF N[y].parent = Nil THEN Child(N, y) ELSE r

\* Who points at whom, before and after.
Redirected(N, M, x, y) ==
  /\ DOMAIN M = DOMAIN N \ {y} /\ {x, N[y].parent} \subseteq DOMAIN M \cup {Nil}
  /\ \A a \in DOMAIN N : N[a].parent = y <=> a = x
  /\ \A a \in DOMAIN M :
       /\ M[a] \in Fields /\ M[a].key = N[a].key /\ M[a].data = N[a].data
       /\ M[a].parent = IF a = x THEN N[y].parent ELSE N[a].parent
       /\ M[a].left = IF N[a].left = y THEN x ELSE N[a].left
       /\ M[a].right = IF N[a].right = y THEN x ELSE N[a].right

\* The links that led to y lead to its child.
LEMMA WithoutRedirects ==
  ASSUME NEW N, NEW r, NEW lo, NEW hi, Tree(N, r, lo, hi), NEW y \in DOMAIN N,
         N[y].left = Nil \/ N[y].right = Nil
  PROVE  Redirected(N, Without(N, y), Child(N, y), y)
<1>. DEFINE M == Without(N, y)
            x == Child(N, y)
            p == N[y].parent
            D == DOMAIN N \ {y}
<1>1. \A a \in DOMAIN N : NodeFacts(N, lo, hi, a)
  BY NodeKnows
<1>2. x \in DOMAIN N \cup {Nil} /\ p \in DOMAIN N \cup {Nil} /\ Nil \notin DOMAIN N
  BY <1>1 DEF NodeFacts, Child
<1>3. \A a \in DOMAIN N : N[a].parent = y <=> a = x
  <2>1. x # Nil => N[x].parent = y
    BY DEF Tree, Linked, Child
  <2>2. ASSUME NEW a \in DOMAIN N, N[a].parent = y PROVE a = x
    BY <2>2, <1>2 DEF Tree, Linked, Child
  <2>. QED BY <2>1, <2>2, <1>2
\* Nothing is its own parent or grandparent: intervals get narrower.
<1>4. ASSUME NEW a \in DOMAIN N, NEW c \in DOMAIN N, N[c].parent = a
      PROVE  /\ c = N[a].left <=> c # N[a].right
             /\ lo[a] <= lo[c] /\ hi[c] <= hi[a] /\ (lo[a] < lo[c] \/ hi[c] < hi[a])
  <2>1. c = N[a].left \/ c = N[a].right
    BY <1>4, <1>2 DEF Tree, Linked
  <2>2. c = N[a].left => lo[c] = lo[a] /\ hi[c] = N[a].key
    BY <1>2 DEF Tree, Intervals
  <2>3. c = N[a].right => lo[c] = N[a].key /\ hi[c] = hi[a]
    BY <1>2 DEF Tree, Intervals
  <2>4. /\ lo[a] \in Int /\ hi[a] \in Int /\ N[a].key \in Nat
        /\ lo[a] < N[a].key /\ N[a].key < hi[a]
    BY <1>1 DEF NodeFacts
  <2>. QED BY <2>1, <2>2, <2>3, <2>4
<1>5. x # y /\ p # y /\ (x # Nil => x # p)
  <2>1. \A a \in DOMAIN N : lo[a] \in Int /\ hi[a] \in Int
    BY <1>1 DEF NodeFacts
  <2>2. ASSUME NEW a \in DOMAIN N PROVE N[a].parent # a
    BY <2>1, <2>2, <1>4
  <2>3. ASSUME NEW a \in DOMAIN N, NEW c \in DOMAIN N, N[c].parent = a PROVE N[a].parent # c
    BY <2>1, <2>3, <1>4
  <2>. QED BY <2>2, <2>3, <1>2, <1>3
<1>6. DOMAIN M = D /\ x \in D \cup {Nil} /\ p \in D \cup {Nil}
  BY <1>2, <1>5 DEF Without
<1>7. \A a \in D : M[a] = IF a = x THEN [N[x] EXCEPT !.parent = p]
                          ELSE IF a # p THEN N[a]
                          ELSE IF y = N[p].left THEN [N[p] EXCEPT !.left = x]
                          ELSE [N[p] EXCEPT !.right = x]
  BY DEF Without
<1>8. \A a \in D : N[a] \in Fields
  BY <1>1 DEF NodeFacts
<1>. HIDE DEF M, x, p
<1>9. ASSUME NEW a \in D
      PROVE  /\ N[a].left = y <=> a = p /\ y = N[p].left
             /\ N[a].right = y <=> a = p /\ y # N[p].left
  <2>1. N[a].left = y => p = a
    BY <1>2 DEF Tree, Linked, p
  <2>2. N[a].right = y => p = a
    BY <1>2 DEF Tree, Linked, p
  <2>3. p = a => (y = N[a].left <=> y # N[a].right)
    BY <1>4 DEF p
  <2>. QED BY <2>1, <2>2, <2>3
<1>10. ASSUME NEW a \in D
       PROVE  /\ M[a] \in Fields /\ M[a].key = N[a].key /\ M[a].data = N[a].data
              /\ M[a].parent = IF a = x THEN p ELSE N[a].parent
              /\ M[a].left = IF N[a].left = y THEN x ELSE N[a].left
              /\ M[a].right = IF N[a].right = y THEN x ELSE N[a].right
  <2>1. x \in Links /\ p \in Links /\ N[a] \in Fields
    BY <1>2, <1>8 DEF Tree, Shape, Links
  <2>2. CASE a = x
    <3>1. a # p /\ M[a] = [N[a] EXCEPT !.parent = p]
      BY <2>2, <1>2, <1>5, <1>7
    <3>. QED BY <3>1, <2>1, <2>2, <1>9 DEF Fields
  <2>3. CASE a # x /\ a # p
    BY <2>1, <2>3, <1>7, <1>9
  <2>4. CASE a # x /\ a = p /\ y = N[p].left
    <3>1. M[a] = [N[a] EXCEPT !.left = x]
      BY <2>4, <1>7
    <3>. QED BY <3>1, <2>1, <2>4, <1>9 DEF Fields
  <2>5. CASE a # x /\ a = p /\ y # N[p].left
    <3>1. M[a] = [N[a] EXCEPT !.right = x]
      BY <2>5, <1>7
    <3>. QED BY <3>1, <2>1, <2>5, <1>9 DEF Fields
  <2>. QED BY <2>2, <2>3, <2>4, <2>5
<1>. QED BY <1>3, <1>6, <1>10 DEF Redirected, M, x, p

\* What is left of a tree still hangs together.
LEMMA WithoutHangs ==
  ASSUME NEW N, NEW r, NEW lo, NEW hi, Tree(N, r, lo, hi), NEW y \in DOMAIN N,
         N[y].left = Nil \/ N[y].right = Nil, NEW M, M = Without(N, y)
  PROVE  Shape(M, RootWithout(N, r, y)) /\ Linked(M, RootWithout(N, r, y))
<1>. DEFINE x == Child(N, y)
            p == N[y].parent
            r2 == RootWithout(N, r, y)
            D == DOMAIN N \ {y}
<1>1. /\ Redirected(N, M, x, y)
      /\ \A a \in DOMAIN N : NodeFacts(N, lo, hi, a)
      /\ Nil \notin DOMAIN N
  BY WithoutRedirects, NodeKnows DEF NodeFacts
<1>. HIDE DEF x
<1>2. /\ DOMAIN M = D /\ x \in D \cup {Nil} /\ p \in D \cup {Nil}
      /\ \A a \in DOMAIN N : N[a].parent = y <=> a = x
      /\ \A a \in D : /\ M[a] \in Fields /\ M[a].key = N[a].key /\ M[a].data = N[a].data
                      /\ M[a].parent = IF a = x THEN p ELSE N[a].parent
                      /\ M[a].left = IF N[a].left = y THEN x ELSE N[a].left
                      /\ M[a].right = IF N[a].right = y THEN x ELSE N[a].right
  BY <1>1 DEF Redirected
<1>3. r2 = IF p = Nil THEN x ELSE r
  BY DEF RootWithout, x
<1>4. \A a \in DOMAIN N : N[a].parent = Nil <=> a = r
  BY DEF Tree, Linked
<1>. HIDE DEF r2
<1>5. Shape(M, r2)
  <2>1. M \in [DOMAIN M -> Fields]
    <3>1. M = [a \in DOMAIN M |-> M[a]]
      BY DEF Without
    <3>. QED BY <3>1, <1>2
  <2>2. DOMAIN M \subseteq Addresses /\ r \in DOMAIN N
    BY <1>2 DEF Tree, Shape
  <2>3. r2 \in DOMAIN M \cup {Nil}
    BY <1>2, <1>3, <1>4, <2>2
  <2>4. ASSUME r2 = Nil PROVE DOMAIN M = {}
    <3>1. y = r /\ x = Nil /\ r # Nil
      BY <2>4, <1>1, <1>2, <1>3, <1>4, <2>2
    <3>2. /\ lo[y] = Bottom /\ hi[y] = Top
          /\ N[y].left = Nil /\ N[y].right = Nil
      BY <3>1 DEF Tree, Intervals, Child, x
    <3>3. ASSUME NEW b \in DOMAIN N PROVE b = y
      <4>1. Bottom < N[b].key /\ N[b].key < Top /\ N[b].key \in Nat /\ N[y].key \in Nat
        BY <1>1, TopIs DEF NodeFacts
      <4>2. /\ ~(lo[y] < N[b].key /\ N[b].key < N[y].key)
            /\ ~(N[y].key < N[b].key /\ N[b].key < hi[y])
        BY <3>2 DEF Tree, Gaps
      <4>3. N[b].key = N[y].key
        BY <3>2, <4>1, <4>2
      <4>. QED BY <4>3 DEF Tree, Shape
    <3>. QED BY <3>3, <1>2
  <2>5. /\ \A a \in DOMAIN M : M[a].data = M[a].key
        /\ \A a, b \in DOMAIN M : M[a].key = M[b].key => a = b
    BY <1>2 DEF Tree, Shape
  <2>. QED BY <2>1, <2>2, <2>3, <2>4, <2>5 DEF Shape
<1>6. ASSUME NEW a \in D
      PROVE  /\ {M[a].left, M[a].right, M[a].parent} \subseteq D \cup {Nil}
             /\ M[a].left # Nil => M[M[a].left].parent = a
             /\ M[a].right # Nil => M[M[a].right].parent = a
             /\ M[a].parent # Nil => a \in {M[M[a].parent].left, M[M[a].parent].right}
             /\ M[a].parent = Nil <=> a = r2
  <2>1. /\ {N[a].left, N[a].right, N[a].parent} \subseteq DOMAIN N \cup {Nil}
        /\ N[a].left # Nil => N[N[a].left].parent = a
        /\ N[a].right # Nil => N[N[a].right].parent = a
        /\ N[a].parent # Nil => a \in {N[N[a].parent].left, N[N[a].parent].right}
    BY DEF Tree, Linked
  <2>2. p # Nil => y \in {N[p].left, N[p].right}
    BY DEF Tree, Linked
  <2>3. {M[a].left, M[a].right, M[a].parent} \subseteq D \cup {Nil}
    BY <1>2, <2>1
  <2>4. M[a].left # Nil => M[M[a].left].parent = a
    BY <1>1, <1>2, <2>1
  <2>5. M[a].right # Nil => M[M[a].right].parent = a
    BY <1>1, <1>2, <2>1
  <2>6. ASSUME M[a].parent # Nil
        PROVE  a \in {M[M[a].parent].left, M[M[a].parent].right}
    <3>1. CASE a = x
      BY <3>1, <2>6, <1>2, <2>2
    <3>2. CASE a # x
      BY <3>2, <2>6, <1>2, <2>1
    <3>. QED BY <3>1, <3>2
  <2>7. M[a].parent = Nil <=> a = r2
    BY <1>1, <1>2, <1>3, <1>4
  <2>. QED BY <2>3, <2>4, <2>5, <2>6, <2>7
<1>7. Linked(M, r2)
  BY <1>2, <1>6 DEF Linked
<1>. QED BY <1>5, <1>7 DEF r2

\* Unlinking a node without a right child: the intervals that ended at its
\* key end where its own ended.
LEMMA WithoutRight ==
  ASSUME NEW N, NEW r, NEW lo, NEW hi, Tree(N, r, lo, hi), NEW y \in DOMAIN N,
         N[y].right = Nil, NEW M, M = Without(N, y),
         NEW lo2, lo2 = [a \in DOMAIN N \ {y} |-> lo[a]],
         NEW hi2, hi2 = [a \in DOMAIN N \ {y} |-> IF hi[a] = N[y].key THEN hi[y] ELSE hi[a]]
  PROVE  Tree(M, RootWithout(N, r, y), lo2, hi2)
<1>. DEFINE x == Child(N, y)
            r2 == RootWithout(N, r, y)
            D == DOMAIN N \ {y}
            k == N[y].key
<1>1. /\ Redirected(N, M, x, y)
      /\ \A a \in DOMAIN N : NodeFacts(N, lo, hi, a)
      /\ x = N[y].left
  BY WithoutRedirects, NodeKnows DEF Child
<1>2. r2 = IF N[y].parent = Nil THEN x ELSE r
  BY DEF RootWithout
<1>3. Shape(M, r2) /\ Linked(M, r2)
  BY WithoutHangs
<1>. HIDE DEF x, r2
<1>4. /\ DOMAIN M = D /\ x \in D \cup {Nil}
      /\ \A a \in DOMAIN N : N[a].parent = y <=> a = x
      /\ \A a \in D : /\ M[a].key = N[a].key
                      /\ M[a].left = IF N[a].left = y THEN x ELSE N[a].left
                      /\ M[a].right = IF N[a].right = y THEN x ELSE N[a].right
  BY <1>1 DEF Redirected
<1>5. \A a \in DOMAIN N :
        /\ a # Nil /\ N[a].key \in Nat /\ lo[a] \in Int /\ hi[a] \in Int
        /\ lo[a] < N[a].key /\ N[a].key < hi[a] /\ Bottom <= lo[a] /\ hi[a] <= Top
        /\ N[a].key = k => a = y
        /\ N[a].left \in DOMAIN N \cup {Nil} /\ N[a].right \in DOMAIN N \cup {Nil}
  BY <1>1 DEF NodeFacts, Tree, Shape
<1>6. \A a \in D : /\ lo2[a] = lo[a] /\ (hi[a] = k => hi2[a] = hi[y])
                   /\ hi[a] # k => hi2[a] = hi[a]
  OBVIOUS
<1>7. lo2 \in [D -> Int] /\ hi2 \in [D -> Int]
  BY <1>5
<1>8. \A b \in DOMAIN N : ~(k < N[b].key /\ N[b].key < hi[y])
  BY DEF Tree, Gaps
\* The interval of a node without children holds its own key only.
<1>9. ASSUME x = Nil, NEW b \in DOMAIN N, lo[y] < N[b].key, N[b].key < hi[y] PROVE b = y
  <2>1. ~(lo[y] < N[b].key /\ N[b].key < k)
    BY <1>1, <1>9 DEF Tree, Gaps
  <2>. QED BY <1>5, <1>8, <1>9, <2>1
<1>10. x # Nil => lo[x] = lo[y] /\ hi[x] = k
  BY <1>1 DEF Tree, Intervals
<1>11. ASSUME NEW a \in D
       PROVE  /\ N[a].left # Nil => lo[N[a].left] = lo[a] /\ hi[N[a].left] = N[a].key
              /\ N[a].right # Nil => lo[N[a].right] = N[a].key /\ hi[N[a].right] = hi[a]
  BY DEF Tree, Intervals
<1>12. Intervals(M, r2, lo2, hi2)
  <2>1. ASSUME r2 # Nil PROVE lo2[r2] = Bottom /\ hi2[r2] = Top
    <3>1. r \in DOMAIN N /\ lo[r] = Bottom /\ hi[r] = Top
      BY DEF Tree, Shape, Intervals
    <3>2. CASE N[y].parent = Nil
      <4>1. y = r
        BY <3>2 DEF Tree, Linked
      <4>. QED BY <4>1, <3>1, <3>2, <2>1, <1>2, <1>4, <1>6, <1>10
    <3>3. CASE N[y].parent # Nil
      <4>1. y # r
        BY <3>3 DEF Tree, Linked
      <4>2. k # Top
        BY <1>5
      <4>. QED BY <4>1, <4>2, <3>1, <3>3, <1>2, <1>6
    <3>. QED BY <3>2, <3>3
  <2>2. ASSUME NEW a \in D PROVE lo2[a] < M[a].key /\ M[a].key < hi2[a]
    BY <1>4, <1>5, <1>6
  <2>3. ASSUME NEW a \in D, M[a].left # Nil
        PROVE  lo2[M[a].left] = lo2[a] /\ hi2[M[a].left] = M[a].key
    <3>1. CASE N[a].left = y
      BY <3>1, <2>3, <1>4, <1>5, <1>6, <1>10, <1>11
    <3>2. CASE N[a].left # y
      <4>1. M[a].left = N[a].left /\ N[a].left \in D
        BY <3>2, <2>3, <1>4, <1>5
      <4>. QED BY <4>1, <2>3, <1>4, <1>5, <1>6, <1>11
    <3>. QED BY <3>1, <3>2
  <2>4. ASSUME NEW a \in D, M[a].right # Nil
        PROVE  lo2[M[a].right] = M[a].key /\ hi2[M[a].right] = hi2[a]
    <3>1. CASE N[a].right = y
      <4>1. M[a].right = x /\ hi[y] = hi[a] /\ hi[a] # k
        BY <3>1, <1>4, <1>5, <1>11
      <4>. QED BY <4>1, <3>1, <2>4, <1>4, <1>5, <1>6, <1>10, <1>11
    <3>2. CASE N[a].right # y
      <4>1. M[a].right = N[a].right /\ N[a].right \in D
        BY <3>2, <2>4, <1>4, <1>5
      <4>. QED BY <4>1, <2>4, <1>4, <1>5, <1>6, <1>11
    <3>. QED BY <3>1, <3>2
  <2>. QED BY <2>1, <2>2, <2>3, <2>4, <1>4, <1>7 DEF Intervals
<1>13. Gaps(M, lo2, hi2)
  <2>1. ASSUME NEW a \in D, NEW b \in D, M[a].left = Nil, lo2[a] < M[b].key, M[b].key < M[a].key
        PROVE  FALSE
    <3>1. CASE N[a].left = Nil
      BY <3>1, <2>1, <1>4, <1>6 DEF Tree, Gaps
    <3>2. CASE N[a].left = y
      <4>1. lo[y] = lo[a] /\ hi[y] = N[a].key /\ x = Nil
        BY <3>2, <2>1, <1>4, <1>5, <1>11
      <4>. QED BY <4>1, <2>1, <1>4, <1>6, <1>9
    <3>. QED BY <3>1, <3>2, <2>1, <1>4
  <2>2. ASSUME NEW a \in D, NEW b \in D, M[a].right = Nil, M[a].key < M[b].key, M[b].key < hi2[a]
        PROVE  FALSE
    <3>1. CASE N[a].right = Nil
      <4>1. ~(N[a].key < N[b].key /\ N[b].key < hi[a])
        BY <3>1 DEF Tree, Gaps
      <4>2. N[b].key # k
        BY <1>5
      <4>3. N[a].key < N[b].key /\ N[b].key < hi2[a]
        BY <2>2, <1>4
      <4>4. /\ N[b].key \in Nat /\ k \in Nat /\ hi[a] \in Int /\ hi[y] \in Int
            /\ ~(k < N[b].key /\ N[b].key < hi[y])
        BY <1>5, <1>8
      <4>5. (hi[a] = k /\ hi2[a] = hi[y]) \/ hi2[a] = hi[a]
        BY <1>6
      <4>. HIDE DEF k
      <4>. QED BY <4>1, <4>2, <4>3, <4>4, <4>5
    <3>2. CASE N[a].right = y
      <4>1. lo[y] = N[a].key /\ hi[y] = hi[a] /\ x = Nil /\ hi[a] # k
        BY <3>2, <2>2, <1>4, <1>5, <1>11
      <4>. QED BY <4>1, <2>2, <1>4, <1>6, <1>9
    <3>. QED BY <3>1, <3>2, <2>2, <1>4
  <2>. QED BY <2>1, <2>2, <1>4 DEF Gaps
<1>14. \A a, b \in DOMAIN N :
         /\ N[b].key = lo[a] => N[b].right # Nil /\ hi[a] <= hi[b]
         /\ N[b].key = hi[a] => N[b].left # Nil /\ lo[b] <= lo[a]
  BY DEF Tree, Ends
<1>15. ASSUME NEW a \in D
       PROVE  /\ lo2[a] # Bottom => \E b \in D : M[b].key = lo2[a]
              /\ hi2[a] # Top => \E b \in D : M[b].key = hi2[a]
  <2>1. ASSUME lo[a] # Bottom PROVE \E b \in D : N[b].key = lo[a]
    BY <2>1, <1>14 DEF Tree, Ends
  <2>2. ASSUME hi2[a] # Top PROVE \E b \in D : N[b].key = hi2[a]
    <3>1. PICK c \in {a, y} : hi2[a] = hi[c] /\ hi[c] # k
      BY <1>5, <1>6
    <3>2. PICK b \in DOMAIN N : N[b].key = hi[c]
      BY <3>1, <2>2 DEF Tree, Ends
    <3>. QED BY <3>1, <3>2
  <2>. QED BY <2>1, <2>2, <1>4, <1>6
<1>16. ASSUME NEW a \in D, NEW b \in D, M[b].key = lo2[a]
       PROVE  M[b].right # Nil /\ hi2[a] <= hi2[b]
  <2>1. N[b].right # Nil /\ hi[a] <= hi[b]
    BY <1>4, <1>6, <1>14, <1>16
  <2>2. M[b].right # Nil
    <3>1. SUFFICES ASSUME N[b].right = y, x = Nil PROVE FALSE
      BY <2>1, <1>4
    <3>2. lo[y] = lo[a] /\ hi[y] = hi[b]
      BY <3>1, <1>4, <1>5, <1>6, <1>11, <1>16
    <3>3. lo[y] < N[a].key /\ N[a].key < hi[y]
      BY <3>2, <2>1, <1>5
    <3>. QED BY <3>1, <3>3, <1>9
  <2>3. CASE hi[a] = k /\ hi[b] # k
    <3>1. k < hi[b]
      BY <2>1, <2>3, <1>5
    <3>2. hi[y] <= hi[b]
      <4>1. SUFFICES ASSUME hi[b] < hi[y] PROVE FALSE
        BY <1>5
      <4>2. hi[b] # Top
        BY <4>1, <1>5, TopIs
      <4>3. PICK c \in DOMAIN N : N[c].key = hi[b]
        BY <4>2 DEF Tree, Ends
      <4>. QED BY <3>1, <4>1, <4>3, <1>8
    <3>. QED BY <3>2, <2>2, <2>3, <1>6
  <2>4. CASE hi[a] # k \/ hi[b] = k
    BY <2>1, <2>2, <2>4, <1>5, <1>6
  <2>. QED BY <2>3, <2>4
<1>17. ASSUME NEW a \in D, NEW b \in D, M[b].key = hi2[a]
       PROVE  M[b].left # Nil /\ lo2[b] <= lo2[a]
  <2>1. CASE hi[a] # k
    <3>1. N[b].left # Nil /\ lo[b] <= lo[a]
      BY <2>1, <1>4, <1>6, <1>14, <1>17
    <3>2. M[b].left # Nil
      <4>1. SUFFICES ASSUME N[b].left = y, x = Nil PROVE FALSE
        BY <3>1, <1>4
      <4>2. lo[y] = lo[b] /\ hi[y] = hi[a]
        BY <4>1, <2>1, <1>4, <1>5, <1>6, <1>11, <1>17
      <4>3. lo[y] < N[a].key /\ N[a].key < hi[y]
        BY <4>2, <3>1, <1>5
      <4>. QED BY <4>1, <4>3, <1>9
    <3>. QED BY <3>1, <3>2, <1>6
  <2>2. CASE hi[a] = k
    <3>1. N[b].left # Nil /\ lo[b] <= lo[y]
      BY <2>2, <1>4, <1>6, <1>14, <1>17
    <3>2. x # Nil /\ lo[y] <= lo[a]
      BY <2>2, <1>1, <1>14
    <3>. QED BY <3>1, <3>2, <1>4, <1>5, <1>6
  <2>. QED BY <2>1, <2>2
<1>18. Ends(M, lo2, hi2)
  BY <1>4, <1>15, <1>16, <1>17 DEF Ends
<1>. QED BY <1>3, <1>12, <1>13, <1>18 DEF Tree, r2

\* Unlinking a node without a left child: the intervals that began
\* at its key begin where its own began.
LEMMA WithoutLeft ==
  ASSUME NEW N, NEW r, NEW lo, NEW hi, Tree(N, r, lo, hi), NEW y \in DOMAIN N,
         N[y].left = Nil, NEW M, M = Without(N, y),
         NEW lo2, lo2 = [a \in DOMAIN N \ {y} |-> IF lo[a] = N[y].key THEN lo[y] ELSE lo[a]],
         NEW hi2, hi2 = [a \in DOMAIN N \ {y} |-> hi[a]]
  PROVE  Tree(M, RootWithout(N, r, y), lo2, hi2)
<1>. DEFINE x == Child(N, y)
            r2 == RootWithout(N, r, y)
            D == DOMAIN N \ {y}
            k == N[y].key
<1>1. /\ Redirected(N, M, x, y)
      /\ \A a \in DOMAIN N : NodeFacts(N, lo, hi, a)
      /\ x = N[y].right
  BY WithoutRedirects, NodeKnows DEF Child
<1>2. r2 = IF N[y].parent = Nil THEN x ELSE r
  BY DEF RootWithout
<1>3. Shape(M, r2) /\ Linked(M, r2)
  BY WithoutHangs
<1>. HIDE DEF x, r2
<1>4. /\ DOMAIN M = D /\ x \in D \cup {Nil}
      /\ \A a \in DOMAIN N : N[a].parent = y <=> a = x
      /\ \A a \in D : /\ M[a].key = N[a].key
                      /\ M[a].right = IF N[a].right = y THEN x ELSE N[a].right
                      /\ M[a].left = IF N[a].left = y THEN x ELSE N[a].left
  BY <1>1 DEF Redirected
<1>5. \A a \in DOMAIN N :
        /\ a # Nil /\ N[a].key \in Nat /\ hi[a] \in Int /\ lo[a] \in Int
        /\ N[a].key < hi[a] /\ lo[a] < N[a].key /\ hi[a] <= Top /\ Bottom <= lo[a]
        /\ N[a].key = k => a = y
        /\ N[a].right \in DOMAIN N \cup {Nil} /\ N[a].left \in DOMAIN N \cup {Nil}
  BY <1>1 DEF NodeFacts, Tree, Shape
<1>6. \A a \in D : /\ hi2[a] = hi[a] /\ (lo[a] = k => lo2[a] = lo[y])
                   /\ lo[a] # k => lo2[a] = lo[a]
  OBVIOUS
<1>7. hi2 \in [D -> Int] /\ lo2 \in [D -> Int]
  BY <1>5
<1>8. \A b \in DOMAIN N : ~(N[b].key < k /\ lo[y] < N[b].key)
  BY DEF Tree, Gaps
\* The interval of a node without children holds its own key only.
<1>9. ASSUME x = Nil, NEW b \in DOMAIN N, N[b].key < hi[y], lo[y] < N[b].key PROVE b = y
  <2>1. ~(N[b].key < hi[y] /\ k < N[b].key)
    BY <1>1, <1>9 DEF Tree, Gaps
  <2>. QED BY <1>5, <1>8, <1>9, <2>1
<1>10. x # Nil => hi[x] = hi[y] /\ lo[x] = k
  BY <1>1 DEF Tree, Intervals
<1>11. ASSUME NEW a \in D
       PROVE  /\ N[a].right # Nil => hi[N[a].right] = hi[a] /\ lo[N[a].right] = N[a].key
              /\ N[a].left # Nil => hi[N[a].left] = N[a].key /\ lo[N[a].left] = lo[a]
  BY DEF Tree, Intervals
<1>12. Intervals(M, r2, lo2, hi2)
  <2>1. ASSUME r2 # Nil PROVE hi2[r2] = Top /\ lo2[r2] = Bottom
    <3>1. r \in DOMAIN N /\ hi[r] = Top /\ lo[r] = Bottom
      BY DEF Tree, Shape, Intervals
    <3>2. CASE N[y].parent = Nil
      <4>1. y = r
        BY <3>2 DEF Tree, Linked
      <4>. QED BY <4>1, <3>1, <3>2, <2>1, <1>2, <1>4, <1>6, <1>10
    <3>3. CASE N[y].parent # Nil
      <4>1. y # r
        BY <3>3 DEF Tree, Linked
      <4>2. k # Bottom
        BY <1>5
      <4>. QED BY <4>1, <4>2, <3>1, <3>3, <1>2, <1>6
    <3>. QED BY <3>2, <3>3
  <2>2. ASSUME NEW a \in D PROVE M[a].key < hi2[a] /\ lo2[a] < M[a].key
    BY <1>4, <1>5, <1>6
  <2>3. ASSUME NEW a \in D, M[a].right # Nil
        PROVE  hi2[M[a].right] = hi2[a] /\ lo2[M[a].right] = M[a].key
    <3>1. CASE N[a].right = y
      BY <3>1, <2>3, <1>4, <1>5, <1>6, <1>10, <1>11
    <3>2. CASE N[a].right # y
      <4>1. M[a].right = N[a].right /\ N[a].right \in D
        BY <3>2, <2>3, <1>4, <1>5
      <4>. QED BY <4>1, <2>3, <1>4, <1>5, <1>6, <1>11
    <3>. QED BY <3>1, <3>2
  <2>4. ASSUME NEW a \in D, M[a].left # Nil
        PROVE  hi2[M[a].left] = M[a].key /\ lo2[M[a].left] = lo2[a]
    <3>1. CASE N[a].left = y
      <4>1. M[a].left = x /\ lo[y] = lo[a] /\ lo[a] # k
        BY <3>1, <1>4, <1>5, <1>11
      <4>. QED BY <4>1, <3>1, <2>4, <1>4, <1>5, <1>6, <1>10, <1>11
    <3>2. CASE N[a].left # y
      <4>1. M[a].left = N[a].left /\ N[a].left \in D
        BY <3>2, <2>4, <1>4, <1>5
      <4>. QED BY <4>1, <2>4, <1>4, <1>5, <1>6, <1>11
    <3>. QED BY <3>1, <3>2
  <2>. QED BY <2>1, <2>2, <2>3, <2>4, <1>4, <1>7 DEF Intervals
<1>13. Gaps(M, lo2, hi2)
  <2>1. ASSUME NEW a \in D, NEW b \in D, M[a].right = Nil, M[b].key < hi2[a], M[a].key < M[b].key
        PROVE  FALSE
    <3>1. CASE N[a].right = Nil
      BY <3>1, <2>1, <1>4, <1>6 DEF Tree, Gaps
    <3>2. CASE N[a].right = y
      <4>1. hi[y] = hi[a] /\ lo[y] = N[a].key /\ x = Nil
        BY <3>2, <2>1, <1>4, <1>5, <1>11
      <4>. QED BY <4>1, <2>1, <1>4, <1>6, <1>9
    <3>. QED BY <3>1, <3>2, <2>1, <1>4
  <2>2. ASSUME NEW a \in D, NEW b \in D, M[a].left = Nil, M[b].key < M[a].key, lo2[a] < M[b].key
        PROVE  FALSE
    <3>1. CASE N[a].left = Nil
      <4>1. ~(N[b].key < N[a].key /\ lo[a] < N[b].key)
        BY <3>1 DEF Tree, Gaps
      <4>2. N[b].key # k
        BY <1>5
      <4>3. N[b].key < N[a].key /\ lo2[a] < N[b].key
        BY <2>2, <1>4
      <4>4. /\ N[b].key \in Nat /\ k \in Nat /\ lo[a] \in Int /\ lo[y] \in Int
            /\ ~(N[b].key < k /\ lo[y] < N[b].key)
        BY <1>5, <1>8
      <4>5. (lo[a] = k /\ lo2[a] = lo[y]) \/ lo2[a] = lo[a]
        BY <1>6
      <4>. HIDE DEF k
      <4>. QED BY <4>1, <4>2, <4>3, <4>4, <4>5
    <3>2. CASE N[a].left = y
      <4>1. hi[y] = N[a].key /\ lo[y] = lo[a] /\ x = Nil /\ lo[a] # k
        BY <3>2, <2>2, <1>4, <1>5, <1>11
      <4>. QED BY <4>1, <2>2, <1>4, <1>6, <1>9
    <3>. QED BY <3>1, <3>2, <2>2, <1>4
  <2>. QED BY <2>1, <2>2, <1>4 DEF Gaps
<1>14. \A a, b \in DOMAIN N :
         /\ N[b].key = hi[a] => N[b].left # Nil /\ lo[b] <= lo[a]
         /\ N[b].key = lo[a] => N[b].right # Nil /\ hi[a] <= hi[b]
  BY DEF Tree, Ends
<1>15. ASSUME NEW a \in D
       PROVE  /\ hi2[a] # Top => \E b \in D : M[b].key = hi2[a]
              /\ lo2[a] # Bottom => \E b \in D : M[b].key = lo2[a]
  <2>1. ASSUME hi[a] # Top PROVE \E b \in D : N[b].key = hi[a]
    BY <2>1, <1>14 DEF Tree, Ends
  <2>2. ASSUME lo2[a] # Bottom PROVE \E b \in D : N[b].key = lo2[a]
    <3>1. PICK c \in {a, y} : lo2[a] = lo[c] /\ lo[c] # k
      BY <1>5, <1>6
    <3>2. PICK b \in DOMAIN N : N[b].key = lo[c]
      BY <3>1, <2>2 DEF Tree, Ends
    <3>. QED BY <3>1, <3>2
  <2>. QED BY <2>1, <2>2, <1>4, <1>6
<1>16. ASSUME NEW a \in D, NEW b \in D, M[b].key = hi2[a]
       PROVE  M[b].left # Nil /\ lo2[b] <= lo2[a]
  <2>1. N[b].left # Nil /\ lo[b] <= lo[a]
    BY <1>4, <1>6, <1>14, <1>16
  <2>2. M[b].left # Nil
    <3>1. SUFFICES ASSUME N[b].left = y, x = Nil PROVE FALSE
      BY <2>1, <1>4
    <3>2. hi[y] = hi[a] /\ lo[y] = lo[b]
      BY <3>1, <1>4, <1>5, <1>6, <1>11, <1>16
    <3>3. N[a].key < hi[y] /\ lo[y] < N[a].key
      BY <3>2, <2>1, <1>5
    <3>. QED BY <3>1, <3>3, <1>9
  <2>3. CASE lo[a] = k /\ lo[b] # k
    <3>1. lo[b] < k
      BY <2>1, <2>3, <1>5
    <3>2. lo[b] <= lo[y]
      <4>1. SUFFICES ASSUME lo[y] < lo[b] PROVE FALSE
        BY <1>5
      <4>2. lo[b] # Bottom
        BY <4>1, <1>5, TopIs
      <4>3. PICK c \in DOMAIN N : N[c].key = lo[b]
        BY <4>2 DEF Tree, Ends
      <4>. QED BY <3>1, <4>1, <4>3, <1>8
    <3>. QED BY <3>2, <2>2, <2>3, <1>6
  <2>4. CASE lo[a] # k \/ lo[b] = k
    BY <2>1, <2>2, <2>4, <1>5, <1>6
  <2>. QED BY <2>3, <2>4
<1>17. ASSUME NEW a \in D, NEW b \in D, M[b].key = lo2[a]
       PROVE  M[b].right # Nil /\ hi2[a] <= hi2[b]
  <2>1. CASE lo[a] # k
    <3>1. N[b].right # Nil /\ hi[a] <= hi[b]
      BY <2>1, <1>4, <1>6, <1>14, <1>17
    <3>2. M[b].right # Nil
      <4>1. SUFFICES ASSUME N[b].right = y, x = Nil PROVE FALSE
        BY <3>1, <1>4
      <4>2. hi[y] = hi[b] /\ lo[y] = lo[a]
        BY <4>1, <2>1, <1>4, <1>5, <1>6, <1>11, <1>17
      <4>3. N[a].key < hi[y] /\ lo[y] < N[a].key
        BY <4>2, <3>1, <1>5
      <4>. QED BY <4>1, <4>3, <1>9
    <3>. QED BY <3>1, <3>2, <1>6
  <2>2. CASE lo[a] = k
    <3>1. N[b].right # Nil /\ hi[y] <= hi[b]
      BY <2>2, <1>4, <1>6, <1>14, <1>17
    <3>2. x # Nil /\ hi[a] <= hi[y]
      BY <2>2, <1>1, <1>14
    <3>. QED BY <3>1, <3>2, <1>4, <1>5, <1>6
  <2>. QED BY <2>1, <2>2
<1>18. Ends(M, lo2, hi2)
  BY <1>4, <1>15, <1>16, <1>17 DEF Ends
<1>. QED BY <1>3, <1>12, <1>13, <1>18 DEF Tree, r2

-----------------------------------------------------------------------------
(***************************************************************************)
(* Giving a node the next key that is not there: nothing changes in how    *)
(* the keys and the ends of the intervals compare.                         *)
(***************************************************************************)
WithKey(N, z, v) ==
  [a \in DOMAIN N |-> IF a = z THEN [N[z] EXCEPT !.key = v, !.data = v] ELSE N[a]]

Renamed(w, old, new) == IF w = old THEN new ELSE w

\* Order and equality survive, between numbers that are not in between.
LEMMA RenamedOrder ==
  ASSUME NEW old \in Int, NEW new \in Int, old < new,
         NEW v \in Int, v <= old \/ new < v, NEW w \in Int, w <= old \/ new < w
  PROVE  /\ Renamed(v, old, new) \in Int
         /\ Renamed(v, old, new) < Renamed(w, old, new) <=> v < w
         /\ Renamed(v, old, new) <= Renamed(w, old, new) <=> v <= w
         /\ Renamed(v, old, new) = Renamed(w, old, new) <=> v = w
BY DEF Renamed

\* So the tree is one as before.
LEMMA RenamedTree ==
  ASSUME NEW N, NEW r, NEW lo, NEW hi, Tree(N, r, lo, hi), NEW z \in DOMAIN N,
         NEW v \in Ssrcs, N[z].key < v,
         \A a \in DOMAIN N : N[a].key <= N[z].key \/ v < N[a].key,
         NEW M, M = WithKey(N, z, v)
  PROVE  \E lo2, hi2 : Tree(M, r, lo2, hi2)
<1>. DEFINE u == N[z].key
            R(w) == Renamed(w, u, v)
            Out(w) == w \in Int /\ (w <= u \/ v < w)
            lo2 == [a \in DOMAIN N |-> R(lo[a])]
            hi2 == [a \in DOMAIN N |-> R(hi[a])]
<1>1. /\ \A a \in DOMAIN N : NodeFacts(N, lo, hi, a)
      /\ u \in Nat /\ v \in Nat /\ u < v /\ Bottom < u /\ v < Top /\ Top \in Nat
  BY NodeKnows, TopIs DEF NodeFacts
<1>2. ASSUME NEW a \in DOMAIN N PROVE Out(N[a].key) /\ Out(lo[a]) /\ Out(hi[a])
  <2>1. Out(N[a].key)
    BY <1>1 DEF NodeFacts
  <2>2. Out(lo[a])
    <3>1. CASE lo[a] = Bottom
      BY <3>1, <1>1 DEF Bottom
    <3>2. CASE lo[a] # Bottom
      <4>1. PICK b \in DOMAIN N : N[b].key = lo[a]
        BY <3>2 DEF Tree, Ends
      <4>. QED BY <4>1, <1>1 DEF NodeFacts
    <3>. QED BY <3>1, <3>2
  <2>3. Out(hi[a])
    <3>1. CASE hi[a] = Top
      BY <3>1, <1>1
    <3>2. CASE hi[a] # Top
      <4>1. PICK b \in DOMAIN N : N[b].key = hi[a]
        BY <3>2 DEF Tree, Ends
      <4>. QED BY <4>1, <1>1 DEF NodeFacts
    <3>. QED BY <3>1, <3>2
  <2>. QED BY <2>1, <2>2, <2>3
<1>3. ASSUME NEW w, Out(w), NEW w2, Out(w2)
      PROVE  /\ R(w) \in Int /\ (R(w) < R(w2) <=> w < w2)
             /\ R(w) <= R(w2) <=> w <= w2
             /\ R(w) = R(w2) <=> w = w2
  <2>. HIDE DEF u
  <2>. QED BY <1>1, <1>3, RenamedOrder
<1>4. R(Bottom) = Bottom /\ R(Top) = Top /\ Out(Bottom) /\ Out(Top)
  BY <1>1 DEF Renamed, Bottom
<1>5. DOMAIN M = DOMAIN N /\ \A a \in DOMAIN N : lo2[a] = R(lo[a]) /\ hi2[a] = R(hi[a])
  BY DEF WithKey
<1>6. ASSUME NEW a \in DOMAIN N
      PROVE  /\ M[a] \in Fields /\ M[a].key = R(N[a].key) /\ M[a].data = M[a].key
             /\ M[a].left = N[a].left /\ M[a].right = N[a].right /\ M[a].parent = N[a].parent
  <2>1. N[a] \in Fields /\ N[a].data = N[a].key /\ (N[a].key = u => a = z)
    BY DEF Tree, Shape
  <2>2. CASE a = z
    BY <2>1, <2>2 DEF WithKey, Fields, Renamed
  <2>3. CASE a # z
    BY <2>1, <2>3 DEF WithKey, Renamed
  <2>. QED BY <2>2, <2>3
<1>. HIDE DEF u, R, Out, lo2, hi2
<1>7. Shape(M, r)
  <2>1. M \in [DOMAIN M -> Fields]
    <3>1. M = [a \in DOMAIN M |-> M[a]]
      BY DEF WithKey
    <3>. QED BY <3>1, <1>5, <1>6
  <2>2. /\ DOMAIN M \subseteq Addresses /\ r \in DOMAIN M \cup {Nil}
        /\ r = Nil => DOMAIN M = {}
    BY <1>5 DEF Tree, Shape
  <2>3. \A a, b \in DOMAIN M : M[a].key = M[b].key => a = b
    BY <1>2, <1>3, <1>5, <1>6 DEF Tree, Shape
  <2>. QED BY <2>1, <2>2, <2>3, <1>5, <1>6 DEF Shape
<1>8. Linked(M, r)
  <2>. DEFINE Here(K, a) ==
                /\ {K[a].left, K[a].right, K[a].parent} \subseteq DOMAIN K \cup {Nil}
                /\ K[a].left # Nil => K[K[a].left].parent = a
                /\ K[a].right # Nil => K[K[a].right].parent = a
                /\ K[a].parent # Nil => a \in {K[K[a].parent].left, K[K[a].parent].right}
                /\ K[a].parent = Nil <=> a = r
  <2>1. ASSUME NEW a \in DOMAIN N PROVE Here(N, a)
    BY DEF Tree, Linked
  <2>2. ASSUME NEW a \in DOMAIN N PROVE Here(M, a)
    BY <2>1, <1>5, <1>6
  <2>3. \A a \in DOMAIN M : Here(M, a)
    <3>. HIDE DEF Here
    <3>. QED BY <2>2, <1>5
  <2>. QED BY <2>3 DEF Linked
<1>9. Intervals(M, r, lo2, hi2)
  <2>1. lo2 \in [DOMAIN M -> Int] /\ hi2 \in [DOMAIN M -> Int]
    BY <1>2, <1>3, <1>5 DEF lo2, hi2
  <2>2. r # Nil => lo2[r] = Bottom /\ hi2[r] = Top
    BY <1>4, <1>5 DEF Tree, Shape, Intervals
  <2>3. ASSUME NEW a \in DOMAIN N PROVE lo2[a] < M[a].key /\ M[a].key < hi2[a]
    BY <1>2, <1>3, <1>5, <1>6 DEF Tree, Intervals
  <2>4. ASSUME NEW a \in DOMAIN N
        PROVE  /\ M[a].left # Nil => lo2[M[a].left] = lo2[a] /\ hi2[M[a].left] = M[a].key
               /\ M[a].right # Nil => lo2[M[a].right] = M[a].key /\ hi2[M[a].right] = hi2[a]
    BY <1>1, <1>5, <1>6 DEF Tree, Intervals, NodeFacts
  <2>. QED BY <2>1, <2>2, <2>3, <2>4, <1>5 DEF Intervals
<1>10. Gaps(M, lo2, hi2)
  <2>1. ASSUME NEW a \in DOMAIN N, NEW b \in DOMAIN N
        PROVE  /\ M[a].left = Nil => ~(lo2[a] < M[b].key /\ M[b].key < M[a].key)
               /\ M[a].right = Nil => ~(M[a].key < M[b].key /\ M[b].key < hi2[a])
    BY <1>2, <1>3, <1>5, <1>6 DEF Tree, Gaps
  <2>. QED BY <2>1, <1>5 DEF Gaps
<1>11. Ends(M, lo2, hi2)
  <2>1. ASSUME NEW a \in DOMAIN N
        PROVE  /\ lo2[a] # Bottom => \E b \in DOMAIN N : M[b].key = lo2[a]
               /\ hi2[a] # Top => \E b \in DOMAIN N : M[b].key = hi2[a]
    BY <1>4, <1>5, <1>6 DEF Tree, Ends
  <2>2. ASSUME NEW a \in DOMAIN N, NEW b \in DOMAIN N
        PROVE  /\ M[b].key = lo2[a] => M[b].right # Nil /\ hi2[a] <= hi2[b]
               /\ M[b].key = hi2[a] => M[b].left # Nil /\ lo2[b] <= lo2[a]
    BY <1>2, <1>3, <1>5, <1>6 DEF Tree, Ends
  <2>. QED BY <2>1, <2>2, <1>5 DEF Ends
<1>. QED BY <1>7, <1>8, <1>9, <1>10, <1>11 DEF Tree

-----------------------------------------------------------------------------
(***************************************************************************)
(* The steps.                                                              *)
(***************************************************************************)
Keys == {node[n].key : n \in DOMAIN node}

\* The nodes and their number.
LEMMA NodesFinite ==
  ASSUME NEW lo, NEW hi, Tree(node, root, lo, hi)
  PROVE  /\ IsFiniteSet(DOMAIN node)
         /\ \A a : /\ Cardinality(DOMAIN node \ {a}) =
                        IF a \in DOMAIN node THEN Cardinality(DOMAIN node) - 1
                        ELSE Cardinality(DOMAIN node)
                   /\ Cardinality(DOMAIN node \cup {a}) =
                        IF a \in DOMAIN node THEN Cardinality(DOMAIN node)
                        ELSE Cardinality(DOMAIN node) + 1
<1>1. IsFiniteSet(DOMAIN node)
  <2>1. DOMAIN node \in SUBSET Addresses
    BY DEF Tree, Shape
  <2>. QED BY <2>1, DbAssumption, FS_Subset
<1>. QED BY <1>1, FS_AddElement, FS_RemoveElement

\* While a key is missing there is an unused address.
LEMMA UnusedIs ==
  ASSUME NEW lo, NEW hi, Tree(node, root, lo, hi),
         NEW k \in Ssrcs, \A a \in DOMAIN node : node[a].key # k
  PROVE  Unused \in Addresses \ DOMAIN node
<1>1. Addresses \ DOMAIN node # {}
  <2>1. SUFFICES ASSUME Addresses = DOMAIN node PROVE FALSE
    BY DEF Tree, Shape
  <2>. DEFINE T == Ssrcs \ {k}
              f == [a \in Addresses |-> node[a].key]
  <2>2. /\ IsFiniteSet(T) /\ Cardinality(T) = Cardinality(Ssrcs) - 1
        /\ Cardinality(Ssrcs) \in Nat /\ Cardinality(Addresses) \in Nat
    BY DbAssumption, FS_RemoveElement, FS_CardinalityType
  <2>3. Cardinality(T) < Cardinality(Addresses)
    BY <2>2, DbAssumption
  <2>4. f \in [Addresses -> T]
    BY <2>1, NodeIs
  <2>5. \E x, y \in Addresses : x # y /\ f[x] = f[y]
    <3>. HIDE DEF T, f
    <3>. QED BY <2>2, <2>3, <2>4, DbAssumption, FS_PigeonHole
  <2>. QED BY <2>1, <2>5 DEF Tree, Shape
<1>. DEFINE S == Addresses \ DOMAIN node
<1>2. \E a \in S : \A b \in S : a <= b
  <2>1. S \subseteq Nat /\ S # {}
    BY <1>1, DbAssumption
  <2>. HIDE DEF S
  <2>. QED BY <2>1, LeastElement
<1>. QED BY <1>2 DEF Unused

\* Add keeps the tree, and adds its key to it.
LEMMA AddStep ==
  ASSUME TreeInv, count = Cardinality(DOMAIN node), NEW k \in Ssrcs, Add(k)
  PROVE  /\ TreeInv' /\ count' = Cardinality(DOMAIN node')
         /\ k \notin Keys /\ Keys' = Keys \cup {k}
<1>1. PICK lo, hi : Tree(node, root, lo, hi)
  BY DEF TreeInv
<1>. DEFINE z == Unused
            y == InsertionPoint(k)
            new == [key |-> k, data |-> k, parent |-> y, left |-> Nil, right |-> Nil]
            linked(a) == IF a = z THEN new
                         ELSE IF a # y THEN node[a]
                         ELSE IF k < node[y].key THEN [node[y] EXCEPT !.left = z]
                         ELSE [node[y] EXCEPT !.right = z]
<1>2. /\ node' = [a \in DOMAIN node \cup {z} |-> linked(a)]
      /\ root' = IF y = Nil THEN z ELSE root
      /\ count' = count + 1 /\ Search(k) = Nil
  BY DEF Add
<1>3. \A a \in DOMAIN node : node[a].key # k
  BY <1>1, <1>2, SearchFinds
<1>4. z \in Addresses \ DOMAIN node
  BY <1>1, <1>3, UnusedIs
<1>5. /\ root = Nil => y = Nil
      /\ root # Nil => y \in DOMAIN node /\ lo[y] < k /\ k < hi[y] /\ Toward(y, k) = Nil
  BY <1>1, <1>3, InsertionPlace
<1>. HIDE DEF z, y
<1>6. Nil \notin DOMAIN node /\ (root = Nil => DOMAIN node = {})
  BY <1>1, NodeIs DEF Tree, Shape
<1>7. TreeInv'
  <2>1. CASE root = Nil
    <3>1. node' = [a \in {z} |-> [key |-> k, data |-> k, parent |-> Nil,
                                  left |-> Nil, right |-> Nil]]
      BY <2>1, <1>2, <1>5, <1>6
    <3>. QED BY <3>1, <2>1, <1>2, <1>4, <1>5, AddedFirst DEF TreeInv
  <2>2. CASE root # Nil /\ k < node[y].key
    <3>1. root' = root /\ y \in DOMAIN node /\ node[y].left = Nil
      BY <2>2, <1>2, <1>5, <1>6 DEF Toward
    <3>2. node' = LeafLeft(node, k, z, y)
      BY <2>2, <1>2 DEF LeafLeft
    <3>3. \E lo2, hi2 : Tree(node', root, lo2, hi2)
      BY <3>1, <3>2, <2>2, <1>1, <1>3, <1>4, <1>5, AddedLeft
    <3>. QED BY <3>1, <3>3 DEF TreeInv
  <2>3. CASE root # Nil /\ ~(k < node[y].key)
    <3>1. root' = root /\ y \in DOMAIN node /\ node[y].right = Nil
      BY <2>3, <1>2, <1>5, <1>6 DEF Toward
    <3>2. node' = LeafRight(node, k, z, y)
      BY <2>3, <1>2 DEF LeafRight
    <3>3. node[y].key < k
      BY <3>1, <2>3, <1>1, <1>3, NodeIs, TopIs
    <3>4. \E lo2, hi2 : Tree(node', root, lo2, hi2)
      BY <3>1, <3>2, <3>3, <2>3, <1>1, <1>3, <1>4, <1>5, AddedRight
    <3>. QED BY <3>1, <3>4 DEF TreeInv
  <2>. QED BY <2>1, <2>2, <2>3
<1>8. count' = Cardinality(DOMAIN node')
  <2>1. DOMAIN node' = DOMAIN node \cup {z}
    BY <1>2
  <2>. QED BY <2>1, <1>1, <1>2, <1>4, NodesFinite
<1>9. Keys' = Keys \cup {k}
  <2>1. node'[z].key = k
    BY <1>2
  <2>2. \A a \in DOMAIN node : node'[a].key = node[a].key
    <3>1. \A a \in DOMAIN node : node[a] \in Fields
      BY <1>1, NodeIs
    <3>. QED BY <3>1, <1>2, <1>4 DEF Fields
  <2>3. DOMAIN node' = DOMAIN node \cup {z}
    BY <1>2
  <2>. QED BY <2>1, <2>2, <2>3 DEF Keys
<1>. QED BY <1>3, <1>7, <1>8, <1>9 DEF Keys

\* Unlinking a node with at most one child leaves a tree of the other nodes.
LEMMA WithoutTree ==
  ASSUME NEW N, NEW r, NEW lo, NEW hi, Tree(N, r, lo, hi), NEW y \in DOMAIN N,
         N[y].left = Nil \/ N[y].right = Nil
  PROVE  /\ \E lo2, hi2 : Tree(Without(N, y), RootWithout(N, r, y), lo2, hi2)
         /\ DOMAIN Without(N, y) = DOMAIN N \ {y}
         /\ \A a \in DOMAIN N \ {y} : Without(N, y)[a].key = N[a].key
<1>1. CASE N[y].right = Nil
  <2>. DEFINE lo2 == [a \in DOMAIN N \ {y} |-> lo[a]]
              hi2 == [a \in DOMAIN N \ {y} |-> IF hi[a] = N[y].key THEN hi[y] ELSE hi[a]]
  <2>1. Tree(Without(N, y), RootWithout(N, r, y), lo2, hi2)
    BY <1>1, WithoutRight
  <2>. HIDE DEF lo2, hi2
  <2>. QED BY <2>1, <1>1, WithoutRedirects DEF Redirected
<1>2. CASE N[y].left = Nil
  <2>. DEFINE lo2 == [a \in DOMAIN N \ {y} |-> IF lo[a] = N[y].key THEN lo[y] ELSE lo[a]]
              hi2 == [a \in DOMAIN N \ {y} |-> hi[a]]
  <2>1. Tree(Without(N, y), RootWithout(N, r, y), lo2, hi2)
    BY <1>2, WithoutLeft
  <2>. HIDE DEF lo2, hi2
  <2>. QED BY <2>1, <1>2, WithoutRedirects DEF Redirected
<1>. QED BY <1>1, <1>2

\* Unlink in these terms.
LEMMA UnlinkIs ==
  ASSUME NEW y, NEW z, Unlink(y, z, TRUE), node[y].data = node[y].key
  PROVE  /\ node' = WithKey(Without(node, y), z, node[y].key)
         /\ root' = RootWithout(node, root, y)
<1>1. root' = RootWithout(node, root, y)
  BY DEF Unlink, RootWithout, Child
<1>. DEFINE M == Without(node, y)
            x == Child(node, y)
            p == node[y].parent
            linked(a) == IF a = x THEN [node[x] EXCEPT !.parent = p]
                         ELSE IF a # p THEN node[a]
                         ELSE IF y = node[p].left THEN [node[p] EXCEPT !.left = x]
                         ELSE [node[p] EXCEPT !.right = x]
<1>2. M = [a \in DOMAIN node \ {y} |-> linked(a)]
  BY DEF Without
<1>3. node' = [a \in DOMAIN node \ {y} |->
                IF a = z THEN [linked(z) EXCEPT !.key = node[y].key, !.data = node[y].key]
                ELSE linked(a)]
  BY DEF Unlink, Child
<1>. HIDE DEF M, linked
<1>4. /\ DOMAIN M = DOMAIN node \ {y}
      /\ \A a \in DOMAIN node \ {y} : M[a] = linked(a)
  BY <1>2
<1>5. node' = WithKey(M, z, node[y].key)
  BY <1>3, <1>4 DEF WithKey
<1>. QED BY <1>1, <1>5 DEF M

\* Remove keeps the tree, and takes its key out of it.
LEMMA RemoveStep ==
  ASSUME TreeInv, count = Cardinality(DOMAIN node), NEW k \in Ssrcs, Remove(k)
  PROVE  /\ TreeInv' /\ count' = Cardinality(DOMAIN node')
         /\ k \in Keys /\ Keys' = Keys \ {k}
<1>1. PICK lo, hi : Tree(node, root, lo, hi)
  BY DEF TreeInv
<1>. DEFINE z == Search(k)
            y == Spliced(z)
            M == Without(node, y)
            r2 == RootWithout(node, root, y)
<1>2. Unlink(y, z, TRUE) /\ count' = count - 1
  BY DEF Remove
<1>3. z \in DOMAIN node /\ node[z].key = k
  BY <1>1, SearchFinds DEF Remove
<1>. HIDE DEF z
<1>4. /\ y \in DOMAIN node /\ (node[y].left = Nil \/ node[y].right = Nil)
      /\ y # z => /\ k < node[y].key
                  /\ \A a \in DOMAIN node : ~(k < node[a].key /\ node[a].key < node[y].key)
  BY <1>1, <1>3, SuccessorIs DEF Spliced
<1>. HIDE DEF y
<1>5. /\ \E lo2, hi2 : Tree(M, r2, lo2, hi2)
      /\ DOMAIN M = DOMAIN node \ {y}
      /\ \A a \in DOMAIN M : M[a].key = node[a].key
  BY <1>1, <1>4, WithoutTree
<1>6. /\ \A a, b \in DOMAIN node : node[a].key = node[b].key => a = b
      /\ \A a \in DOMAIN node : /\ node[a].key \in Ssrcs /\ node[a].key \in Nat
                                /\ node[a].data = node[a].key
  BY <1>1, NodeIs DEF Tree, Shape
<1>7. root' = r2 /\ node' = WithKey(M, z, node[y].key)
  BY <1>2, <1>4, <1>6, UnlinkIs
<1>8. M = [a \in DOMAIN M |-> M[a]]
  BY DEF Without
<1>. HIDE DEF M, r2
<1>9. TreeInv' /\ Keys' = Keys \ {k}
  <2>1. CASE y = z
    <3>1. node' = M
      BY <2>1, <1>7, <1>5, <1>8 DEF WithKey
    <3>2. Keys' = Keys \ {k}
      <4>1. Keys' = {node[a].key : a \in DOMAIN node \ {z}}
        BY <3>1, <2>1, <1>5 DEF Keys
      <4>. QED BY <4>1, <1>3, <1>6 DEF Keys
    <3>. QED BY <3>1, <3>2, <1>7, <1>5 DEF TreeInv
  <2>2. CASE y # z
    <3>. DEFINE v == node[y].key
    <3>1. z \in DOMAIN M /\ M[z].key = k /\ v \in Ssrcs /\ k < v /\ node[y].data = v
      BY <2>2, <1>3, <1>4, <1>5, <1>6
    <3>2. \A a \in DOMAIN M : M[a].key <= M[z].key \/ v < M[a].key
      <4>1. k \in Nat /\ v \in Nat
        BY <1>3, <1>4, <1>6
      <4>2. ASSUME NEW a \in DOMAIN M PROVE node[a].key <= k \/ v < node[a].key
        <5>1. ~(k < node[a].key /\ node[a].key < v) /\ node[a].key # v /\ node[a].key \in Nat
          BY <2>2, <1>4, <1>5, <1>6
        <5>. HIDE DEF v
        <5>. QED BY <5>1, <4>1
      <4>. QED BY <4>2, <3>1, <1>5
    <3>. HIDE DEF v
    <3>3. node' = WithKey(M, z, v)
      BY <1>7 DEF v
    <3>4. PICK lo2, hi2 : Tree(M, r2, lo2, hi2)
      BY <1>5
    <3>5. \E lo3, hi3 : Tree(node', r2, lo3, hi3)
      BY <3>1, <3>2, <3>3, <3>4, RenamedTree
    <3>6. Keys' = Keys \ {k}
      <4>1. \A a \in DOMAIN M \ {z} : node'[a].key = node[a].key
        BY <3>3, <1>5 DEF WithKey
      <4>2. M[z] \in Fields
        BY <3>1, <3>4, NodeIs
      <4>3. node'[z].key = node[y].key
        BY <3>1, <3>3, <4>2 DEF v, Fields, WithKey
      <4>4. DOMAIN node' = DOMAIN node \ {y}
        BY <3>3, <1>5 DEF WithKey
      <4>. QED BY <4>1, <4>3, <4>4, <2>2, <1>3, <1>4, <1>5, <1>6 DEF Keys
    <3>. QED BY <3>5, <3>6, <1>7 DEF TreeInv
  <2>. QED BY <2>1, <2>2
<1>10. count' = Cardinality(DOMAIN node')
  <2>1. DOMAIN node' = DOMAIN node \ {y}
    BY <1>7, <1>5 DEF WithKey
  <2>. QED BY <2>1, <1>1, <1>2, <1>4, NodesFinite
<1>. QED BY <1>3, <1>9, <1>10 DEF Keys

\* Starting a walk keeps the invariant, and finds the smallest key.
LEMMA IterInitStep ==
  ASSUME DbInv, IterInit
  PROVE  /\ DbInv' /\ Keys' = Keys /\ it' # Nil /\ node'[it'].key \in Keys
         /\ \A k \in Keys : node'[it'].key <= k
<1>1. PICK lo, hi : Tree(node, root, lo, hi)
  BY DEF DbInv, TreeInv
<1>2. it' = Leftmost(root) /\ root # Nil /\ UNCHANGED <<root, node, count>>
  BY DEF IterInit
<1>3. root \in DOMAIN node /\ lo[root] = Bottom
  BY <1>1, <1>2 DEF Tree, Shape, Intervals
<1>4. it' \in DOMAIN node /\ node[it'].left = Nil /\ lo[it'] = Bottom
  BY <1>1, <1>2, <1>3, LeftmostIs
<1>5. ASSUME NEW a \in DOMAIN node PROVE node[it'].key <= node[a].key
  <2>1. ~(Bottom < node[a].key /\ node[a].key < node[it'].key)
    BY <1>1, <1>4 DEF Tree, Gaps
  <2>2. node[a].key \in Ssrcs /\ node[it'].key \in Ssrcs
    BY <1>1, <1>4, NodeIs
  <2>. QED BY <2>1, <2>2, TopIs
<1>6. it' # Nil
  BY <1>1, <1>4, NodeIs
<1>. QED BY <1>2, <1>4, <1>5, <1>6 DEF DbInv, TreeInv, Keys, Pointers

\* Going on with it keeps the invariant, and finds the next key if there is one.
LEMMA IterNextStep ==
  ASSUME DbInv, IterNext
  PROVE  /\ DbInv' /\ Keys' = Keys /\ node[it].key \in Keys
         /\ it' = Nil => \A k \in Keys : k <= node[it].key
         /\ it' # Nil => /\ node'[it'].key \in Keys /\ node[it].key < node'[it'].key
                         /\ \A k \in Keys : k <= node[it].key \/ node'[it'].key <= k
<1>1. PICK lo, hi : Tree(node, root, lo, hi)
  BY DEF DbInv, TreeInv
<1>2. it' = Successor(it) /\ it \in DOMAIN node /\ UNCHANGED <<root, node, count>>
  BY DEF IterNext, DbInv, Pointers
<1>3. /\ it' = Nil => \A a \in DOMAIN node : node[a].key <= node[it].key
      /\ it' # Nil => /\ it' \in DOMAIN node /\ node[it].key < node[it'].key
                      /\ \A a \in DOMAIN node : ~(node[it].key < node[a].key
                                                  /\ node[a].key < node[it'].key)
  BY <1>1, <1>2, SuccessorIs
<1>4. ASSUME it' # Nil, NEW a \in DOMAIN node
      PROVE  node[a].key <= node[it].key \/ node[it'].key <= node[a].key
  <2>1. ~(node[it].key < node[a].key /\ node[a].key < node[it'].key)
    BY <1>3, <1>4
  <2>2. node[a].key \in Nat /\ node[it].key \in Nat /\ node[it'].key \in Nat
    BY <1>1, <1>2, <1>3, <1>4, NodeIs
  <2>. QED BY <2>1, <2>2
<1>. QED BY <1>2, <1>3, <1>4 DEF DbInv, TreeInv, Keys, Pointers

\* The empty tree.
LEMMA InitDb == Init => DbInv
<1>. SUFFICES ASSUME Init PROVE DbInv
  OBVIOUS
<1>. DEFINE none == [a \in {} |-> Bottom]
<1>1. DOMAIN node = {} /\ root = Nil /\ count = 0 /\ it = Nil /\ node = [a \in {} |-> Nil]
  BY DEF Init
<1>2. Shape(node, root)
  BY <1>1 DEF Shape
<1>3. none \in [DOMAIN node -> Int]
  BY <1>1
<1>4. Tree(node, root, none, none)
  BY <1>1, <1>2, <1>3 DEF Tree, Linked, Intervals, Gaps, Ends
<1>. HIDE DEF none
<1>5. Cardinality(DOMAIN node) = 0
  BY <1>1, FS_EmptySet
<1>. QED BY <1>1, <1>4, <1>5 DEF DbInv, TreeInv, Pointers

\* Every step keeps the invariant.
LEMMA StepDb == DbInv /\ [Next]_vars => DbInv'
<1>. SUFFICES ASSUME DbInv, [Next]_vars PROVE DbInv'
  OBVIOUS
<1>1. ASSUME NEW k \in Ssrcs, Add(k) PROVE DbInv'
  <2>1. TreeInv' /\ count' = Cardinality(DOMAIN node')
    BY <1>1, AddStep DEF DbInv
  <2>. QED BY <2>1, <1>1 DEF DbInv, Add, Pointers
<1>2. ASSUME NEW k \in Ssrcs, Remove(k) PROVE DbInv'
  <2>1. TreeInv' /\ count' = Cardinality(DOMAIN node')
    BY <1>2, RemoveStep DEF DbInv
  <2>. QED BY <2>1, <1>2 DEF DbInv, Remove, Pointers
<1>3. CASE IterInit
  BY <1>3, IterInitStep
<1>4. CASE IterNext
  BY <1>4, IterNextStep
<1>5. CASE UNCHANGED vars
  BY <1>5 DEF DbInv, TreeInv, Pointers, vars
<1>. QED BY <1>1, <1>2, <1>3, <1>4, <1>5 DEF Next

\* So it always holds.
LEMMA AlwaysDb == Spec => []DbInv
BY InitDb, StepDb, PTL DEF Spec

\* Whatever is added and removed, in whatever order: the tree passes the checks
\* of pdb_validate, which a release build never makes.  Every node is the child
\* of its parent and of nothing else, all nodes hang from the root, and count
\* is their number.
THEOREM Validated == Spec => []Validates
<1>1. DbInv => Validates
  <2>. SUFFICES ASSUME DbInv PROVE Validates
    OBVIOUS
  <2>1. PICK lo, hi : Tree(node, root, lo, hi)
    BY DEF DbInv, TreeInv
  <2>2. ASSUME NEW n \in DOMAIN node, NEW c \in Pointers \ {Nil}
        PROVE  (c \in {node[n].left, node[n].right}) <=> (node[c].parent = n)
    BY <2>1, NodeIs DEF Tree, Linked, Pointers
  <2>3. root # Nil => node[root].parent = Nil
    BY <2>1 DEF Tree, Shape, Linked
  <2>4. Below(root) = DOMAIN node
    BY <2>1, BelowRoot
  <2>. QED BY <2>2, <2>3, <2>4 DEF DbInv, Validates
<1>. QED BY <1>1, AlwaysDb, PTL

-----------------------------------------------------------------------------
(***************************************************************************)
(* The dictionary.                                                         *)
(***************************************************************************)
Found == [k \in Keys |-> node[At(k)].data]

Faithful ==
  /\ Found = [k \in Keys |-> k]
  /\ Keys \subseteq Ssrcs /\ Keys \subseteq Nat /\ Nil \notin Keys

\* Every key is found, with the item that was created for it.
LEMMA FoundIs == DbInv => Faithful
<1>. SUFFICES ASSUME TreeInv PROVE Faithful
  BY DEF DbInv
<1>1. PICK lo, hi : Tree(node, root, lo, hi)
  BY DEF TreeInv
<1>2. ASSUME NEW k \in Keys PROVE node[At(k)].data = k
  <2>1. \E n \in DOMAIN node : node[n].key = k
    BY DEF Keys
  <2>2. At(k) \in DOMAIN node /\ node[At(k)].key = k
    BY <2>1 DEF At
  <2>. QED BY <2>2, <1>1 DEF Tree, Shape
<1>3. \A n \in DOMAIN node : node[n].key \in Ssrcs
  BY <1>1, NodeIs
<1>4. Keys \subseteq Ssrcs /\ Keys \subseteq Nat /\ Nil \notin Keys
  BY <1>3, DbAssumption DEF Keys
<1>. QED BY <1>2, <1>4 DEF Found, Faithful

\* The least element of a set of numbers, when it is known.
LEMMA LeastIs ==
  ASSUME NEW S, S \subseteq Nat, NEW m \in S, \A j \in S : m <= j
  PROVE  Dictionary!Least(S) = m
<1>. DEFINE l == Dictionary!Least(S)
<1>1. l \in S /\ \A j \in S : l <= j
  BY DEF Dictionary!Least
<1>2. l <= m /\ m <= l /\ l \in Nat /\ m \in Nat
  BY <1>1
<1>. QED BY <1>2

\* The elements above c: none if c is the greatest, else m is the least.
LEMMA GreaterAre ==
  ASSUME NEW S, S \subseteq Nat, NEW c \in S
  PROVE  /\ (\A k \in S : k <= c) => {k \in S : k > c} = {}
         /\ \A m \in S : c < m /\ (\A k \in S : k <= c \/ m <= k)
              => /\ {k \in S : k > c} # {}
                 /\ Dictionary!Least({k \in S : k > c}) = m
<1>. DEFINE T == {k \in S : k > c}
<1>1. ASSUME \A k \in S : k <= c PROVE T = {}
  <2>1. SUFFICES ASSUME NEW k \in T PROVE FALSE
    OBVIOUS
  <2>2. k \in Nat /\ c \in Nat /\ k > c /\ k <= c
    BY <1>1
  <2>. QED BY <2>2
<1>2. ASSUME NEW m \in S, c < m, \A k \in S : k <= c \/ m <= k
      PROVE  T # {} /\ Dictionary!Least(T) = m
  <2>1. m \in T
    BY <1>2
  <2>2. ASSUME NEW k \in T PROVE m <= k
    <3>1. k \in Nat /\ c \in Nat /\ k > c /\ (k <= c \/ m <= k)
      BY <1>2
    <3>. QED BY <3>1
  <2>3. T \subseteq Nat
    OBVIOUS
  <2>. HIDE DEF T
  <2>. QED BY <2>1, <2>2, <2>3, LeastIs
<1>. QED BY <1>1, <1>2

\* Adding, removing and walking do to the keys what the dictionary's steps do.
LEMMA StepIsDictionary ==
  DbInv /\ DbInv' /\ [Next]_vars => [Dictionary!Next]_(Dictionary!setVars)
<1>. SUFFICES ASSUME DbInv, DbInv', [Next]_vars
              PROVE  [Dictionary!Next]_(Dictionary!setVars)
  OBVIOUS
<1>. DEFINE cursor == IF it = Nil THEN Nil ELSE node[it].key
<1>0. Faithful /\ Faithful'
  BY FoundIs, PTL
<1>1. /\ Found = [k \in Keys |-> k] /\ Found' = [k \in Keys' |-> k]
      /\ Keys \subseteq Ssrcs /\ Keys \subseteq Nat /\ Nil \notin Keys
  BY <1>0 DEF Faithful
<1>2. /\ Found = [k \in {node[n].key : n \in DOMAIN node} |-> node[At(k)].data]
      /\ Found' = [k \in {node[n].key : n \in DOMAIN node} |-> node[At(k)].data]'
  BY DEF Found, Keys
<1>3. ASSUME NEW k \in Ssrcs, Add(k) PROVE Dictionary!Add(k)
  <2>1. k \notin Keys /\ Keys' = Keys \cup {k}
    BY <1>3, AddStep DEF DbInv
  <2>2. cursor = Nil /\ cursor' = cursor
    BY <1>3 DEF Add
  <2>3. Found' = [j \in DOMAIN Found \cup {k} |-> IF j = k THEN k ELSE Found[j]]
    BY <1>1, <2>1
  <2>4. k \notin DOMAIN Found
    BY <1>1, <2>1
  <2>. QED BY <1>2, <2>2, <2>3, <2>4 DEF Dictionary!Add
<1>4. ASSUME NEW k \in Ssrcs, Remove(k) PROVE Dictionary!Remove(k)
  <2>1. k \in Keys /\ Keys' = Keys \ {k}
    BY <1>4, RemoveStep DEF DbInv
  <2>2. cursor = Nil /\ cursor' = cursor
    BY <1>4 DEF Remove
  <2>3. Found' = [j \in DOMAIN Found \ {k} |-> Found[j]] /\ k \in DOMAIN Found
    BY <1>1, <2>1
  <2>. QED BY <1>2, <2>2, <2>3 DEF Dictionary!Remove
<1>5. ASSUME IterInit PROVE Dictionary!First
  <2>1. /\ Keys' = Keys /\ it' # Nil /\ node'[it'].key \in Keys
        /\ \A k \in Keys : node'[it'].key <= k
    BY <1>5, IterInitStep
  <2>2. cursor = Nil /\ cursor' = node'[it'].key
    BY <1>5, <2>1 DEF IterInit
  <2>3. Found' = Found /\ DOMAIN Found = Keys /\ Keys # {}
    BY <1>1, <2>1
  <2>4. cursor' = Dictionary!Least(DOMAIN Found)
    BY <1>1, <2>1, <2>2, <2>3, LeastIs
  <2>. QED BY <1>2, <2>2, <2>3, <2>4 DEF Dictionary!First
<1>6. ASSUME IterNext PROVE Dictionary!Following
  <2>1. /\ Keys' = Keys /\ node[it].key \in Keys
        /\ it' = Nil => \A k \in Keys : k <= node[it].key
        /\ it' # Nil => /\ node'[it'].key \in Keys /\ node[it].key < node'[it'].key
                        /\ \A k \in Keys : k <= node[it].key \/ node'[it'].key <= k
    BY <1>6, IterNextStep
  <2>2. cursor = node[it].key /\ cursor # Nil
    BY <1>6, <1>1, <2>1 DEF IterNext
  <2>3. Found' = Found /\ DOMAIN Found = Keys
    BY <1>1, <2>1
  <2>. DEFINE rest == {k \in DOMAIN Found : k > cursor}
  <2>4. cursor' = IF rest = {} THEN Nil ELSE Dictionary!Least(rest)
    <3>1. rest = {k \in Keys : k > node[it].key}
      BY <2>2, <2>3
    <3>. HIDE DEF rest
    <3>2. CASE it' = Nil
      BY <3>1, <3>2, <1>1, <2>1, GreaterAre
    <3>3. CASE it' # Nil
      <4>1. rest # {} /\ Dictionary!Least(rest) = node'[it'].key
        BY <3>1, <3>3, <1>1, <2>1, GreaterAre
      <4>. QED BY <3>3, <4>1
    <3>. QED BY <3>2, <3>3
  <2>. QED BY <1>2, <2>2, <2>3, <2>4 DEF Dictionary!Following
<1>7. ASSUME UNCHANGED vars PROVE UNCHANGED Dictionary!setVars
  <2>1. cursor' = cursor /\ Keys' = Keys
    BY <1>7 DEF vars, Keys
  <2>. QED BY <1>1, <1>2, <2>1 DEF Dictionary!setVars
<1>. QED BY <1>3, <1>4, <1>5, <1>6, <1>7 DEF Next, Dictionary!Next

\* The tree is a dictionary: every lookup finds exactly what was added and not
\* removed, with the item created for it although items change nodes, and a
\* pass of the receiver visits every source once, in order of SSRC.
THEOREM ImplementsDictionary == Spec => IsDictionary
<1>1. Init => Dictionary!Init
  <2>. SUFFICES ASSUME Init PROVE Dictionary!Init
    OBVIOUS
  <2>1. {node[n].key : n \in DOMAIN node} = {} /\ it = Nil
    BY DEF Init
  <2>. QED BY <2>1 DEF Dictionary!Init
<1>2. DbInv /\ DbInv' /\ [Next]_vars => [Dictionary!Next]_(Dictionary!setVars)
  BY StepIsDictionary
<1>. QED BY <1>1, <1>2, AlwaysDb, PTL DEF Spec, IsDictionary, Dictionary!Spec

=============================================================================
