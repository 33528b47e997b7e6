---------------------------- MODULE ParticipantDb ----------------------------
(***************************************************************************)
(* The participant database of src/src/pdb.c, link by link: a binary       *)
(* search tree with parent pointers, keyed by SSRC.  A node with two       *)
(* children is not unlinked when its key is removed: it takes over key and *)
(* data of its successor, and the successor's node is unlinked.  The       *)
(* receiver walks the tree by successors, with nothing added or removed    *)
(* during a walk, since one thread does both.                              *)
(***************************************************************************)
EXTENDS Integers, FiniteSets

CONSTANTS Ssrcs,     \* the keys
          Addresses, \* where malloc can place a node, natural numbers
          Nil        \* the null pointer

ASSUME DbAssumption ==
  /\ IsFiniteSet(Ssrcs) /\ Ssrcs \subseteq Nat
  /\ IsFiniteSet(Addresses) /\ Addresses \subseteq Nat
  /\ Cardinality(Addresses) >= Cardinality(Ssrcs)
  /\ Nil \notin Addresses \cup Ssrcs

VARIABLES root,      \* tree->root
          node,      \* function from the addresses of the nodes to their fields
          count,     \* tree->count
          it         \* the iterator, Nil outside a walk

vars == <<root, node, count, it>>

Pointers == DOMAIN node \cup {Nil}

Init == root = Nil /\ node = [a \in {} |-> Nil] /\ count = 0 /\ it = Nil

-----------------------------------------------------------------------------
(* Ways through the tree; each is a loop in the code.                      *)

Toward(n, k) == IF k < node[n].key THEN node[n].left ELSE node[n].right

\* pdb_search
Search(k) ==
  LET from[n \in Pointers] ==
        IF n = Nil THEN Nil
        ELSE IF node[n].key = k THEN n ELSE from[Toward(n, k)]
  IN  from[root]

\* The node below which pdb_insert_node links a new key.
InsertionPoint(k) ==
  LET from[n \in Pointers] ==
        IF n = Nil \/ Toward(n, k) = Nil THEN n ELSE from[Toward(n, k)]
  IN  from[root]

\* pdb_min
Leftmost(x) ==
  LET from[n \in DOMAIN node] ==
        IF node[n].left = Nil THEN n ELSE from[node[n].left]
  IN  from[x]

\* Mutant: the walk goes to the parent even from a right child.
SuccessorNoClimb(x) ==
  IF node[x].right # Nil THEN Leftmost(node[x].right) ELSE node[x].parent

\* pdb_successor
Successor(x) ==
  LET climb[n \in DOMAIN node] ==
        LET y == node[n].parent
        IN  IF y = Nil THEN Nil ELSE IF n = node[y].right THEN climb[y] ELSE y
  IN  IF node[x].right # Nil THEN Leftmost(node[x].right) ELSE climb[x]

-----------------------------------------------------------------------------
Unused == CHOOSE a \in Addresses \ DOMAIN node :
            \A b \in Addresses \ DOMAIN node : a <= b

\* pdb_add of a key that is not there (of one that is: no change).
Add(k) ==
  /\ it = Nil /\ Search(k) = Nil
  /\ LET z == Unused
         y == InsertionPoint(k)
         new == [key |-> k, data |-> k, parent |-> y, left |-> Nil, right |-> Nil]
     IN  /\ node' = [a \in DOMAIN node \cup {z} |->
                      IF a = z THEN new
                      ELSE IF a # y THEN node[a]
                      ELSE IF k < node[y].key THEN [node[y] EXCEPT !.left = z]
                      ELSE [node[y] EXCEPT !.right = z]]
         /\ root' = IF y = Nil THEN z ELSE root
  /\ count' = count + 1
  /\ UNCHANGED it

\* The tree once y, which has at most one child, is unlinked and z has taken
\* over what y held.
Unlink(y, z, reparented) ==
  LET x == IF node[y].left # Nil THEN node[y].left ELSE node[y].right
      p == node[y].parent
      linked(a) ==
        IF a = x /\ reparented THEN [node[x] EXCEPT !.parent = p]
        ELSE IF a # p THEN node[a]
        ELSE IF y = node[p].left THEN [node[p] EXCEPT !.left = x]
        ELSE [node[p] EXCEPT !.right = x]
  IN  /\ node' = [a \in DOMAIN node \ {y} |->
                   IF a = z THEN [linked(z) EXCEPT !.key  = node[y].key,
                                                   !.data = node[y].data]
                   ELSE linked(a)]
      /\ root' = IF p = Nil THEN x ELSE root

\* The node whose link goes away when the key of z is removed.
Spliced(z) ==
  IF node[z].left = Nil \/ node[z].right = Nil THEN z ELSE Successor(z)

\* Mutant: the child of the unlinked node keeps its parent pointer.
RemoveKeepsParent(k) ==
  /\ it = Nil /\ Search(k) # Nil
  /\ LET z == Search(k) IN Unlink(Spliced(z), z, FALSE)
  /\ count' = count - 1
  /\ UNCHANGED it

\* pdb_remove, with pdb_delete_node.
Remove(k) ==
  /\ it = Nil /\ Search(k) # Nil
  /\ LET z == Search(k) IN Unlink(Spliced(z), z, TRUE)
  /\ count' = count - 1
  /\ UNCHANGED it

IterInit ==
  /\ it = Nil /\ root # Nil
  /\ it' = Leftmost(root)
  /\ UNCHANGED <<root, node, count>>

IterNext ==
  /\ it # Nil
  /\ it' = Successor(it)
  /\ UNCHANGED <<root, node, count>>

Next == (\E k \in Ssrcs : Add(k) \/ Remove(k)) \/ IterInit \/ IterNext

Spec == Init /\ [][Next]_vars

-----------------------------------------------------------------------------
\* The nodes that hang from n.
Below(n) ==
  LET nodes[x \in Pointers] ==
        IF x = Nil THEN {} ELSE {x} \cup nodes[node[x].left] \cup nodes[node[x].right]
  IN  nodes[n]

\* The checks of pdb_validate, which only a debug build makes: whatever was
\* added and removed before, every node is the child of its parent and of
\* nothing else, all nodes hang from the root, and count counts them.
Validates ==
  /\ \A n \in DOMAIN node, c \in Pointers \ {Nil} :
       (c \in {node[n].left, node[n].right}) <=> (node[c].parent = n)
  /\ root # Nil => node[root].parent = Nil
  /\ Below(root) = DOMAIN node
  /\ count = Cardinality(DOMAIN node)

\* The node of a key, wherever it hangs.
At(k) == CHOOSE n \in DOMAIN node : node[n].key = k

Dictionary == INSTANCE ParticipantSet WITH
  None   <- Nil,
  db     <- [k \in {node[n].key : n \in DOMAIN node} |-> node[At(k)].data],
  cursor <- IF it = Nil THEN Nil ELSE node[it].key

\* The tree is a dictionary: pdb_get finds exactly what was added and not
\* removed, with the item created for it although items change nodes, and a
\* pass of the receiver visits every source once, in order of SSRC.
IsDictionary == Dictionary!Spec
=============================================================================
