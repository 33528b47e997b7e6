--------------------------- MODULE ParticipantSet ---------------------------
(***************************************************************************)
(* What the participant database promises the receiver: a dictionary from  *)
(* SSRC to participant that can be walked from the smallest key to the     *)
(* largest, every key once, as long as nobody changes it meanwhile.        *)
(***************************************************************************)
EXTENDS Naturals

CONSTANTS Ssrcs,   \* the keys, natural numbers
          None     \* the cursor outside a walk

VARIABLES db,      \* function from the keys present to the ssrc of their item
          cursor   \* key the walk has reached

setVars == <<db, cursor>>

Least(S) == CHOOSE k \in S : \A j \in S : k <= j

Init == db = [k \in {} |-> k] /\ cursor = None

Add(k) ==
  /\ cursor = None
  /\ k \notin DOMAIN db
  /\ db' = [j \in DOMAIN db \cup {k} |-> IF j = k THEN k ELSE db[j]]
  /\ UNCHANGED cursor

Remove(k) ==
  /\ cursor = None
  /\ k \in DOMAIN db
  /\ db' = [j \in DOMAIN db \ {k} |-> db[j]]
  /\ UNCHANGED cursor

First ==
  /\ cursor = None
  /\ DOMAIN db # {}
  /\ cursor' = Least(DOMAIN db)
  /\ UNCHANGED db

Following ==
  /\ cursor # None
  /\ LET rest == {k \in DOMAIN db : k > cursor}
     IN  cursor' = IF rest = {} THEN None ELSE Least(rest)
  /\ UNCHANGED db

Next == (\E k \in Ssrcs : Add(k) \/ Remove(k)) \/ First \/ Following

Spec == Init /\ [][Next]_setVars
=============================================================================
