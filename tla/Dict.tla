-------------------------------- MODULE Dict --------------------------------
(***************************************************************************)
(* What a string map promises: a finite map from keys, spelled in any of    *)
(* their ways, to values, that remembers the first spelling; and a walk     *)
(* that comes by each of its elements once, in some order.  An element put  *)
(* into the map during a walk may be met by it or not.  The element the     *)
(* walk stands on may be deleted through the walk, which may then skip      *)
(* elements; when it, or after that another, is deleted otherwise, the walk *)
(* is over.                                                                 *)
(***************************************************************************)
CONSTANTS Key, KeyRep, Val, NoKey

VARIABLES
  m,      \* from a key's representative to its spelling and value
  cur,    \* the key the walk stands on; its rep, NoKey, or "gone" when deleted
  todo    \* the keys it has yet to come by

vars == <<m, cur, todo>>

Init == m = [r \in {} |-> NoKey] /\ cur = NoKey /\ todo = {}

Known == DOMAIN m

Put(k, v) ==
  LET r == KeyRep[k] IN
  /\ m' = [x \in Known \cup {r} |->
             IF x # r THEN m[x]
             ELSE [key |-> IF r \in Known THEN m[r].key ELSE k, val |-> v]]
  /\ todo' = todo \/ (r \notin Known /\ cur # NoKey /\ todo' = todo \cup {r})
  /\ UNCHANGED cur

Del(k) ==
  LET r == KeyRep[k] IN
  /\ m' = [x \in Known \ {r} |-> m[x]]
  /\ \/ cur # r /\ cur' = cur /\ todo' = todo \ {r}
     \/ cur \in {r, "gone"} /\ cur' = NoKey /\ todo' = {}

Clear == m' = [r \in {} |-> NoKey] /\ cur' = NoKey /\ todo' = {}

First ==
  /\ IF Known = {} THEN cur' = NoKey /\ todo' = {}
     ELSE cur' \in Known /\ todo' = Known \ {cur'}
  /\ UNCHANGED m

Next_ ==
  /\ cur # NoKey
  /\ IF todo = {} THEN cur' = NoKey /\ todo' = {}
     ELSE cur' \in todo /\ todo' = todo \ {cur'}
  /\ UNCHANGED m

DelIter ==
  /\ cur \in Known
  /\ m' = [x \in Known \ {cur} |-> m[x]]
  /\ cur' = "gone"
  /\ todo' \in SUBSET todo

Next ==
  \/ \E k \in Key, v \in Val : Put(k, v)
  \/ \E k \in Key : Del(k)
  \/ Clear \/ First \/ Next_ \/ DelIter

Spec == Init /\ [][Next]_vars

=============================================================================
