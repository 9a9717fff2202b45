------------------------------- MODULE SkMap -------------------------------
(***************************************************************************)
(* The string map (libsrsirc/skmap.c) and the singly linked lists of its    *)
(* buckets (libsrsirc/bucklist.c), node by node, with their iterators and   *)
(* the copies of keys they own.  The allocator is external: it may fail,    *)
(* and it may hand out again what has been freed.                           *)
(*                                                                          *)
(* No caller in the repository changes a map while it walks it.  The caller *)
(* here does, as the interface allows, but having invalidated the iterator  *)
(* it starts a new walk before it uses it again.                            *)
(***************************************************************************)
EXTENDS Integers, FiniteSets

CONSTANTS
  Key,      \* keys, in all spellings
  KeyRep,   \* how the case mapping folds each
  Val,      \* values; none is NULL
  BSz,      \* the number of buckets
  Hash,     \* the bucket of each folded key
  Node,     \* addresses of list nodes, and of the key copies made with them
  Nil,      \* NULL
  NoKey     \* no key

ASSUME SkMapAssumption ==
  /\ KeyRep \in [Key -> Key] /\ \A k \in Key : KeyRep[KeyRep[k]] = KeyRep[k]
  /\ BSz \in Nat \ {0}
  /\ Hash \in [Key -> 0..BSz - 1]
  /\ Nil \notin Node /\ NoKey \notin Key /\ "gone" \notin Key \cup {NoKey}
  /\ IsFiniteSet(Node)

VARIABLES
  node,       \* the allocated nodes
  dup,        \* the copies of keys that are allocated
  made,       \* the buckets that have a list
  head,       \* bucklist.head
  iter, prev, \* bucklist.iter, bucklist.previter
  count,      \* h->count
  iterating, bit,
  (* history *)
  stale,      \* what happened to the walk's iterators: "iter" or "prev" is not to
              \* be used, "gone" if the element was deleted through the iterator
  off,        \* elements deleted through the iterator since the last clear
  lost        \* the copies of their keys, ever since

list  == <<node, dup, made, head>>
walk  == <<iter, prev, iterating, bit, stale>>
past  == <<off, lost>>
vars  == <<list, count, walk, past>>

Bucket == 0..BSz - 1

NodeRec == [key : Key, val : Val, next : Node \cup {Nil}]

MapTypeOK ==
  /\ DOMAIN node \subseteq Node /\ \A n \in DOMAIN node : node[n] \in NodeRec
  /\ dup \subseteq Node /\ made \subseteq Bucket
  /\ head \in [Bucket -> Node \cup {Nil}]
  /\ iter \in [Bucket -> Node \cup {Nil}] /\ prev \in [Bucket -> Node \cup {Nil}]
  /\ count \in Nat /\ iterating \in BOOLEAN
  /\ bit \in 0..BSz
  /\ stale \subseteq {"iter", "prev", "gone"} /\ off \in Nat /\ lost \subseteq Node

(* lsi_skmap_init                                                           *)
Init ==
  /\ node = [n \in {} |-> Nil] /\ dup = {} /\ made = {}
  /\ head = [b \in Bucket |-> Nil]
  /\ iter = [b \in Bucket |-> Nil] /\ prev = [b \in Bucket |-> Nil]
  /\ count = 0 /\ iterating = FALSE /\ bit = 0
  /\ stale = {} /\ off = 0 /\ lost = {}

-----------------------------------------------------------------------------
(* Lists *)

(* n and the nodes behind it.                                               *)
From(n) ==
  LET f[x \in Node \cup {Nil}] ==
        IF x \in DOMAIN node THEN {x} \cup f[node[x].next] ELSE {x} \ {Nil}
  IN  f[n]

In(b) == From(head[b])

(* The nodes of a list whose key is k: strhash_small, strhash_mid, pfxeq.   *)
BucketOf(k) == Hash[KeyRep[k]]

Matches(k) ==
  {n \in In(BucketOf(k)) : KeyRep[node[n].key] = KeyRep[k]}

(* lsi_bucklist_find: the first of them.                                    *)
Find(k) == CHOOSE n \in Matches(k) : \A o \in Matches(k) : o \in From(n)

(* The node before n.                                                       *)
Before(n, b) == {p \in In(b) : node[p].next = n}

(* n is unlinked.                                                           *)
Unlinked(n, b) ==
  /\ head' = [head EXCEPT ![b] = IF @ = n THEN node[n].next ELSE @]
  /\ node' = [x \in DOMAIN node \ {n} |->
                IF x \in Before(n, b) THEN [node[x] EXCEPT !.next = node[n].next]
                                      ELSE node[x]]

-----------------------------------------------------------------------------
(* lsi_skmap_put: the key is there, and its value is replaced.              *)
Replace(k, v) ==
  /\ Matches(k) # {}
  /\ node' = [node EXCEPT ![Find(k)].val = v]
  /\ UNCHANGED <<dup, made, head, count, walk, past>>

(* The iterator of bucket b stood on the first node and now no longer does. *)
Overtaken(b) ==
  stale' = IF iterating /\ b = bit /\ prev[b] = Nil THEN stale \cup {"prev"} ELSE stale

(* It is not: a new node at the head of its bucket, which may be new too    *)
(* (its iterators are then those of a fresh list).                          *)
Insert(k, v) ==
  LET b == BucketOf(k) IN
  /\ Matches(k) = {}
  /\ \E n \in Node \ (DOMAIN node \cup dup) :
       /\ node' = [x \in DOMAIN node \cup {n} |->
                     IF x = n THEN [key |-> k, val |-> v, next |-> head[b]] ELSE node[x]]
       /\ dup' = dup \cup {n}
       /\ head' = [head EXCEPT ![b] = n]
  /\ made' = made \cup {b}
  /\ count' = count + 1
  /\ Overtaken(b)
  /\ UNCHANGED <<iter, prev, iterating, bit, past>>

(* Memory runs out, for the list, the copy of the key or the node: all that *)
(* this call has allocated is freed again.  The copy it had made goes back. *)
PutFails_KeepsCopy(k) ==   \* faulty: it does not
  /\ Matches(k) = {}
  /\ \E n \in Node \ (DOMAIN node \cup dup) : dup' = dup \cup {n}
  /\ UNCHANGED <<node, made, head, count, walk, past>>

PutFails(k) ==
  /\ Matches(k) = {}
  /\ UNCHANGED vars

(* lsi_skmap_del.  An iterator that stands on the node is not told.         *)
Del_KeepsCount(k) ==   \* faulty
  LET b == BucketOf(k) IN
  /\ Matches(k) # {}
  /\ Unlinked(Find(k), b)
  /\ dup' = dup \ {Find(k)}
  /\ stale' = stale \cup (IF iterating /\ iter[bit] = Find(k) THEN {"iter"} ELSE {})
                    \cup (IF iterating /\ prev[bit] = Find(k) THEN {"prev"} ELSE {})
  /\ UNCHANGED <<made, count, iter, prev, iterating, bit, past>>

Del(k) ==
  LET b == BucketOf(k) IN
  /\ Matches(k) # {}
  /\ Unlinked(Find(k), b)
  /\ dup' = dup \ {Find(k)}
  /\ count' = count - 1
  /\ stale' = stale \cup (IF iterating /\ iter[bit] = Find(k) THEN {"iter"} ELSE {})
                    \cup (IF iterating /\ prev[bit] = Find(k) THEN {"prev"} ELSE {})
  /\ UNCHANGED <<made, iter, prev, iterating, bit, past>>

(* lsi_skmap_clear frees what its lists reach.  A walk is not told.         *)
Clear ==
  LET reached == UNION {In(b) : b \in made} IN
  /\ node' = [n \in DOMAIN node \ reached |-> node[n]]
  /\ dup' = dup \ reached
  /\ made' = {}
  /\ head' = [b \in Bucket |-> Nil]
  /\ iter' = [b \in Bucket |-> Nil] /\ prev' = [b \in Bucket |-> Nil]
  /\ count' = 0 /\ off' = 0
  /\ stale' = {"iter", "prev"}
  /\ UNCHANGED <<iterating, bit, lost>>

-----------------------------------------------------------------------------
(* Walks *)

(* The buckets from b on that have elements; the code looks for the first.  *)
Used(b) == {x \in Bucket : x >= b /\ x \in made /\ head[x] # Nil}

Enter(b) ==
  IF Used(b) = {}
  THEN /\ bit' = BSz /\ iterating' = FALSE
       /\ UNCHANGED <<iter, prev>>
  ELSE LET f == CHOOSE x \in Used(b) : \A y \in Used(b) : x <= y IN
       /\ bit' = f /\ iterating' = TRUE
       /\ iter' = [iter EXCEPT ![f] = head[f]]
       /\ prev' = [prev EXCEPT ![f] = Nil]

(* lsi_skmap_first                                                          *)
First ==
  /\ Enter(0)
  /\ stale' = {}
  /\ UNCHANGED <<list, count, past>>

(* lsi_skmap_next: the next node of the bucket, or the next bucket.         *)
AtEnd == IF iter[bit] = Nil THEN TRUE ELSE node[iter[bit]].next = Nil

Step ==
  /\ iterating /\ "iter" \notin stale /\ ~AtEnd
  /\ prev' = [prev EXCEPT ![bit] = iter[bit]]
  /\ iter' = [iter EXCEPT ![bit] = node[@].next]
  /\ stale' = {}
  /\ UNCHANGED <<list, count, iterating, bit, past>>

NextBucket_Same ==   \* faulty: it looks at the same bucket again
  /\ iterating /\ "iter" \notin stale /\ AtEnd
  /\ Enter(bit)
  /\ stale' = {}
  /\ UNCHANGED <<list, count, past>>

NextBucket ==
  /\ iterating /\ "iter" \notin stale /\ AtEnd
  /\ Enter(bit + 1)
  /\ stale' = {}
  /\ UNCHANGED <<list, count, past>>

(* lsi_skmap_del_iter: the node under the iterator goes, the copy of its    *)
(* key and the count stay.  The iterator stands on the node before, or on   *)
(* none.  Twice in a row would use previter for a node that is gone.        *)
DelIter ==
  LET n == iter[bit] IN
  /\ iterating /\ stale = {} /\ n # Nil
  /\ head' = [head EXCEPT ![bit] = IF prev[bit] = Nil THEN node[n].next ELSE @]
  /\ node' = [x \in DOMAIN node \ {n} |->
                IF x = prev[bit] THEN [node[x] EXCEPT !.next = node[n].next] ELSE node[x]]
  /\ iter' = [iter EXCEPT ![bit] = prev[bit]]
  /\ stale' = {"prev", "gone"}
  /\ off' = off + 1 /\ lost' = lost \cup {n}
  /\ UNCHANGED <<dup, made, count, prev, iterating, bit>>

-----------------------------------------------------------------------------
Next ==
  \/ \E k \in Key, v \in Val : Replace(k, v) \/ Insert(k, v)
  \/ \E k \in Key : PutFails(k) \/ Del(k)
  \/ Clear
  \/ First \/ Step \/ NextBucket \/ DelIter

Spec == Init /\ [][Next]_vars

-----------------------------------------------------------------------------
Linked == UNION {In(b) : b \in Bucket}

(* The count is that of the elements, and of those deleted through the      *)
(* iterator, which lsi_skmap_del_iter does not subtract.                    *)
CountExact == count = Cardinality(Linked) + off

(* Every node and every copy of a key is owned by exactly one element of    *)
(* the map, whatever is inserted, deleted and cleared and whichever         *)
(* allocation fails; only the copies of keys deleted through the iterator   *)
(* are lost.                                                                *)
MemoryOwned ==
  /\ MapTypeOK
  /\ DOMAIN node = Linked /\ dup = Linked \cup lost /\ Linked \cap lost = {}

-----------------------------------------------------------------------------
(* The map it implements *)

MapOf ==
  LET L == Linked IN
  [r \in {KeyRep[node[n].key] : n \in L} |->
     LET n == CHOOSE x \in L : KeyRep[node[x].key] = r
     IN  [key |-> node[n].key, val |-> node[n].val]]

Walking == iterating /\ "iter" \notin stale

CurOf ==
  IF ~Walking THEN NoKey
  ELSE IF "gone" \in stale THEN "gone"
  ELSE KeyRep[node[iter[bit]].key]

TodoOf ==
  LET here  == IF iter[bit] = Nil THEN {} ELSE From(iter[bit]) \ {iter[bit]}
      later == UNION {In(b) : b \in {x \in Bucket : x > bit}}
  IN  IF Walking THEN {KeyRep[node[n].key] : n \in here \cup later} ELSE {}

(* Buckets, lists, nodes and iterators behave as a finite map that can be   *)
(* walked: each element once and none left out, whatever is put into it or  *)
(* deleted from it in the meantime.                                         *)
D == INSTANCE Dict WITH m <- MapOf, cur <- CurOf, todo <- TodoOf

ImplementsDict == D!Spec

=============================================================================
