----------------------------- MODULE SkMapProofs -----------------------------
(***************************************************************************)
(* Proofs about module SkMap, for any keys, case mapping and hash function, *)
(* any number of buckets and any finite memory: the lists have an end and   *)
(* share no node, the count and the ownership of memory are right, and the  *)
(* whole is a finite map that can be walked.                                *)
(*                                                                          *)
(* The argument: there is a number for each node, that of the nodes behind  *)
(* it.  So a list is the nodes whose keys belong to its bucket, and what is *)
(* behind a node is those of the same bucket with a smaller number.         *)
(***************************************************************************)
EXTENDS SkMap, FiniteSetTheorems, WellFoundedInduction, TLAPS

(* The bucket that the node n belongs to.                                   *)
Home(n) == BucketOf(node[n].key)

LinksOk(d) ==
  \A x \in DOMAIN node :
    IF node[x].next = Nil THEN d[x] = 0
    ELSE /\ node[x].next \in DOMAIN node
         /\ Home(node[x].next) = Home(x)
         /\ d[x] = d[node[x].next] + 1

HeadsOk ==
  \A b \in Bucket :
    head[b] # Nil => head[b] \in DOMAIN node /\ Home(head[b]) = b /\ b \in made

TopsOk(d) ==
  \A x \in DOMAIN node : head[Home(x)] \in DOMAIN node /\ d[x] <= d[head[Home(x)]]

Apart(d) == \A x, y \in DOMAIN node : Home(x) = Home(y) /\ d[x] = d[y] => x = y

Ranked(d) == d \in [DOMAIN node -> Nat] /\ LinksOk(d) /\ TopsOk(d) /\ Apart(d)

(* The walk's iterators, as far as they are to be used.                     *)
WalkOk ==
  /\ iterating => bit \in Bucket
  /\ Walking => IF iter[bit] = Nil THEN "gone" \in stale
                ELSE iter[bit] \in DOMAIN node /\ Home(iter[bit]) = bit
  /\ iterating /\ stale = {} =>
       IF prev[bit] = Nil THEN head[bit] = iter[bit]
       ELSE prev[bit] \in DOMAIN node /\ node[prev[bit]].next = iter[bit]

KeysDiffer ==
  \A x, y \in DOMAIN node : KeyRep[node[x].key] = KeyRep[node[y].key] => x = y

Owned == dup = DOMAIN node \cup lost /\ DOMAIN node \cap lost = {}

Counted == count = Cardinality(DOMAIN node) + off

MapInv ==
  /\ MapTypeOK
  /\ \E d : Ranked(d)
  /\ HeadsOk /\ WalkOk /\ KeysDiffer /\ Owned /\ Counted

-----------------------------------------------------------------------------
(* Lists *)

LEMMA Types ==
  ASSUME MapTypeOK
  PROVE  /\ DOMAIN node \subseteq Node /\ Nil \notin Node /\ Nil \notin DOMAIN node
         /\ IsFiniteSet(DOMAIN node)
         /\ \A x \in DOMAIN node : /\ node[x].key \in Key /\ node[x].val \in Val
                                   /\ node[x].next \in Node \cup {Nil}
                                   /\ Home(x) \in Bucket
         /\ \A k \in Key : KeyRep[k] \in Key /\ BucketOf(k) \in Bucket
<1>1. DOMAIN node \subseteq Node /\ Nil \notin Node /\ IsFiniteSet(Node)
  BY SkMapAssumption DEF MapTypeOK
<1>2. IsFiniteSet(DOMAIN node)
  BY <1>1, FS_Subset
<1>3. \A k \in Key : KeyRep[k] \in Key /\ BucketOf(k) \in Bucket
  BY SkMapAssumption DEF BucketOf, Bucket
<1>4. \A x \in DOMAIN node : /\ node[x].key \in Key /\ node[x].val \in Val
                             /\ node[x].next \in Node \cup {Nil}
  BY DEF MapTypeOK, NodeRec
<1> QED BY <1>1, <1>2, <1>3, <1>4 DEF Home

(* x and what is behind it, if there are d[y] nodes behind each y.          *)
Tails(d, x) ==
  IF x \in DOMAIN node THEN {y \in DOMAIN node : Home(y) = Home(x) /\ d[y] <= d[x]}
                       ELSE {x} \ {Nil}

LEMMA TailsEq ==
  ASSUME MapTypeOK, NEW d, Ranked(d), NEW x \in DOMAIN node
  PROVE  Tails(d, x) = {x} \cup Tails(d, node[x].next)
<1>1. /\ \A y \in DOMAIN node : d[y] \in Nat
      /\ Nil \notin DOMAIN node
  BY Types DEF Ranked
<1>2. CASE node[x].next = Nil
  <2>1. d[x] = 0
    BY <1>2 DEF Ranked, LinksOk
  <2>2. Tails(d, node[x].next) = {}
    BY <1>1, <1>2 DEF Tails
  <2>3. \A y \in DOMAIN node : Home(y) = Home(x) /\ d[y] <= d[x] => d[y] = d[x]
    BY <1>1, <2>1
  <2>4. Tails(d, x) = {x}
    BY <1>1, <2>3 DEF Tails, Ranked, Apart
  <2> QED BY <2>2, <2>4
<1>3. CASE node[x].next # Nil
  <2>1. PICK z \in DOMAIN node : z = node[x].next /\ Home(z) = Home(x) /\ d[x] = d[z] + 1
    BY <1>3 DEF Ranked, LinksOk
  <2>2. \A y \in DOMAIN node : d[y] <= d[x] <=> d[y] <= d[z] \/ d[y] = d[x]
    BY <1>1, <2>1
  <2>3. d[x] <= d[x]
    BY <1>1
  <2>4. \A y \in DOMAIN node : Home(y) = Home(x) /\ d[y] = d[x] => y = x
    BY DEF Ranked, Apart
  <2> QED BY <2>1, <2>2, <2>3, <2>4 DEF Tails
<1> QED BY <1>2, <1>3

(* The recursion that defines From has one solution.                        *)
LEMMA FromTails ==
  ASSUME MapTypeOK, NEW d, Ranked(d), NEW x \in Node \cup {Nil}
  PROVE  From(x) = Tails(d, x)
<1> DEFINE Solves(f) ==
      f = [z \in Node \cup {Nil} |->
             IF z \in DOMAIN node THEN {z} \cup f[node[z].next] ELSE {z} \ {Nil}]
    g == [z \in Node \cup {Nil} |-> Tails(d, z)]
<1>1. /\ DOMAIN node \subseteq Node /\ Nil \notin DOMAIN node
      /\ \A z \in DOMAIN node : node[z].next \in Node \cup {Nil}
      /\ \A z \in DOMAIN node : d[z] \in Nat
  BY Types DEF Ranked
<1>2. Solves(g)
  <2>1. \A z \in Node \cup {Nil} :
          g[z] = IF z \in DOMAIN node THEN {z} \cup g[node[z].next] ELSE {z} \ {Nil}
    <3>1. \A z \in Node \cup {Nil} : g[z] = Tails(d, z)
      OBVIOUS
    <3>2. \A z \in Node \cup {Nil} : z \notin DOMAIN node => Tails(d, z) = {z} \ {Nil}
      BY DEF Tails
    <3> HIDE DEF g
    <3>3. ASSUME NEW z \in DOMAIN node PROVE g[z] = {z} \cup g[node[z].next]
      <4>1. Tails(d, z) = {z} \cup Tails(d, node[z].next)
        BY TailsEq
      <4>2. z \in Node \cup {Nil} /\ node[z].next \in Node \cup {Nil}
        BY <1>1
      <4> QED BY <3>1, <4>1, <4>2
    <3> QED BY <1>1, <3>1, <3>2, <3>3
  <2>2. g = [z \in Node \cup {Nil} |-> g[z]]
    OBVIOUS
  <2> HIDE DEF g
  <2> QED BY <2>1, <2>2
<1>3. PICK f : Solves(f) /\ From(x) = f[x]
  <2> HIDE DEF g
  <2> QED BY <1>2, Zenon DEF From
<1>4. \A z \in Node \cup {Nil} :
        f[z] = IF z \in DOMAIN node THEN {z} \cup f[node[z].next] ELSE {z} \ {Nil}
  BY <1>3
<1> HIDE DEF Solves
<1>5. \A z \in DOMAIN node : f[z] = Tails(d, z)
  <2> DEFINE Bad == {i \in Nat : \E z \in DOMAIN node : d[z] = i /\ f[z] # Tails(d, z)}
  <2>1. SUFFICES ASSUME Bad # {} PROVE FALSE
    BY <1>1
  <2>2. PICK i \in Bad : \A j \in Bad : <<j, i>> \notin OpToRel(<, Nat)
    <3>1. Bad \in SUBSET Nat
      OBVIOUS
    <3> HIDE DEF Bad
    <3> QED BY <2>1, <3>1, NatLessThanWellFounded, WFMin
  <2>3. \A j \in Bad : ~(j < i)
    <3>1. Bad \in SUBSET Nat
      OBVIOUS
    <3> HIDE DEF Bad
    <3> QED BY <2>2, <3>1, Zenon DEF OpToRel
  <2>4. PICK z \in DOMAIN node : d[z] = i /\ f[z] # Tails(d, z)
    BY <2>2
  <2>5. f[z] = {z} \cup f[node[z].next] /\ Tails(d, z) = {z} \cup Tails(d, node[z].next)
    BY <1>1, <1>4, TailsEq
  <2>6. CASE node[z].next \in DOMAIN node
    <3>1. d[z] = d[node[z].next] + 1
      BY <1>1, <2>6 DEF Ranked, LinksOk
    <3>2. d[node[z].next] \in Nat /\ d[node[z].next] < i
      BY <1>1, <2>4, <2>6, <3>1
    <3>3. d[node[z].next] \notin Bad
      BY <2>3, <3>2
    <3> QED BY <2>4, <2>5, <2>6, <3>2, <3>3
  <2>7. CASE node[z].next \notin DOMAIN node
    <3>1. f[node[z].next] = Tails(d, node[z].next)
      BY <1>1, <1>4, <2>7 DEF Tails
    <3> QED BY <2>4, <2>5, <3>1
  <2> QED BY <2>6, <2>7
<1>6. x \notin DOMAIN node => f[x] = Tails(d, x)
  BY <1>4 DEF Tails
<1> QED BY <1>3, <1>5, <1>6

(* A list is the nodes of its bucket, and each node is on a list.           *)
LEMMA InHome ==
  ASSUME MapTypeOK, NEW d, Ranked(d), HeadsOk, NEW b \in Bucket
  PROVE  In(b) = {x \in DOMAIN node : Home(x) = b}
<1>1. head[b] \in Node \cup {Nil} /\ Nil \notin DOMAIN node
  BY Types DEF MapTypeOK
<1>2. In(b) = Tails(d, head[b])
  BY <1>1, FromTails DEF In
<1>3. CASE head[b] = Nil
  BY <1>1, <1>2, <1>3 DEF Tails, Ranked, TopsOk
<1>4. CASE head[b] # Nil
  <2>1. head[b] \in DOMAIN node /\ Home(head[b]) = b
    BY <1>4 DEF HeadsOk
  <2> QED BY <1>2, <2>1 DEF Tails, Ranked, TopsOk
<1> QED BY <1>3, <1>4

LEMMA LinkedAll ==
  ASSUME MapInv
  PROVE  /\ Linked = DOMAIN node
         /\ UNION {In(b) : b \in made} = DOMAIN node
         /\ \A b \in Bucket : In(b) = {x \in DOMAIN node : Home(x) = b}
<1>1. MapTypeOK /\ HeadsOk
  BY DEF MapInv
<1>2. PICK d : Ranked(d)
  BY DEF MapInv
<1>3. \A b \in Bucket : In(b) = {x \in DOMAIN node : Home(x) = b}
  BY <1>1, <1>2, InHome
<1>4. \A x \in DOMAIN node : Home(x) \in Bucket /\ Home(x) \in made
  BY <1>1, <1>2, Types DEF Ranked, TopsOk, HeadsOk
<1>5. made \subseteq Bucket
  BY <1>1 DEF MapTypeOK
<1>6. Linked = DOMAIN node
  BY <1>3, <1>4 DEF Linked
<1>7. UNION {In(b) : b \in made} = DOMAIN node
  BY <1>3, <1>4, <1>5
<1> QED BY <1>3, <1>6, <1>7

(* lsi_bucklist_find finds the only node with the key.                      *)
LEMMA MatchFacts ==
  ASSUME MapInv, NEW k \in Key
  PROVE  /\ Matches(k) = {n \in DOMAIN node : KeyRep[node[n].key] = KeyRep[k]}
         /\ Matches(k) # {} => /\ Find(k) \in DOMAIN node
                               /\ KeyRep[node[Find(k)].key] = KeyRep[k]
                               /\ Home(Find(k)) = BucketOf(k)
<1>1. MapTypeOK /\ KeysDiffer
  BY DEF MapInv
<1>2. BucketOf(k) \in Bucket
  BY <1>1, Types
<1>3. Matches(k) = {n \in DOMAIN node : KeyRep[node[n].key] = KeyRep[k]}
  <2>1. In(BucketOf(k)) = {x \in DOMAIN node : Home(x) = BucketOf(k)}
    BY <1>2, LinkedAll
  <2>2. \A n \in DOMAIN node : KeyRep[node[n].key] = KeyRep[k] => Home(n) = BucketOf(k)
    BY DEF Home, BucketOf
  <2> QED BY <2>1, <2>2 DEF Matches
<1>4. ASSUME NEW n \in Matches(k) PROVE Find(k) \in Matches(k)
  <2>1. PICK d : Ranked(d)
    BY DEF MapInv
  <2>2. n \in From(n)
    <3>1. From(n) = Tails(d, n) /\ n \in DOMAIN node /\ d[n] \in Nat
      BY <1>1, <1>3, <2>1, Types, FromTails DEF Ranked
    <3> QED BY <3>1 DEF Tails
  <2>3. \A o \in Matches(k) : o = n
    BY <1>1, <1>3 DEF KeysDiffer
  <2> QED BY <2>2, <2>3 DEF Find
<1>5. \A n \in DOMAIN node : KeyRep[node[n].key] = KeyRep[k] => Home(n) = BucketOf(k)
  BY DEF Home, BucketOf
<1> QED BY <1>3, <1>4, <1>5

(* The numbers after a node n has been put at the head of bucket b.         *)
LEMMA RankInsert ==
  ASSUME MapInv, NEW n \in Node \ DOMAIN node, NEW k \in Key, NEW b, b = BucketOf(k),
         DOMAIN node' = DOMAIN node \cup {n},
         \A x \in DOMAIN node : node'[x] = node[x],
         node'[n].key = k, node'[n].next = head[b],
         \A c \in Bucket : head'[c] = IF c = b THEN n ELSE head[c],
         made' = made \cup {b},
         Matches(k) = {}
  PROVE  /\ \A x \in DOMAIN node : Home(x)' = Home(x)
         /\ Home(n)' = b
         /\ HeadsOk' /\ KeysDiffer'
         /\ \A d : Ranked(d) =>
              \E e : /\ Ranked(e)' /\ \A x \in DOMAIN node : e[x] = d[x]
                     /\ \A x \in DOMAIN node : Home(x) = b => e[x] < e[n]
<1>1. /\ MapTypeOK /\ HeadsOk /\ KeysDiffer
      /\ b \in Bucket
  BY Types DEF MapInv
<1>2. /\ DOMAIN node \subseteq Node /\ Nil \notin Node /\ Nil \notin DOMAIN node
      /\ \A x \in DOMAIN node : Home(x) \in Bucket /\ node[x].next \in Node \cup {Nil}
      /\ head \in [Bucket -> Node \cup {Nil}]
  BY <1>1, Types DEF MapTypeOK
<1>3. DOMAIN node' = DOMAIN node \cup {n}
  OBVIOUS
<1>4. \A x \in DOMAIN node : x # n /\ node'[x] = node[x]
  OBVIOUS
<1>5. node'[n].key = k /\ node'[n].next = head[b]
  OBVIOUS
<1>6. \A x \in DOMAIN node : Home(x)' = Home(x)
  BY <1>4 DEF Home, BucketOf
<1>7. Home(n)' = b
  BY <1>5 DEF Home, BucketOf
<1>8. \A c \in Bucket : head'[c] = IF c = b THEN n ELSE head[c]
  BY <1>1, <1>2
<1>9. HeadsOk'
  <2> SUFFICES ASSUME NEW c \in Bucket, head'[c] # Nil
               PROVE  /\ head'[c] \in DOMAIN node' /\ c \in made'
                      /\ \A h : h = head'[c] => Home(h)' = c
    BY DEF HeadsOk, Bucket
  <2>1. CASE c = b
    BY <1>3, <1>7, <1>8, <2>1
  <2>2. CASE c # b
    <3>1. head'[c] = head[c] /\ head[c] \in DOMAIN node /\ Home(head[c]) = c /\ c \in made
      BY <1>1, <1>8, <2>2 DEF HeadsOk
    <3> QED BY <1>3, <1>6, <3>1
  <2> QED BY <2>1, <2>2
<1>10. KeysDiffer'
  <2>1. \A x \in DOMAIN node : KeyRep[node[x].key] # KeyRep[k]
    BY MatchFacts
  <2>2. node'[n].key = k
    BY <1>5
  <2> QED BY <1>1, <1>3, <1>4, <2>1, <2>2 DEF KeysDiffer
<1>11. ASSUME NEW d, Ranked(d)
       PROVE  \E e : /\ Ranked(e)' /\ \A x \in DOMAIN node : e[x] = d[x]
                     /\ \A x \in DOMAIN node : Home(x) = b => e[x] < e[n]
  <2>1. d \in [DOMAIN node -> Nat] /\ LinksOk(d) /\ TopsOk(d) /\ Apart(d)
    BY <1>11 DEF Ranked
  <2>14. PICK top : top = IF head[b] = Nil THEN 0 ELSE d[head[b]] + 1
    OBVIOUS
  <2>15. PICK e : e = [x \in DOMAIN node \cup {n} |-> IF x = n THEN top ELSE d[x]]
    OBVIOUS
  <2>2. head[b] # Nil => head[b] \in DOMAIN node /\ Home(head[b]) = b
    BY <1>1 DEF HeadsOk
  <2>3. e \in [DOMAIN node' -> Nat]
    BY <1>3, <2>1, <2>2, <2>14, <2>15
  <2>4. /\ e[n] = top /\ top \in Nat
        /\ \A x \in DOMAIN node : e[x] = d[x] /\ d[x] \in Nat
    BY <1>4, <2>1, <2>2, <2>14, <2>15
  <2>5. \A x \in DOMAIN node : Home(x) = b => head[b] # Nil /\ d[x] <= d[head[b]]
    BY <1>2, <2>1 DEF TopsOk
  <2>6. \A x \in DOMAIN node : Home(x) = b => d[x] < top
    BY <2>2, <2>4, <2>5, <2>14
  <2>7. head[b] = Nil => top = 0
    BY <2>14
  <2>8. head[b] # Nil => top = d[head[b]] + 1
    BY <2>14
  <2>9. LinksOk(e)'
    <3> SUFFICES ASSUME NEW x \in DOMAIN node'
                 PROVE  IF node'[x].next = Nil THEN e[x] = 0
                        ELSE /\ node'[x].next \in DOMAIN node'
                             /\ \A z : z = node'[x].next => Home(z)' = Home(x)'
                             /\ e[x] = e[node'[x].next] + 1
      BY DEF LinksOk, Home
    <3>1. CASE x = n
      <4>1. node'[x].next = head[b]
        BY <1>5, <3>1
      <4> QED BY <1>3, <1>6, <1>7, <2>2, <2>4, <2>7, <2>8, <3>1, <4>1
    <3>2. CASE x # n
      <4>1. x \in DOMAIN node /\ node'[x].next = node[x].next
        BY <1>3, <1>4, <3>2
      <4>2. IF node[x].next = Nil THEN d[x] = 0
            ELSE /\ node[x].next \in DOMAIN node
                 /\ Home(node[x].next) = Home(x)
                 /\ d[x] = d[node[x].next] + 1
        BY <2>1, <4>1 DEF LinksOk
      <4> QED BY <1>3, <1>6, <2>4, <4>1, <4>2
    <3> QED BY <3>1, <3>2
  <2>10. TopsOk(e)'
    <3> SUFFICES ASSUME NEW x \in DOMAIN node'
                 PROVE  head'[Home(x)'] \in DOMAIN node' /\ e[x] <= e[head'[Home(x)']]
      BY DEF TopsOk, Home
    <3>1. CASE x = n
      BY <1>1, <1>3, <1>7, <1>8, <2>4, <3>1
    <3>2. CASE x # n /\ Home(x) = b
      <4>1. x \in DOMAIN node /\ head'[Home(x)'] = n
        BY <1>1, <1>3, <1>6, <1>8, <3>2
      <4> QED BY <1>3, <2>4, <2>6, <3>2, <4>1
    <3>3. CASE x # n /\ Home(x) # b
      <4>1. x \in DOMAIN node /\ head'[Home(x)'] = head[Home(x)]
        BY <1>2, <1>3, <1>6, <1>8, <3>3
      <4>2. head[Home(x)] \in DOMAIN node /\ d[x] <= d[head[Home(x)]]
        BY <2>1, <4>1 DEF TopsOk
      <4> QED BY <1>3, <2>4, <4>1, <4>2
    <3> QED BY <3>1, <3>2, <3>3
  <2>11. Apart(e)'
    <3> SUFFICES ASSUME NEW x \in DOMAIN node', NEW y \in DOMAIN node',
                        Home(x)' = Home(y)', e[x] = e[y]
                 PROVE  x = y
      BY DEF Apart
    <3>1. CASE x = n /\ y # n
      <4>1. y \in DOMAIN node /\ Home(y) = b
        BY <1>3, <1>6, <1>7, <3>1
      <4> QED BY <2>4, <2>6, <3>1, <4>1
    <3>2. CASE x # n /\ y = n
      <4>1. x \in DOMAIN node /\ Home(x) = b
        BY <1>3, <1>6, <1>7, <3>2
      <4> QED BY <2>4, <2>6, <3>2, <4>1
    <3>3. CASE x # n /\ y # n
      <4>1. x \in DOMAIN node /\ y \in DOMAIN node /\ Home(x) = Home(y) /\ d[x] = d[y]
        BY <1>3, <1>6, <2>4, <3>3
      <4> QED BY <2>1, <4>1 DEF Apart
    <3> QED BY <3>1, <3>2, <3>3
  <2>12. Ranked(e)'
    BY <2>3, <2>9, <2>10, <2>11 DEF Ranked
  <2>13. \A x \in DOMAIN node : Home(x) = b => e[x] < e[n]
    BY <2>4, <2>6
  <2> QED BY <2>4, <2>12, <2>13
<1> QED BY <1>3, <1>4, <1>5, <1>6, <1>7, <1>9, <1>10, <1>11

(* And after the node n has been unlinked: those of the nodes before it     *)
(* fall by one.                                                             *)
LEMMA RankRemove ==
  ASSUME MapTypeOK, HeadsOk, NEW d, Ranked(d), NEW n \in DOMAIN node,
         DOMAIN node' = DOMAIN node \ {n},
         \A x \in DOMAIN node' :
           /\ node'[x].key = node[x].key
           /\ node'[x].next = IF node[x].next = n THEN node[n].next ELSE node[x].next,
         \A c \in Bucket : head'[c] = IF head[c] = n THEN node[n].next ELSE head[c],
         made' = made
  PROVE  /\ HeadsOk' /\ \A x \in DOMAIN node' : Home(x)' = Home(x)
         /\ \E e : /\ Ranked(e)'
                   /\ \A x, y \in DOMAIN node' :
                        Home(x) = Home(y) => (e[x] <= e[y] <=> d[x] <= d[y])
<1>1. d \in [DOMAIN node -> Nat] /\ LinksOk(d) /\ TopsOk(d) /\ Apart(d)
  BY DEF Ranked
<1>2. /\ Nil \notin DOMAIN node
      /\ \A x \in DOMAIN node : Home(x) \in Bucket /\ d[x] \in Nat
  BY <1>1, Types
<1>3. \A x \in DOMAIN node' : x \in DOMAIN node /\ x # n /\ Home(x)' = Home(x)
  BY DEF Home, BucketOf
<1>4. \A x \in DOMAIN node :
        IF node[x].next = Nil THEN d[x] = 0
        ELSE /\ node[x].next \in DOMAIN node
             /\ Home(node[x].next) = Home(x)
             /\ d[x] = d[node[x].next] + 1
  BY <1>1 DEF LinksOk
<1>5. node[n].next # Nil => node[n].next \in DOMAIN node'
  BY <1>2, <1>4
<1>6. HeadsOk'
  <2> SUFFICES ASSUME NEW c \in Bucket, head'[c] # Nil
               PROVE  /\ head'[c] \in DOMAIN node' /\ c \in made'
                      /\ \A h : h = head'[c] => Home(h)' = c
    BY DEF HeadsOk, Bucket
  <2>1. CASE head[c] = n
    <3>1. head'[c] = node[n].next /\ c \in made /\ Home(n) = c
      BY <1>2, <2>1 DEF HeadsOk
    <3>2. Home(node[n].next) = c
      BY <1>4, <3>1
    <3> QED BY <1>3, <1>5, <3>1, <3>2
  <2>2. CASE head[c] # n
    <3>1. head'[c] = head[c] /\ head[c] \in DOMAIN node /\ Home(head[c]) = c /\ c \in made
      BY <2>2 DEF HeadsOk
    <3> QED BY <1>3, <2>2, <3>1
  <2> QED BY <2>1, <2>2
<1>7. PICK e : e = [x \in DOMAIN node' |-> IF Home(x) = Home(n) /\ d[x] > d[n] THEN d[x] - 1 ELSE d[x]]
  OBVIOUS
<1>8. /\ e \in [DOMAIN node' -> Nat]
      /\ \A x \in DOMAIN node' :
           e[x] = IF Home(x) = Home(n) /\ d[x] > d[n] THEN d[x] - 1 ELSE d[x]
  BY <1>2, <1>3, <1>7
<1>9. \A x \in DOMAIN node' : Home(x) = Home(n) => d[x] # d[n]
  BY <1>1, <1>3 DEF Apart
<1>10. \A x, y \in DOMAIN node' : Home(x) = Home(y) => (e[x] <= e[y] <=> d[x] <= d[y])
  <2> SUFFICES ASSUME NEW x \in DOMAIN node', NEW y \in DOMAIN node', Home(x) = Home(y)
               PROVE  e[x] <= e[y] <=> d[x] <= d[y]
    OBVIOUS
  <2>1. d[x] \in Nat /\ d[y] \in Nat /\ d[n] \in Nat
    BY <1>2, <1>3
  <2>2. CASE Home(x) = Home(n)
    <3>1. d[x] # d[n] /\ d[y] # d[n]
      BY <1>9, <2>2
    <3>2. /\ e[x] = IF d[x] > d[n] THEN d[x] - 1 ELSE d[x]
          /\ e[y] = IF d[y] > d[n] THEN d[y] - 1 ELSE d[y]
      BY <1>8, <2>2
    <3> QED BY <2>1, <3>1, <3>2
  <2>3. CASE Home(x) # Home(n)
    <3>1. e[x] = d[x] /\ e[y] = d[y]
      BY <1>8, <2>3
    <3> QED BY <3>1
  <2> QED BY <2>2, <2>3
<1>11. LinksOk(e)'
  <2> SUFFICES ASSUME NEW x \in DOMAIN node'
               PROVE  IF node'[x].next = Nil THEN e[x] = 0
                      ELSE /\ node'[x].next \in DOMAIN node'
                           /\ \A z : z = node'[x].next => Home(z)' = Home(x)'
                           /\ e[x] = e[node'[x].next] + 1
    BY DEF LinksOk, Home
  <2>1. x \in DOMAIN node /\ x # n /\ Home(x)' = Home(x) /\ d[x] \in Nat /\ d[n] \in Nat
    BY <1>2, <1>3
  <2>2. CASE node[x].next = n
    <3>1. node'[x].next = node[n].next /\ Home(x) = Home(n) /\ d[x] = d[n] + 1
      BY <1>2, <1>4, <2>1, <2>2
    <3>2. e[x] = d[n]
      BY <1>8, <2>1, <3>1
    <3>3. CASE node[n].next = Nil
      BY <1>4, <3>1, <3>2, <3>3
    <3>4. CASE node[n].next # Nil
      <4>1. PICK z \in DOMAIN node' :
              z = node[n].next /\ Home(z) = Home(n) /\ d[n] = d[z] + 1 /\ d[z] \in Nat
        BY <1>2, <1>4, <1>5, <3>4
      <4>2. e[z] = d[z]
        BY <1>8, <2>1, <4>1
      <4> QED BY <1>2, <1>3, <2>1, <3>1, <3>2, <4>1, <4>2
    <3> QED BY <3>3, <3>4
  <2>3. CASE node[x].next = Nil
    <3>1. d[x] = 0 /\ node'[x].next = Nil
      BY <1>2, <1>4, <2>1, <2>3
    <3>2. e[x] = 0
      BY <1>8, <2>1, <3>1
    <3> QED BY <3>1, <3>2
  <2>4. CASE node[x].next # n /\ node[x].next # Nil
    <3>1. PICK z \in DOMAIN node' :
            z = node[x].next /\ Home(z) = Home(x) /\ d[x] = d[z] + 1 /\ d[z] \in Nat
      BY <1>2, <1>4, <2>1, <2>4
    <3>2. node'[x].next = z /\ z # Nil
      BY <1>2, <1>3, <2>4, <3>1
    <3>3. e[x] = e[z] + 1
      <4>1. CASE Home(x) = Home(n)
        <5>1. d[z] # d[n]
          BY <1>9, <3>1, <4>1
        <5> QED BY <1>8, <2>1, <3>1, <4>1, <5>1
      <4>2. CASE Home(x) # Home(n)
        BY <1>8, <3>1, <4>2
      <4> QED BY <4>1, <4>2
    <3> QED BY <1>3, <2>1, <3>1, <3>2, <3>3
  <2> QED BY <2>2, <2>3, <2>4
<1>12. TopsOk(e)'
  <2> SUFFICES ASSUME NEW x \in DOMAIN node'
               PROVE  head'[Home(x)'] \in DOMAIN node' /\ e[x] <= e[head'[Home(x)']]
    BY DEF TopsOk, Home
  <2>1. /\ x \in DOMAIN node /\ x # n /\ Home(x)' = Home(x) /\ d[x] \in Nat /\ d[n] \in Nat
        /\ Home(x) \in Bucket
    BY <1>2, <1>3
  <2>2. PICK h : h = head[Home(x)]
    OBVIOUS
  <2>3. h \in DOMAIN node /\ d[x] <= d[h] /\ h # Nil
    BY <1>1, <1>2, <2>1, <2>2 DEF TopsOk
  <2>4. Home(h) = Home(x)
    BY <2>1, <2>2, <2>3 DEF HeadsOk
  <2>5. CASE h = n
    <3>1. head'[Home(x)'] = node[n].next
      BY <2>1, <2>2, <2>5
    <3>2. d[x] < d[n]
      <4>1. d[x] # d[n]
        BY <1>9, <2>4, <2>5
      <4> QED BY <2>1, <2>3, <2>5, <4>1
    <3>3. node[n].next # Nil
      BY <1>4, <2>1, <3>2
    <3>4. PICK z \in DOMAIN node' :
            z = node[n].next /\ Home(z) = Home(n) /\ d[n] = d[z] + 1 /\ d[z] \in Nat
      BY <1>2, <1>3, <1>4, <1>5, <3>3
    <3>5. d[x] <= d[z] /\ Home(x) = Home(z)
      BY <2>1, <2>4, <2>5, <3>2, <3>4
    <3>6. e[x] <= e[z]
      BY <1>10, <3>4, <3>5
    <3> QED BY <3>1, <3>4, <3>6
  <2>6. CASE h # n
    <3>1. h \in DOMAIN node' /\ head'[Home(x)'] = h
      BY <2>1, <2>2, <2>3, <2>6
    <3>2. e[x] <= e[h]
      BY <1>10, <2>3, <2>4, <3>1
    <3> QED BY <3>1, <3>2
  <2> QED BY <2>5, <2>6
<1>13. Apart(e)'
  <2> SUFFICES ASSUME NEW x \in DOMAIN node', NEW y \in DOMAIN node',
                      Home(x)' = Home(y)', e[x] = e[y]
               PROVE  x = y
    BY DEF Apart
  <2>1. Home(x) = Home(y) /\ x \in DOMAIN node /\ y \in DOMAIN node
    BY <1>3
  <2>2. e[x] <= e[y] /\ e[y] <= e[x]
    BY <1>8
  <2>3. d[x] <= d[y] /\ d[y] <= d[x]
    BY <1>10, <2>1, <2>2
  <2>4. d[x] = d[y]
    BY <1>2, <2>1, <2>3
  <2> QED BY <1>1, <2>1, <2>4 DEF Apart
<1>14. Ranked(e)'
  BY <1>8, <1>11, <1>12, <1>13 DEF Ranked
<1> QED BY <1>3, <1>6, <1>10, <1>14

-----------------------------------------------------------------------------
(* The operations *)

LEMMA ReplaceFacts ==
  ASSUME MapInv, NEW k \in Key, NEW v \in Val, Replace(k, v)
  PROVE  /\ DOMAIN node' = DOMAIN node
         /\ \A x \in DOMAIN node :
              /\ node'[x].key = node[x].key /\ node'[x].next = node[x].next
              /\ node'[x].val = IF x = Find(k) THEN v ELSE node[x].val
              /\ node'[x] \in NodeRec /\ Home(x)' = Home(x)
<1>1. node' = [node EXCEPT ![Find(k)].val = v] /\ \A x \in DOMAIN node : node[x] \in NodeRec
  BY DEF Replace, MapInv, MapTypeOK
<1>2. ASSUME NEW x \in DOMAIN node
      PROVE  /\ node'[x].key = node[x].key /\ node'[x].next = node[x].next
             /\ node'[x].val = IF x = Find(k) THEN v ELSE node[x].val
             /\ node'[x] \in NodeRec
  BY <1>1 DEF NodeRec
<1>3. \A x \in DOMAIN node : Home(x)' = Home(x)
  BY <1>2 DEF Home, BucketOf
<1> QED BY <1>1, <1>2, <1>3

LEMMA ReplaceInv ==
  ASSUME MapInv, NEW k \in Key, NEW v \in Val, Replace(k, v)
  PROVE  MapInv' /\ \A d : Ranked(d) => Ranked(d)'
<1>1. /\ DOMAIN node' = DOMAIN node
      /\ \A x \in DOMAIN node :
           /\ node'[x].key = node[x].key /\ node'[x].next = node[x].next
           /\ node'[x] \in NodeRec /\ Home(x)' = Home(x)
  BY ReplaceFacts
<1>2. UNCHANGED <<dup, made, head, count, walk, past>>
  BY DEF Replace
<1>3. MapTypeOK'
  BY <1>1, <1>2 DEF MapInv, MapTypeOK, walk, past, Bucket
<1>4. HeadsOk' /\ KeysDiffer'
  BY <1>1, <1>2 DEF MapInv, HeadsOk, KeysDiffer, Bucket
<1>5. ASSUME NEW d, Ranked(d) PROVE Ranked(d)'
  <2>1. /\ \A x \in DOMAIN node : node[x].next \in DOMAIN node
                                   => Home(node[x].next)' = Home(node[x].next)
        /\ \A x \in DOMAIN node : Home(x) \in Bucket
    BY <1>1, Types DEF MapInv
  <2>2. LinksOk(d)'
    <3> SUFFICES ASSUME NEW x \in DOMAIN node'
                 PROVE  IF node'[x].next = Nil THEN d[x] = 0
                        ELSE /\ node'[x].next \in DOMAIN node'
                             /\ \A z : z = node'[x].next => Home(z)' = Home(x)'
                             /\ d[x] = d[node'[x].next] + 1
      BY DEF LinksOk, Home
    <3> QED BY <1>1, <1>5, <2>1 DEF Ranked, LinksOk
  <2>3. TopsOk(d)'
    <3> SUFFICES ASSUME NEW x \in DOMAIN node'
                 PROVE  head'[Home(x)'] \in DOMAIN node' /\ d[x] <= d[head'[Home(x)']]
      BY DEF TopsOk, Home
    <3> QED BY <1>1, <1>2, <1>5 DEF Ranked, TopsOk
  <2>4. Apart(d)'
    BY <1>1, <1>5 DEF Ranked, Apart
  <2> QED BY <1>1, <1>5, <2>2, <2>3, <2>4 DEF Ranked
<1>6. WalkOk'
  <2>1. UNCHANGED <<iter, prev, iterating, bit, stale>>
    BY <1>2 DEF walk
  <2>2. WalkOk
    BY DEF MapInv
  <2> QED BY <1>1, <1>2, <2>1, <2>2 DEF WalkOk, Walking, Bucket
<1>7. Owned' /\ Counted'
  BY <1>1, <1>2 DEF MapInv, Owned, Counted, past
<1> QED BY <1>3, <1>4, <1>5, <1>6, <1>7 DEF MapInv

LEMMA InsertInv ==
  ASSUME MapInv, NEW k \in Key, NEW v \in Val, Insert(k, v)
  PROVE  MapInv'
<1> DEFINE b == BucketOf(k)
<1>1. /\ Matches(k) = {} /\ made' = made \cup {b} /\ count' = count + 1
      /\ stale' = (IF iterating /\ b = bit /\ prev[b] = Nil THEN stale \cup {"prev"} ELSE stale)
      /\ UNCHANGED <<iter, prev, iterating, bit, past>>
  BY DEF Insert, Overtaken
<1>2. PICK n \in Node \ (DOMAIN node \cup dup) :
        /\ node' = [x \in DOMAIN node \cup {n} |->
                      IF x = n THEN [key |-> k, val |-> v, next |-> head[b]] ELSE node[x]]
        /\ dup' = dup \cup {n}
        /\ head' = [head EXCEPT ![b] = n]
  BY DEF Insert
<1>3. MapTypeOK /\ b \in Bucket /\ UNCHANGED <<off, lost>>
  BY <1>1, Types DEF MapInv, past
<1> HIDE DEF b
<1>4. /\ DOMAIN node' = DOMAIN node \cup {n}
      /\ \A x \in DOMAIN node : node'[x] = node[x] /\ Home(x)' = Home(x)
      /\ node'[n] = [key |-> k, val |-> v, next |-> head[b]] /\ Home(n)' = b
      /\ HeadsOk' /\ KeysDiffer'
      /\ \A d : Ranked(d) => \E e : /\ Ranked(e)' /\ \A x \in DOMAIN node : e[x] = d[x]
                                    /\ \A x \in DOMAIN node : Home(x) = b => e[x] < e[n]
  <2>1. n \in Node \ DOMAIN node /\ b = BucketOf(k)
    BY <1>2 DEF b
  <2>2. /\ DOMAIN node' = DOMAIN node \cup {n}
        /\ \A x \in DOMAIN node : node'[x] = node[x]
        /\ node'[n] = [key |-> k, val |-> v, next |-> head[b]]
    BY <1>2, <2>1
  <2>3. node'[n].key = k /\ node'[n].next = head[b]
    BY <2>2
  <2>4. \A c \in Bucket : head'[c] = IF c = b THEN n ELSE head[c]
    BY <1>2, <1>3 DEF MapTypeOK
  <2>5. made' = made \cup {b} /\ Matches(k) = {}
    BY <1>1
  <2>6. /\ \A x \in DOMAIN node : Home(x)' = Home(x)
        /\ Home(n)' = b
        /\ HeadsOk' /\ KeysDiffer'
        /\ \A d : Ranked(d) => \E e : /\ Ranked(e)' /\ \A x \in DOMAIN node : e[x] = d[x]
                                      /\ \A x \in DOMAIN node : Home(x) = b => e[x] < e[n]
    BY <2>1, <2>2, <2>3, <2>4, <2>5, RankInsert
  <2> QED BY <2>2, <2>6
<1>5. MapTypeOK'
  <2>1. \A x \in DOMAIN node' : node'[x] \in NodeRec
    <3>1. [key |-> k, val |-> v, next |-> head[b]] \in NodeRec
      BY <1>3 DEF MapTypeOK, NodeRec
    <3> QED BY <1>3, <1>4, <3>1 DEF MapTypeOK
  <2>2. DOMAIN node' \subseteq Node /\ dup' \subseteq Node /\ made' \subseteq Bucket
    BY <1>1, <1>2, <1>3, <1>4 DEF MapTypeOK
  <2>3. head' \in [Bucket -> Node \cup {Nil}]
    BY <1>2, <1>3 DEF MapTypeOK
  <2>4. count' \in Nat
    BY <1>1, <1>3 DEF MapTypeOK
  <2>5. stale' \subseteq {"iter", "prev", "gone"}
    BY <1>1, <1>3 DEF MapTypeOK
  <2> QED BY <1>1, <1>3, <2>1, <2>2, <2>3, <2>4, <2>5 DEF MapTypeOK, Bucket
<1>6. WalkOk'
  <2>1. /\ WalkOk /\ Walking' = Walking
        /\ stale' = {} => stale = {} /\ ~(iterating /\ b = bit /\ prev[b] = Nil)
        /\ "gone" \in stale => "gone" \in stale'
    BY <1>1 DEF MapInv, Walking
  <2>2. iterating => bit \in Bucket
    BY <2>1 DEF WalkOk
  <2>3. Walking' => IF iter'[bit'] = Nil THEN "gone" \in stale'
                    ELSE iter'[bit'] \in DOMAIN node' /\ (\A z : z = iter'[bit'] => Home(z)' = bit')
    BY <1>1, <1>4, <2>1 DEF WalkOk
  <2>4. iterating' /\ stale' = {} =>
          IF prev'[bit'] = Nil THEN head'[bit'] = iter'[bit']
          ELSE prev'[bit'] \in DOMAIN node' /\ node'[prev'[bit']].next = iter'[bit']
    <3> SUFFICES ASSUME iterating, stale' = {}
                 PROVE  IF prev[bit] = Nil THEN head'[bit] = iter[bit]
                        ELSE prev[bit] \in DOMAIN node' /\ node'[prev[bit]].next = iter[bit]
      BY <1>1
    <3>1. IF prev[bit] = Nil THEN head[bit] = iter[bit]
          ELSE prev[bit] \in DOMAIN node /\ node[prev[bit]].next = iter[bit]
      BY <2>1 DEF WalkOk
    <3>2. prev[bit] = Nil => head'[bit] = head[bit]
      <4>1. bit \in Bucket /\ head \in [Bucket -> Node \cup {Nil}]
        BY <1>3, <2>2 DEF MapTypeOK
      <4>2. prev[bit] = Nil => b # bit
        BY <2>1
      <4> QED BY <1>2, <4>1, <4>2
    <3> QED BY <1>4, <3>1, <3>2
  <2> QED BY <1>1, <2>2, <2>3, <2>4 DEF WalkOk, Home, Bucket
<1>7. Owned'
  BY <1>2, <1>3, <1>4 DEF MapInv, Owned
<1>8. Counted'
  <2>1. IsFiniteSet(DOMAIN node) /\ n \notin DOMAIN node
    BY <1>2, <1>3, Types
  <2>2. Cardinality(DOMAIN node') = Cardinality(DOMAIN node) + 1 /\ Cardinality(DOMAIN node) \in Nat
    BY <1>4, <2>1, FS_AddElement, FS_CardinalityType
  <2> QED BY <1>1, <1>3, <2>2 DEF MapInv, Counted, MapTypeOK
<1>9. (\E d : Ranked(d))'
  BY <1>4 DEF MapInv
<1> QED BY <1>4, <1>5, <1>6, <1>7, <1>8, <1>9 DEF MapInv

(* A node n goes, and the one that linked to it links to what was behind it. *)
LEMMA Unlinking ==
  ASSUME MapInv, NEW n \in DOMAIN node,
         DOMAIN node' = DOMAIN node \ {n},
         \A x \in DOMAIN node' :
           node'[x] = IF node[x].next = n THEN [node[x] EXCEPT !.next = node[n].next]
                                          ELSE node[x],
         \A c \in Bucket : head'[c] = IF head[c] = n THEN node[n].next ELSE head[c],
         head' \in [Bucket -> Node \cup {Nil}],
         made' = made
  PROVE  /\ \A x \in DOMAIN node' :
              /\ node'[x] \in NodeRec /\ Home(x)' = Home(x)
              /\ node'[x].key = node[x].key /\ node'[x].val = node[x].val
              /\ node'[x].next = IF node[x].next = n THEN node[n].next ELSE node[x].next
         /\ HeadsOk' /\ KeysDiffer'
         /\ \A d : Ranked(d) =>
              \E e : /\ Ranked(e)'
                     /\ \A x, y \in DOMAIN node' :
                          Home(x) = Home(y) => (e[x] <= e[y] <=> d[x] <= d[y])
         /\ (\E d : Ranked(d))'
         /\ Cardinality(DOMAIN node) = Cardinality(DOMAIN node') + 1
         /\ Cardinality(DOMAIN node') \in Nat
<1>1. /\ MapTypeOK /\ HeadsOk /\ KeysDiffer
      /\ \A x \in DOMAIN node : node[x] \in NodeRec
      /\ IsFiniteSet(DOMAIN node)
  BY Types DEF MapInv, MapTypeOK
<1>2. ASSUME NEW x \in DOMAIN node'
      PROVE  /\ node'[x] \in NodeRec /\ x \in DOMAIN node
             /\ node'[x].key = node[x].key /\ node'[x].val = node[x].val
             /\ node'[x].next = IF node[x].next = n THEN node[n].next ELSE node[x].next
  <2>1. x \in DOMAIN node /\ node[x] \in NodeRec /\ node[n] \in NodeRec
    BY <1>1
  <2>2. CASE node[x].next = n
    <3>1. node'[x] = [node[x] EXCEPT !.next = node[n].next]
      BY <2>2
    <3> QED BY <2>1, <2>2, <3>1 DEF NodeRec
  <2>3. CASE node[x].next # n
    <3>1. node'[x] = node[x]
      BY <2>3
    <3> QED BY <2>1, <2>3, <3>1
  <2> QED BY <2>2, <2>3
<1>3. ASSUME NEW d, Ranked(d)
      PROVE  /\ HeadsOk' /\ \A x \in DOMAIN node' : Home(x)' = Home(x)
             /\ \E e : /\ Ranked(e)'
                       /\ \A x, y \in DOMAIN node' :
                            Home(x) = Home(y) => (e[x] <= e[y] <=> d[x] <= d[y])
  <2>1. \A x \in DOMAIN node' :
          /\ node'[x].key = node[x].key
          /\ node'[x].next = IF node[x].next = n THEN node[n].next ELSE node[x].next
    BY <1>2
  <2> QED BY <1>1, <1>3, <2>1, RankRemove
<1>4. \E d : Ranked(d)
  BY DEF MapInv
<1>5. KeysDiffer'
  BY <1>1, <1>2 DEF KeysDiffer
<1>6. /\ Cardinality(DOMAIN node) = Cardinality(DOMAIN node') + 1
      /\ Cardinality(DOMAIN node') \in Nat
  <2>1. /\ IsFiniteSet(DOMAIN node')
        /\ Cardinality(DOMAIN node') = Cardinality(DOMAIN node) - 1
    BY <1>1, FS_RemoveElement
  <2>2. Cardinality(DOMAIN node) \in Nat /\ Cardinality(DOMAIN node') \in Nat
    BY <1>1, <2>1, FS_CardinalityType
  <2> QED BY <2>1, <2>2
<1>7. (\E d : Ranked(d))'
  BY <1>3, <1>4
<1>8. HeadsOk' /\ \A x \in DOMAIN node' : Home(x)' = Home(x)
  BY <1>3, <1>4
<1> QED BY <1>2, <1>3, <1>5, <1>6, <1>7, <1>8

LEMMA DelFacts ==
  ASSUME MapInv, NEW k \in Key, Del(k), NEW n, n = Find(k)
  PROVE  /\ n \in DOMAIN node /\ KeyRep[node[n].key] = KeyRep[k] /\ Home(n) = BucketOf(k)
         /\ DOMAIN node' = DOMAIN node \ {n}
         /\ \A x \in DOMAIN node' :
              node'[x] = IF node[x].next = n THEN [node[x] EXCEPT !.next = node[n].next]
                                             ELSE node[x]
         /\ \A c \in Bucket : head'[c] = IF head[c] = n THEN node[n].next ELSE head[c]
         /\ head' \in [Bucket -> Node \cup {Nil}]
         /\ dup' = dup \ {n} /\ count' = count - 1
         /\ stale' = stale \cup (IF iterating /\ iter[bit] = n THEN {"iter"} ELSE {})
                           \cup (IF iterating /\ prev[bit] = n THEN {"prev"} ELSE {})
         /\ UNCHANGED <<made, iter, prev, iterating, bit, past>>
<1> DEFINE b == BucketOf(k)
<1>1. /\ Matches(k) # {} /\ Unlinked(n, b)
      /\ dup' = dup \ {n} /\ count' = count - 1
      /\ stale' = stale \cup (IF iterating /\ iter[bit] = n THEN {"iter"} ELSE {})
                        \cup (IF iterating /\ prev[bit] = n THEN {"prev"} ELSE {})
      /\ UNCHANGED <<made, iter, prev, iterating, bit, past>>
  BY DEF Del
<1>2. n \in DOMAIN node /\ KeyRep[node[n].key] = KeyRep[k] /\ Home(n) = b
  BY <1>1, MatchFacts
<1>3. /\ MapTypeOK /\ HeadsOk /\ b \in Bucket
      /\ head \in [Bucket -> Node \cup {Nil}] /\ node[n].next \in Node \cup {Nil}
      /\ Nil \notin DOMAIN node
  BY <1>2, Types DEF MapInv, MapTypeOK
<1> HIDE DEF b
<1>4. Before(n, b) = {x \in DOMAIN node : node[x].next = n}
  <2>1. In(b) = {x \in DOMAIN node : Home(x) = b}
    BY <1>3, LinkedAll
  <2>2. \A x \in DOMAIN node : node[x].next = n => Home(x) = b
    <3>1. PICK d : Ranked(d)
      BY DEF MapInv
    <3> QED BY <1>2, <1>3, <3>1 DEF Ranked, LinksOk
  <2> QED BY <2>1, <2>2 DEF Before
<1>5. /\ DOMAIN node' = DOMAIN node \ {n}
      /\ \A x \in DOMAIN node' :
           node'[x] = IF node[x].next = n THEN [node[x] EXCEPT !.next = node[n].next]
                                          ELSE node[x]
  <2>1. node' = [x \in DOMAIN node \ {n} |->
                   IF x \in Before(n, b) THEN [node[x] EXCEPT !.next = node[n].next]
                                         ELSE node[x]]
    BY <1>1 DEF Unlinked
  <2>2. DOMAIN node' = DOMAIN node \ {n}
    BY <2>1
  <2>3. \A x \in DOMAIN node' : x \in Before(n, b) <=> node[x].next = n
    BY <1>4, <2>2
  <2> QED BY <2>1, <2>2, <2>3
<1>6. /\ \A c \in Bucket : head'[c] = IF head[c] = n THEN node[n].next ELSE head[c]
      /\ head' \in [Bucket -> Node \cup {Nil}]
  <2>1. head' = [head EXCEPT ![b] = IF head[b] = n THEN node[n].next ELSE head[b]]
    BY <1>1 DEF Unlinked
  <2>2. \A c \in Bucket : head[c] = n => c = b
    BY <1>2, <1>3 DEF HeadsOk
  <2> QED BY <1>3, <2>1, <2>2
<1> QED BY <1>1, <1>2, <1>5, <1>6 DEF b

LEMMA DelInv ==
  ASSUME MapInv, NEW k \in Key, Del(k)
  PROVE  MapInv'
<1>1. PICK n : n = Find(k)
  OBVIOUS
<1>2. /\ n \in DOMAIN node
      /\ DOMAIN node' = DOMAIN node \ {n}
      /\ \A x \in DOMAIN node' :
           node'[x] = IF node[x].next = n THEN [node[x] EXCEPT !.next = node[n].next]
                                          ELSE node[x]
      /\ \A c \in Bucket : head'[c] = IF head[c] = n THEN node[n].next ELSE head[c]
      /\ head' \in [Bucket -> Node \cup {Nil}]
      /\ dup' = dup \ {n} /\ count' = count - 1
      /\ stale' = stale \cup (IF iterating /\ iter[bit] = n THEN {"iter"} ELSE {})
                        \cup (IF iterating /\ prev[bit] = n THEN {"prev"} ELSE {})
      /\ UNCHANGED <<made, iter, prev, iterating, bit, off, lost>>
  BY <1>1, DelFacts DEF past
<1>3. /\ \A x \in DOMAIN node' :
           /\ node'[x] \in NodeRec /\ Home(x)' = Home(x)
           /\ node'[x].next = IF node[x].next = n THEN node[n].next ELSE node[x].next
      /\ HeadsOk' /\ KeysDiffer' /\ (\E d : Ranked(d))'
      /\ Cardinality(DOMAIN node) = Cardinality(DOMAIN node') + 1
      /\ Cardinality(DOMAIN node') \in Nat
  BY <1>2, Unlinking
<1>4. MapTypeOK /\ WalkOk /\ Owned /\ Counted /\ Nil \notin DOMAIN node
  BY Types DEF MapInv
<1>5. count' \in Nat /\ Counted'
  BY <1>2, <1>3, <1>4 DEF Counted, MapTypeOK
<1>6. MapTypeOK'
  <2>1. /\ DOMAIN node' \subseteq Node /\ dup' \subseteq Node
        /\ \A x \in DOMAIN node' : node'[x] \in NodeRec
    BY <1>2, <1>3, <1>4 DEF MapTypeOK
  <2>2. stale' \subseteq {"iter", "prev", "gone"}
    BY <1>2, <1>4 DEF MapTypeOK
  <2> QED BY <1>2, <1>4, <1>5, <2>1, <2>2 DEF MapTypeOK, Bucket
<1>7. Owned'
  BY <1>2, <1>4 DEF Owned
<1>8. WalkOk'
  <2>1. iterating' => bit' \in Bucket
    BY <1>2, <1>4 DEF WalkOk
  <2>2. Walking' => IF iter'[bit'] = Nil THEN "gone" \in stale'
                    ELSE iter'[bit'] \in DOMAIN node' /\ (\A z : z = iter'[bit'] => Home(z)' = bit')
    <3> SUFFICES ASSUME Walking'
                 PROVE  IF iter[bit] = Nil THEN "gone" \in stale'
                        ELSE iter[bit] \in DOMAIN node' /\ (\A z : z = iter[bit] => Home(z)' = bit)
      BY <1>2
    <3>1. Walking /\ iter[bit] # n /\ ("gone" \in stale => "gone" \in stale')
      BY <1>2 DEF Walking
    <3> QED BY <1>2, <1>3, <1>4, <3>1 DEF WalkOk
  <2>3. iterating' /\ stale' = {} =>
          IF prev'[bit'] = Nil THEN head'[bit'] = iter'[bit']
          ELSE prev'[bit'] \in DOMAIN node' /\ node'[prev'[bit']].next = iter'[bit']
    <3> SUFFICES ASSUME iterating, stale' = {}
                 PROVE  IF prev[bit] = Nil THEN head'[bit] = iter[bit]
                        ELSE prev[bit] \in DOMAIN node' /\ node'[prev[bit]].next = iter[bit]
      BY <1>2
    <3>1. stale = {} /\ iter[bit] # n /\ prev[bit] # n /\ bit \in Bucket
      BY <1>2, <1>4 DEF WalkOk
    <3>2. IF prev[bit] = Nil THEN head[bit] = iter[bit]
          ELSE prev[bit] \in DOMAIN node /\ node[prev[bit]].next = iter[bit]
      BY <1>4, <3>1 DEF WalkOk
    <3>3. CASE prev[bit] = Nil
      BY <1>2, <3>1, <3>2, <3>3
    <3>4. CASE prev[bit] # Nil
      BY <1>2, <1>3, <3>1, <3>2, <3>4
    <3> QED BY <3>3, <3>4
  <2> QED BY <2>1, <2>2, <2>3 DEF WalkOk, Home, Bucket
<1> QED BY <1>3, <1>5, <1>6, <1>7, <1>8 DEF MapInv

(* lsi_skmap_clear reaches every node there is.                             *)
LEMMA ClearFacts ==
  ASSUME MapInv, Clear
  PROVE  /\ DOMAIN node' = {} /\ dup' = lost /\ made' = {}
         /\ \A b \in Bucket : head'[b] = Nil /\ iter'[b] = Nil /\ prev'[b] = Nil
         /\ head' \in [Bucket -> Node \cup {Nil}]
         /\ iter' \in [Bucket -> Node \cup {Nil}] /\ prev' \in [Bucket -> Node \cup {Nil}]
         /\ count' = 0 /\ off' = 0 /\ stale' = {"iter", "prev"}
         /\ UNCHANGED <<iterating, bit, lost>>
<1>1. UNION {In(b) : b \in made} = DOMAIN node
  BY LinkedAll
<1>2. DOMAIN node' = DOMAIN node \ DOMAIN node /\ dup' = dup \ DOMAIN node
  BY <1>1 DEF Clear
<1>3. dup' = lost
  BY <1>2 DEF MapInv, Owned
<1> QED BY <1>2, <1>3 DEF Clear

LEMMA ClearInv ==
  ASSUME MapInv, Clear
  PROVE  MapInv'
<1>1. /\ DOMAIN node' = {} /\ dup' = lost /\ made' = {}
      /\ \A b \in Bucket : head'[b] = Nil /\ iter'[b] = Nil /\ prev'[b] = Nil
      /\ head' \in [Bucket -> Node \cup {Nil}]
      /\ iter' \in [Bucket -> Node \cup {Nil}] /\ prev' \in [Bucket -> Node \cup {Nil}]
      /\ count' = 0 /\ off' = 0 /\ stale' = {"iter", "prev"}
      /\ UNCHANGED <<iterating, bit, lost>>
  BY ClearFacts
<1>2. MapTypeOK /\ WalkOk
  BY DEF MapInv
<1>3. MapTypeOK'
  BY <1>1, <1>2 DEF MapTypeOK, Bucket
<1>4. (\E d : Ranked(d))'
  <2>1. PICK e : e = [x \in {} |-> 0]
    OBVIOUS
  <2>2. e \in [DOMAIN node' -> Nat]
    BY <1>1, <2>1
  <2>3. Ranked(e)'
    BY <1>1, <2>2 DEF Ranked, LinksOk, TopsOk, Apart
  <2> QED BY <2>3
<1>5. HeadsOk'
  <2>1. \A b \in Bucket' : head'[b] = Nil
    BY <1>1 DEF Bucket
  <2> QED BY <2>1 DEF HeadsOk
<1>6. WalkOk'
  BY <1>1, <1>2 DEF WalkOk, Walking, Bucket
<1>7. KeysDiffer' /\ Owned'
  BY <1>1 DEF KeysDiffer, Owned
<1>8. Counted'
  BY <1>1, FS_EmptySet DEF Counted
<1> QED BY <1>3, <1>4, <1>5, <1>6, <1>7, <1>8 DEF MapInv

(* What a step of a walk leaves alone.                                      *)
LEMMA WalkInv ==
  ASSUME MapInv, UNCHANGED <<list, count, past>>,
         iter' \in [Bucket -> Node \cup {Nil}], prev' \in [Bucket -> Node \cup {Nil}],
         iterating' \in BOOLEAN, bit' \in 0..BSz, stale' = {},
         iterating' => /\ bit' \in Bucket
                       /\ iter'[bit'] \in DOMAIN node /\ Home(iter'[bit']) = bit'
                       /\ IF prev'[bit'] = Nil THEN head[bit'] = iter'[bit']
                          ELSE prev'[bit'] \in DOMAIN node /\ node[prev'[bit']].next = iter'[bit']
  PROVE  MapInv'
<1>1. UNCHANGED <<node, dup, made, head, count, off, lost>>
  BY DEF list, past
<1>2. MapTypeOK /\ HeadsOk /\ KeysDiffer /\ Owned /\ Counted /\ Nil \notin DOMAIN node
  BY Types DEF MapInv
<1>3. MapTypeOK'
  BY <1>1, <1>2 DEF MapTypeOK, Bucket
<1>4. (\E d : Ranked(d))'
  <2>1. PICK d : Ranked(d)
    BY DEF MapInv
  <2>2. LinksOk(d)' /\ TopsOk(d)' /\ Apart(d)'
    BY <1>1, <2>1 DEF Ranked, LinksOk, TopsOk, Apart, Home, BucketOf
  <2>3. Ranked(d)'
    BY <1>1, <2>1, <2>2 DEF Ranked
  <2> QED BY <2>3
<1>5. HeadsOk' /\ KeysDiffer'
  BY <1>1, <1>2 DEF HeadsOk, KeysDiffer, Home, BucketOf, Bucket
<1>6. Owned' /\ Counted'
  BY <1>1, <1>2 DEF Owned, Counted
<1>7. WalkOk'
  <2>1. iterating' => iter'[bit'] # Nil
    BY <1>2
  <2> QED BY <1>1, <2>1 DEF WalkOk, Walking, Home, BucketOf, Bucket
<1> QED BY <1>3, <1>4, <1>5, <1>6, <1>7 DEF MapInv

LEMMA LeastUsed ==
  ASSUME NEW b, Used(b) # {}
  PROVE  \E f \in Used(b) : /\ f = CHOOSE x \in Used(b) : \A y \in Used(b) : x <= y
                            /\ \A y \in Used(b) : f <= y
<1>1. Used(b) \subseteq Nat /\ Used(b) # {}
  BY SkMapAssumption DEF Used, Bucket
<1>2. PICK f \in Used(b) : \A y \in Used(b) : <<y, f>> \notin OpToRel(<, Nat)
  BY <1>1, NatLessThanWellFounded, WFMin
<1>3. \A y \in Used(b) : ~(y < f)
  BY <1>1, <1>2, Zenon DEF OpToRel
<1>4. \A y \in Used(b) : f <= y
  BY <1>1, <1>3
<1> QED BY <1>4

LEMMA EnterInv ==
  ASSUME MapInv, NEW b, Enter(b), stale' = {}, UNCHANGED <<list, count, past>>
  PROVE  MapInv'
<1>1. MapTypeOK /\ HeadsOk
  BY DEF MapInv
<1>2. CASE Used(b) = {}
  <2>1. bit' = BSz /\ iterating' = FALSE /\ UNCHANGED <<iter, prev>>
    BY <1>2 DEF Enter
  <2>2. bit' \in 0..BSz
    BY <2>1, SkMapAssumption
  <2> QED BY <1>1, <2>1, <2>2, WalkInv DEF MapTypeOK
<1>3. CASE Used(b) # {}
  <2>1. PICK f \in Used(b) : f = CHOOSE x \in Used(b) : \A y \in Used(b) : x <= y
    BY <1>3, LeastUsed
  <2>2. /\ bit' = f /\ iterating' = TRUE
        /\ iter' = [iter EXCEPT ![f] = head[f]]
        /\ prev' = [prev EXCEPT ![f] = Nil]
    BY <1>3, <2>1 DEF Enter
  <2>3. f \in Bucket /\ head[f] \in DOMAIN node /\ Home(head[f]) = f
    BY <1>1, <2>1 DEF Used, HeadsOk
  <2>4. f \in 0..BSz
    BY <2>3, SkMapAssumption DEF Bucket
  <2>5. /\ iter' \in [Bucket -> Node \cup {Nil}] /\ prev' \in [Bucket -> Node \cup {Nil}]
        /\ iter'[f] = head[f] /\ prev'[f] = Nil
    BY <1>1, <2>2, <2>3 DEF MapTypeOK
  <2> QED BY <2>2, <2>3, <2>4, <2>5, WalkInv
<1> QED BY <1>2, <1>3

LEMMA StepFacts ==
  ASSUME MapInv, Step, NEW n, n = iter[bit]
  PROVE  /\ bit \in Bucket /\ n \in DOMAIN node /\ Home(n) = bit
         /\ node[n].next \in DOMAIN node /\ Home(node[n].next) = bit
         /\ iter'[bit] = node[n].next /\ prev'[bit] = n
         /\ iter' \in [Bucket -> Node \cup {Nil}] /\ prev' \in [Bucket -> Node \cup {Nil}]
<1>1. /\ MapTypeOK /\ WalkOk /\ iterating /\ Walking /\ iter[bit] # Nil
      /\ node[n].next # Nil
  BY DEF MapInv, Step, AtEnd, Walking
<1>2. bit \in Bucket /\ n \in DOMAIN node /\ Home(n) = bit
  BY <1>1 DEF WalkOk
<1>3. node[n].next \in DOMAIN node /\ Home(node[n].next) = bit
  <2>1. PICK d : Ranked(d)
    BY DEF MapInv
  <2> QED BY <1>1, <1>2, <2>1 DEF Ranked, LinksOk
<1>4. /\ prev' = [prev EXCEPT ![bit] = n]
      /\ iter' = [iter EXCEPT ![bit] = node[n].next]
  BY DEF Step
<1>5. n \in Node \cup {Nil} /\ node[n].next \in Node \cup {Nil}
  BY <1>1, <1>2, <1>3, Types
<1> QED BY <1>1, <1>2, <1>3, <1>4, <1>5 DEF MapTypeOK

LEMMA StepInv ==
  ASSUME MapInv, Step
  PROVE  MapInv'
<1>1. PICK n : n = iter[bit]
  OBVIOUS
<1>2. /\ bit \in Bucket /\ n \in DOMAIN node /\ Home(n) = bit
      /\ node[n].next \in DOMAIN node /\ Home(node[n].next) = bit
      /\ iter'[bit] = node[n].next /\ prev'[bit] = n
      /\ iter' \in [Bucket -> Node \cup {Nil}] /\ prev' \in [Bucket -> Node \cup {Nil}]
  BY <1>1, StepFacts
<1>3. stale' = {} /\ UNCHANGED <<list, count, iterating, bit, past>>
  BY DEF Step
<1>4. bit \in 0..BSz /\ iterating \in BOOLEAN /\ n # Nil
  BY <1>2, Types DEF MapInv, MapTypeOK
<1>5. UNCHANGED <<list, count, past>> /\ iterating' \in BOOLEAN /\ bit' \in 0..BSz
  BY <1>3, <1>4
<1>6. /\ bit' \in Bucket /\ iter'[bit'] \in DOMAIN node /\ Home(iter'[bit']) = bit'
      /\ prev'[bit'] # Nil /\ prev'[bit'] \in DOMAIN node
      /\ node[prev'[bit']].next = iter'[bit']
  BY <1>2, <1>3, <1>4
<1> QED BY <1>2, <1>3, <1>5, <1>6, WalkInv

(* lsi_skmap_del_iter knows the node before the one it deletes.             *)
LEMMA DelIterFacts ==
  ASSUME MapInv, DelIter, NEW n, n = iter[bit], NEW p, p = prev[bit]
  PROVE  /\ n \in DOMAIN node /\ Home(n) = bit /\ bit \in Bucket
         /\ p # Nil => p \in DOMAIN node \ {n} /\ Home(p) = bit /\ node[p].next = n
         /\ p = Nil => head[bit] = n
         /\ DOMAIN node' = DOMAIN node \ {n}
         /\ \A x \in DOMAIN node' :
              node'[x] = IF node[x].next = n THEN [node[x] EXCEPT !.next = node[n].next]
                                             ELSE node[x]
         /\ \A c \in Bucket : head'[c] = IF head[c] = n THEN node[n].next ELSE head[c]
         /\ head' \in [Bucket -> Node \cup {Nil}]
         /\ iter' \in [Bucket -> Node \cup {Nil}] /\ iter'[bit] = p
         /\ stale' = {"prev", "gone"} /\ off' = off + 1 /\ lost' = lost \cup {n}
         /\ UNCHANGED <<dup, made, count, prev, iterating, bit>>
<1>1. /\ iterating /\ stale = {} /\ n # Nil
      /\ head' = [head EXCEPT ![bit] = IF p = Nil THEN node[n].next ELSE head[bit]]
      /\ node' = [x \in DOMAIN node \ {n} |->
                    IF x = p THEN [node[x] EXCEPT !.next = node[n].next] ELSE node[x]]
      /\ iter' = [iter EXCEPT ![bit] = p]
      /\ stale' = {"prev", "gone"} /\ off' = off + 1 /\ lost' = lost \cup {n}
      /\ UNCHANGED <<dup, made, count, prev, iterating, bit>>
  BY DEF DelIter
<1>2. MapTypeOK /\ HeadsOk /\ WalkOk /\ Nil \notin DOMAIN node
  BY Types DEF MapInv
<1>3. /\ bit \in Bucket /\ n \in DOMAIN node /\ Home(n) = bit
      /\ IF p = Nil THEN head[bit] = n ELSE p \in DOMAIN node /\ node[p].next = n
  BY <1>1, <1>2 DEF WalkOk, Walking
<1>4. PICK d : Ranked(d)
  BY DEF MapInv
<1>5. /\ \A x \in DOMAIN node : d[x] \in Nat
      /\ \A x \in DOMAIN node : node[x].next = n => Home(x) = bit /\ d[x] = d[n] + 1
      /\ \A x \in DOMAIN node : Home(x) = bit => d[x] <= d[head[bit]] /\ head[bit] \in DOMAIN node
      /\ \A x, y \in DOMAIN node : Home(x) = Home(y) /\ d[x] = d[y] => x = y
  BY <1>1, <1>3, <1>4 DEF Ranked, LinksOk, TopsOk, Apart
<1>6. \A x \in DOMAIN node : x = p <=> node[x].next = n
  <2>1. CASE p = Nil
    <3>1. \A x \in DOMAIN node : node[x].next # n
      <4> SUFFICES ASSUME NEW x \in DOMAIN node, node[x].next = n PROVE FALSE
        OBVIOUS
      <4>1. d[x] = d[n] + 1 /\ d[x] <= d[n] /\ d[n] \in Nat
        BY <1>3, <1>5, <2>1
      <4> QED BY <4>1
    <3> QED BY <1>2, <2>1, <3>1
  <2>2. CASE p # Nil
    <3>1. p \in DOMAIN node /\ node[p].next = n
      BY <1>3, <2>2
    <3>2. \A x \in DOMAIN node : node[x].next = n => x = p
      BY <1>5, <3>1
    <3> QED BY <3>1, <3>2
  <2> QED BY <2>1, <2>2
<1>7. p # Nil => p # n /\ head[bit] # n
  <2> SUFFICES ASSUME p # Nil PROVE p # n /\ head[bit] # n
    OBVIOUS
  <2>1. /\ p \in DOMAIN node /\ d[p] = d[n] + 1 /\ d[n] \in Nat
        /\ d[p] <= d[head[bit]]
    BY <1>3, <1>5
  <2>2. d[n] + 1 # d[n] /\ ~(d[n] + 1 <= d[n])
    BY <2>1
  <2> QED BY <2>1, <2>2
<1>8. /\ DOMAIN node' = DOMAIN node \ {n}
      /\ \A x \in DOMAIN node' :
           node'[x] = IF node[x].next = n THEN [node[x] EXCEPT !.next = node[n].next]
                                          ELSE node[x]
  <2>1. DOMAIN node' = DOMAIN node \ {n}
    BY <1>1
  <2>2. \A x \in DOMAIN node' : x = p <=> node[x].next = n
    BY <1>6, <2>1
  <2> QED BY <1>1, <2>1, <2>2
<1>9. /\ \A c \in Bucket : head'[c] = IF head[c] = n THEN node[n].next ELSE head[c]
      /\ head' \in [Bucket -> Node \cup {Nil}]
  <2>1. \A c \in Bucket : c # bit => head[c] # n
    BY <1>2, <1>3 DEF HeadsOk
  <2>2. head \in [Bucket -> Node \cup {Nil}] /\ node[n].next \in Node \cup {Nil}
    BY <1>2, <1>3, Types DEF MapTypeOK
  <2>3. CASE p = Nil
    <3>1. head' = [head EXCEPT ![bit] = node[n].next] /\ head[bit] = n
      BY <1>1, <1>3, <2>3
    <3> QED BY <2>1, <2>2, <3>1
  <2>4. CASE p # Nil
    <3>1. head' = [head EXCEPT ![bit] = head[bit]] /\ head[bit] # n
      BY <1>1, <1>7, <2>4
    <3> QED BY <2>1, <2>2, <3>1
  <2> QED BY <2>3, <2>4
<1>10. iter' \in [Bucket -> Node \cup {Nil}] /\ iter'[bit] = p
  <2>1. p \in Node \cup {Nil}
    BY <1>2, <1>3 DEF MapTypeOK
  <2> QED BY <1>1, <1>2, <1>3, <2>1 DEF MapTypeOK
<1> QED BY <1>1, <1>3, <1>5, <1>7, <1>8, <1>9, <1>10

LEMMA DelIterInv ==
  ASSUME MapInv, DelIter
  PROVE  MapInv'
<1>1. PICK n, p : n = iter[bit] /\ p = prev[bit]
  OBVIOUS
<1>2. /\ n \in DOMAIN node /\ Home(n) = bit /\ bit \in Bucket
      /\ p # Nil => p \in DOMAIN node \ {n} /\ Home(p) = bit /\ node[p].next = n
      /\ DOMAIN node' = DOMAIN node \ {n}
      /\ \A x \in DOMAIN node' :
           node'[x] = IF node[x].next = n THEN [node[x] EXCEPT !.next = node[n].next]
                                          ELSE node[x]
      /\ \A c \in Bucket : head'[c] = IF head[c] = n THEN node[n].next ELSE head[c]
      /\ head' \in [Bucket -> Node \cup {Nil}]
      /\ iter' \in [Bucket -> Node \cup {Nil}] /\ iter'[bit] = p
      /\ stale' = {"prev", "gone"} /\ off' = off + 1 /\ lost' = lost \cup {n}
      /\ UNCHANGED <<dup, made, count, prev, iterating, bit>>
  BY <1>1, DelIterFacts
<1>3. /\ \A x \in DOMAIN node' : node'[x] \in NodeRec /\ Home(x)' = Home(x)
      /\ HeadsOk' /\ KeysDiffer' /\ (\E d : Ranked(d))'
      /\ Cardinality(DOMAIN node) = Cardinality(DOMAIN node') + 1
      /\ Cardinality(DOMAIN node') \in Nat
  BY <1>2, Unlinking
<1>4. MapTypeOK /\ Owned /\ Counted
  BY DEF MapInv
<1>5. MapTypeOK'
  <2>1. /\ DOMAIN node' \subseteq Node /\ lost' \subseteq Node
        /\ \A x \in DOMAIN node' : node'[x] \in NodeRec
    BY <1>2, <1>3, <1>4 DEF MapTypeOK
  <2>2. off' \in Nat
    BY <1>2, <1>4 DEF MapTypeOK
  <2> QED BY <1>2, <1>4, <2>1, <2>2 DEF MapTypeOK, Bucket
<1>6. Owned'
  BY <1>2, <1>4 DEF Owned
<1>7. Counted'
  BY <1>2, <1>3, <1>4 DEF Counted, MapTypeOK
<1>8. WalkOk'
  <2>1. stale' # {} /\ "gone" \in stale' /\ bit' = bit /\ iter'[bit'] = p
    BY <1>2
  <2>2. p # Nil => p \in DOMAIN node' /\ Home(p)' = bit
    BY <1>2, <1>3
  <2>3. p # Nil => \A z : z = iter'[bit'] => Home(z)' = bit'
    BY <2>1, <2>2
  <2> QED BY <1>2, <2>1, <2>2, <2>3 DEF WalkOk, Walking, Home, Bucket
<1> QED BY <1>3, <1>5, <1>6, <1>7, <1>8 DEF MapInv

-----------------------------------------------------------------------------
(* The invariant *)

LEMMA InitMap == Init => MapInv
<1> SUFFICES ASSUME Init PROVE MapInv
  OBVIOUS
<1>1. DOMAIN node = {}
  BY DEF Init
<1>2. MapTypeOK
  <2>1. DOMAIN node \subseteq Node /\ \A x \in DOMAIN node : node[x] \in NodeRec
    BY <1>1
  <2>2. 0 \in 0..BSz /\ {} \subseteq Bucket
    BY SkMapAssumption
  <2>3. /\ head \in [Bucket -> Node \cup {Nil}] /\ iter \in [Bucket -> Node \cup {Nil}]
        /\ prev \in [Bucket -> Node \cup {Nil}]
    BY DEF Init
  <2> QED BY <2>1, <2>2, <2>3 DEF Init, MapTypeOK
<1>3. \E d : Ranked(d)
  <2>1. PICK d : d = [x \in {} |-> 0]
    OBVIOUS
  <2>2. d \in [DOMAIN node -> Nat]
    BY <1>1, <2>1
  <2> QED BY <1>1, <2>2 DEF Ranked, LinksOk, TopsOk, Apart
<1>4. HeadsOk /\ WalkOk
  BY DEF Init, HeadsOk, WalkOk, Walking
<1>5. KeysDiffer /\ Owned
  BY <1>1 DEF KeysDiffer, Owned, Init
<1>6. Counted
  BY <1>1, FS_EmptySet DEF Counted, Init
<1> QED BY <1>2, <1>3, <1>4, <1>5, <1>6 DEF MapInv

LEMMA SameMap == MapInv /\ UNCHANGED vars => MapInv'
<1> SUFFICES ASSUME MapInv, UNCHANGED vars PROVE MapInv'
  OBVIOUS
<1>1. UNCHANGED <<node, dup, made, head, iter, prev, count, iterating, bit, stale, off, lost>>
  BY DEF vars, list, walk, past
<1>2. MapTypeOK /\ HeadsOk /\ WalkOk /\ KeysDiffer /\ Owned /\ Counted
  BY DEF MapInv
<1>3. MapTypeOK'
  BY <1>1, <1>2 DEF MapTypeOK, Bucket
<1>4. HeadsOk' /\ KeysDiffer'
  BY <1>1, <1>2 DEF HeadsOk, KeysDiffer, Home, BucketOf, Bucket
<1>5. WalkOk'
  BY <1>1, <1>2 DEF WalkOk, Walking, Home, BucketOf, Bucket
<1>6. Owned' /\ Counted'
  BY <1>1, <1>2 DEF Owned, Counted
<1>7. (\E d : Ranked(d))'
  <2>1. PICK d : Ranked(d)
    BY DEF MapInv
  <2>2. LinksOk(d)' /\ TopsOk(d)' /\ Apart(d)'
    BY <1>1, <2>1 DEF Ranked, LinksOk, TopsOk, Apart, Home, BucketOf
  <2>3. Ranked(d)'
    BY <1>1, <2>1, <2>2 DEF Ranked
  <2> QED BY <2>3
<1> QED BY <1>3, <1>4, <1>5, <1>6, <1>7 DEF MapInv

LEMMA NextMap == MapInv /\ [Next]_vars => MapInv'
<1> SUFFICES ASSUME MapInv, [Next]_vars PROVE MapInv'
  OBVIOUS
<1>1. ASSUME NEW k \in Key, NEW v \in Val, Replace(k, v) PROVE MapInv'
  BY <1>1, ReplaceInv
<1>2. ASSUME NEW k \in Key, NEW v \in Val, Insert(k, v) PROVE MapInv'
  BY <1>2, InsertInv
<1>3. ASSUME NEW k \in Key, PutFails(k) PROVE MapInv'
  BY <1>3, SameMap DEF PutFails
<1>4. ASSUME NEW k \in Key, Del(k) PROVE MapInv'
  BY <1>4, DelInv
<1>5. CASE Clear
  BY <1>5, ClearInv
<1>6. CASE First
  BY <1>6, EnterInv DEF First
<1>7. CASE Step
  BY <1>7, StepInv
<1>8. CASE NextBucket
  BY <1>8, EnterInv DEF NextBucket
<1>9. CASE DelIter
  BY <1>9, DelIterInv
<1>10. CASE UNCHANGED vars
  BY <1>10, SameMap
<1> QED BY <1>1, <1>2, <1>3, <1>4, <1>5, <1>6, <1>7, <1>8, <1>9, <1>10 DEF Next

(* lsi_skmap_count is exact: whatever is put, deleted, cleared and walked,  *)
(* it is the number of nodes on the lists and of those lsi_skmap_del_iter   *)
(* has unlinked.                                                            *)
THEOREM CountCorrect == Spec => []CountExact
<1>1. MapInv => CountExact
  BY LinkedAll DEF MapInv, Counted, CountExact
<1> QED BY InitMap, NextMap, <1>1, PTL DEF Spec

(* Every allocated node is on a list and every copy of a key belongs to one *)
(* or was lost by lsi_skmap_del_iter: skmap.c and bucklist.c leak nothing   *)
(* else and keep nothing that is freed.                                     *)
THEOREM MemoryCorrect == Spec => []MemoryOwned
<1>1. MapInv => MemoryOwned
  BY LinkedAll DEF MapInv, Owned, MemoryOwned
<1> QED BY InitMap, NextMap, <1>1, PTL DEF Spec

-----------------------------------------------------------------------------
(* The map it implements *)

Rep(n)  == KeyRep[node[n].key]
Elem(n) == [key |-> node[n].key, val |-> node[n].val]

MapFacts ==
  /\ MapOf = [r \in DOMAIN MapOf |-> MapOf[r]]
  /\ DOMAIN MapOf = {Rep(n) : n \in DOMAIN node}
  /\ \A n \in DOMAIN node : Rep(n) \in Key /\ MapOf[Rep(n)] = Elem(n)

(* The nodes that the walk has yet to come by.                              *)
Ahead(d) ==
  {x \in DOMAIN node :
     \/ Home(x) > bit
     \/ iter[bit] # Nil /\ Home(x) = bit /\ d[x] < d[iter[bit]]}

TodoFacts ==
  \A d : Ranked(d) => TodoOf = IF Walking THEN {Rep(n) : n \in Ahead(d)} ELSE {}

LEMMA MapIs == MapInv => MapFacts
<1> SUFFICES ASSUME MapInv PROVE MapFacts
  OBVIOUS
<1>1. MapTypeOK /\ KeysDiffer
  BY DEF MapInv
<1>2. Linked = DOMAIN node
  BY LinkedAll
<1>3. \A n \in DOMAIN node : Rep(n) \in Key
  BY <1>1, Types DEF Rep
<1>4. MapOf = [r \in {Rep(n) : n \in DOMAIN node} |->
                 Elem(CHOOSE x \in DOMAIN node : Rep(x) = r)]
  BY <1>2 DEF MapOf, Rep, Elem
<1>5. ASSUME NEW n \in DOMAIN node PROVE MapOf[Rep(n)] = Elem(n)
  <2>1. \A x \in DOMAIN node : Rep(x) = Rep(n) => x = n
    BY <1>1 DEF KeysDiffer, Rep
  <2>2. (CHOOSE x \in DOMAIN node : Rep(x) = Rep(n)) = n
    BY <2>1
  <2>3. MapOf[Rep(n)] = Elem(CHOOSE x \in DOMAIN node : Rep(x) = Rep(n))
    BY <1>4
  <2> QED BY <2>2, <2>3
<1>6. /\ MapOf = [r \in DOMAIN MapOf |-> MapOf[r]]
      /\ DOMAIN MapOf = {Rep(n) : n \in DOMAIN node}
  BY <1>4
<1> QED BY <1>3, <1>5, <1>6 DEF MapFacts

LEMMA TodoIs == MapInv => TodoFacts
<1> SUFFICES ASSUME MapInv, NEW d, Ranked(d), Walking
             PROVE  TodoOf = {Rep(n) : n \in Ahead(d)}
  BY DEF TodoFacts, TodoOf
<1>1. /\ MapTypeOK /\ bit \in Bucket
      /\ \A x \in DOMAIN node : Home(x) \in Bucket /\ d[x] \in Nat
      /\ \A b \in Bucket : In(b) = {x \in DOMAIN node : Home(x) = b}
      /\ iter[bit] # Nil => iter[bit] \in DOMAIN node /\ Home(iter[bit]) = bit
      /\ \A x, y \in DOMAIN node : Home(x) = Home(y) /\ d[x] = d[y] => x = y
      /\ iter[bit] \in Node \cup {Nil}
  BY Types, LinkedAll DEF MapInv, WalkOk, Walking, Ranked, Apart, MapTypeOK
<1>2. PICK here : here = IF iter[bit] = Nil THEN {} ELSE From(iter[bit]) \ {iter[bit]}
  OBVIOUS
<1>3. PICK later : later = UNION {In(b) : b \in {x \in Bucket : x > bit}}
  OBVIOUS
<1>4. TodoOf = {Rep(n) : n \in here \cup later}
  BY <1>2, <1>3 DEF TodoOf, Rep
<1>5. later = {x \in DOMAIN node : Home(x) > bit}
  BY <1>1, <1>3
<1>6. here = {x \in DOMAIN node : iter[bit] # Nil /\ Home(x) = bit /\ d[x] < d[iter[bit]]}
  <2>1. CASE iter[bit] = Nil
    BY <1>2, <2>1
  <2>2. CASE iter[bit] # Nil
    <3>1. PICK n : n = iter[bit]
      OBVIOUS
    <3>2. /\ n \in DOMAIN node /\ Home(n) = bit /\ n # Nil
          /\ here = From(n) \ {n} /\ n \in Node \cup {Nil}
      BY <1>1, <1>2, <2>2, <3>1
    <3>3. From(n) = {y \in DOMAIN node : Home(y) = bit /\ d[y] <= d[n]}
      BY <1>1, <3>2, FromTails DEF Tails
    <3>4. \A y \in DOMAIN node : Home(y) = bit => (y # n /\ d[y] <= d[n] <=> d[y] < d[n])
      <4> SUFFICES ASSUME NEW y \in DOMAIN node, Home(y) = bit
                   PROVE  y # n /\ d[y] <= d[n] <=> d[y] < d[n]
        OBVIOUS
      <4>1. d[y] \in Nat /\ d[n] \in Nat /\ (d[y] = d[n] <=> y = n)
        BY <1>1, <3>2
      <4> QED BY <4>1
    <3> QED BY <3>1, <3>2, <3>3, <3>4
  <2> QED BY <2>1, <2>2
<1>7. here \cup later = Ahead(d)
  BY <1>5, <1>6 DEF Ahead
<1> QED BY <1>4, <1>7

LEMMA MapIsThen == MapInv' => MapFacts' /\ TodoFacts'
BY MapIs, TodoIs, PTL

LEMMA Facts ==
  ASSUME MapInv
  PROVE  /\ MapFacts /\ TodoFacts
         /\ MapTypeOK /\ KeysDiffer /\ Nil \notin DOMAIN node
         /\ \A x \in DOMAIN node : Rep(x) \in Key
         /\ \A x, y \in DOMAIN node : Rep(x) = Rep(y) => x = y
         /\ \A k \in Key : k # NoKey /\ k # "gone" /\ KeyRep[k] \in Key
         /\ NoKey # "gone"
<1>1. MapFacts /\ TodoFacts
  BY MapIs, TodoIs
<1>2. MapTypeOK /\ KeysDiffer /\ Nil \notin DOMAIN node
  BY Types DEF MapInv
<1>3. \A x \in DOMAIN node : Rep(x) \in Key
  BY <1>1 DEF MapFacts
<1>4. \A x, y \in DOMAIN node : Rep(x) = Rep(y) => x = y
  BY <1>2 DEF KeysDiffer, Rep
<1>5. /\ \A k \in Key : k # NoKey /\ k # "gone" /\ KeyRep[k] \in Key
      /\ NoKey # "gone"
  BY SkMapAssumption
<1> QED BY <1>1, <1>2, <1>3, <1>4, <1>5

LEMMA ReplacePuts ==
  ASSUME MapInv, MapInv', NEW k \in Key, NEW v \in Val, Replace(k, v)
  PROVE  D!Put(k, v)
<1>1. PICK n, r : n = Find(k) /\ r = KeyRep[k]
  OBVIOUS
<1>2. /\ n \in DOMAIN node /\ Rep(n) = r
      /\ DOMAIN node' = DOMAIN node
      /\ \A x \in DOMAIN node :
           /\ node'[x].key = node[x].key /\ Home(x)' = Home(x)
           /\ node'[x].val = IF x = n THEN v ELSE node[x].val
      /\ UNCHANGED <<iter, prev, iterating, bit, stale>>
  <2>1. Matches(k) # {} /\ UNCHANGED walk
    BY DEF Replace
  <2> QED BY <1>1, <2>1, MatchFacts, ReplaceFacts DEF Rep, walk
<1>3. \A x \in DOMAIN node : Rep(x)' = Rep(x)
  BY <1>2 DEF Rep
<1>4. MapOf' = [x \in DOMAIN MapOf \cup {r} |->
                  IF x # r THEN MapOf[x]
                  ELSE [key |-> IF r \in DOMAIN MapOf THEN MapOf[r].key ELSE k, val |-> v]]
  <2>1. /\ MapOf' = [x \in DOMAIN MapOf' |-> MapOf'[x]]
        /\ DOMAIN MapOf' = DOMAIN MapOf /\ r \in DOMAIN MapOf
    BY <1>2, <1>3, Facts, MapIsThen DEF MapFacts
  <2>2. ASSUME NEW x \in DOMAIN MapOf
        PROVE  MapOf'[x] = IF x # r THEN MapOf[x]
                           ELSE [key |-> MapOf[r].key, val |-> v]
    <3>1. PICK y \in DOMAIN node : x = Rep(y)
      BY Facts DEF MapFacts
    <3>2. MapOf[x] = Elem(y) /\ MapOf'[x] = [key |-> node[y].key, val |-> node'[y].val]
      BY <1>2, <1>3, <3>1, Facts, MapIsThen DEF MapFacts, Elem
    <3>3. x = r <=> y = n
      BY <1>2, <3>1, Facts
    <3> QED BY <1>2, <3>2, <3>3 DEF Elem
  <2> QED BY <2>1, <2>2
<1>5. CurOf' = CurOf
  <2>1. Walking' = Walking
    BY <1>2 DEF Walking
  <2>2. Walking /\ "gone" \notin stale => iter[bit] \in DOMAIN node
    BY DEF MapInv, WalkOk
  <2> QED BY <1>2, <2>1, <2>2 DEF CurOf
<1>6. TodoOf' = TodoOf
  <2>1. PICK d : Ranked(d)
    BY DEF MapInv
  <2>2. Ranked(d)'
    BY <2>1, ReplaceInv
  <2>3. Ahead(d)' = Ahead(d)
    BY <1>2 DEF Ahead
  <2>4. Walking' = Walking
    BY <1>2 DEF Walking
  <2>5. Ahead(d) \subseteq DOMAIN node
    BY DEF Ahead
  <2>6. /\ TodoOf = IF Walking THEN {Rep(x) : x \in Ahead(d)} ELSE {}
        /\ TodoOf' = IF Walking THEN {Rep(x)' : x \in Ahead(d)} ELSE {}
    BY <2>1, <2>2, <2>3, <2>4, Facts, MapIsThen DEF TodoFacts
  <2> QED BY <1>3, <2>5, <2>6
<1> QED BY <1>1, <1>4, <1>5, <1>6 DEF D!Put, D!Known

LEMMA InsertPuts ==
  ASSUME MapInv, MapInv', NEW k \in Key, NEW v \in Val, Insert(k, v)
  PROVE  D!Put(k, v)
<1>1. PICK b, r : b = BucketOf(k) /\ r = KeyRep[k]
  OBVIOUS
<1>2. /\ Matches(k) = {} /\ made' = made \cup {b} /\ b \in Bucket
      /\ stale' \in {stale, stale \cup {"prev"}}
      /\ UNCHANGED <<iter, iterating, bit>>
  BY <1>1, Types DEF Insert, Overtaken, MapInv
<1>3. PICK n \in Node \ DOMAIN node :
        /\ node' = [x \in DOMAIN node \cup {n} |->
                      IF x = n THEN [key |-> k, val |-> v, next |-> head[b]] ELSE node[x]]
        /\ head' = [head EXCEPT ![b] = n]
  BY <1>1 DEF Insert
<1>4. /\ DOMAIN node' = DOMAIN node \cup {n}
      /\ \A x \in DOMAIN node : x # n /\ node'[x] = node[x]
      /\ node'[n] = [key |-> k, val |-> v, next |-> head[b]]
      /\ node'[n].key = k /\ node'[n].val = v /\ node'[n].next = head[b]
  <2>1. /\ DOMAIN node' = DOMAIN node \cup {n}
        /\ \A x \in DOMAIN node : x # n /\ node'[x] = node[x]
        /\ node'[n] = [key |-> k, val |-> v, next |-> head[b]]
    BY <1>3
  <2> QED BY <2>1
<1>5. /\ \A x \in DOMAIN node : Home(x)' = Home(x) /\ Rep(x)' = Rep(x)
      /\ Home(n)' = b /\ Rep(n)' = r
      /\ \A d : Ranked(d) => \E e : /\ Ranked(e)' /\ \A x \in DOMAIN node : e[x] = d[x]
                                    /\ \A x \in DOMAIN node : Home(x) = b => e[x] < e[n]
  <2>1. \A c \in Bucket : head'[c] = IF c = b THEN n ELSE head[c]
    BY <1>2, <1>3, Types DEF MapInv, MapTypeOK
  <2>2. /\ \A x \in DOMAIN node : Home(x)' = Home(x)
        /\ Home(n)' = b
        /\ \A d : Ranked(d) => \E e : /\ Ranked(e)' /\ \A x \in DOMAIN node : e[x] = d[x]
                                      /\ \A x \in DOMAIN node : Home(x) = b => e[x] < e[n]
    BY <1>1, <1>2, <1>4, <2>1, RankInsert
  <2>3. Rep(n)' = r /\ \A x \in DOMAIN node : Rep(x)' = Rep(x)
    BY <1>1, <1>4 DEF Rep
  <2> QED BY <2>2, <2>3
<1>6. r \notin DOMAIN MapOf
  BY <1>1, <1>2, MatchFacts, Facts DEF MapFacts, Rep
<1>7. MapOf' = [x \in DOMAIN MapOf \cup {r} |->
                  IF x # r THEN MapOf[x] ELSE [key |-> k, val |-> v]]
  <2>1. /\ MapOf' = [x \in DOMAIN MapOf' |-> MapOf'[x]]
        /\ DOMAIN MapOf' = {Rep(x)' : x \in DOMAIN node'}
        /\ DOMAIN MapOf = {Rep(x) : x \in DOMAIN node}
        /\ \A x \in DOMAIN node : MapOf[Rep(x)] = Elem(x)
        /\ \A x \in DOMAIN node' : MapOf'[Rep(x)'] = [key |-> node'[x].key, val |-> node'[x].val]
    BY Facts, MapIsThen DEF MapFacts, Elem
  <2>2. DOMAIN MapOf' = DOMAIN MapOf \cup {r}
    BY <1>4, <1>5, <2>1
  <2>3. MapOf'[r] = [key |-> k, val |-> v]
    BY <1>4, <1>5, <2>1
  <2>4. ASSUME NEW x \in DOMAIN MapOf PROVE MapOf'[x] = MapOf[x] /\ x # r
    <3>1. PICK y \in DOMAIN node : x = Rep(y)
      BY <2>1
    <3>2. y \in DOMAIN node' /\ Rep(y)' = Rep(y) /\ node'[y] = node[y]
      BY <1>4, <1>5
    <3>3. /\ MapOf'[Rep(y)'] = [key |-> node'[y].key, val |-> node'[y].val]
          /\ MapOf[Rep(y)] = [key |-> node[y].key, val |-> node[y].val]
      BY <2>1, <3>2 DEF Elem
    <3> QED BY <1>6, <3>1, <3>2, <3>3
  <2> QED BY <2>1, <2>2, <2>3, <2>4
<1>8. Walking' = Walking
  BY <1>2 DEF Walking
<1>9. Walking /\ "gone" \notin stale => iter[bit] \in DOMAIN node
  BY DEF MapInv, WalkOk
<1>10. CurOf' = CurOf
  BY <1>2, <1>4, <1>8, <1>9 DEF CurOf
<1>11. TodoOf' = TodoOf \/ (CurOf # NoKey /\ TodoOf' = TodoOf \cup {r})
  <2>1. PICK d : Ranked(d)
    BY DEF MapInv
  <2>2. PICK e : /\ Ranked(e)' /\ \A x \in DOMAIN node : e[x] = d[x]
                 /\ \A x \in DOMAIN node : Home(x) = b => e[x] < e[n]
    BY <1>5, <2>1
  <2>3. /\ TodoOf = IF Walking THEN {Rep(x) : x \in Ahead(d)} ELSE {}
        /\ TodoOf' = IF Walking THEN {Rep(x)' : x \in Ahead(e)'} ELSE {}
    BY <1>8, <2>1, <2>2, Facts, MapIsThen DEF TodoFacts
  <2>4. CASE ~Walking
    BY <2>3, <2>4
  <2>5. CASE Walking
    <3>1. /\ iter[bit] # Nil => iter[bit] \in DOMAIN node /\ Home(iter[bit]) = bit
          /\ bit \in Bucket
      BY <2>5 DEF MapInv, WalkOk, Walking
    <3>2. \A x \in DOMAIN node : x \in Ahead(e)' <=> x \in Ahead(d)
      <4>1. iter' = iter /\ bit' = bit
        BY <1>2
      <4> QED BY <1>4, <1>5, <2>2, <3>1, <4>1 DEF Ahead
    <3>3. Ahead(e)' = Ahead(d) \/ Ahead(e)' = Ahead(d) \cup {n}
      <4>1. Ahead(e)' \subseteq DOMAIN node \cup {n} /\ Ahead(d) \subseteq DOMAIN node
        BY <1>4 DEF Ahead
      <4> QED BY <3>2, <4>1
    <3>4. CurOf # NoKey
      <4>1. "gone" \notin stale => iter[bit] \in DOMAIN node /\ Rep(iter[bit]) \in Key
        BY <1>9, <2>5, Facts
      <4> QED BY <2>5, <4>1, Facts DEF CurOf, Rep
    <3>5. Ahead(d) \subseteq DOMAIN node
      BY DEF Ahead
    <3> QED BY <1>5, <2>3, <2>5, <3>3, <3>4, <3>5
  <2> QED BY <2>4, <2>5
<1>12. D!Put(k, v)
  BY <1>1, <1>6, <1>7, <1>10, <1>11 DEF D!Put, D!Known
<1> QED BY <1>12

(* The map when a node n has gone from it.                                  *)
LEMMA MapWithout ==
  ASSUME MapInv, MapInv', NEW n \in DOMAIN node,
         DOMAIN node' = DOMAIN node \ {n},
         \A x \in DOMAIN node' : node'[x].key = node[x].key /\ node'[x].val = node[x].val
  PROVE  /\ MapOf' = [x \in DOMAIN MapOf \ {Rep(n)} |-> MapOf[x]]
         /\ \A x \in DOMAIN node' : Rep(x)' = Rep(x) /\ Rep(x) # Rep(n)
<1>1. \A x \in DOMAIN node' : Rep(x)' = Rep(x) /\ Rep(x) # Rep(n)
  <2>1. \A x \in DOMAIN node' : Rep(x)' = Rep(x)
    BY DEF Rep
  <2> QED BY <2>1, Facts
<1>2. /\ MapOf' = [x \in DOMAIN MapOf' |-> MapOf'[x]]
      /\ DOMAIN MapOf' = {Rep(x)' : x \in DOMAIN node'}
      /\ DOMAIN MapOf = {Rep(x) : x \in DOMAIN node}
      /\ \A x \in DOMAIN node : MapOf[Rep(x)] = Elem(x)
      /\ \A x \in DOMAIN node' : MapOf'[Rep(x)'] = [key |-> node'[x].key, val |-> node'[x].val]
  BY Facts, MapIsThen DEF MapFacts, Elem
<1>3. DOMAIN MapOf' = DOMAIN MapOf \ {Rep(n)}
  BY <1>1, <1>2
<1>4. ASSUME NEW x \in DOMAIN MapOf' PROVE MapOf'[x] = MapOf[x]
  <2>1. PICK y \in DOMAIN node' : x = Rep(y)'
    BY <1>2
  <2>2. y \in DOMAIN node /\ x = Rep(y)
    BY <1>1, <2>1
  <2>3. /\ MapOf'[x] = [key |-> node'[y].key, val |-> node'[y].val]
        /\ MapOf[x] = [key |-> node[y].key, val |-> node[y].val]
    BY <1>2, <2>1, <2>2 DEF Elem
  <2> QED BY <2>1, <2>3
<1> QED BY <1>1, <1>2, <1>3, <1>4

LEMMA DelDels ==
  ASSUME MapInv, MapInv', NEW k \in Key, Del(k)
  PROVE  D!Del(k)
<1>1. PICK n, r : n = Find(k) /\ r = KeyRep[k]
  OBVIOUS
<1>2. /\ n \in DOMAIN node /\ Rep(n) = r
      /\ DOMAIN node' = DOMAIN node \ {n}
      /\ \A x \in DOMAIN node' :
           node'[x] = IF node[x].next = n THEN [node[x] EXCEPT !.next = node[n].next]
                                          ELSE node[x]
      /\ \A c \in Bucket : head'[c] = IF head[c] = n THEN node[n].next ELSE head[c]
      /\ head' \in [Bucket -> Node \cup {Nil}]
      /\ stale' = stale \cup (IF iterating /\ iter[bit] = n THEN {"iter"} ELSE {})
                        \cup (IF iterating /\ prev[bit] = n THEN {"prev"} ELSE {})
      /\ UNCHANGED <<made, iter, iterating, bit>>
  BY <1>1, DelFacts DEF Rep
<1>3. /\ \A x \in DOMAIN node' :
           /\ Home(x)' = Home(x) /\ node'[x].key = node[x].key /\ node'[x].val = node[x].val
      /\ \A d : Ranked(d) =>
              \E e : /\ Ranked(e)'
                     /\ \A x, y \in DOMAIN node' :
                          Home(x) = Home(y) => (e[x] <= e[y] <=> d[x] <= d[y])
  BY <1>2, Unlinking
<1>4. /\ MapOf' = [x \in DOMAIN MapOf \ {r} |-> MapOf[x]]
      /\ \A x \in DOMAIN node' : Rep(x)' = Rep(x) /\ Rep(x) # r
  BY <1>2, <1>3, MapWithout
<1>5. Walking /\ "gone" \notin stale => iter[bit] \in DOMAIN node
  BY DEF MapInv, WalkOk
<1>6. "gone" \in stale' <=> "gone" \in stale
  BY <1>2
<1>7. r \in Key /\ r # "gone" /\ r # NoKey
  BY <1>1, Facts
<1>8. CASE Walking'
  <2>1. Walking /\ iter[bit] # n /\ (iter[bit] # Nil => iter[bit] \in DOMAIN node')
    <3>1. Walking /\ iter[bit] # n
      BY <1>2, <1>8 DEF Walking
    <3> QED BY <1>2, <3>1 DEF MapInv, WalkOk
  <2>2. CurOf # r /\ CurOf' = CurOf
    <3>1. CASE "gone" \in stale
      BY <1>6, <1>7, <1>8, <2>1, <3>1 DEF CurOf
    <3>2. CASE "gone" \notin stale
      <4>1. iter[bit] \in DOMAIN node'
        BY <1>2, <1>5, <2>1, <3>2
      <4>2. CurOf = Rep(iter[bit]) /\ CurOf' = KeyRep[node'[iter[bit]].key]
        BY <1>2, <1>6, <1>8, <2>1, <3>2 DEF CurOf, Rep
      <4> QED BY <1>3, <1>4, <4>1, <4>2 DEF Rep
    <3> QED BY <3>1, <3>2
  <2>3. TodoOf' = TodoOf \ {r}
    <3>1. PICK d : Ranked(d)
      BY DEF MapInv
    <3>2. PICK e : /\ Ranked(e)'
                   /\ \A x, y \in DOMAIN node' :
                        Home(x) = Home(y) => (e[x] <= e[y] <=> d[x] <= d[y])
      BY <1>3, <3>1
    <3>3. /\ TodoOf = {Rep(x) : x \in Ahead(d)}
          /\ TodoOf' = {Rep(x)' : x \in Ahead(e)'}
      BY <1>8, <2>1, <3>1, <3>2, Facts, MapIsThen DEF TodoFacts
    <3>4. Ahead(e)' = Ahead(d) \ {n}
      <4>1. /\ \A x \in DOMAIN node' : d[x] \in Nat /\ e[x] \in Nat
            /\ iter[bit] # Nil => iter[bit] \in DOMAIN node' /\ Home(iter[bit]) = bit
        BY <1>2, <2>1, <3>1, <3>2 DEF MapInv, WalkOk, Ranked
      <4>2. iter[bit] # Nil => \A x \in DOMAIN node' :
               Home(x) = bit => (e[x] < e[iter[bit]] <=> d[x] < d[iter[bit]])
        <5> SUFFICES ASSUME NEW x \in DOMAIN node', NEW y \in DOMAIN node', Home(x) = Home(y)
                     PROVE  e[x] < e[y] <=> d[x] < d[y]
          BY <4>1
        <5>1. e[y] <= e[x] <=> d[y] <= d[x]
          BY <3>2
        <5> QED BY <4>1, <5>1
      <4>3. Ahead(e)' = {x \in DOMAIN node' :
                           \/ Home(x)' > bit
                           \/ iter[bit] # Nil /\ Home(x)' = bit /\ e[x] < e[iter[bit]]}
        BY <1>2 DEF Ahead
      <4>4. Ahead(d) = {x \in DOMAIN node :
                           \/ Home(x) > bit
                           \/ iter[bit] # Nil /\ Home(x) = bit /\ d[x] < d[iter[bit]]}
        BY DEF Ahead
      <4> QED BY <1>2, <1>3, <4>2, <4>3, <4>4
    <3>5. Ahead(d) \subseteq DOMAIN node
      BY DEF Ahead
    <3>6. \A x \in Ahead(e)' : Rep(x)' = Rep(x) /\ Rep(x) # r
      BY <1>2, <1>4, <3>4, <3>5
    <3> QED BY <1>2, <3>3, <3>4, <3>6
  <2> QED BY <1>1, <1>4, <2>2, <2>3 DEF D!Del, D!Known
<1>9. CASE ~Walking'
  <2>1. CurOf' = NoKey /\ TodoOf' = {}
    BY <1>9 DEF CurOf, TodoOf
  <2>2. CASE Walking
    <3>1. iter[bit] = n
      BY <1>2, <1>9, <2>2 DEF Walking
    <3>2. CurOf \in {r, "gone"}
      BY <1>2, <2>2, <3>1 DEF CurOf, Rep
    <3> QED BY <1>1, <1>4, <2>1, <3>2 DEF D!Del, D!Known
  <2>3. CASE ~Walking
    <3>1. CurOf = NoKey /\ TodoOf = {}
      BY <2>3 DEF CurOf, TodoOf
    <3> QED BY <1>1, <1>4, <1>7, <2>1, <3>1 DEF D!Del, D!Known
  <2> QED BY <2>2, <2>3
<1> QED BY <1>8, <1>9

LEMMA ClearClears ==
  ASSUME MapInv, MapInv', Clear
  PROVE  D!Clear
<1>1. DOMAIN node' = {} /\ stale' = {"iter", "prev"}
  BY ClearFacts
<1>2. MapOf' = [r \in {} |-> NoKey]
  BY <1>1, MapIsThen DEF MapFacts
<1>3. CurOf' = NoKey /\ TodoOf' = {}
  BY <1>1 DEF CurOf, TodoOf, Walking
<1> QED BY <1>2, <1>3 DEF D!Clear

(* A step of a walk leaves the map as it is.                                *)
LEMMA WalkKeeps ==
  ASSUME MapInv, MapInv', UNCHANGED list
  PROVE  /\ MapOf' = MapOf
         /\ \A d : Ranked(d) => Ranked(d)'
         /\ \A x \in DOMAIN node : Home(x)' = Home(x) /\ Rep(x)' = Rep(x)
<1>1. UNCHANGED <<node, made, head>>
  BY DEF list
<1>2. \A x \in DOMAIN node : Home(x)' = Home(x) /\ Rep(x)' = Rep(x)
  BY <1>1 DEF Home, BucketOf, Rep
<1>3. ASSUME NEW d, Ranked(d) PROVE Ranked(d)'
  <2>1. LinksOk(d)' /\ TopsOk(d)' /\ Apart(d)'
    BY <1>1, <1>3 DEF Ranked, LinksOk, TopsOk, Apart, Home, BucketOf
  <2> QED BY <1>1, <1>3, <2>1 DEF Ranked
<1>4. MapOf' = MapOf
  <2>1. /\ MapOf' = [x \in DOMAIN MapOf' |-> MapOf'[x]]
        /\ MapOf = [x \in DOMAIN MapOf |-> MapOf[x]]
        /\ DOMAIN MapOf' = {Rep(x)' : x \in DOMAIN node}
        /\ DOMAIN MapOf = {Rep(x) : x \in DOMAIN node}
        /\ \A x \in DOMAIN node : /\ MapOf[Rep(x)] = [key |-> node[x].key, val |-> node[x].val]
                                  /\ MapOf'[Rep(x)'] = [key |-> node[x].key, val |-> node[x].val]
    BY <1>1, Facts, MapIsThen DEF MapFacts, Elem
  <2>2. DOMAIN MapOf' = DOMAIN MapOf
    BY <1>2, <2>1
  <2>3. ASSUME NEW x \in DOMAIN MapOf PROVE MapOf'[x] = MapOf[x]
    <3>1. PICK y \in DOMAIN node : x = Rep(y)
      BY <2>1
    <3>2. /\ MapOf[x] = [key |-> node[y].key, val |-> node[y].val]
          /\ MapOf'[Rep(y)'] = [key |-> node[y].key, val |-> node[y].val]
          /\ Rep(y)' = x
      BY <1>2, <2>1, <3>1
    <3> QED BY <3>2
  <2> QED BY <2>1, <2>2, <2>3
<1> QED BY <1>2, <1>3, <1>4

(* The nodes of the buckets from b on.                                      *)
Rest(b) == {x \in DOMAIN node : Home(x) >= b}

(* A walk that enters the bucket b or one behind it is at one of those      *)
(* nodes and has the others ahead.                                          *)
LEMMA EnterWalks ==
  ASSUME MapInv, MapInv', NEW b \in Nat, Enter(b), stale' = {}, UNCHANGED list
  PROVE  IF Rest(b) = {} THEN CurOf' = NoKey /\ TodoOf' = {}
         ELSE \E n \in Rest(b) : /\ CurOf' = Rep(n)
                                 /\ TodoOf' = {Rep(x) : x \in Rest(b)} \ {Rep(n)}
<1>1. PICK d : Ranked(d) /\ Ranked(d)'
  BY WalkKeeps DEF MapInv
<1>2. /\ \A x \in DOMAIN node : /\ d[x] \in Nat /\ Home(x) \in Bucket
                                /\ head[Home(x)] \in DOMAIN node /\ d[x] <= d[head[Home(x)]]
      /\ \A x, y \in DOMAIN node : Home(x) = Home(y) /\ d[x] = d[y] => x = y
      /\ \A c \in Bucket : head[c] # Nil => head[c] \in DOMAIN node /\ Home(head[c]) = c /\ c \in made
      /\ Nil \notin DOMAIN node
      /\ MapTypeOK
  BY <1>1, Types DEF MapInv, Ranked, TopsOk, Apart, HeadsOk
<1>3. \A x \in Rest(b) : Home(x) \in Used(b)
  BY <1>2 DEF Rest, Used
<1>4. \A f \in Used(b) : f \in Bucket /\ head[f] \in Rest(b) /\ Home(head[f]) = f
  BY <1>2 DEF Rest, Used
<1>5. CASE Used(b) = {}
  <2>1. Rest(b) = {}
    BY <1>3, <1>5
  <2>2. ~Walking'
    BY <1>5 DEF Enter, Walking
  <2> QED BY <2>1, <2>2 DEF CurOf, TodoOf
<1>6. CASE Used(b) # {}
  <2>1. PICK f \in Used(b) : /\ f = CHOOSE x \in Used(b) : \A y \in Used(b) : x <= y
                             /\ \A y \in Used(b) : f <= y
    BY <1>6, LeastUsed
  <2>2. PICK n : n = head[f]
    OBVIOUS
  <2>3. n \in Rest(b) /\ n \in DOMAIN node /\ Home(n) = f /\ f \in Bucket /\ n # Nil
    BY <1>2, <1>4, <2>1, <2>2 DEF Rest
  <2>4. /\ bit' = f /\ iterating' = TRUE
        /\ iter' = [iter EXCEPT ![f] = n]
    BY <1>6, <2>1, <2>2 DEF Enter
  <2>5. iter'[f] = n /\ Walking' /\ "gone" \notin stale' /\ node' = node
    BY <1>2, <2>3, <2>4 DEF MapTypeOK, Walking, list
  <2>6. CurOf' = Rep(n)
    BY <2>3, <2>4, <2>5 DEF CurOf, Rep
  <2>7. Ahead(d)' = Rest(b) \ {n}
    <3>1. Ahead(d)' = {x \in DOMAIN node : Home(x) > f \/ (Home(x) = f /\ d[x] < d[n])}
      <4>1. Ahead(d)' = {x \in DOMAIN node : \/ Home(x)' > f
                                             \/ Home(x)' = f /\ d[x] < d[n]}
        <5>1. bit' = f /\ iter'[bit'] = n /\ n # Nil /\ DOMAIN node' = DOMAIN node
          BY <2>3, <2>4, <2>5
        <5> QED BY <5>1 DEF Ahead
      <4> QED BY <4>1, WalkKeeps
    <3>2. ASSUME NEW x \in DOMAIN node
          PROVE  x \in Ahead(d)' <=> x \in Rest(b) /\ x # n
      <4>1. /\ f \in Nat /\ Home(x) \in Nat /\ f >= b
            /\ Home(x) >= b => f <= Home(x)
        <5>1. Home(x) >= b => Home(x) \in Used(b)
          BY <1>3 DEF Rest
        <5>2. f \in Nat /\ Home(x) \in Nat
          BY <1>2, <2>3, SkMapAssumption DEF Bucket
        <5> QED BY <2>1, <5>1, <5>2 DEF Used
      <4>2. Home(x) = f => (d[x] < d[n] <=> x # n)
        <5> SUFFICES ASSUME Home(x) = f PROVE d[x] < d[n] <=> x # n
          OBVIOUS
        <5>1. d[x] \in Nat /\ d[n] \in Nat /\ d[x] <= d[n] /\ (d[x] = d[n] <=> x = n)
          BY <1>2, <2>2, <2>3
        <5> QED BY <5>1
      <4>3. x = n => Home(x) = f
        BY <2>3
      <4>4. x \in Rest(b) <=> Home(x) >= b
        BY DEF Rest
      <4>5. x \in Ahead(d)' <=> Home(x) > f \/ (Home(x) = f /\ d[x] < d[n])
        BY <3>1
      <4>6. CASE Home(x) = f
        <5>1. ~(Home(x) > f) /\ Home(x) >= b
          BY <4>1, <4>6
        <5> QED BY <4>2, <4>4, <4>5, <4>6, <5>1
      <4>7. CASE Home(x) # f
        <5>1. Home(x) > f <=> Home(x) >= b
          BY <4>1, <4>7
        <5> QED BY <4>3, <4>4, <4>5, <4>7, <5>1
      <4> QED BY <4>6, <4>7
    <3> QED BY <3>1, <3>2 DEF Rest
  <2>8. TodoOf' = {Rep(x) : x \in Rest(b)} \ {Rep(n)}
    <3>1. TodoOf' = {Rep(x)' : x \in Rest(b) \ {n}}
      BY <1>1, <2>5, <2>7, MapIsThen DEF TodoFacts
    <3>2. \A x \in Rest(b) : x \in DOMAIN node /\ Rep(x)' = Rep(x) /\ (Rep(x) = Rep(n) => x = n)
      BY <2>3, WalkKeeps, Facts DEF Rest
    <3> QED BY <3>1, <3>2
  <2> QED BY <2>3, <2>6, <2>8
<1> QED BY <1>5, <1>6

LEMMA FirstFirst ==
  ASSUME MapInv, MapInv', First
  PROVE  D!First
<1>1. Enter(0) /\ stale' = {} /\ UNCHANGED list /\ 0 \in Nat
  BY DEF First
<1>2. Rest(0) = DOMAIN node
  <2>1. \A x \in DOMAIN node : Home(x) >= 0
    BY Types, SkMapAssumption DEF MapInv, Bucket
  <2> QED BY <2>1 DEF Rest
<1>3. DOMAIN MapOf = {Rep(x) : x \in DOMAIN node}
  BY Facts DEF MapFacts
<1>4. IF Rest(0) = {} THEN CurOf' = NoKey /\ TodoOf' = {}
      ELSE \E n \in Rest(0) : /\ CurOf' = Rep(n)
                              /\ TodoOf' = {Rep(x) : x \in Rest(0)} \ {Rep(n)}
  BY <1>1, EnterWalks
<1>5. MapOf' = MapOf
  BY <1>1, WalkKeeps
<1>6. CASE DOMAIN node = {}
  BY <1>2, <1>3, <1>4, <1>5, <1>6 DEF D!First, D!Known
<1>7. CASE DOMAIN node # {}
  BY <1>2, <1>3, <1>4, <1>5, <1>7 DEF D!First, D!Known
<1> QED BY <1>6, <1>7

LEMMA NextBucketNexts ==
  ASSUME MapInv, MapInv', NextBucket
  PROVE  D!Next_
<1>1. /\ Enter(bit + 1) /\ stale' = {} /\ UNCHANGED list
      /\ Walking /\ AtEnd
  BY DEF NextBucket, Walking
<1>2. PICK d : Ranked(d)
  BY DEF MapInv
<1>3. /\ bit \in Bucket /\ bit \in Nat /\ bit + 1 \in Nat
      /\ iter[bit] = Nil => "gone" \in stale
      /\ iter[bit] # Nil => /\ iter[bit] \in DOMAIN node /\ d[iter[bit]] = 0
                            /\ Rep(iter[bit]) \in Key
      /\ \A x \in DOMAIN node : d[x] \in Nat /\ Home(x) \in Nat
  <2>1. /\ bit \in Bucket
        /\ IF iter[bit] = Nil THEN "gone" \in stale ELSE iter[bit] \in DOMAIN node
    BY <1>1 DEF MapInv, WalkOk, Walking
  <2>2. iter[bit] # Nil => node[iter[bit]].next = Nil
    BY <1>1 DEF AtEnd
  <2>3. \A x \in DOMAIN node : d[x] \in Nat /\ Home(x) \in Nat
    BY <1>2, Types, SkMapAssumption DEF MapInv, Ranked, Bucket
  <2>4. bit \in Nat /\ bit + 1 \in Nat
    BY <2>1, SkMapAssumption DEF Bucket
  <2>5. iter[bit] # Nil => d[iter[bit]] = 0 /\ Rep(iter[bit]) \in Key
    BY <1>2, <2>1, <2>2, Facts DEF Ranked, LinksOk
  <2> QED BY <2>1, <2>3, <2>4, <2>5
<1>4. TodoOf = {Rep(x) : x \in Rest(bit + 1)}
  <2>1. Ahead(d) = Rest(bit + 1)
    <3>1. \A x \in DOMAIN node : Home(x) > bit <=> Home(x) >= bit + 1
      BY <1>3
    <3>2. \A x \in DOMAIN node : ~(iter[bit] # Nil /\ d[x] < d[iter[bit]])
      BY <1>3
    <3> QED BY <3>1, <3>2 DEF Ahead, Rest
  <2> QED BY <1>1, <1>2, <2>1, Facts DEF TodoFacts
<1>5. CurOf # NoKey
  BY <1>1, <1>3, Facts DEF CurOf, Rep
<1>6. IF Rest(bit + 1) = {} THEN CurOf' = NoKey /\ TodoOf' = {}
      ELSE \E n \in Rest(bit + 1) :
             /\ CurOf' = Rep(n)
             /\ TodoOf' = {Rep(x) : x \in Rest(bit + 1)} \ {Rep(n)}
  BY <1>1, <1>3, EnterWalks
<1>7. MapOf' = MapOf
  BY <1>1, WalkKeeps
<1>8. CASE Rest(bit + 1) = {}
  <2>1. TodoOf = {}
    BY <1>4, <1>8
  <2> QED BY <1>5, <1>6, <1>7, <1>8, <2>1 DEF D!Next_
<1>9. CASE Rest(bit + 1) # {}
  BY <1>4, <1>5, <1>6, <1>7, <1>9 DEF D!Next_
<1> QED BY <1>8, <1>9

LEMMA StepNexts ==
  ASSUME MapInv, MapInv', Step
  PROVE  D!Next_
<1>1. PICK n : n = iter[bit]
  OBVIOUS
<1>2. PICK o : o = node[n].next
  OBVIOUS
<1>3. /\ bit \in Bucket /\ n \in DOMAIN node /\ Home(n) = bit
      /\ o \in DOMAIN node /\ Home(o) = bit /\ iter'[bit] = o
      /\ n # Nil /\ o # Nil
  BY <1>1, <1>2, StepFacts, Facts
<1>4. /\ iterating /\ Walking /\ stale' = {} /\ UNCHANGED list
      /\ iterating' = iterating /\ bit' = bit /\ node' = node
  BY DEF Step, Walking, list
<1>5. PICK d : Ranked(d) /\ Ranked(d)'
  BY <1>4, WalkKeeps DEF MapInv
<1>6. /\ \A x \in DOMAIN node : d[x] \in Nat
      /\ \A x, y \in DOMAIN node : Home(x) = Home(y) /\ d[x] = d[y] => x = y
      /\ d[n] = d[o] + 1
  BY <1>2, <1>3, <1>5 DEF Ranked, LinksOk, Apart
<1>7. Walking' /\ "gone" \notin stale'
  BY <1>4 DEF Walking
<1>8. CurOf' = Rep(o) /\ CurOf # NoKey
  <2>1. bit' = bit /\ iter'[bit'] = o
    BY <1>3, <1>4
  <2>2. CurOf' = Rep(o)
    BY <1>4, <1>7, <2>1 DEF CurOf, Rep
  <2>3. Rep(n) \in Key /\ CurOf \in {"gone", Rep(n)}
    BY <1>1, <1>3, <1>4, Facts DEF CurOf, Rep
  <2> QED BY <2>2, <2>3, Facts
<1>9. /\ \A x \in DOMAIN node : x \in Ahead(d) <=> Home(x) > bit \/ (Home(x) = bit /\ d[x] < d[n])
      /\ \A x \in DOMAIN node : x \in Ahead(d)' <=> Home(x) > bit \/ (Home(x) = bit /\ d[x] < d[o])
  <2>1. \A x \in DOMAIN node : x \in Ahead(d) <=> Home(x) > bit \/ (Home(x) = bit /\ d[x] < d[n])
    BY <1>1, <1>3 DEF Ahead
  <2>2. bit' = bit /\ iter'[bit'] = o
    BY <1>3, <1>4
  <2>3. \A x \in DOMAIN node :
          x \in Ahead(d)' <=> Home(x)' > bit \/ (Home(x)' = bit /\ d[x] < d[o])
    BY <1>3, <1>4, <2>2 DEF Ahead
  <2>4. \A x \in DOMAIN node : Home(x)' = Home(x)
    BY <1>4, WalkKeeps
  <2> QED BY <2>1, <2>3, <2>4
<1>10. ASSUME NEW x \in DOMAIN node
       PROVE  x \in Ahead(d)' <=> x \in Ahead(d) /\ x # o
  <2>1. CASE Home(x) = bit
    <3>1. d[x] \in Nat /\ d[o] \in Nat /\ d[n] \in Nat /\ (d[x] = d[o] <=> x = o)
      BY <1>3, <1>6, <2>1
    <3>2. d[x] < d[o] <=> d[x] < d[n] /\ x # o
      BY <1>6, <3>1
    <3>3. ~(Home(x) > bit)
      BY <1>3, <2>1, SkMapAssumption DEF Bucket
    <3> QED BY <1>9, <2>1, <3>2, <3>3
  <2>2. CASE Home(x) # bit
    BY <1>3, <1>9, <2>2
  <2> QED BY <2>1, <2>2
<1>11. o \in Ahead(d) /\ Ahead(d) \subseteq DOMAIN node /\ Ahead(d)' \subseteq DOMAIN node
  <2>1. d[o] < d[n]
    BY <1>3, <1>6
  <2>2. Ahead(d) \subseteq DOMAIN node /\ Ahead(d)' \subseteq DOMAIN node
    BY <1>4 DEF Ahead
  <2> QED BY <1>3, <1>9, <2>1, <2>2
<1>12. TodoOf = {Rep(x) : x \in Ahead(d)} /\ TodoOf' = {Rep(x)' : x \in Ahead(d)'}
  BY <1>4, <1>5, <1>7, Facts, MapIsThen DEF TodoFacts
<1>13. \A x \in DOMAIN node : Rep(x)' = Rep(x) /\ (Rep(x) = Rep(o) => x = o)
  BY <1>3, <1>4, WalkKeeps, Facts
<1>14. Rep(o) \in TodoOf /\ TodoOf' = TodoOf \ {Rep(o)}
  BY <1>10, <1>11, <1>12, <1>13
<1>15. MapOf' = MapOf
  BY <1>4, WalkKeeps
<1> QED BY <1>8, <1>14, <1>15 DEF D!Next_

LEMMA DelIterDels ==
  ASSUME MapInv, MapInv', DelIter
  PROVE  D!DelIter
<1>1. PICK n, p : n = iter[bit] /\ p = prev[bit]
  OBVIOUS
<1>2. /\ n \in DOMAIN node /\ Home(n) = bit /\ bit \in Bucket
      /\ p # Nil => p \in DOMAIN node \ {n} /\ Home(p) = bit /\ node[p].next = n
      /\ DOMAIN node' = DOMAIN node \ {n}
      /\ \A x \in DOMAIN node' :
           node'[x] = IF node[x].next = n THEN [node[x] EXCEPT !.next = node[n].next]
                                          ELSE node[x]
      /\ \A c \in Bucket : head'[c] = IF head[c] = n THEN node[n].next ELSE head[c]
      /\ head' \in [Bucket -> Node \cup {Nil}]
      /\ iter'[bit] = p
      /\ stale' = {"prev", "gone"}
      /\ UNCHANGED <<made, iterating, bit>>
  BY <1>1, DelIterFacts
<1>3. /\ \A x \in DOMAIN node' :
           /\ Home(x)' = Home(x) /\ node'[x].key = node[x].key /\ node'[x].val = node[x].val
      /\ \A d : Ranked(d) =>
              \E e : /\ Ranked(e)'
                     /\ \A x, y \in DOMAIN node' :
                          Home(x) = Home(y) => (e[x] <= e[y] <=> d[x] <= d[y])
  BY <1>2, Unlinking
<1>4. /\ MapOf' = [x \in DOMAIN MapOf \ {Rep(n)} |-> MapOf[x]]
      /\ \A x \in DOMAIN node' : Rep(x)' = Rep(x)
  BY <1>2, <1>3, MapWithout
<1>5. iterating /\ stale = {} /\ Walking /\ n # Nil
  BY <1>1 DEF DelIter, Walking
<1>6. CurOf = Rep(n) /\ Rep(n) \in DOMAIN MapOf
  BY <1>1, <1>2, <1>5, Facts DEF CurOf, Rep, MapFacts
<1>7. Walking' /\ CurOf' = "gone"
  <2>1. Walking' /\ "gone" \in stale'
    BY <1>2, <1>5 DEF Walking
  <2> QED BY <2>1 DEF CurOf
<1>8. PICK d : Ranked(d)
  BY DEF MapInv
<1>9. PICK e : /\ Ranked(e)'
               /\ \A x, y \in DOMAIN node' :
                    Home(x) = Home(y) => (e[x] <= e[y] <=> d[x] <= d[y])
  BY <1>3, <1>8
<1>10. TodoOf = {Rep(x) : x \in Ahead(d)} /\ TodoOf' = {Rep(x)' : x \in Ahead(e)'}
  BY <1>5, <1>7, <1>8, <1>9, Facts, MapIsThen DEF TodoFacts
<1>11. ASSUME NEW x \in Ahead(e)' PROVE x \in DOMAIN node' /\ x \in Ahead(d)
  <2>1. /\ x \in DOMAIN node'
        /\ Home(x)' > bit \/ (p # Nil /\ Home(x)' = bit /\ e[x] < e[p])
    <3>1. bit' = bit /\ iter'[bit'] = p
      BY <1>2
    <3> QED BY <3>1 DEF Ahead
  <2>2. x \in DOMAIN node /\ x # n /\ Home(x)' = Home(x)
    BY <1>2, <1>3, <2>1
  <2>3. CASE Home(x) > bit
    BY <2>2, <2>3 DEF Ahead
  <2>4. CASE p # Nil /\ Home(x) = bit /\ e[x] < e[p]
    <3>1. p \in DOMAIN node' /\ p \in DOMAIN node /\ Home(p) = bit /\ node[p].next = n
      BY <1>2, <2>4
    <3>2. d[x] <= d[p] /\ ~(d[p] <= d[x])
      <4>1. e[x] \in Nat /\ e[p] \in Nat
        BY <1>9, <2>1, <3>1 DEF Ranked
      <4>2. e[x] <= e[p] /\ ~(e[p] <= e[x])
        BY <2>4, <4>1
      <4> QED BY <1>9, <2>1, <2>4, <3>1, <4>2
    <3>3. /\ d[p] = d[n] + 1 /\ d[x] \in Nat /\ d[n] \in Nat
          /\ d[x] = d[n] => x = n
      BY <1>2, <1>5, <1>8, <2>2, <2>4, <3>1 DEF Ranked, LinksOk, Apart
    <3>4. d[x] < d[n]
      BY <2>2, <3>2, <3>3
    <3> QED BY <1>1, <1>5, <2>2, <2>4, <3>4 DEF Ahead
  <2> QED BY <2>1, <2>2, <2>3, <2>4
<1>12. TodoOf' \in SUBSET TodoOf
  BY <1>4, <1>10, <1>11
<1> QED BY <1>4, <1>6, <1>7, <1>12 DEF D!DelIter, D!Known

LEMMA SameDict == UNCHANGED vars => UNCHANGED D!vars
<1> SUFFICES ASSUME UNCHANGED vars PROVE UNCHANGED D!vars
  OBVIOUS
<1>1. UNCHANGED <<node, dup, made, head, iter, prev, count, iterating, bit, stale, off, lost>>
  BY DEF vars, list, walk, past
<1>2. MapOf' = MapOf /\ CurOf' = CurOf /\ TodoOf' = TodoOf
  BY <1>1 DEF MapOf, CurOf, TodoOf, Linked, In, From, Walking, Bucket
<1> QED BY <1>2 DEF D!vars

LEMMA InitDict == Init => D!Init
<1> SUFFICES ASSUME Init PROVE D!Init
  OBVIOUS
<1>1. MapFacts /\ DOMAIN node = {}
  BY InitMap, MapIs DEF Init
<1>2. MapOf = [r \in {} |-> NoKey]
  BY <1>1 DEF MapFacts
<1>3. CurOf = NoKey /\ TodoOf = {}
  BY DEF Init, CurOf, TodoOf, Walking
<1> QED BY <1>2, <1>3 DEF D!Init

LEMMA NextDict == MapInv /\ MapInv' /\ [Next]_vars => [D!Next]_(D!vars)
<1> SUFFICES ASSUME MapInv, MapInv', [Next]_vars PROVE [D!Next]_(D!vars)
  OBVIOUS
<1>1. ASSUME NEW k \in Key, NEW v \in Val, Replace(k, v) PROVE D!Next
  BY <1>1, ReplacePuts DEF D!Next
<1>2. ASSUME NEW k \in Key, NEW v \in Val, Insert(k, v) PROVE D!Next
  BY <1>2, InsertPuts DEF D!Next
<1>3. ASSUME NEW k \in Key, PutFails(k) PROVE UNCHANGED D!vars
  BY <1>3, SameDict DEF PutFails
<1>4. ASSUME NEW k \in Key, Del(k) PROVE D!Next
  BY <1>4, DelDels DEF D!Next
<1>5. CASE Clear
  BY <1>5, ClearClears DEF D!Next
<1>6. CASE First
  BY <1>6, FirstFirst DEF D!Next
<1>7. CASE Step
  BY <1>7, StepNexts DEF D!Next
<1>8. CASE NextBucket
  BY <1>8, NextBucketNexts DEF D!Next
<1>9. CASE DelIter
  BY <1>9, DelIterDels DEF D!Next
<1>10. CASE UNCHANGED vars
  BY <1>10, SameDict
<1> QED BY <1>1, <1>2, <1>3, <1>4, <1>5, <1>6, <1>7, <1>8, <1>9, <1>10 DEF Next

(* The string map of skmap.c is a finite map: lsi_skmap_put, del and clear  *)
(* change it as such, under every spelling of a key, and the walks of       *)
(* lsi_skmap_first and next come by each of its elements once, whatever is  *)
(* put into it or deleted from it in the meantime.                          *)
THEOREM DictCorrect == Spec => ImplementsDict
<1>1. Spec => []MapInv
  BY InitMap, NextMap, PTL DEF Spec
<1> QED BY <1>1, InitDict, NextDict, PTL DEF Spec, ImplementsDict, D!Spec
=============================================================================
