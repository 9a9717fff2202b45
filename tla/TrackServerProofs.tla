------------------------- MODULE TrackServerProofs -------------------------
(***************************************************************************)
(* Proofs about modules TrackServer and TrackTags, for any nicknames and    *)
(* channels, any number of names in a 353, any number of messages on their  *)
(* way, and any allocation failures but those of a rename.                  *)
(***************************************************************************)
EXTENDS TrackTags, TrackProofs

-----------------------------------------------------------------------------
(* What one can know of the channels: our nickname, the nicknames in each   *)
(* of our channels, and whether the next 353 starts a new list.             *)
View(me, ros, eon) == [me |-> me, ros |-> ros, eon |-> eon]

NamesOf(v) == {v.me} \cup (UNION {v.ros[c] : c \in DOMAIN v.ros})

(* No two of the nicknames are the same to the maps.                        *)
KeyInj(S) == \A m, n \in S : NickKey[m] = NickKey[n] => m = n

Good(v) ==
  /\ v = View(v.me, v.ros, v.eon)
  /\ v.me \in Nick /\ v.eon \in BOOLEAN
  /\ v.ros \in [DOMAIN v.ros -> SUBSET Nick] /\ DOMAIN v.ros \subseteq Chan
  /\ KeyInj(NamesOf(v))

(* What the server tells the truth about, and what the tracker knows.  The  *)
(* names that h_353 has yet to add count as known.                          *)
SrvView == View(self, [c \in {d \in Chan : In_(d)} |-> DOMAIN on[c]], TRUE)

Nicks(c)   == {Name(k) : k \in KeysIn(c)}
Pending(c) == {names[i].nick : i \in {j \in 1..Len(names) : names[j].chan = c}}
TrView == View(mynick, [c \in DOMAIN chans |-> Nicks(c) \cup Pending(c)],
               tracking => endofnames)

-----------------------------------------------------------------------------
(* Messages *)

Msgs ==
  [cmd : {"JOIN", "PART", "KICK"}, nick : Nick, chan : Chan]
    \cup [cmd : {"QUIT"}, nick : Nick]
    \cup [cmd : {"NICK"}, nick : Nick, new : Nick]
    \cup [cmd : {"MODE"}, chan : Chan, nick : Nick, sym : Sym, enab : BOOLEAN]
    \cup [cmd : {"353"}, chan : Chan, list : Seq(Entry)]
    \cup [cmd : {"366", "005"}]

Named(l)    == {l[i].nick : i \in 1..Len(l)}
Distinct(l) == \A i, j \in 1..Len(l) : l[i].nick = l[j].nick => i = j

(* What each message makes of what one knows, v, and when it makes sense.   *)
Joins(v, n, c, z) ==
  \/ /\ n = v.me /\ c \notin DOMAIN v.ros
     /\ z = View(v.me, Put(v.ros, c, {}), v.eon)
  \/ /\ n # v.me /\ c \in DOMAIN v.ros /\ n \notin v.ros[c]
     /\ z = View(v.me, [v.ros EXCEPT ![c] = @ \cup {n}], v.eon)

Lists(v, c, l, z) ==
  /\ Distinct(l)
  /\ \/ c \notin DOMAIN v.ros /\ z = v
     \/ /\ c \in DOMAIN v.ros /\ (v.eon \/ Named(l) \cap v.ros[c] = {})
        /\ z = View(v.me, [v.ros EXCEPT ![c] = (IF v.eon THEN {} ELSE @) \cup Named(l)], FALSE)

Parts(v, n, c, z) ==
  /\ c \in DOMAIN v.ros /\ n \in NamesOf(v)
  /\ \/ n = v.me /\ z = View(v.me, Del(v.ros, c), v.eon)
     \/ n # v.me /\ z = View(v.me, [v.ros EXCEPT ![c] = @ \ {n}], v.eon)

Quits(v, n, z) ==
  /\ n \in NamesOf(v) \ {v.me}
  /\ z = View(v.me, [c \in DOMAIN v.ros |-> v.ros[c] \ {n}], v.eon)

Renames(v, n, m, z) ==
  /\ n \in NamesOf(v) /\ \A o \in NamesOf(v) \ {n} : NickKey[o] # NickKey[m]
  /\ z = View(IF n = v.me THEN m ELSE v.me,
              [c \in DOMAIN v.ros |-> IF n \in v.ros[c] THEN (v.ros[c] \ {n}) \cup {m}
                                                        ELSE v.ros[c]],
              v.eon)

Tells(v, m, z) ==
  \/ m.cmd = "JOIN" /\ Joins(v, m.nick, m.chan, z)
  \/ m.cmd = "353" /\ Lists(v, m.chan, m.list, z)
  \/ m.cmd = "366" /\ z = View(v.me, v.ros, TRUE)
  \/ m.cmd \in {"PART", "KICK"} /\ Parts(v, m.nick, m.chan, z)
  \/ m.cmd = "QUIT" /\ Quits(v, m.nick, z)
  \/ m.cmd = "NICK" /\ Renames(v, m.nick, m.new, z)
  \/ m.cmd \in {"MODE", "005"} /\ z = v

(* Somebody with key k is in one of our channels.                           *)
Shares(v, k) == \E c \in DOMAIN v.ros : \E n \in v.ros[c] : NickKey[n] = k

(* Being told m, one does not lose sight of the users with the keys T, not  *)
(* even when the list of a channel begins anew.                             *)
Spares(T, v, m, z) ==
  /\ \A k \in T : Shares(z, k)
  /\ T # {} /\ m.cmd = "353" /\ v.eon /\ m.chan \in DOMAIN v.ros => v.ros[m.chan] = {}

Step(T, v, m, z) == Good(z) /\ Tells(v, m, z) /\ Spares(T, v, m, z)

(* Being told q, one who knows v comes to know z.                           *)
Leads(T, q, v, z) ==
  /\ Good(v)
  /\ \E w : /\ w[0] = v /\ w[Len(q)] = z
            /\ \A i \in 1..Len(q) : Step(T, w[i - 1], q[i], w[i])

LEMMA LeadsNone == ASSUME NEW T, NEW v, Good(v) PROVE Leads(T, <<>>, v, v)
<1>1. PICK w : w = [i \in 0..0 |-> v]
  OBVIOUS
<1>2. w[0] = v /\ Len(<<>>) = 0 /\ \A i \in 1..Len(<<>>) : FALSE
  BY <1>1
<1> QED BY <1>2 DEF Leads

LEMMA LeadsOne == ASSUME NEW T, NEW v, Good(v), NEW m, NEW z, Step(T, v, m, z) PROVE Leads(T, <<m>>, v, z)
<1>1. PICK w : w = [i \in 0..1 |-> IF i = 0 THEN v ELSE z]
  OBVIOUS
<1>2. w[0] = v /\ w[1] = z /\ Len(<<m>>) = 1 /\ <<m>>[1] = m /\ w[Len(<<m>>)] = z
  BY <1>1
<1>3. \A i \in 1..Len(<<m>>) : i = 1 /\ w[i - 1] = v /\ w[i] = z /\ <<m>>[i] = m
  BY <1>1, <1>2
<1>4. \A i \in 1..Len(<<m>>) : Step(T, w[i - 1], <<m>>[i], w[i])
  BY <1>3
<1> QED BY <1>2, <1>4 DEF Leads

LEMMA LeadsTo == ASSUME NEW T, NEW q \in Seq(Msgs), NEW v, NEW z, Leads(T, q, v, z)
                 PROVE  Good(v) /\ Good(z) /\ (q = <<>> => v = z)
<1>1. PICK w : /\ w[0] = v /\ w[Len(q)] = z
               /\ \A i \in 1..Len(q) : Step(T, w[i - 1], q[i], w[i])
  BY DEF Leads
<1>2. CASE q = <<>>
  BY <1>1, <1>2 DEF Leads
<1>3. CASE q # <<>>
  <2>1. Len(q) \in 1..Len(q)
    BY <1>3
  <2> QED BY <1>1, <1>3, <2>1 DEF Leads, Step
<1> QED BY <1>2, <1>3

LEMMA LeadsTail ==
  ASSUME NEW T, NEW q \in Seq(Msgs), q # <<>>, NEW v, NEW z, Leads(T, q, v, z)
  PROVE  \E y : Step(T, v, Head(q), y) /\ Leads(T, Tail(q), y, z)
<1>1. Len(q) \in Nat /\ Len(q) >= 1 /\ Head(q) = q[1]
  OBVIOUS
<1>2. Len(Tail(q)) = Len(q) - 1 /\ \A i \in 1..Len(q) - 1 : Tail(q)[i] = q[i + 1]
  BY <1>1
<1>3. PICK f : /\ f[0] = v /\ f[Len(q)] = z
               /\ \A i \in 1..Len(q) : Step(T, f[i - 1], q[i], f[i])
  BY DEF Leads
<1>4. PICK g : g = [i \in 0..Len(q) - 1 |-> f[i + 1]]
  OBVIOUS
<1>5. Step(T, v, Head(q), f[1])
  <2>1. Step(T, f[1 - 1], q[1], f[1]) /\ 1 - 1 = 0
    BY <1>1, <1>3
  <2> QED BY <1>1, <1>3, <2>1
<1>6. g[0] = f[1] /\ g[Len(Tail(q))] = z
  BY <1>1, <1>2, <1>3, <1>4
<1>7. ASSUME NEW i \in 1..Len(Tail(q)) PROVE Step(T, g[i - 1], Tail(q)[i], g[i])
  <2>1. g[i] = f[i + 1] /\ g[i - 1] = f[i] /\ i + 1 \in 1..Len(q) /\ Tail(q)[i] = q[i + 1]
    BY <1>1, <1>2, <1>4
  <2>2. Step(T, f[(i + 1) - 1], q[i + 1], f[i + 1]) /\ (i + 1) - 1 = i
    BY <1>3, <2>1
  <2> QED BY <2>1, <2>2
<1>8. Good(f[1])
  BY <1>5 DEF Step
<1> QED BY <1>5, <1>6, <1>7, <1>8 DEF Leads

LEMMA LeadsOn ==
  ASSUME NEW T, NEW p \in Seq(Msgs), NEW q \in Seq(Msgs), NEW v, NEW y, NEW z,
         Leads(T, p, v, y), Leads(T, q, y, z)
  PROVE  Leads(T, p \o q, v, z)
<1>1. /\ Len(p) \in Nat /\ Len(q) \in Nat /\ Len(p \o q) = Len(p) + Len(q)
      /\ \A i \in 1..Len(p) : (p \o q)[i] = p[i]
      /\ \A i \in 1..Len(q) : (p \o q)[Len(p) + i] = q[i]
  OBVIOUS
<1>2. PICK f : /\ f[0] = v /\ f[Len(p)] = y
               /\ \A i \in 1..Len(p) : Step(T, f[i - 1], p[i], f[i])
  BY DEF Leads
<1>3. PICK g : /\ g[0] = y /\ g[Len(q)] = z
               /\ \A i \in 1..Len(q) : Step(T, g[i - 1], q[i], g[i])
  BY DEF Leads
<1>4. PICK h : h = [i \in 0..Len(p) + Len(q) |-> IF i <= Len(p) THEN f[i] ELSE g[i - Len(p)]]
  OBVIOUS
<1>5. /\ \A i \in 0..Len(p) : h[i] = f[i]
      /\ \A i \in 0..Len(q) : h[Len(p) + i] = g[i]
  <2>1. \A i \in 0..Len(p) : h[i] = f[i]
    BY <1>1, <1>4
  <2>2. ASSUME NEW i \in 0..Len(q) PROVE h[Len(p) + i] = g[i]
    <3>1. CASE i = 0
      BY <1>1, <1>2, <1>3, <1>4, <3>1
    <3>2. CASE i # 0
      <4>1. Len(p) + i \in 0..Len(p) + Len(q) /\ ~(Len(p) + i <= Len(p)) /\ Len(p) + i - Len(p) = i
        BY <1>1, <3>2
      <4> QED BY <1>4, <4>1
    <3> QED BY <3>1, <3>2
  <2> QED BY <2>1, <2>2
<1>6. h[0] = v /\ h[Len(p \o q)] = z
  BY <1>1, <1>2, <1>3, <1>5
<1>7. ASSUME NEW i \in 1..Len(p \o q) PROVE Step(T, h[i - 1], (p \o q)[i], h[i])
  <2>1. CASE i <= Len(p)
    <3>1. /\ i \in 1..Len(p) /\ i - 1 \in 0..Len(p) /\ i \in 0..Len(p)
      BY <1>1, <2>1
    <3> QED BY <1>1, <1>2, <1>5, <3>1
  <2>2. CASE i > Len(p)
    <3>1. PICK j \in 1..Len(q) : i = Len(p) + j
      <4>1. i - Len(p) \in 1..Len(q) /\ i = Len(p) + (i - Len(p))
        BY <1>1, <2>2
      <4> QED BY <4>1
    <3>2. /\ j - 1 \in 0..Len(q) /\ j \in 0..Len(q) /\ i - 1 = Len(p) + (j - 1)
      BY <1>1, <3>1
    <3> QED BY <1>1, <1>3, <1>5, <3>1, <3>2
  <2> QED BY <1>1, <2>1, <2>2
<1> QED BY <1>6, <1>7 DEF Leads

LEMMA LeadsLess ==
  ASSUME NEW T, NEW S \in SUBSET T, NEW q, NEW v, NEW z, Leads(T, q, v, z)
  PROVE  Leads(S, q, v, z)
<1>1. PICK w : /\ w[0] = v /\ w[Len(q)] = z
               /\ \A i \in 1..Len(q) : Step(T, w[i - 1], q[i], w[i])
  BY DEF Leads
<1>2. ASSUME NEW x, NEW m, NEW y, Step(T, x, m, y) PROVE Step(S, x, m, y)
  BY <1>2 DEF Step, Spares
<1>3. \A i \in 1..Len(q) : Step(S, w[i - 1], q[i], w[i])
  BY <1>1, <1>2
<1> QED BY <1>1, <1>3 DEF Leads

(* It does so without losing sight of users who are there before and after, *)
(* if we send no NAMES.                                                     *)
Leading(q, v, z) ==
  \A T : /\ T # {} => AppNames = {}
         /\ \A k \in T : Shares(v, k) /\ Shares(z, k)
         => Leads(T, q, v, z)

-----------------------------------------------------------------------------
(* The answer to a JOIN or a NAMES *)

LEMMA SetSeq ==
  ASSUME NEW S, IsFiniteSet(S)
  PROVE  /\ SetToSeq(S) \in [1..Cardinality(S) -> S]
         /\ \A i, j \in 1..Cardinality(S) : SetToSeq(S)[i] = SetToSeq(S)[j] => i = j
         /\ \A x \in S : \E i \in 1..Cardinality(S) : SetToSeq(S)[i] = x
<1>1. PICK N \in Nat : N = Cardinality(S)
  BY FS_CardinalityType
<1>2. PICK n \in Nat : ExistsBijection(1..n, S)
  BY FS_NatBijection
<1>3. n = N
  BY <1>1, <1>2, FS_CountingElements
<1>4. PICK g : g \in Bijection(1..N, S)
  BY <1>2, <1>3 DEF ExistsBijection
<1>5. g \in [1..N -> S] /\ IsInjective(g)
  BY <1>4 DEF Bijection, Injection
<1>6. PICK f : f = SetToSeq(S)
  OBVIOUS
<1>7. f \in [1..N -> S] /\ IsInjective(f)
  BY <1>1, <1>5, <1>6 DEF SetToSeq
<1>8. f \in Injection(1..N, S)
  BY <1>7 DEF Injection
<1>9. IsFiniteSet(1..N) /\ Cardinality(1..N) = N
  <2>1. 1 \in Int /\ N \in Int
    OBVIOUS
  <2>2. IsFiniteSet(1..N) /\ Cardinality(1..N) = IF 1 > N THEN 0 ELSE N - 1 + 1
    BY <2>1, FS_Interval
  <2> QED BY <2>2
<1>10. f \in Surjection(1..N, S)
  BY <1>1, <1>8, <1>9, FS_Injection
<1> QED BY <1>1, <1>6, <1>7, <1>10 DEF Surjection, IsInjective

(* N names at P a line make K lines, all of them full but the last.         *)
LEMMA Chunks ==
  ASSUME NEW N \in Nat, NEW P \in Nat \ {0}, NEW K, K = (N + P - 1) \div P
  PROVE  K \in Nat /\ N <= K * P /\ \A i \in 1..K : (i - 1) * P < N /\ (i - 1) * P \in Nat
<1>1. K \in Int /\ K * P <= N + P - 1 /\ N + P - 1 < K * P + P
  <2>1. N + P - 1 \in Int /\ P > 0
    OBVIOUS
  <2> QED BY <2>1
<1>2. K \in Nat
  BY <1>1
<1>3. N <= K * P
  BY <1>1
<1>4. ASSUME NEW i \in 1..K PROVE (i - 1) * P < N /\ (i - 1) * P \in Nat
  <2>1. i * P <= K * P
    BY <1>2
  <2>2. (i - 1) * P = i * P - P
    OBVIOUS
  <2>3. (i - 1) * P \in Nat
    OBVIOUS
  <2> QED BY <1>1, <2>1, <2>2, <2>3
<1> QED BY <1>2, <1>3, <1>4

LEMMA MinOfTwo ==
  ASSUME NEW a \in Int, NEW b \in Int
  PROVE  Min({a, b}) = IF a <= b THEN a ELSE b
<1>1. \E x \in {a, b} : \A y \in {a, b} : x <= y
  OBVIOUS
<1>2. PICK x : x = Min({a, b})
  OBVIOUS
<1>3. x \in {a, b} /\ \A y \in {a, b} : x <= y
  BY <1>1, <1>2 DEF Min
<1> QED BY <1>2, <1>3

LEMMA ShownType ==
  ASSUME NEW S \in SUBSET Sym
  PROVE  Shown(S) \in Pfx1
<1>1. CASE S = {}
  BY <1>1 DEF Shown, Pfx1
<1>2. CASE S # {}
  <2>1. \E s \in S : \A t \in S : s \in Stronger[t] \/ s = t
    BY <1>2, ServerAssumption
  <2>2. (CHOOSE s \in S : \A t \in S : s \in Stronger[t] \/ s = t) \in Sym
    BY <2>1
  <2> QED BY <1>2, <2>2 DEF Shown, Pfx1
<1> QED BY <1>1, <1>2

(* The lines for channel c go through its members s[1], s[2] and so on:     *)
(* after i lines, e[i] of them have been named.                             *)
Cut(q, c, s, e) ==
  /\ e \in [0..Len(q) -> 0..Len(s)] /\ e[0] = 0 /\ e[Len(q)] = Len(s)
  /\ \A i \in 1..Len(q) :
       /\ q[i].cmd = "353" /\ q[i].chan = c /\ e[i - 1] <= e[i]
       /\ Len(q[i].list) = e[i] - e[i - 1]
       /\ \A j \in 1..Len(q[i].list) : q[i].list[j].nick = s[e[i - 1] + j]

LEMMA LinesCut ==
  ASSUME NEW c \in Chan, NEW m, IsFiniteSet(DOMAIN m), DOMAIN m \subseteq Nick,
         \A n \in DOMAIN m : m[n] \subseteq Sym
  PROVE  /\ Lines(c, m) \in Seq(Msgs)
         /\ \A i \in 1..Len(Lines(c, m)) : Lines(c, m)[i].cmd = "353"
         /\ \E s \in Seq(Nick) : \E e :
              /\ Cut(Lines(c, m), c, s, e)
              /\ \A i, j \in 1..Len(s) : s[i] = s[j] => i = j
              /\ {s[i] : i \in 1..Len(s)} = DOMAIN m
<1>1. PICK S : S = DOMAIN m
  OBVIOUS
<1>2. PICK N \in Nat : N = Cardinality(S)
  BY <1>1, FS_CardinalityType
<1>3. PICK s : s = SetToSeq(S)
  OBVIOUS
<1>4. /\ s \in [1..N -> S]
      /\ \A i, j \in 1..N : s[i] = s[j] => i = j
      /\ \A x \in S : \E i \in 1..N : s[i] = x
  BY <1>1, <1>2, <1>3, SetSeq
<1>5. s \in Seq(Nick) /\ Len(s) = N
  <2>1. S \subseteq Nick /\ s = [i \in 1..N |-> s[i]] /\ \A i \in 1..N : s[i] \in Nick
    BY <1>1, <1>4
  <2>2. s \in [1..N -> Nick]
    BY <1>1, <1>4
  <2> QED BY <2>2
<1>6. PICK P \in Nat \ {0} : P = PerLine
  BY ServerAssumption
<1>7. PICK all : all = [i \in 1..N |-> [nick |-> s[i], pfx |-> Shown(m[s[i]])]]
  OBVIOUS
<1>8. /\ all \in Seq(Entry) /\ Len(all) = N
      /\ \A i \in 1..N : all[i] \in Entry /\ all[i].nick = s[i]
  <2>1. \A i \in 1..N : [nick |-> s[i], pfx |-> Shown(m[s[i]])] \in Entry
    BY <1>1, <1>4, ShownType DEF Entry
  <2>2. all \in Seq(Entry) /\ Len(all) = N
    BY <1>7, <2>1, IsASeq
  <2> QED BY <1>7, <2>1, <2>2
<1>9. PICK K : K = (N + P - 1) \div P
  OBVIOUS
<1>10. K \in Nat /\ N <= K * P /\ \A i \in 1..K : (i - 1) * P < N /\ (i - 1) * P \in Nat
  BY <1>9, Chunks
<1>11. PICK e : e = [i \in 0..K |-> IF i * P <= N THEN i * P ELSE N]
  OBVIOUS
<1>12. e \in [0..K -> 0..N] /\ e[0] = 0 /\ e[K] = N
  <2>1. \A i \in 0..K : i * P \in Nat
    BY <1>10
  <2>2. 0 * P = 0
    OBVIOUS
  <2> QED BY <1>10, <1>11, <2>1, <2>2
<1>13. PICK q : q = Lines(c, m)
  OBVIOUS
<1>14. q = [i \in 1..K |-> [cmd |-> "353", chan |-> c,
                           list |-> SubSeq(all, (i - 1) * P + 1, Min({i * P, N}))]]
  BY <1>1, <1>2, <1>3, <1>6, <1>7, <1>8, <1>9, <1>13 DEF Lines
<1>15. ASSUME NEW i \in 1..K
       PROVE  /\ q[i] \in Msgs /\ q[i].cmd = "353" /\ q[i].chan = c /\ e[i - 1] <= e[i]
              /\ Len(q[i].list) = e[i] - e[i - 1]
              /\ \A j \in 1..Len(q[i].list) : q[i].list[j].nick = s[e[i - 1] + j]
  <2>1. PICK a \in Nat : a = (i - 1) * P /\ a < N
    BY <1>10
  <2>2. PICK b \in Nat : b = i * P /\ b = a + P
    BY <2>1
  <2>3. e[i - 1] = a
    <3>1. i - 1 \in 0..K
      BY <1>10
    <3>2. e[i - 1] = IF (i - 1) * P <= N THEN (i - 1) * P ELSE N
      BY <1>11, <3>1
    <3> QED BY <2>1, <3>2
  <2>4. e[i] = IF b <= N THEN b ELSE N
    BY <1>11, <2>2
  <2>5. Min({b, N}) = e[i]
    BY <2>4, MinOfTwo
  <2>6. e[i] \in Nat /\ a < e[i] /\ e[i] <= N
    BY <2>1, <2>2, <2>4
  <2>7. PICK l : l = SubSeq(all, a + 1, e[i])
    OBVIOUS
  <2>8. /\ l \in Seq(Entry)
        /\ Len(l) = IF a + 1 <= e[i] THEN e[i] - (a + 1) + 1 ELSE 0
        /\ \A j \in 1..e[i] - (a + 1) + 1 : l[j] = all[a + 1 + j - 1]
    <3>1. a + 1 \in Int /\ e[i] \in Int /\ \A j \in a + 1..e[i] : all[j] \in Entry
      BY <1>8, <2>6
    <3> QED BY <2>7, <3>1, SubSeqProperties
  <2>9. q[i] = [cmd |-> "353", chan |-> c, list |-> l]
    BY <1>14, <2>1, <2>2, <2>5, <2>7
  <2>10. q[i] \in [cmd : {"353"}, chan : Chan, list : Seq(Entry)]
    BY <2>8, <2>9
  <2>11. Len(l) = e[i] - a
    BY <2>6, <2>8
  <2>12. ASSUME NEW j \in 1..Len(l) PROVE l[j].nick = s[a + j]
    <3>1. l[j] = all[a + 1 + j - 1] /\ a + 1 + j - 1 = a + j /\ a + j \in 1..N
      BY <2>6, <2>8, <2>11
    <3> QED BY <1>8, <3>1
  <2> QED BY <2>3, <2>6, <2>9, <2>10, <2>11, <2>12 DEF Msgs
<1>16. q \in Seq(Msgs) /\ Len(q) = K
  <2>1. q = [i \in 1..K |-> q[i]]
    BY <1>14
  <2> QED BY <1>10, <1>15, <2>1, IsASeq
<1>17. Cut(q, c, s, e)
  BY <1>5, <1>12, <1>15, <1>16 DEF Cut
<1>18. {s[i] : i \in 1..Len(s)} = S
  BY <1>4, <1>5
<1>19. \A i \in 1..Len(q) : q[i].cmd = "353"
  BY <1>15, <1>16
<1>20. \A i, j \in 1..Len(s) : s[i] = s[j] => i = j
  BY <1>4, <1>5
<1>21. \E t \in Seq(Nick) : \E f :
         /\ Cut(q, c, t, f)
         /\ \A i, j \in 1..Len(t) : t[i] = t[j] => i = j
         /\ {t[i] : i \in 1..Len(t)} = DOMAIN m
  BY <1>1, <1>5, <1>17, <1>18, <1>20
<1> QED BY <1>13, <1>16, <1>19, <1>21

(* Forgetting some of the nicknames, or learning one that is on no other    *)
(* key, one knows something good.                                           *)
LEMMA KeyInjSub ==
  ASSUME NEW S, NEW T, KeyInj(S), T \subseteq S
  PROVE  KeyInj(T)
  BY DEF KeyInj

LEMMA GoodWith ==
  ASSUME NEW v, Good(v), NEW c \in DOMAIN v.ros, NEW X \in SUBSET Nick,
         KeyInj(NamesOf(v) \cup X), NEW z, z = View(v.me, z.ros, z.eon), z.eon \in BOOLEAN,
         z.ros \in [DOMAIN v.ros -> SUBSET Nick], z.ros[c] = X,
         \A d \in DOMAIN v.ros \ {c} : z.ros[d] = v.ros[d]
  PROVE  Good(z)
<1>1. DOMAIN z.ros = DOMAIN v.ros
  OBVIOUS
<1>2. z.me = v.me
  BY DEF View
<1>3. NamesOf(z) \subseteq NamesOf(v) \cup X
  BY <1>1, <1>2 DEF NamesOf
<1>4. KeyInj(NamesOf(z))
  BY <1>3, KeyInjSub
<1> QED BY <1>1, <1>2, <1>4 DEF Good

(* The users with the keys T are in channels other than c, of which nobody  *)
(* is known.                                                                *)
Elsewhere(T, v, c) ==
  /\ T # {} => v.ros[c] = {}
  /\ \A k \in T : \E d \in DOMAIN v.ros \ {c} : \E n \in v.ros[d] : NickKey[n] = k

LEMMA ListsLead ==
  ASSUME NEW c \in Chan, NEW M, NEW s \in Seq(Nick), NEW e, NEW q \in Seq(Msgs),
         Cut(q, c, s, e), \A i, j \in 1..Len(s) : s[i] = s[j] => i = j,
         {s[i] : i \in 1..Len(s)} = M,
         NEW v, Good(v), c \in DOMAIN v.ros, v.eon = TRUE, v.ros[c] \subseteq M,
         KeyInj(NamesOf(v) \cup M), NEW z, z = View(v.me, [v.ros EXCEPT ![c] = M], TRUE),
         NEW T, Elsewhere(T, v, c)
  PROVE  Leads(T, q \o EndOfNames, v, z)
<1>1. PICK K \in Nat : K = Len(q)
  OBVIOUS
<1>2. PICK N \in Nat : N = Len(s)
  OBVIOUS
<1>3. /\ e \in [0..K -> 0..N] /\ e[0] = 0 /\ e[K] = N
      /\ \A i \in 1..K :
           /\ q[i].cmd = "353" /\ q[i].chan = c /\ e[i - 1] <= e[i]
           /\ Len(q[i].list) = e[i] - e[i - 1]
           /\ \A j \in 1..Len(q[i].list) : q[i].list[j].nick = s[e[i - 1] + j]
  BY <1>1, <1>2 DEF Cut
<1>4. PICK X : X = [i \in 0..K |-> {s[j] : j \in 1..e[i]}]
  OBVIOUS
<1>5. X[0] = {} /\ X[K] = M /\ \A i \in 0..K : X[i] \subseteq M /\ X[i] \in SUBSET Nick
  <2>1. \A i \in 0..K : e[i] \in 0..N /\ X[i] = {s[j] : j \in 1..e[i]}
    BY <1>3, <1>4
  <2>2. X[0] = {} /\ X[K] = M
    <3>1. 0 \in 0..K /\ K \in 0..K
      OBVIOUS
    <3>2. X[0] = {s[j] : j \in 1..e[0]} /\ X[K] = {s[j] : j \in 1..e[K]}
      BY <2>1, <3>1
    <3>3. e[0] = 0 /\ e[K] = N
      BY <1>3
    <3>4. X[0] = {}
      BY <3>2, <3>3
    <3> QED BY <1>2, <3>2, <3>3, <3>4
  <2>3. \A j \in 1..N : s[j] \in M /\ s[j] \in Nick
    BY <1>2
  <2>4. ASSUME NEW i \in 0..K PROVE X[i] \subseteq M /\ X[i] \in SUBSET Nick
    <3>1. PICK n \in 0..N : n = e[i] /\ X[i] = {s[j] : j \in 1..n}
      BY <2>1
    <3>2. \A j \in 1..n : j \in 1..N
      OBVIOUS
    <3> QED BY <2>3, <3>1, <3>2
  <2> QED BY <2>2, <2>4
<1>6. PICK f : f = [i \in 0..K |-> IF i = 0 THEN v ELSE View(v.me, [v.ros EXCEPT ![c] = X[i]], FALSE)]
  OBVIOUS
<1>7. f[0] = v /\ \A i \in 0..K : i # 0 => f[i] = View(v.me, [v.ros EXCEPT ![c] = X[i]], FALSE)
  BY <1>6
<1>8. ASSUME NEW i \in 0..K, i # 0
      PROVE  /\ Good(f[i]) /\ f[i].me = v.me /\ f[i].eon = FALSE /\ DOMAIN f[i].ros = DOMAIN v.ros
             /\ f[i].ros[c] = X[i] /\ \A d \in DOMAIN v.ros \ {c} : f[i].ros[d] = v.ros[d]
  <2>1. PICK x : x = f[i]
    OBVIOUS
  <2>2. PICK Y : Y = X[i]
    OBVIOUS
  <2>3. Y \in SUBSET Nick /\ NamesOf(v) \cup Y \subseteq NamesOf(v) \cup M
    BY <1>5, <2>2
  <2>4. KeyInj(NamesOf(v) \cup Y)
    BY <2>3, KeyInjSub
  <2>5. PICK r : r = [v.ros EXCEPT ![c] = Y]
    OBVIOUS
  <2>6. /\ r \in [DOMAIN v.ros -> SUBSET Nick] /\ DOMAIN r = DOMAIN v.ros /\ r[c] = Y
        /\ \A d \in DOMAIN v.ros \ {c} : r[d] = v.ros[d]
    BY <2>3, <2>5 DEF Good
  <2>7. x = View(v.me, r, FALSE)
    BY <1>7, <1>8, <2>1, <2>2, <2>5
  <2>8. x.me = v.me /\ x.ros = r /\ x.eon = FALSE /\ x = View(v.me, x.ros, x.eon)
    BY <2>7 DEF View
  <2>9. x.eon \in BOOLEAN
    BY <2>8
  <2>10. Good(x)
    BY <2>3, <2>4, <2>6, <2>8, <2>9, GoodWith, ZenonT(30)
  <2> QED BY <2>1, <2>2, <2>6, <2>8, <2>10
<1>9. ASSUME NEW i \in 1..K
      PROVE  /\ Distinct(q[i].list)
             /\ Named(q[i].list) \cup X[i - 1] = X[i]
             /\ Named(q[i].list) \cap X[i - 1] = {}
  <2>1. PICK l : l = q[i].list
    OBVIOUS
  <2>2. PICK a \in 0..N : a = e[i - 1]
    <3>1. i - 1 \in 0..K
      OBVIOUS
    <3> QED BY <1>3, <3>1
  <2>3. PICK b \in 0..N : b = e[i]
    BY <1>3
  <2>4. a <= b /\ Len(l) = b - a /\ \A j \in 1..Len(l) : l[j].nick = s[a + j]
    BY <1>3, <2>1, <2>2, <2>3
  <2>5. X[i] = {s[j] : j \in 1..b} /\ X[i - 1] = {s[j] : j \in 1..a}
    BY <1>4, <2>2, <2>3
  <2>6. \A j \in 1..Len(l) : a + j \in 1..b /\ a + j \in 1..N /\ a + j \notin 1..a
    BY <2>4
  <2>7. Distinct(l)
    <3> SUFFICES ASSUME NEW j \in 1..Len(l), NEW k \in 1..Len(l), l[j].nick = l[k].nick
                 PROVE  j = k
      BY DEF Distinct
    <3>1. s[a + j] = s[a + k]
      BY <2>4
    <3>2. a + j = a + k
      BY <1>2, <2>6, <3>1
    <3> QED BY <2>4, <3>2
  <2>8. \A x : x \in Named(l) <=> \E j \in 1..Len(l) : x = s[a + j]
    BY <2>4 DEF Named
  <2>9. ASSUME NEW j \in 1..b, j \notin 1..a PROVE s[j] \in Named(l)
    <3>1. PICK k : k = j - a
      OBVIOUS
    <3>2. k \in 1..Len(l) /\ a + k = j
      BY <2>4, <2>9, <3>1
    <3> QED BY <2>8, <3>2
  <2>10. Named(l) \cap X[i - 1] = {}
    BY <1>2, <2>5, <2>6, <2>8
  <2>11. Named(l) \cup X[i - 1] = X[i]
    <3>1. X[i - 1] \subseteq X[i]
      BY <2>4, <2>5
    <3>2. Named(l) \subseteq X[i]
      BY <2>5, <2>6, <2>8
    <3>3. X[i] \subseteq Named(l) \cup X[i - 1]
      BY <2>5, <2>9
    <3> QED BY <3>1, <3>2, <3>3
  <2> QED BY <2>1, <2>7, <2>10, <2>11
<1>a. ASSUME NEW x, DOMAIN x.ros = DOMAIN v.ros, \A d \in DOMAIN v.ros \ {c} : x.ros[d] = v.ros[d]
      PROVE  \A k \in T : Shares(x, k)
  <2> SUFFICES ASSUME NEW k \in T PROVE Shares(x, k)
    OBVIOUS
  <2>1. PICK d \in DOMAIN v.ros \ {c} : \E n \in v.ros[d] : NickKey[n] = k
    BY DEF Elsewhere
  <2> QED BY <1>a, <2>1 DEF Shares
<1>10. ASSUME NEW i \in 1..K PROVE Step(T, f[i - 1], q[i], f[i])
  <2>1. /\ i \in 0..K /\ i - 1 \in 0..K /\ i # 0
    OBVIOUS
  <2>2. Good(f[i])
    BY <1>8, <2>1
  <2>3. PICK x : x = f[i - 1]
    OBVIOUS
  <2>4. /\ c \in DOMAIN x.ros /\ x.me = v.me
        /\ [x.ros EXCEPT ![c] = X[i]] = [v.ros EXCEPT ![c] = X[i]]
        /\ x.eon \in BOOLEAN
        /\ x.eon => i - 1 = 0
        /\ ~x.eon => x.ros[c] = X[i - 1]
    <3>1. CASE i - 1 = 0
      BY <1>7, <2>3, <3>1
    <3>2. CASE i - 1 # 0
      <4>1. /\ Good(x) /\ x.me = v.me /\ x.eon = FALSE /\ DOMAIN x.ros = DOMAIN v.ros
            /\ x.ros[c] = X[i - 1] /\ \A d \in DOMAIN v.ros \ {c} : x.ros[d] = v.ros[d]
        BY <1>8, <2>1, <2>3, <3>2
      <4>2. [x.ros EXCEPT ![c] = X[i]] = [v.ros EXCEPT ![c] = X[i]]
        BY <4>1
      <4> QED BY <3>2, <4>1, <4>2
    <3> QED BY <3>1, <3>2
  <2>5. PICK l : l = q[i].list
    OBVIOUS
  <2>6. Distinct(l) /\ Named(l) \cup X[i - 1] = X[i] /\ Named(l) \cap X[i - 1] = {}
    BY <1>9, <2>5
  <2>7. f[i] = View(x.me, [x.ros EXCEPT ![c] = X[i]], FALSE)
    BY <1>7, <2>1, <2>4
  <2>8. (IF x.eon THEN {} ELSE x.ros[c]) \cup Named(l) = X[i]
    BY <1>5, <2>4, <2>6
  <2>9. x.eon \/ Named(l) \cap x.ros[c] = {}
    BY <2>4, <2>6
  <2>10. [x.ros EXCEPT ![c] = (IF x.eon THEN {} ELSE @) \cup Named(l)] = [x.ros EXCEPT ![c] = X[i]]
    BY <2>4, <2>8
  <2>11. Lists(x, c, l, f[i])
    BY <2>4, <2>6, <2>7, <2>9, <2>10 DEF Lists
  <2>12. q[i].cmd = "353" /\ q[i].chan = c
    BY <1>3
  <2>13. Tells(x, q[i], f[i])
    BY <2>5, <2>11, <2>12 DEF Tells
  <2>14. x.eon => x.ros = v.ros
    BY <1>7, <2>1, <2>3, <2>4
  <2>15. \A k \in T : Shares(f[i], k)
    BY <1>8, <1>a, <2>1
  <2>16. Spares(T, x, q[i], f[i])
    BY <2>12, <2>14, <2>15 DEF Spares, Elsewhere
  <2> QED BY <2>2, <2>3, <2>13, <2>16 DEF Step
<1>11. Leads(T, q, v, f[K])
  BY <1>1, <1>7, <1>10 DEF Leads
<1>12. PICK y : y = f[K]
  OBVIOUS
<1>13. Good(z)
  <2>1. M \in SUBSET Nick
    BY <1>5
  <2>2. PICK r : r = [v.ros EXCEPT ![c] = M]
    OBVIOUS
  <2>3. /\ r \in [DOMAIN v.ros -> SUBSET Nick] /\ r[c] = M
        /\ \A d \in DOMAIN v.ros \ {c} : r[d] = v.ros[d]
    BY <2>1, <2>2 DEF Good
  <2>4. PICK x : x = z
    OBVIOUS
  <2>5. x.ros = r /\ x.eon = TRUE /\ x = View(v.me, x.ros, x.eon)
    BY <2>2, <2>4 DEF View
  <2>6. PICK S : S = M
    OBVIOUS
  <2>7. /\ x.eon \in BOOLEAN /\ x.ros \in [DOMAIN v.ros -> SUBSET Nick] /\ x.ros[c] = S
        /\ \A d \in DOMAIN v.ros \ {c} : x.ros[d] = v.ros[d]
    BY <2>3, <2>5, <2>6
  <2>8. S \in SUBSET Nick /\ KeyInj(NamesOf(v) \cup S)
    BY <2>1, <2>6
  <2>9. x = View(v.me, x.ros, x.eon)
    BY <2>5
  <2>10. Good(x)
    BY <2>7, <2>8, <2>9, GoodWith, ZenonT(30)
  <2> QED BY <2>4, <2>10
<1>14. z = View(y.me, y.ros, TRUE)
  <2>1. CASE K = 0
    <3>1. y = v /\ M = {} /\ v.ros[c] = M
      BY <1>5, <1>7, <1>12, <2>1
    <3>2. [v.ros EXCEPT ![c] = M] = v.ros
      BY <3>1 DEF Good
    <3> QED BY <3>1, <3>2
  <2>2. CASE K # 0
    <3>1. K \in 0..K /\ X[K] = M
      BY <1>5
    <3>2. f[K] = View(v.me, [v.ros EXCEPT ![c] = X[K]], FALSE)
      BY <1>7, <2>2, <3>1
    <3>3. y = View(v.me, [v.ros EXCEPT ![c] = M], FALSE)
      BY <1>12, <3>1, <3>2
    <3>4. y.me = v.me /\ y.ros = [v.ros EXCEPT ![c] = M]
      BY <3>3 DEF View
    <3> QED BY <3>4
  <2> QED BY <2>1, <2>2
<1>15. PICK m : m = [cmd |-> "366"]
  OBVIOUS
<1>16. m \in Msgs /\ Step(T, y, m, z)
  <2>1. m \in [cmd : {"366", "005"}] /\ m.cmd = "366"
    BY <1>15
  <2>2. Tells(y, m, z)
    BY <1>14, <2>1 DEF Tells
  <2>3. z.ros = [v.ros EXCEPT ![c] = M]
    BY DEF View
  <2>4. DOMAIN z.ros = DOMAIN v.ros /\ \A d \in DOMAIN v.ros \ {c} : z.ros[d] = v.ros[d]
    BY <2>3
  <2>5. \A k \in T : Shares(z, k)
    BY <1>a, <2>4
  <2>6. Spares(T, y, m, z)
    BY <2>1, <2>5 DEF Spares
  <2> QED BY <1>13, <2>1, <2>2, <2>6 DEF Msgs, Step
<1>17. Good(y)
  BY <1>11, <1>12, LeadsTo
<1>18. Leads(T, <<m>>, y, z)
  BY <1>16, <1>17, LeadsOne
<1>19. EndOfNames = <<m>> /\ <<m>> \in Seq(Msgs)
  BY <1>15, <1>16 DEF EndOfNames
<1> QED BY <1>11, <1>12, <1>18, <1>19, LeadsOn

(* For a channel that we are not in.                                        *)
LEMMA ListsIgnored ==
  ASSUME NEW c \in Chan, NEW s \in Seq(Nick), NEW e, NEW q \in Seq(Msgs),
         Cut(q, c, s, e), \A i, j \in 1..Len(s) : s[i] = s[j] => i = j,
         NEW v, Good(v), c \notin DOMAIN v.ros, v.eon = TRUE
  PROVE  Leads({}, q \o EndOfNames, v, v)
<1>1. PICK w : w = [i \in 0..Len(q) |-> v]
  OBVIOUS
<1>2. ASSUME NEW i \in 1..Len(q) PROVE Distinct(q[i].list)
  <2>1. PICK l : l = q[i].list
    OBVIOUS
  <2>2. PICK a \in 0..Len(s) : a = e[i - 1]
    <3>1. i - 1 \in 0..Len(q)
      OBVIOUS
    <3> QED BY <3>1 DEF Cut
  <2>3. PICK b \in 0..Len(s) : b = e[i]
    BY DEF Cut
  <2>4. a <= b /\ Len(l) = b - a /\ \A j \in 1..Len(l) : l[j].nick = s[a + j]
    BY <2>1, <2>2, <2>3 DEF Cut
  <2>5. \A j \in 1..Len(l) : a + j \in 1..Len(s)
    BY <2>4
  <2>6. ASSUME NEW j \in 1..Len(l), NEW k \in 1..Len(l), l[j].nick = l[k].nick PROVE j = k
    <3>1. s[a + j] = s[a + k]
      BY <2>4, <2>6
    <3>2. a + j = a + k
      BY <2>5, <3>1
    <3> QED BY <2>4, <3>2
  <2> QED BY <2>1, <2>6 DEF Distinct
<1>3. ASSUME NEW i \in 1..Len(q) PROVE Step({}, w[i - 1], q[i], w[i])
  <2>1. w[i - 1] = v /\ w[i] = v
    BY <1>1
  <2>2. q[i].cmd = "353" /\ q[i].chan = c
    BY DEF Cut
  <2> QED BY <1>2, <2>1, <2>2 DEF Step, Tells, Lists, Spares
<1>4. Leads({}, q, v, v)
  <2>1. w[0] = v /\ w[Len(q)] = v
    BY <1>1
  <2> QED BY <1>3, <2>1 DEF Leads
<1>5. PICK m : m = [cmd |-> "366"]
  OBVIOUS
<1>6. m \in Msgs /\ Step({}, v, m, v)
  <2>1. m \in [cmd : {"366", "005"}] /\ m.cmd = "366"
    BY <1>5
  <2>2. v = View(v.me, v.ros, TRUE)
    BY DEF Good
  <2> QED BY <2>1, <2>2 DEF Msgs, Step, Tells, Spares
<1>7. Leads({}, <<m>>, v, v)
  BY <1>6, LeadsOne
<1>8. EndOfNames = <<m>> /\ <<m>> \in Seq(Msgs)
  BY <1>5, <1>6 DEF EndOfNames
<1> QED BY <1>4, <1>7, <1>8, LeadsOn

-----------------------------------------------------------------------------
(* The server *)

(* Nobody is on a channel twice, under nicknames that are the same to the   *)
(* maps.                                                                    *)
SrvOk ==
  /\ on = [c \in Chan |-> on[c]]
  /\ \A c \in Chan : /\ on[c] = [n \in DOMAIN on[c] |-> on[c][n]]
                     /\ DOMAIN on[c] \subseteq Nick /\ IsFiniteSet(DOMAIN on[c])
                     /\ \A n \in DOMAIN on[c] : on[c][n] \subseteq Sym
  /\ self \in Nick \cup {NoNick}
  /\ KeyInj(Online)

(* A step of the server keeps us informed.                                  *)
Informs ==
  /\ SrvOk'
  /\ self \in Nick <=> self' \in Nick
  /\ \E q \in Seq(Msgs) : /\ inq' = inq \o q
                          /\ \A i \in 1..Len(q) : q[i].cmd # "005"
                          /\ self \in Nick => Leading(q, SrvView, SrvView')
                          /\ self \notin Nick => q = <<>>

LEMMA OnlineIs ==
  ASSUME NEW x
  PROVE  x \in Online <=> (\E c \in Chan : x \in DOMAIN on[c]) \/ (x = self /\ x # NoNick)
<1>1. PICK S : S = {DOMAIN on[c] : c \in Chan}
  OBVIOUS
<1>2. PICK T : T = {self} \ {NoNick}
  OBVIOUS
<1>3. x \in T <=> x = self /\ x # NoNick
  BY <1>2
<1>4. x \in UNION S <=> \E c \in Chan : x \in DOMAIN on[c]
  BY <1>1
<1>5. Online = (UNION S) \cup T
  BY <1>1, <1>2 DEF Online
<1>6. PICK U : U = UNION S
  OBVIOUS
<1>7. x \in Online <=> x \in U \/ x \in T
  BY <1>5, <1>6
<1> QED BY <1>3, <1>4, <1>6, <1>7, Zenon

LEMMA OnlineNext ==
  ASSUME NEW x
  PROVE  x \in Online' <=> (\E c \in Chan : x \in DOMAIN on'[c]) \/ (x = self' /\ x # NoNick)
<1>1. PICK S : S = {DOMAIN on'[c] : c \in Chan}
  OBVIOUS
<1>2. PICK T : T = {self'} \ {NoNick}
  OBVIOUS
<1>3. x \in T <=> x = self' /\ x # NoNick
  BY <1>2
<1>4. x \in UNION S <=> \E c \in Chan : x \in DOMAIN on'[c]
  BY <1>1
<1>5. Online' = (UNION S) \cup T
  BY <1>1, <1>2 DEF Online
<1>6. PICK U : U = UNION S
  OBVIOUS
<1>7. x \in Online' <=> x \in U \/ x \in T
  BY <1>5, <1>6
<1> QED BY <1>3, <1>4, <1>6, <1>7, Zenon

LEMMA ViewNow ==
  ASSUME SrvOk
  PROVE  /\ SrvView.me = self /\ SrvView.eon = TRUE
         /\ SrvView = View(SrvView.me, SrvView.ros, SrvView.eon)
         /\ SrvView.ros = [c \in DOMAIN SrvView.ros |-> DOMAIN on[c]]
         /\ \A c : c \in DOMAIN SrvView.ros <=> c \in Chan /\ self \in DOMAIN on[c]
         /\ self \in Nick => Good(SrvView) /\ NamesOf(SrvView) \subseteq Online
<1>1. PICK v : v = SrvView
  OBVIOUS
<1>2. v.me = self /\ v.eon = TRUE /\ v.ros = [c \in {d \in Chan : self \in DOMAIN on[d]} |-> DOMAIN on[c]]
  BY <1>1 DEF SrvView, View, In_
<1>3. v = View(v.me, v.ros, v.eon)
  BY <1>1, <1>2 DEF SrvView, In_
<1>4. DOMAIN v.ros = {d \in Chan : self \in DOMAIN on[d]} /\ v.ros = [c \in DOMAIN v.ros |-> DOMAIN on[c]]
  BY <1>2
<1>5. ASSUME self \in Nick PROVE Good(v) /\ NamesOf(v) \subseteq Online
  <2>1. self # NoNick
    BY <1>5, TrackAssumption
  <2>2. NamesOf(v) \subseteq Online
    <3> SUFFICES ASSUME NEW x \in NamesOf(v) PROVE x \in Online
      OBVIOUS
    <3>1. x = self \/ \E c \in Chan : x \in DOMAIN on[c]
      BY <1>2, <1>4 DEF NamesOf
    <3> QED BY <2>1, <3>1, OnlineIs
  <2>3. KeyInj(NamesOf(v))
    BY <2>2, KeyInjSub DEF SrvOk
  <2>4. v.ros \in [DOMAIN v.ros -> SUBSET Nick]
    <3>1. \A c \in DOMAIN v.ros : c \in Chan /\ v.ros[c] = DOMAIN on[c]
      BY <1>4
    <3>2. \A c \in Chan : DOMAIN on[c] \in SUBSET Nick
      BY DEF SrvOk
    <3>3. \A c \in DOMAIN v.ros : v.ros[c] \in SUBSET Nick
      BY <3>1, <3>2
    <3>4. v.ros = [c \in DOMAIN v.ros |-> v.ros[c]]
      BY <1>4
    <3> QED BY <3>3, <3>4
  <2>5. v.eon \in BOOLEAN
    BY <1>2
  <2> QED BY <1>2, <1>3, <1>4, <1>5, <2>2, <2>3, <2>4, <2>5 DEF Good
<1> QED BY <1>1, <1>2, <1>3, <1>4, <1>5

LEMMA ViewNext ==
  ASSUME SrvOk'
  PROVE  /\ SrvView'.me = self' /\ SrvView'.eon = TRUE
         /\ SrvView' = View(SrvView'.me, SrvView'.ros, SrvView'.eon)
         /\ SrvView'.ros = [c \in DOMAIN SrvView'.ros |-> DOMAIN on'[c]]
         /\ \A c : c \in DOMAIN SrvView'.ros <=> c \in Chan /\ self' \in DOMAIN on'[c]
         /\ self' \in Nick => Good(SrvView')
<1>1. PICK v : v = SrvView'
  OBVIOUS
<1>2. v.me = self' /\ v.eon = TRUE
      /\ v.ros = [c \in {d \in Chan : self' \in DOMAIN on'[d]} |-> DOMAIN on'[c]]
  BY <1>1 DEF SrvView, View, In_
<1>3. v = View(v.me, v.ros, v.eon)
  BY <1>1, <1>2 DEF SrvView, In_
<1>4. /\ DOMAIN v.ros = {d \in Chan : self' \in DOMAIN on'[d]}
      /\ v.ros = [c \in DOMAIN v.ros |-> DOMAIN on'[c]]
  BY <1>2
<1>5. ASSUME self' \in Nick PROVE Good(v)
  <2>1. self' # NoNick
    BY <1>5, TrackAssumption
  <2>2. NamesOf(v) \subseteq Online'
    <3> SUFFICES ASSUME NEW x \in NamesOf(v) PROVE x \in Online'
      OBVIOUS
    <3>1. x = self' \/ \E c \in Chan : x \in DOMAIN on'[c]
      BY <1>2, <1>4 DEF NamesOf
    <3> QED BY <2>1, <3>1, OnlineNext
  <2>3. KeyInj(Online')
    BY DEF SrvOk, KeyInj
  <2>4. KeyInj(NamesOf(v))
    BY <2>2, <2>3, KeyInjSub
  <2>5. v.ros \in [DOMAIN v.ros -> SUBSET Nick]
    <3>1. \A c \in DOMAIN v.ros : c \in Chan /\ v.ros[c] = DOMAIN on'[c]
      BY <1>4
    <3>2. \A c \in Chan : DOMAIN on'[c] \in SUBSET Nick
      BY DEF SrvOk
    <3>3. \A c \in DOMAIN v.ros : v.ros[c] \in SUBSET Nick
      BY <3>1, <3>2
    <3>4. v.ros = [c \in DOMAIN v.ros |-> v.ros[c]]
      BY <1>4
    <3> QED BY <3>3, <3>4
  <2>6. v.eon \in BOOLEAN
    BY <1>2
  <2> QED BY <1>2, <1>3, <1>4, <1>5, <2>4, <2>5, <2>6 DEF Good
<1> QED BY <1>1, <1>2, <1>3, <1>4, <1>5

(* A step of the server that does not concern us, and one that does.        *)
LEMMA SendsNone ==
  ASSUME SrvOk, SrvOk', inq \in Seq(Msgs), inq' = inq, self' = self,
         self \in Nick => SrvView' = SrvView
  PROVE  Informs
<1>1. PICK q : q = <<>>
  OBVIOUS
<1>2. q \in Seq(Msgs) /\ inq \o q = inq /\ Len(q) = 0
  BY <1>1
<1>3. ASSUME self \in Nick PROVE Leading(q, SrvView, SrvView')
  <2>1. Good(SrvView) /\ SrvView' = SrvView
    BY <1>3, ViewNow
  <2> QED BY <1>1, <2>1, LeadsNone DEF Leading
<1>4. \E p \in Seq(Msgs) : /\ inq' = inq \o p
                           /\ \A i \in 1..Len(p) : p[i].cmd # "005"
                           /\ self \in Nick => Leading(p, SrvView, SrvView')
                           /\ self \notin Nick => p = <<>>
  <2>1. inq' = inq \o q /\ \A i \in 1..Len(q) : q[i].cmd # "005"
    BY <1>2
  <2> QED BY <1>1, <1>2, <1>3, <2>1
<1>5. self \in Nick <=> self' \in Nick
  OBVIOUS
<1> QED BY <1>4, <1>5 DEF Informs

LEMMA SendsOne ==
  ASSUME SrvOk, SrvOk', inq \in Seq(Msgs), NEW m \in Msgs, m.cmd \notin {"005", "353"},
         inq' = inq \o <<m>>, self \in Nick, self' \in Nick, Tells(SrvView, m, SrvView')
  PROVE  Informs
<1>1. PICK q : q = <<m>>
  OBVIOUS
<1>2. q \in Seq(Msgs) /\ Len(q) = 1 /\ q[1] = m
  BY <1>1
<1>3. PICK v, z : v = SrvView /\ z = SrvView'
  OBVIOUS
<1>4. Leading(q, v, z)
  <2> SUFFICES ASSUME NEW T, \A k \in T : Shares(z, k) PROVE Leads(T, q, v, z)
    BY DEF Leading
  <2>1. Step(T, v, m, z)
    BY <1>3, ViewNext DEF Step, Spares
  <2> QED BY <1>1, <1>3, <2>1, ViewNow, LeadsOne
<1>5. self \notin Nick => q = <<>>
  OBVIOUS
<1>6. \A i \in 1..Len(q) : q[i].cmd # "005"
  BY <1>2
<1>7. \E p \in Seq(Msgs) : /\ inq' = inq \o p
                           /\ \A i \in 1..Len(p) : p[i].cmd # "005"
                           /\ self \in Nick => Leading(p, SrvView, SrvView')
                           /\ self \notin Nick => p = <<>>
  BY <1>1, <1>2, <1>3, <1>4, <1>5, <1>6
<1> QED BY <1>7 DEF Informs

(* n parts, or is kicked.                                                   *)
LEMMA LeaveInforms ==
  ASSUME SrvOk, inq \in Seq(Msgs), NEW n \in Nick, NEW c \in Chan,
         NEW cmd \in {"PART", "KICK"}, SrvLeave(cmd, n, c)
  PROVE  Informs
<1>1. /\ n \in DOMAIN on[c] /\ self' = self
      /\ on' = [on EXCEPT ![c] = Del(@, n)]
      /\ IF self \in DOMAIN on[c] THEN inq' = inq \o <<Msg(cmd, n, c)>> ELSE inq' = inq
  BY DEF SrvLeave, SendIf, In_
<1>2. /\ \A d \in Chan \ {c} : on'[d] = on[d]
      /\ on'[c] = Del(on[c], n) /\ on' = [d \in Chan |-> on'[d]]
  BY <1>1 DEF SrvOk
<1>3. /\ DOMAIN on'[c] = DOMAIN on[c] \ {n}
      /\ \A x \in DOMAIN on'[c] : on'[c][x] = on[c][x]
      /\ on'[c] = [x \in DOMAIN on'[c] |-> on'[c][x]]
  BY <1>2 DEF Del, Restrict
<1>4. SrvOk'
  <2>1. IsFiniteSet(DOMAIN on'[c])
    BY <1>3, FS_Subset DEF SrvOk
  <2>2. KeyInj(Online')
    <3>1. Online' \subseteq Online
      <4> SUFFICES ASSUME NEW x \in Online' PROVE x \in Online
        OBVIOUS
      <4> QED BY <1>1, <1>2, <1>3, OnlineIs, OnlineNext
    <3> QED BY <3>1, KeyInjSub DEF SrvOk
  <2>3. KeyInj(Online)'
    BY <2>2 DEF KeyInj
  <2>4. \A d \in Chan : /\ on'[d] = [x \in DOMAIN on'[d] |-> on'[d][x]]
                        /\ DOMAIN on'[d] \subseteq Nick /\ IsFiniteSet(DOMAIN on'[d])
                        /\ \A x \in DOMAIN on'[d] : on'[d][x] \subseteq Sym
    <3> SUFFICES ASSUME NEW d \in Chan
                 PROVE  /\ on'[d] = [x \in DOMAIN on'[d] |-> on'[d][x]]
                        /\ DOMAIN on'[d] \subseteq Nick /\ IsFiniteSet(DOMAIN on'[d])
                        /\ \A x \in DOMAIN on'[d] : on'[d][x] \subseteq Sym
      OBVIOUS
    <3>1. CASE d = c
      BY <1>3, <2>1, <3>1 DEF SrvOk
    <3>2. CASE d # c
      BY <1>2, <3>2 DEF SrvOk
    <3> QED BY <3>1, <3>2
  <2> QED BY <1>1, <1>2, <2>3, <2>4 DEF SrvOk
<1>5. PICK v : v = SrvView
  OBVIOUS
<1>6. PICK z : z = SrvView'
  OBVIOUS
<1>7. /\ v.me = self /\ v.eon = TRUE /\ v = View(v.me, v.ros, v.eon)
      /\ v.ros = [d \in DOMAIN v.ros |-> DOMAIN on[d]]
      /\ \A d : d \in DOMAIN v.ros <=> d \in Chan /\ self \in DOMAIN on[d]
  BY <1>5, ViewNow
<1>8. /\ z.me = self /\ z.eon = TRUE /\ z = View(z.me, z.ros, z.eon)
      /\ z.ros = [d \in DOMAIN z.ros |-> DOMAIN on'[d]]
      /\ \A d : d \in DOMAIN z.ros <=> d \in Chan /\ self \in DOMAIN on'[d]
  BY <1>1, <1>4, <1>6, ViewNext
<1>9. CASE self \notin DOMAIN on[c]
  <2>1. \A d : d \in DOMAIN z.ros <=> d \in DOMAIN v.ros
    BY <1>2, <1>3, <1>7, <1>8, <1>9
  <2>2. c \notin DOMAIN v.ros
    BY <1>7, <1>9
  <2>3. z.ros = v.ros
    BY <1>2, <1>7, <1>8, <2>1, <2>2
  <2>4. z = v
    BY <1>7, <1>8, <2>3
  <2> QED BY <1>1, <1>4, <1>5, <1>6, <1>9, <2>4, SendsNone
<1>10. CASE self \in DOMAIN on[c]
  <2>1. PICK m : m = Msg(cmd, n, c)
    OBVIOUS
  <2>2. m.cmd = cmd /\ m.nick = n /\ m.chan = c
    BY <2>1 DEF Msg
  <2>3. m \in [cmd : {"JOIN", "PART", "KICK"}, nick : Nick, chan : Chan]
    BY <2>1 DEF Msg
  <2>4. m \in Msgs /\ m.cmd \notin {"005", "353"}
    BY <2>2, <2>3 DEF Msgs
  <2>5. self \in Nick
    BY <1>10 DEF SrvOk
  <2>6. c \in DOMAIN v.ros /\ v.ros[c] = DOMAIN on[c] /\ n \in v.ros[c]
    BY <1>1, <1>7, <1>10
  <2>7. n \in NamesOf(v)
    BY <2>6 DEF NamesOf
  <2>8. CASE n = self
    <3>1. DOMAIN z.ros = DOMAIN v.ros \ {c}
      BY <1>2, <1>3, <1>7, <1>8, <2>6, <2>8
    <3>2. \A d \in DOMAIN z.ros : d # c /\ d \in Chan /\ v.ros[d] = DOMAIN on[d] /\ z.ros[d] = DOMAIN on'[d]
      BY <1>7, <1>8, <3>1
    <3>3. z.ros = Del(v.ros, c)
      BY <1>2, <1>8, <3>1, <3>2 DEF Del, Restrict
    <3>4. z = View(v.me, Del(v.ros, c), v.eon)
      BY <1>7, <1>8, <3>3
    <3>5. Parts(v, n, c, z)
      BY <1>7, <2>6, <2>7, <2>8, <3>4 DEF Parts
    <3>6. Tells(v, m, z)
      BY <2>2, <3>5 DEF Tells
    <3> QED BY <1>1, <1>4, <1>5, <1>6, <1>10, <2>1, <2>4, <2>5, <3>6, SendsOne
  <2>9. CASE n # self
    <3>1. DOMAIN z.ros = DOMAIN v.ros
      <4>1. \A d \in Chan : self \in DOMAIN on'[d] <=> self \in DOMAIN on[d]
        BY <1>2, <1>3, <2>9
      <4>2. \A d : d \in DOMAIN z.ros <=> d \in DOMAIN v.ros
        BY <1>7, <1>8, <4>1
      <4> QED BY <4>2
    <3>2. \A d \in DOMAIN z.ros :
            /\ d \in Chan /\ v.ros[d] = DOMAIN on[d] /\ z.ros[d] = DOMAIN on'[d]
            /\ z.ros[d] = IF d = c THEN v.ros[c] \ {n} ELSE v.ros[d]
      BY <1>2, <1>3, <1>7, <1>8, <2>6, <3>1
    <3>3. z.ros = [v.ros EXCEPT ![c] = @ \ {n}]
      BY <1>7, <1>8, <3>1, <3>2
    <3>4. z = View(v.me, [v.ros EXCEPT ![c] = @ \ {n}], v.eon)
      BY <1>7, <1>8, <3>3
    <3>5. Parts(v, n, c, z)
      BY <1>7, <2>6, <2>7, <2>9, <3>4 DEF Parts
    <3>6. Tells(v, m, z)
      BY <2>2, <3>5 DEF Tells
    <3> QED BY <1>1, <1>4, <1>5, <1>6, <1>10, <2>1, <2>4, <2>5, <3>6, SendsOne
  <2> QED BY <2>8, <2>9
<1> QED BY <1>9, <1>10

(* A member gains or loses a prefix.                                        *)
LEMMA ModeInforms ==
  ASSUME SrvOk, inq \in Seq(Msgs), NEW n \in Nick, NEW c \in Chan,
         NEW s \in Sym, NEW enab \in BOOLEAN, SrvMode(c, n, s, enab)
  PROVE  Informs
<1>1. PICK m : m = [cmd |-> "MODE", chan |-> c, nick |-> n, sym |-> s, enab |-> enab]
  OBVIOUS
<1>2. /\ n \in DOMAIN on[c] /\ self' = self
      /\ on' = [on EXCEPT ![c][n] = IF enab THEN @ \cup {s} ELSE @ \ {s}]
      /\ IF self \in DOMAIN on[c] THEN inq' = inq \o <<m>> ELSE inq' = inq
  BY <1>1 DEF SrvMode, SendIf, In_
<1>3. /\ \A d \in Chan : DOMAIN on'[d] = DOMAIN on[d]
      /\ on' = [d \in Chan |-> on'[d]]
  BY <1>2 DEF SrvOk
<1>4. ASSUME NEW d \in Chan
      PROVE  /\ on'[d] = [x \in DOMAIN on'[d] |-> on'[d][x]]
             /\ \A x \in DOMAIN on'[d] : on'[d][x] \subseteq Sym
  <2>1. /\ on[d] = [x \in DOMAIN on[d] |-> on[d][x]]
        /\ \A x \in DOMAIN on[d] : on[d][x] \subseteq Sym
    BY DEF SrvOk
  <2>2. CASE d # c
    BY <1>2, <2>1, <2>2 DEF SrvOk
  <2>3. CASE d = c
    <3>1. PICK T : T = IF enab THEN on[c][n] \cup {s} ELSE on[c][n] \ {s}
      OBVIOUS
    <3>2. T \subseteq Sym
      BY <1>2, <2>1, <2>3, <3>1
    <3>3. on'[c] = [on[c] EXCEPT ![n] = T]
      BY <1>2, <3>1 DEF SrvOk
    <3>4. PICK p : p = on'[c]
      OBVIOUS
    <3>5. p = [x \in DOMAIN on[c] |-> IF x = n THEN T ELSE on[c][x]]
      BY <3>3, <3>4
    <3>6. p = [x \in DOMAIN p |-> p[x]] /\ \A x \in DOMAIN p : p[x] \subseteq Sym
      BY <2>1, <2>3, <3>2, <3>5
    <3> QED BY <2>3, <3>4, <3>6
  <2> QED BY <2>2, <2>3
<1>5. SrvOk'
  <2>1. KeyInj(Online')
    <3>1. Online' \subseteq Online
      <4> SUFFICES ASSUME NEW x \in Online' PROVE x \in Online
        OBVIOUS
      <4> QED BY <1>2, <1>3, OnlineIs, OnlineNext
    <3> QED BY <3>1, KeyInjSub DEF SrvOk
  <2>2. KeyInj(Online)'
    BY <2>1 DEF KeyInj
  <2>3. \A d \in Chan : DOMAIN on'[d] \subseteq Nick /\ IsFiniteSet(DOMAIN on'[d])
    BY <1>3 DEF SrvOk
  <2> QED BY <1>2, <1>3, <1>4, <2>2, <2>3 DEF SrvOk
<1>6. SrvView' = SrvView
  <2>1. PICK v : v = SrvView
    OBVIOUS
  <2>2. PICK z : z = SrvView'
    OBVIOUS
  <2>3. /\ v.me = self /\ v.eon = TRUE /\ v = View(v.me, v.ros, v.eon)
        /\ v.ros = [d \in DOMAIN v.ros |-> DOMAIN on[d]]
        /\ \A d : d \in DOMAIN v.ros <=> d \in Chan /\ self \in DOMAIN on[d]
    BY <2>1, ViewNow
  <2>4. /\ z.me = self /\ z.eon = TRUE /\ z = View(z.me, z.ros, z.eon)
        /\ z.ros = [d \in DOMAIN z.ros |-> DOMAIN on'[d]]
        /\ \A d : d \in DOMAIN z.ros <=> d \in Chan /\ self \in DOMAIN on'[d]
    BY <1>2, <1>5, <2>2, ViewNext
  <2>5. z.ros = v.ros
    BY <1>3, <2>3, <2>4
  <2> QED BY <2>1, <2>2, <2>3, <2>4, <2>5
<1>7. CASE self \notin DOMAIN on[c]
  BY <1>2, <1>5, <1>6, <1>7, SendsNone
<1>8. CASE self \in DOMAIN on[c]
  <2>1. m \in [cmd : {"MODE"}, chan : Chan, nick : Nick, sym : Sym, enab : BOOLEAN]
    BY <1>1
  <2>2. m.cmd = "MODE"
    BY <1>1
  <2>3. m \in Msgs /\ m.cmd \notin {"005", "353"}
    BY <2>1, <2>2 DEF Msgs
  <2>4. self \in Nick
    BY <1>8 DEF SrvOk
  <2>5. Tells(SrvView, m, SrvView')
    BY <1>6, <2>2 DEF Tells
  <2> QED BY <1>2, <1>5, <1>8, <2>3, <2>4, <2>5, SendsOne
<1> QED BY <1>7, <1>8

(* n quits.                                                                 *)
LEMMA QuitInforms ==
  ASSUME SrvOk, inq \in Seq(Msgs), NEW n \in Nick, SrvQuit(n)
  PROVE  Informs
<1>1. PICK m : m = [cmd |-> "QUIT", nick |-> n]
  OBVIOUS
<1>2. /\ n # self /\ self' = self
      /\ on' = [c \in Chan |-> Del(on[c], n)]
      /\ IF Common(n) THEN inq' = inq \o <<m>> ELSE inq' = inq
  BY <1>1 DEF SrvQuit, SendIf
<1>3. ASSUME NEW c \in Chan
      PROVE  /\ DOMAIN on'[c] = DOMAIN on[c] \ {n}
             /\ \A x \in DOMAIN on'[c] : on'[c][x] = on[c][x]
             /\ on'[c] = [x \in DOMAIN on'[c] |-> on'[c][x]]
  BY <1>2 DEF Del, Restrict
<1>4. SrvOk'
  <2>1. KeyInj(Online')
    <3>1. Online' \subseteq Online
      <4> SUFFICES ASSUME NEW x \in Online' PROVE x \in Online
        OBVIOUS
      <4> QED BY <1>2, <1>3, OnlineIs, OnlineNext
    <3> QED BY <3>1, KeyInjSub DEF SrvOk
  <2>2. KeyInj(Online)'
    BY <2>1 DEF KeyInj
  <2>3. on' = [c \in Chan |-> on'[c]]
    BY <1>2
  <2>4. ASSUME NEW c \in Chan
        PROVE  /\ on'[c] = [x \in DOMAIN on'[c] |-> on'[c][x]]
               /\ DOMAIN on'[c] \subseteq Nick /\ IsFiniteSet(DOMAIN on'[c])
               /\ \A x \in DOMAIN on'[c] : on'[c][x] \subseteq Sym
    <3>1. IsFiniteSet(DOMAIN on'[c])
      BY <1>3, FS_Subset DEF SrvOk
    <3> QED BY <1>3, <3>1 DEF SrvOk
  <2> QED BY <1>2, <2>2, <2>3, <2>4 DEF SrvOk
<1>5. PICK v : v = SrvView
  OBVIOUS
<1>6. PICK z : z = SrvView'
  OBVIOUS
<1>7. /\ v.me = self /\ v.eon = TRUE /\ v = View(v.me, v.ros, v.eon)
      /\ v.ros = [d \in DOMAIN v.ros |-> DOMAIN on[d]]
      /\ \A d : d \in DOMAIN v.ros <=> d \in Chan /\ self \in DOMAIN on[d]
  BY <1>5, ViewNow
<1>8. /\ z.me = self /\ z.eon = TRUE /\ z = View(z.me, z.ros, z.eon)
      /\ z.ros = [d \in DOMAIN z.ros |-> DOMAIN on'[d]]
      /\ \A d : d \in DOMAIN z.ros <=> d \in Chan /\ self \in DOMAIN on'[d]
  BY <1>2, <1>4, <1>6, ViewNext
<1>9. DOMAIN z.ros = DOMAIN v.ros
  <2>1. \A d \in Chan : self \in DOMAIN on'[d] <=> self \in DOMAIN on[d]
    BY <1>2, <1>3
  <2>2. \A d : d \in DOMAIN z.ros <=> d \in DOMAIN v.ros
    BY <1>7, <1>8, <2>1
  <2> QED BY <2>2
<1>10. \A d \in DOMAIN v.ros : d \in Chan /\ v.ros[d] = DOMAIN on[d] /\ z.ros[d] = v.ros[d] \ {n}
  <2> SUFFICES ASSUME NEW d \in DOMAIN v.ros
               PROVE  d \in Chan /\ v.ros[d] = DOMAIN on[d] /\ z.ros[d] = v.ros[d] \ {n}
    OBVIOUS
  <2>1. d \in Chan /\ v.ros[d] = DOMAIN on[d]
    BY <1>7
  <2>2. z.ros[d] = DOMAIN on'[d]
    BY <1>8, <1>9
  <2> QED BY <1>3, <2>1, <2>2
<1>11. z.ros = [d \in DOMAIN v.ros |-> v.ros[d] \ {n}]
  BY <1>8, <1>9, <1>10
<1>12. Common(n) <=> \E d \in DOMAIN v.ros : n \in v.ros[d]
  BY <1>7, <1>10 DEF Common, In_
<1>13. CASE ~Common(n)
  <2>1. \A d \in DOMAIN v.ros : v.ros[d] \ {n} = v.ros[d]
    BY <1>12, <1>13
  <2>2. z.ros = v.ros
    <3>1. \A d \in DOMAIN v.ros : v.ros[d] = z.ros[d]
      BY <1>10, <2>1
    <3>2. z.ros = [d \in DOMAIN v.ros |-> z.ros[d]] /\ v.ros = [d \in DOMAIN v.ros |-> v.ros[d]]
      BY <1>7, <1>8, <1>9
    <3> QED BY <3>1, <3>2
  <2>3. z = v
    BY <1>7, <1>8, <2>2
  <2> QED BY <1>2, <1>4, <1>5, <1>6, <1>13, <2>3, SendsNone
<1>14. CASE Common(n)
  <2>1. m.cmd = "QUIT" /\ m.nick = n /\ m \in [cmd : {"QUIT"}, nick : Nick]
    BY <1>1
  <2>2. m \in Msgs /\ m.cmd \notin {"005", "353"}
    BY <2>1 DEF Msgs
  <2>3. self \in Nick
    BY <1>14 DEF SrvOk, Common, In_
  <2>4. n \in NamesOf(v)
    BY <1>12, <1>14 DEF NamesOf
  <2>5. z = View(v.me, [d \in DOMAIN v.ros |-> v.ros[d] \ {n}], v.eon)
    BY <1>7, <1>8, <1>11
  <2>6. Quits(v, n, z)
    BY <1>2, <1>7, <2>4, <2>5 DEF Quits
  <2>7. Tells(v, m, z)
    BY <2>1, <2>6 DEF Tells
  <2> QED BY <1>2, <1>4, <1>5, <1>6, <1>14, <2>2, <2>3, <2>7, SendsOne
<1> QED BY <1>13, <1>14

(* n changes its nickname to p.                                             *)
LEMMA NickInforms ==
  ASSUME SrvOk, inq \in Seq(Msgs), NEW n \in Nick, NEW p \in Nick, SrvNick(n, p)
  PROVE  Informs
<1>1. PICK m : m = [cmd |-> "NICK", nick |-> n, new |-> p]
  OBVIOUS
<1>2. /\ n \in Online /\ p # n /\ \A o \in Online \ {n} : NickKey[o] # NickKey[p]
      /\ on' = [c \in Chan |-> IF n \in DOMAIN on[c] THEN Put(Del(on[c], n), p, on[c][n])
                                                     ELSE on[c]]
      /\ self' = IF n = self THEN p ELSE self
      /\ IF n = self \/ Common(n) THEN inq' = inq \o <<m>> ELSE inq' = inq
  BY <1>1 DEF SrvNick, SendIf
<1>3. ASSUME NEW c \in Chan
      PROVE  /\ DOMAIN on'[c] = IF n \in DOMAIN on[c] THEN (DOMAIN on[c] \ {n}) \cup {p}
                                                      ELSE DOMAIN on[c]
             /\ on'[c] = [x \in DOMAIN on'[c] |-> on'[c][x]]
             /\ IsFiniteSet(DOMAIN on'[c])
             /\ \A x \in DOMAIN on'[c] : on'[c][x] \subseteq Sym
  <2>1. /\ on[c] = [x \in DOMAIN on[c] |-> on[c][x]]
        /\ \A x \in DOMAIN on[c] : on[c][x] \subseteq Sym
        /\ IsFiniteSet(DOMAIN on[c])
    BY DEF SrvOk
  <2>2. CASE n \notin DOMAIN on[c]
    BY <1>2, <2>1, <2>2
  <2>3. CASE n \in DOMAIN on[c]
    <3>1. PICK f : f = on[c]
      OBVIOUS
    <3>2. PICK g : g = on'[c]
      OBVIOUS
    <3>3. g = [x \in (DOMAIN f \ {n}) \cup {p} |-> IF x = p THEN f[n] ELSE f[x]]
      <4>1. g = Put(Del(f, n), p, f[n])
        BY <1>2, <2>3, <3>1, <3>2
      <4>2. Del(f, n) = [x \in DOMAIN f \ {n} |-> f[x]]
        BY DEF Del, Restrict
      <4> QED BY <4>1, <4>2 DEF Put
    <3>4. IsFiniteSet((DOMAIN f \ {n}) \cup {p})
      BY <2>1, <3>1, FS_RemoveElement, FS_AddElement
    <3>5. \A x \in DOMAIN g : g[x] \subseteq Sym
      BY <2>1, <2>3, <3>1, <3>3
    <3> QED BY <2>3, <3>1, <3>2, <3>3, <3>4, <3>5
  <2> QED BY <2>2, <2>3
<1>4. p \notin Online
  BY <1>2
<1>5. SrvOk'
  <2>1. KeyInj(Online')
    <3>1. PICK S : S = (Online \ {n}) \cup {p}
      OBVIOUS
    <3>2. Online' \subseteq S
      <4> SUFFICES ASSUME NEW x \in Online' PROVE x \in S
        OBVIOUS
      <4>1. CASE x = self' /\ x # NoNick
        BY <1>2, <3>1, <4>1, OnlineIs
      <4>2. CASE \E c \in Chan : x \in DOMAIN on'[c]
        <5>1. PICK c \in Chan : x \in DOMAIN on'[c]
          BY <4>2
        <5>2. x = p \/ (x \in DOMAIN on[c] /\ x # n)
          BY <1>3, <5>1
        <5> QED BY <3>1, <5>2, OnlineIs
      <4> QED BY <4>1, <4>2, OnlineNext
    <3>3. KeyInj(S)
      BY <1>2, <3>1 DEF SrvOk, KeyInj
    <3> QED BY <3>2, <3>3, KeyInjSub
  <2>2. KeyInj(Online)'
    BY <2>1 DEF KeyInj
  <2>3. on' = [c \in Chan |-> on'[c]]
    BY <1>2
  <2>4. \A c \in Chan : DOMAIN on'[c] \subseteq Nick
    BY <1>3, ZenonT(30) DEF SrvOk
  <2>5. self' \in Nick \cup {NoNick}
    BY <1>2 DEF SrvOk
  <2> QED BY <1>3, <2>2, <2>3, <2>4, <2>5 DEF SrvOk
<1>6. PICK v : v = SrvView
  OBVIOUS
<1>7. PICK z : z = SrvView'
  OBVIOUS
<1>8. /\ v.me = self /\ v.eon = TRUE /\ v = View(v.me, v.ros, v.eon)
      /\ v.ros = [d \in DOMAIN v.ros |-> DOMAIN on[d]]
      /\ \A d : d \in DOMAIN v.ros <=> d \in Chan /\ self \in DOMAIN on[d]
      /\ self \in Nick => NamesOf(v) \subseteq Online
  BY <1>6, ViewNow
<1>9. /\ z.me = self' /\ z.eon = TRUE /\ z = View(z.me, z.ros, z.eon)
      /\ z.ros = [d \in DOMAIN z.ros |-> DOMAIN on'[d]]
      /\ \A d : d \in DOMAIN z.ros <=> d \in Chan /\ self' \in DOMAIN on'[d]
  BY <1>5, <1>7, ViewNext
<1>10. DOMAIN z.ros = DOMAIN v.ros
  <2>1. ASSUME NEW d \in Chan PROVE self' \in DOMAIN on'[d] <=> self \in DOMAIN on[d]
    <3>1. p \notin DOMAIN on[d]
      BY <1>4, OnlineIs
    <3>2. CASE n = self
      <4>1. self' = p
        BY <1>2, <3>2
      <4>2. p \in DOMAIN on'[d] <=> n \in DOMAIN on[d]
        <5>1. CASE n \in DOMAIN on[d]
          BY <1>3, <5>1
        <5>2. CASE n \notin DOMAIN on[d]
          BY <1>3, <3>1, <5>2
        <5> QED BY <5>1, <5>2
      <4> QED BY <3>2, <4>1, <4>2
    <3>3. CASE n # self /\ self # p
      <4>1. self' = self
        BY <1>2, <3>3
      <4>2. self \in DOMAIN on'[d] <=> self \in DOMAIN on[d]
        BY <1>3, <3>3
      <4> QED BY <4>1, <4>2
    <3>4. CASE self = p
      <4>1. self # NoNick
        BY <3>4, TrackAssumption
      <4> QED BY <1>4, <3>4, <4>1, OnlineIs
    <3> QED BY <3>2, <3>3, <3>4
  <2>2. \A d : d \in DOMAIN z.ros <=> d \in DOMAIN v.ros
    BY <1>8, <1>9, <2>1
  <2> QED BY <2>2
<1>11. \A d \in DOMAIN v.ros :
         /\ d \in Chan /\ v.ros[d] = DOMAIN on[d]
         /\ z.ros[d] = IF n \in v.ros[d] THEN (v.ros[d] \ {n}) \cup {p} ELSE v.ros[d]
  <2> SUFFICES ASSUME NEW d \in DOMAIN v.ros
               PROVE  /\ d \in Chan /\ v.ros[d] = DOMAIN on[d]
                      /\ z.ros[d] = IF n \in v.ros[d] THEN (v.ros[d] \ {n}) \cup {p} ELSE v.ros[d]
    OBVIOUS
  <2>1. d \in Chan /\ v.ros[d] = DOMAIN on[d]
    BY <1>8
  <2>2. z.ros[d] = DOMAIN on'[d]
    BY <1>9, <1>10
  <2> QED BY <1>3, <2>1, <2>2
<1>12. z.ros = [d \in DOMAIN v.ros |-> IF n \in v.ros[d] THEN (v.ros[d] \ {n}) \cup {p}
                                                          ELSE v.ros[d]]
  BY <1>9, <1>10, <1>11
<1>13. Common(n) <=> \E d \in DOMAIN v.ros : n \in v.ros[d]
  BY <1>8, <1>11 DEF Common, In_
<1>14. CASE n # self /\ ~Common(n)
  <2>1. \A d \in DOMAIN v.ros : n \notin v.ros[d]
    BY <1>13, <1>14
  <2>2. z.ros = v.ros
    <3>1. \A d \in DOMAIN v.ros : v.ros[d] = z.ros[d]
      BY <1>11, <2>1
    <3>2. z.ros = [d \in DOMAIN v.ros |-> z.ros[d]] /\ v.ros = [d \in DOMAIN v.ros |-> v.ros[d]]
      BY <1>8, <1>9, <1>10
    <3> QED BY <3>1, <3>2
  <2>3. z = v /\ self' = self
    BY <1>2, <1>8, <1>9, <1>14, <2>2
  <2> QED BY <1>2, <1>5, <1>6, <1>7, <1>14, <2>3, SendsNone
<1>15. CASE n = self \/ Common(n)
  <2>1. m.cmd = "NICK" /\ m.nick = n /\ m.new = p /\ m \in [cmd : {"NICK"}, nick : Nick, new : Nick]
    BY <1>1
  <2>2. m \in Msgs /\ m.cmd \notin {"005", "353"}
    BY <2>1 DEF Msgs
  <2>3. self \in Nick /\ self' \in Nick
    BY <1>2, <1>15 DEF SrvOk, Common, In_
  <2>4. n \in NamesOf(v)
    BY <1>8, <1>13, <1>15 DEF NamesOf
  <2>5. \A o \in NamesOf(v) \ {n} : NickKey[o] # NickKey[p]
    BY <1>2, <1>8, <2>3
  <2>6. PICK me : me = IF n = v.me THEN p ELSE v.me
    OBVIOUS
  <2>7. z.me = me
    BY <1>2, <1>8, <1>9, <2>6
  <2>8. z = View(me, [d \in DOMAIN v.ros |-> IF n \in v.ros[d] THEN (v.ros[d] \ {n}) \cup {p}
                                                               ELSE v.ros[d]], v.eon)
    BY <1>8, <1>9, <1>12, <2>7
  <2>9. Renames(v, n, p, z)
    BY <2>4, <2>5, <2>6, <2>8 DEF Renames
  <2>10. Tells(v, m, z)
    BY <2>1, <2>9 DEF Tells
  <2> QED BY <1>2, <1>5, <1>6, <1>7, <1>15, <2>2, <2>3, <2>10, SendsOne
<1> QED BY <1>14, <1>15

(* n, who may be us, joins c.                                               *)
LEMMA JoinInforms ==
  ASSUME SrvOk, inq \in Seq(Msgs), NEW n \in Nick, NEW c \in Chan, SrvJoin(n, c)
  PROVE  Informs
<1>0. self # NoNick /\ n \notin DOMAIN on[c]
  BY DEF SrvJoin
<1>1. PICK S : S = IF on[c] = EmptyMap THEN {s \in Sym : Stronger[s] = {}} ELSE {}
  OBVIOUS
<1>2. PICK f : f = Put(on[c], n, S)
  OBVIOUS
<1>3. PICK m : m = Msg("JOIN", n, c)
  OBVIOUS
<1>4. /\ n \in Online \/ Free(n)
      /\ on' = [on EXCEPT ![c] = f] /\ self' = self
      /\ n = self => inq' = inq \o (<<m>> \o Lines(c, f) \o EndOfNames)
      /\ n # self /\ self \in DOMAIN on[c] => inq' = inq \o <<m>>
      /\ n # self /\ self \notin DOMAIN on[c] => inq' = inq
  BY <1>1, <1>2, <1>3 DEF SrvJoin, SendIf, In_
<1>5. S \subseteq Sym
  BY <1>1
<1>6. /\ DOMAIN f = DOMAIN on[c] \cup {n} /\ f = [x \in DOMAIN f |-> f[x]]
      /\ DOMAIN f \subseteq Nick /\ IsFiniteSet(DOMAIN f)
      /\ \A x \in DOMAIN f : f[x] \subseteq Sym
  <2>1. DOMAIN f = DOMAIN on[c] \cup {n} /\ f = [x \in DOMAIN f |-> f[x]]
    BY <1>2 DEF Put
  <2>2. \A x \in DOMAIN f : f[x] = IF x = n THEN S ELSE on[c][x]
    BY <1>2 DEF Put
  <2>3. IsFiniteSet(DOMAIN f)
    BY <2>1, FS_AddElement DEF SrvOk
  <2>4. \A x \in DOMAIN f : f[x] \subseteq Sym
    BY <1>5, <2>1, <2>2 DEF SrvOk
  <2> QED BY <2>1, <2>3, <2>4 DEF SrvOk
<1>7. /\ \A d \in Chan \ {c} : on'[d] = on[d]
      /\ on'[c] = f /\ on' = [d \in Chan |-> on'[d]]
  BY <1>4 DEF SrvOk
<1>8. self \in Nick /\ self \in Online
  <2>1. self \in Nick
    BY <1>0 DEF SrvOk
  <2>2. self \in Online
    BY <1>0, OnlineIs
  <2> QED BY <2>1, <2>2
<1>9. KeyInj(Online \cup {n})
  BY <1>4 DEF SrvOk, KeyInj, Free
<1>10. Online' \subseteq Online \cup {n}
  <2> SUFFICES ASSUME NEW x \in Online' PROVE x \in Online \cup {n}
    OBVIOUS
  <2>1. CASE x = self' /\ x # NoNick
    BY <1>4, <1>8, <2>1
  <2>2. CASE \E d \in Chan : x \in DOMAIN on'[d]
    <3>1. PICK d \in Chan : x \in DOMAIN on'[d]
      BY <2>2
    <3>2. x = n \/ x \in DOMAIN on[d]
      BY <1>6, <1>7, <3>1
    <3> QED BY <3>2, OnlineIs
  <2> QED BY <2>1, <2>2, OnlineNext
<1>11. SrvOk'
  <2>1. KeyInj(Online')
    BY <1>9, <1>10, KeyInjSub
  <2>2. KeyInj(Online)'
    BY <2>1 DEF KeyInj
  <2>3. ASSUME NEW d \in Chan
        PROVE  /\ on'[d] = [x \in DOMAIN on'[d] |-> on'[d][x]]
               /\ DOMAIN on'[d] \subseteq Nick /\ IsFiniteSet(DOMAIN on'[d])
               /\ \A x \in DOMAIN on'[d] : on'[d][x] \subseteq Sym
    <3>1. CASE d = c
      BY <1>6, <1>7, <3>1
    <3>2. CASE d # c
      BY <1>7, <3>2 DEF SrvOk
    <3> QED BY <3>1, <3>2
  <2> QED BY <1>4, <1>7, <1>8, <2>2, <2>3 DEF SrvOk
<1>12. PICK v : v = SrvView
  OBVIOUS
<1>13. PICK z : z = SrvView'
  OBVIOUS
<1>14. /\ v.me = self /\ v.eon = TRUE /\ v = View(v.me, v.ros, v.eon)
       /\ v.ros = [d \in DOMAIN v.ros |-> DOMAIN on[d]]
       /\ \A d : d \in DOMAIN v.ros <=> d \in Chan /\ self \in DOMAIN on[d]
       /\ Good(v) /\ NamesOf(v) \subseteq Online
  BY <1>8, <1>12, ViewNow
<1>15. /\ z.me = self /\ z.eon = TRUE /\ z = View(z.me, z.ros, z.eon)
       /\ z.ros = [d \in DOMAIN z.ros |-> DOMAIN on'[d]]
       /\ \A d : d \in DOMAIN z.ros <=> d \in Chan /\ self \in DOMAIN on'[d]
  BY <1>4, <1>11, <1>13, ViewNext
<1>16. m.cmd = "JOIN" /\ m.nick = n /\ m.chan = c
  BY <1>3 DEF Msg
<1>17. m \in [cmd : {"JOIN", "PART", "KICK"}, nick : Nick, chan : Chan]
  BY <1>3 DEF Msg
<1>18. m \in Msgs /\ m.cmd \notin {"005", "353"}
  BY <1>16, <1>17 DEF Msgs
<1>19. CASE n # self
  <2>1. DOMAIN z.ros = DOMAIN v.ros
    <3>1. \A d \in Chan : self \in DOMAIN on'[d] <=> self \in DOMAIN on[d]
      BY <1>6, <1>7, <1>19
    <3>2. \A d : d \in DOMAIN z.ros <=> d \in DOMAIN v.ros
      BY <1>14, <1>15, <3>1
    <3> QED BY <3>2
  <2>2. ASSUME NEW d \in DOMAIN v.ros
        PROVE  /\ v.ros[d] = DOMAIN on[d]
               /\ z.ros[d] = IF d = c THEN v.ros[d] \cup {n} ELSE v.ros[d]
    <3>1. d \in Chan /\ v.ros[d] = DOMAIN on[d]
      BY <1>14
    <3>2. z.ros[d] = DOMAIN on'[d]
      BY <1>15, <2>1
    <3> QED BY <1>6, <1>7, <3>1, <3>2
  <2>3. z.ros = [d \in DOMAIN v.ros |-> z.ros[d]] /\ v.ros = [d \in DOMAIN v.ros |-> v.ros[d]]
    BY <1>14, <1>15, <2>1
  <2>4. CASE self \notin DOMAIN on[c]
    <3>1. c \notin DOMAIN v.ros
      BY <1>14, <2>4
    <3>2. \A d \in DOMAIN v.ros : z.ros[d] = v.ros[d]
      BY <2>2, <3>1
    <3>3. z.ros = v.ros
      BY <2>3, <3>2
    <3>4. z = v
      BY <1>14, <1>15, <3>3
    <3> QED BY <1>4, <1>11, <1>12, <1>13, <1>19, <2>4, <3>4, SendsNone
  <2>5. CASE self \in DOMAIN on[c]
    <3>1. c \in DOMAIN v.ros /\ n \notin v.ros[c]
      <4>1. c \in DOMAIN v.ros
        BY <1>14, <2>5
      <4>2. v.ros[c] = DOMAIN on[c]
        BY <2>2, <4>1
      <4> QED BY <1>0, <4>1, <4>2
    <3>2. PICK r : r = [v.ros EXCEPT ![c] = @ \cup {n}]
      OBVIOUS
    <3>3. r = [d \in DOMAIN v.ros |-> IF d = c THEN v.ros[d] \cup {n} ELSE v.ros[d]]
      BY <2>3, <3>1, <3>2
    <3>4. \A d \in DOMAIN v.ros : z.ros[d] = r[d]
      BY <2>2, <3>3
    <3>5. z.ros = r
      BY <2>3, <3>3, <3>4
    <3>6. z = View(v.me, r, v.eon)
      BY <1>14, <1>15, <3>5
    <3>7. Joins(v, n, c, z)
      BY <1>14, <1>19, <3>1, <3>2, <3>6 DEF Joins
    <3>8. Tells(v, m, z)
      BY <1>16, <3>7 DEF Tells
    <3> QED BY <1>4, <1>8, <1>11, <1>12, <1>13, <1>18, <1>19, <2>5, <3>8, SendsOne
  <2> QED BY <2>4, <2>5
<1>20. CASE n = self
  <2>1. PICK y : y = View(v.me, Put(v.ros, c, {}), v.eon)
    OBVIOUS
  <2>2. y.me = self /\ y.eon = TRUE /\ y.ros = Put(v.ros, c, {}) /\ y = View(y.me, y.ros, y.eon)
    BY <1>14, <2>1 DEF View
  <2>3. c \notin DOMAIN v.ros
    <3>1. self \notin DOMAIN on[c]
      BY <1>0, <1>20
    <3> QED BY <1>14, <3>1
  <2>4. /\ DOMAIN y.ros = DOMAIN v.ros \cup {c} /\ y.ros[c] = {}
        /\ \A d \in DOMAIN v.ros : y.ros[d] = v.ros[d] /\ v.ros[d] \in SUBSET Nick
        /\ y.ros = [d \in DOMAIN y.ros |-> y.ros[d]]
    BY <1>14, <2>2, <2>3 DEF Put, Good
  <2>5. Good(y) /\ NamesOf(y) \subseteq NamesOf(v)
    <3>1. NamesOf(y) \subseteq NamesOf(v)
      BY <1>14, <2>2, <2>4 DEF NamesOf
    <3>2. KeyInj(NamesOf(y))
      BY <1>14, <3>1, KeyInjSub DEF Good
    <3>3. y.ros \in [DOMAIN y.ros -> SUBSET Nick]
      BY <2>4
    <3>4. y.eon \in BOOLEAN
      BY <2>2
    <3>5. DOMAIN y.ros \subseteq Chan
      BY <1>14, <2>4 DEF Good
    <3> QED BY <1>8, <2>2, <3>1, <3>2, <3>3, <3>4, <3>5 DEF Good
  <2>6. Tells(v, m, y)
    <3>1. Joins(v, n, c, y)
      BY <1>14, <1>20, <2>1, <2>3 DEF Joins
    <3> QED BY <1>16, <3>1 DEF Tells
  <2>8. PICK l : l = Lines(c, f)
    OBVIOUS
  <2>9. /\ l \in Seq(Msgs) /\ \A i \in 1..Len(l) : l[i].cmd = "353"
        /\ \E s \in Seq(Nick) : \E e :
             /\ Cut(l, c, s, e)
             /\ \A i, j \in 1..Len(s) : s[i] = s[j] => i = j
             /\ {s[i] : i \in 1..Len(s)} = DOMAIN f
    <3>1. /\ Lines(c, f) \in Seq(Msgs)
          /\ \A i \in 1..Len(Lines(c, f)) : Lines(c, f)[i].cmd = "353"
          /\ \E s \in Seq(Nick) : \E e :
               /\ Cut(Lines(c, f), c, s, e)
               /\ \A i, j \in 1..Len(s) : s[i] = s[j] => i = j
               /\ {s[i] : i \in 1..Len(s)} = DOMAIN f
      BY <1>6, LinesCut
    <3> QED BY <2>8, <3>1
  <2>s. PICK s \in Seq(Nick) : \E e :
             /\ Cut(l, c, s, e)
             /\ \A i, j \in 1..Len(s) : s[i] = s[j] => i = j
             /\ {s[i] : i \in 1..Len(s)} = DOMAIN f
    BY <2>9
  <2>10. PICK e :
             /\ Cut(l, c, s, e)
             /\ \A i, j \in 1..Len(s) : s[i] = s[j] => i = j
             /\ {s[i] : i \in 1..Len(s)} = DOMAIN f
    BY <2>s
  <2>11. DOMAIN z.ros = DOMAIN y.ros
    <3>1. \A d \in Chan : self \in DOMAIN on'[d] <=> self \in DOMAIN on[d] \/ d = c
      BY <1>6, <1>7, <1>20
    <3>2. \A d : d \in DOMAIN z.ros <=> d \in DOMAIN y.ros
      BY <1>14, <1>15, <2>4, <3>1
    <3> QED BY <3>2
  <2>12. PICK M : M = DOMAIN f
    OBVIOUS
  <2>13. z.ros = [y.ros EXCEPT ![c] = M]
    <3>1. PICK r : r = [y.ros EXCEPT ![c] = M]
      OBVIOUS
    <3>2. r = [d \in DOMAIN y.ros |-> IF d = c THEN M ELSE y.ros[d]]
      BY <2>4, <3>1
    <3>3. ASSUME NEW d \in DOMAIN y.ros PROVE z.ros[d] = r[d]
      <4>1. z.ros[d] = DOMAIN on'[d]
        BY <1>15, <2>11
      <4>2. CASE d = c
        BY <1>7, <2>12, <3>2, <4>1, <4>2
      <4>3. CASE d # c
        <5>1. d \in DOMAIN v.ros /\ d \in Chan
          BY <1>14, <2>4, <4>3
        <5>2. y.ros[d] = DOMAIN on[d]
          BY <1>14, <2>4, <5>1
        <5> QED BY <1>7, <3>2, <4>1, <4>3, <5>1, <5>2
      <4> QED BY <4>2, <4>3
    <3>4. z.ros = [d \in DOMAIN y.ros |-> z.ros[d]]
      BY <1>15, <2>11
    <3> QED BY <3>1, <3>2, <3>3, <3>4
  <2>14. z = View(y.me, [y.ros EXCEPT ![c] = M], TRUE)
    BY <1>15, <2>2, <2>13
  <2>15. KeyInj(NamesOf(y) \cup M)
    <3>1. M \subseteq Online \cup {n}
      BY <1>6, <2>12, OnlineIs
    <3>2. NamesOf(y) \cup M \subseteq Online \cup {n}
      BY <1>14, <2>5, <3>1
    <3> QED BY <1>9, <3>2, KeyInjSub
  <2>16. c \in DOMAIN y.ros /\ y.ros[c] \subseteq M
    BY <2>4
  <2>18. PICK e3 : e3 = [cmd |-> "366"]
    OBVIOUS
  <2>19. e3 \in Msgs /\ EndOfNames = <<e3>> /\ e3.cmd = "366"
    <3>1. e3 \in [cmd : {"366", "005"}]
      BY <2>18
    <3> QED BY <2>18, <3>1 DEF Msgs, EndOfNames
  <2>20. l \o EndOfNames \in Seq(Msgs) /\ <<m>> \in Seq(Msgs)
    BY <1>18, <2>9, <2>19
  <2>21. Leading(<<m>> \o (l \o EndOfNames), v, z)
    <3> SUFFICES ASSUME NEW T, \A k \in T : Shares(v, k)
                 PROVE  Leads(T, <<m>> \o (l \o EndOfNames), v, z)
      BY DEF Leading
    <3>1. \A k \in T : \E d \in DOMAIN y.ros \ {c} : \E x \in y.ros[d] : NickKey[x] = k
      <4> SUFFICES ASSUME NEW k \in T
                   PROVE  \E d \in DOMAIN y.ros \ {c} : \E x \in y.ros[d] : NickKey[x] = k
        OBVIOUS
      <4>1. PICK d \in DOMAIN v.ros : \E x \in v.ros[d] : NickKey[x] = k
        BY DEF Shares
      <4>2. d \in DOMAIN y.ros \ {c} /\ y.ros[d] = v.ros[d]
        BY <2>3, <2>4
      <4> QED BY <4>1, <4>2
    <3>2. Spares(T, v, m, y)
      BY <1>16, <3>1 DEF Spares, Shares
    <3>3. Leads(T, <<m>>, v, y)
      <4>1. Step(T, v, m, y)
        BY <2>5, <2>6, <3>2 DEF Step
      <4> QED BY <1>14, <4>1, LeadsOne
    <3>4. Elsewhere(T, y, c)
      BY <2>4, <3>1 DEF Elsewhere
    <3>5. Leads(T, l \o EndOfNames, y, z)
      BY <2>2, <2>5, <2>9, <2>10, <2>12, <2>14, <2>15, <2>16, <3>1, <3>4, ListsLead
    <3> QED BY <2>20, <3>3, <3>5, LeadsOn
  <2>22. PICK q : q = <<m>> \o (l \o EndOfNames)
    OBVIOUS
  <2>23. q \in Seq(Msgs)
    BY <2>20, <2>22
  <2>24. inq' = inq \o q
    <3>1. <<m>> \o l \o EndOfNames = <<m>> \o (l \o EndOfNames)
      BY <1>18, <2>9, <2>19
    <3> QED BY <1>4, <1>20, <2>8, <2>22, <3>1
  <2>25. \A i \in 1..Len(q) : q[i].cmd # "005"
    <3>1. PICK t : t = l \o EndOfNames
      OBVIOUS
    <3>2. t \in Seq(Msgs) /\ \A i \in 1..Len(t) : t[i].cmd # "005"
      <4>1. Len(t) = Len(l) + 1 /\ t[Len(l) + 1] = e3 /\ \A i \in 1..Len(l) : t[i] = l[i]
        BY <2>9, <2>19, <3>1
      <4>2. \A i \in 1..Len(t) : i \in 1..Len(l) \/ i = Len(l) + 1
        BY <2>9, <4>1
      <4>3. \A i \in 1..Len(t) : t[i].cmd = "353" \/ t[i].cmd = "366"
        BY <2>9, <2>19, <4>1, <4>2
      <4> QED BY <2>20, <3>1, <4>3
    <3>3. Len(q) = 1 + Len(t) /\ q[1] = m /\ \A i \in 1..Len(t) : q[i + 1] = t[i]
      BY <2>22, <3>1, <3>2
    <3>4. ASSUME NEW i \in 1..Len(q) PROVE q[i].cmd # "005"
      <4>1. CASE i = 1
        BY <1>18, <3>3, <4>1
      <4>2. CASE i # 1
        <5>1. i - 1 \in 1..Len(t) /\ (i - 1) + 1 = i
          BY <3>2, <3>3, <4>2
        <5>2. q[i] = t[i - 1]
          BY <3>3, <5>1
        <5> QED BY <3>2, <5>1, <5>2
      <4> QED BY <4>1, <4>2
    <3> QED BY <3>4
  <2>26. \E p \in Seq(Msgs) : /\ inq' = inq \o p
                              /\ \A i \in 1..Len(p) : p[i].cmd # "005"
                              /\ self \in Nick => Leading(p, SrvView, SrvView')
                              /\ self \notin Nick => p = <<>>
    BY <1>8, <1>12, <1>13, <2>21, <2>22, <2>23, <2>24, <2>25
  <2>27. self \in Nick <=> self' \in Nick
    BY <1>4
  <2> QED BY <1>11, <2>26, <2>27 DEF Informs
<1> QED BY <1>19, <1>20

(* The answer to a NAMES of ours.                                           *)
LEMMA NamesInforms ==
  ASSUME SrvOk, inq \in Seq(Msgs), NEW c \in Chan, SrvNames(c)
  PROVE  Informs
<1>1. self # NoNick /\ self' = self /\ on' = on
  BY DEF SrvNames
<1>2. PICK f : f = on[c]
  OBVIOUS
<1>3. inq' = inq \o (Lines(c, f) \o EndOfNames)
  BY <1>2 DEF SrvNames, SendIf
<1>4. self \in Nick
  BY <1>1 DEF SrvOk
<1>5. SrvOk' /\ SrvView' = SrvView
  BY <1>1 DEF SrvOk, SrvView, In_, KeyInj, Online
<1>6. PICK v : v = SrvView
  OBVIOUS
<1>7. /\ v.me = self /\ v.eon = TRUE /\ v = View(v.me, v.ros, v.eon)
      /\ v.ros = [d \in DOMAIN v.ros |-> DOMAIN on[d]]
      /\ \A d : d \in DOMAIN v.ros <=> d \in Chan /\ self \in DOMAIN on[d]
      /\ Good(v) /\ NamesOf(v) \subseteq Online
  BY <1>4, <1>6, ViewNow
<1>8. /\ DOMAIN f \subseteq Nick /\ IsFiniteSet(DOMAIN f)
      /\ \A x \in DOMAIN f : f[x] \subseteq Sym
  BY <1>2 DEF SrvOk
<1>9. PICK l : l = Lines(c, f)
  OBVIOUS
<1>10. /\ l \in Seq(Msgs) /\ \A i \in 1..Len(l) : l[i].cmd = "353"
       /\ \E s \in Seq(Nick) : \E e :
            /\ Cut(l, c, s, e)
            /\ \A i, j \in 1..Len(s) : s[i] = s[j] => i = j
            /\ {s[i] : i \in 1..Len(s)} = DOMAIN f
  <2>1. /\ Lines(c, f) \in Seq(Msgs)
        /\ \A i \in 1..Len(Lines(c, f)) : Lines(c, f)[i].cmd = "353"
        /\ \E s \in Seq(Nick) : \E e :
             /\ Cut(Lines(c, f), c, s, e)
             /\ \A i, j \in 1..Len(s) : s[i] = s[j] => i = j
             /\ {s[i] : i \in 1..Len(s)} = DOMAIN f
    BY <1>8, LinesCut
  <2> QED BY <1>9, <2>1
<1>s. PICK s \in Seq(Nick) : \E e :
         /\ Cut(l, c, s, e)
         /\ \A i, j \in 1..Len(s) : s[i] = s[j] => i = j
         /\ {s[i] : i \in 1..Len(s)} = DOMAIN f
  BY <1>10
<1>11. PICK e :
         /\ Cut(l, c, s, e)
         /\ \A i, j \in 1..Len(s) : s[i] = s[j] => i = j
         /\ {s[i] : i \in 1..Len(s)} = DOMAIN f
  BY <1>s
<1>12. Leads({}, l \o EndOfNames, v, v)
  <2>1. CASE c \notin DOMAIN v.ros
    BY <1>7, <1>10, <1>11, <2>1, ListsIgnored
  <2>2. CASE c \in DOMAIN v.ros
    <3>1. PICK M : M = DOMAIN f
      OBVIOUS
    <3>2. v.ros[c] = M
      BY <1>2, <1>7, <2>2, <3>1
    <3>3. [v.ros EXCEPT ![c] = M] = v.ros
      BY <1>7, <3>2
    <3>4. v = View(v.me, [v.ros EXCEPT ![c] = M], TRUE)
      BY <1>7, <3>3
    <3>5. M \subseteq Online
      BY <1>2, <3>1, OnlineIs
    <3>6. NamesOf(v) \cup M \subseteq Online
      BY <1>7, <3>5
    <3>7. KeyInj(NamesOf(v) \cup M)
      BY <3>6, KeyInjSub DEF SrvOk
    <3>8. v.ros[c] \subseteq M
      BY <3>2
    <3>9. Elsewhere({}, v, c)
      BY DEF Elsewhere
    <3> QED BY <1>7, <1>10, <1>11, <2>2, <3>1, <3>4, <3>7, <3>8, <3>9, ListsLead
  <2> QED BY <2>1, <2>2
<1>13. PICK e3 : e3 = [cmd |-> "366"]
  OBVIOUS
<1>14. e3 \in Msgs /\ EndOfNames = <<e3>> /\ e3.cmd = "366"
  <2>1. e3 \in [cmd : {"366", "005"}]
    BY <1>13
  <2> QED BY <1>13, <2>1 DEF Msgs, EndOfNames
<1>15. PICK q : q = l \o EndOfNames
  OBVIOUS
<1>16. q \in Seq(Msgs)
  BY <1>10, <1>14, <1>15
<1>17. \A i \in 1..Len(q) : q[i].cmd # "005"
  <2>1. Len(q) = Len(l) + 1 /\ q[Len(l) + 1] = e3 /\ \A i \in 1..Len(l) : q[i] = l[i]
    BY <1>10, <1>14, <1>15
  <2>2. \A i \in 1..Len(q) : i \in 1..Len(l) \/ i = Len(l) + 1
    BY <1>10, <2>1
  <2>3. \A i \in 1..Len(q) : q[i].cmd = "353" \/ q[i].cmd = "366"
    BY <1>10, <1>14, <2>1, <2>2
  <2> QED BY <2>3
<1>a. Leading(q, v, v)
  <2>1. AppNames # {}
    BY DEF SrvNames
  <2> QED BY <1>12, <1>15, <2>1 DEF Leading
<1>18. \E p \in Seq(Msgs) : /\ inq' = inq \o p
                            /\ \A i \in 1..Len(p) : p[i].cmd # "005"
                            /\ self \in Nick => Leading(p, SrvView, SrvView')
                            /\ self \notin Nick => p = <<>>
  BY <1>3, <1>4, <1>5, <1>6, <1>9, <1>15, <1>16, <1>17, <1>a
<1>19. self \in Nick <=> self' \in Nick
  BY <1>1
<1> QED BY <1>5, <1>18, <1>19 DEF Informs

LEMMA ServerInforms ==
  ASSUME SrvOk, inq \in Seq(Msgs), "all" \notin AppNames, Server
  PROVE  Informs
<1>1. \/ \E n \in Nick, c \in Chan : \/ SrvJoin(n, c)
                                     \/ SrvLeave("PART", n, c)
                                     \/ SrvLeave("KICK", n, c)
      \/ \E n \in Nick : SrvQuit(n)
      \/ \E n, m \in Nick : SrvNick(n, m)
      \/ \E c \in Chan, n \in Nick, s \in Sym, enab \in BOOLEAN : SrvMode(c, n, s, enab)
      \/ \E c \in Chan : SrvNames(c)
  BY DEF Server, SrvNamesAll
<1>2. CASE \E n \in Nick, c \in Chan : SrvJoin(n, c)
  BY <1>2, JoinInforms
<1>3. CASE \E n \in Nick, c \in Chan : SrvLeave("PART", n, c) \/ SrvLeave("KICK", n, c)
  BY <1>3, LeaveInforms
<1>4. CASE \E n \in Nick : SrvQuit(n)
  BY <1>4, QuitInforms
<1>5. CASE \E n, m \in Nick : SrvNick(n, m)
  BY <1>5, NickInforms
<1>6. CASE \E c \in Chan, n \in Nick, s \in Sym, enab \in BOOLEAN : SrvMode(c, n, s, enab)
  BY <1>6, ModeInforms, Zenon
<1>7. CASE \E c \in Chan : SrvNames(c)
  BY <1>7, NamesInforms
<1> QED BY <1>1, <1>2, <1>3, <1>4, <1>5, <1>6, <1>7

-----------------------------------------------------------------------------
(* The rosters of module Roster *)

LEMMA Seen ==
  ASSUME Tidy', NEW r, r = [c \in DOMAIN r |-> r[c]], DOMAIN r = DOMAIN chans',
         \A c \in DOMAIN r : r[c] = KeysIn(c)'
  PROVE  Listed' = r /\ DOMAIN users' = UNION {r[c] : c \in DOMAIN r}
<1>1. \A k : k \in DOMAIN users' <=> \E c \in DOMAIN chans' : k \in KeysIn(c)'
  <2>1. ASSUME NEW k \in DOMAIN users' PROVE \E c \in DOMAIN chans' : k \in KeysIn(c)'
    <3>1. ChansWith(k)' # {}
      BY DEF Tidy, CountedOnce
    <3> QED BY <3>1 DEF ChansWith, KeysIn
  <2>2. ASSUME NEW c \in DOMAIN chans', NEW k \in KeysIn(c)' PROVE k \in DOMAIN users'
    BY DEF Tidy, Mapped
  <2> QED BY <2>1, <2>2
<1>2. PICK S : S = {r[c] : c \in DOMAIN r}
  OBVIOUS
<1>3. S = {r[c] : c \in DOMAIN chans'}
  BY <1>2
<1>4. \A k : k \in UNION S <=> \E c \in DOMAIN chans' : k \in KeysIn(c)'
  BY <1>3
<1>5. DOMAIN users' = UNION S
  BY <1>1, <1>4
<1>6. r = [c \in DOMAIN chans' |-> DOMAIN chans'[c].memb]
  BY DEF KeysIn
<1> QED BY <1>2, <1>5, <1>6 DEF Listed

Rosters == [R!Next]_(R!vars)

LEMMA RosterStays ==
  ASSUME DOMAIN chans' = DOMAIN chans, DOMAIN users' = DOMAIN users,
         \A c \in DOMAIN chans : KeysIn(c)' = KeysIn(c)
  PROVE  Rosters
<1>1. Listed' = Listed
  BY DEF KeysIn, Listed
<1> QED BY <1>1 DEF Rosters, R!vars

LEMMA RosterOpens ==
  ASSUME Tidy', NEW c \in Chan, c \notin DOMAIN chans, DOMAIN chans' = DOMAIN chans \cup {c},
         \A d \in DOMAIN chans' : KeysIn(d)' = IF d = c THEN {} ELSE KeysIn(d)
  PROVE  Rosters
<1>1. PICK s : s = Listed
  OBVIOUS
<1>2. PICK r : r = [d \in DOMAIN s \cup {c} |-> IF d = c THEN {} ELSE s[d]]
  OBVIOUS
<1>3. /\ r = [d \in DOMAIN r |-> r[d]] /\ DOMAIN r = DOMAIN chans'
      /\ \A d \in DOMAIN r : r[d] = KeysIn(d)'
  BY <1>1, <1>2 DEF KeysIn, Listed
<1>4. Listed' = r /\ DOMAIN users' = UNION {r[d] : d \in DOMAIN r}
  BY <1>3, Seen, ZenonT(30)
<1>5. R!Open(c)
  <2>1. c \notin DOMAIN Listed
    BY DEF Listed
  <2> QED BY <1>1, <1>2, <1>4, <2>1 DEF R!Open, R!Becomes, R!Seen, R!Range
<1> QED BY <1>5 DEF R!Next, Rosters

LEMMA RosterCloses ==
  ASSUME Tidy', NEW c \in DOMAIN chans, DOMAIN chans' = DOMAIN chans \ {c},
         \A d \in DOMAIN chans' : KeysIn(d)' = KeysIn(d)
  PROVE  Rosters
<1>1. PICK s : s = Listed
  OBVIOUS
<1>2. PICK r : r = [d \in DOMAIN s \ {c} |-> s[d]]
  OBVIOUS
<1>3. /\ r = [d \in DOMAIN r |-> r[d]] /\ DOMAIN r = DOMAIN chans'
      /\ \A d \in DOMAIN r : r[d] = KeysIn(d)'
  BY <1>1, <1>2 DEF KeysIn, Listed
<1>4. Listed' = r /\ DOMAIN users' = UNION {r[d] : d \in DOMAIN r}
  BY <1>3, Seen, ZenonT(30)
<1>5. R!Close(c) /\ c \in DOMAIN Listed
  <2>1. c \in DOMAIN Listed
    BY DEF Listed
  <2> QED BY <1>1, <1>2, <1>4, <2>1 DEF R!Close, R!Becomes, R!Seen, R!Range, R!Restrict
<1> QED BY <1>5 DEF R!Next, Rosters

LEMMA RosterForgets ==
  ASSUME Tidy', NEW c \in DOMAIN chans, DOMAIN chans' = DOMAIN chans,
         \A d \in DOMAIN chans' : KeysIn(d)' = IF d = c THEN {} ELSE KeysIn(d)
  PROVE  Rosters
<1>1. PICK s : s = Listed
  OBVIOUS
<1>2. PICK r : r = [s EXCEPT ![c] = {}]
  OBVIOUS
<1>3. /\ r = [d \in DOMAIN r |-> r[d]] /\ DOMAIN r = DOMAIN chans'
      /\ \A d \in DOMAIN r : r[d] = KeysIn(d)'
  BY <1>1, <1>2 DEF KeysIn, Listed
<1>4. Listed' = r /\ DOMAIN users' = UNION {r[d] : d \in DOMAIN r}
  BY <1>3, Seen, ZenonT(30)
<1>5. R!Forget(c) /\ c \in DOMAIN Listed
  BY <1>1, <1>2, <1>4 DEF R!Forget, R!Becomes, R!Seen, R!Range, R!Restrict, Listed
<1> QED BY <1>5 DEF R!Next, Rosters

LEMMA RosterGains ==
  ASSUME Tidy', NEW c \in DOMAIN chans, NEW k \in Nick, DOMAIN chans' = DOMAIN chans,
         \A d \in DOMAIN chans : KeysIn(d)' = IF d = c THEN KeysIn(c) \cup {k} ELSE KeysIn(d)
  PROVE  Rosters
<1>1. PICK s : s = Listed
  OBVIOUS
<1>2. PICK r : r = [s EXCEPT ![c] = @ \cup {k}]
  OBVIOUS
<1>3. /\ r = [d \in DOMAIN r |-> r[d]] /\ DOMAIN r = DOMAIN chans'
      /\ \A d \in DOMAIN r : r[d] = KeysIn(d)'
  BY <1>1, <1>2 DEF KeysIn, Listed
<1>4. Listed' = r /\ DOMAIN users' = UNION {r[d] : d \in DOMAIN r}
  BY <1>3, Seen, ZenonT(30)
<1>5. R!Enter(c, k) /\ c \in DOMAIN Listed
  BY <1>1, <1>2, <1>4 DEF R!Enter, R!Becomes, R!Seen, R!Range, R!Restrict, Listed
<1> QED BY <1>5 DEF R!Next, Rosters

LEMMA RosterLoses ==
  ASSUME Tidy', NEW c \in DOMAIN chans, NEW k \in Nick, DOMAIN chans' = DOMAIN chans,
         \A d \in DOMAIN chans : KeysIn(d)' = IF d = c THEN KeysIn(c) \ {k} ELSE KeysIn(d)
  PROVE  Rosters
<1>1. PICK s : s = Listed
  OBVIOUS
<1>2. PICK r : r = [s EXCEPT ![c] = @ \ {k}]
  OBVIOUS
<1>3. /\ r = [d \in DOMAIN r |-> r[d]] /\ DOMAIN r = DOMAIN chans'
      /\ \A d \in DOMAIN r : r[d] = KeysIn(d)'
  BY <1>1, <1>2 DEF KeysIn, Listed
<1>4. Listed' = r /\ DOMAIN users' = UNION {r[d] : d \in DOMAIN r}
  BY <1>3, Seen, ZenonT(30)
<1>5. R!Leave(c, k) /\ c \in DOMAIN Listed
  BY <1>1, <1>2, <1>4 DEF R!Leave, R!Becomes, R!Seen, R!Range, R!Restrict, Listed
<1> QED BY <1>5 DEF R!Next, Rosters

LEMMA RosterQuits ==
  ASSUME Tidy', NEW k \in Nick, DOMAIN chans' = DOMAIN chans,
         \A d \in DOMAIN chans : KeysIn(d)' = KeysIn(d) \ {k}
  PROVE  Rosters
<1>1. PICK s : s = Listed
  OBVIOUS
<1>2. PICK r : r = [d \in DOMAIN s |-> s[d] \ {k}]
  OBVIOUS
<1>3. /\ r = [d \in DOMAIN r |-> r[d]] /\ DOMAIN r = DOMAIN chans'
      /\ \A d \in DOMAIN r : r[d] = KeysIn(d)'
  BY <1>1, <1>2 DEF KeysIn, Listed
<1>4. Listed' = r /\ DOMAIN users' = UNION {r[d] : d \in DOMAIN r}
  BY <1>3, Seen, ZenonT(30)
<1>5. R!Quit(k)
  BY <1>1, <1>2, <1>4 DEF R!Quit, R!Becomes, R!Seen, R!Range, R!Restrict, Listed
<1> QED BY <1>5 DEF R!Next, Rosters

LEMMA RosterRenames ==
  ASSUME Tidy', NEW k \in Nick, NEW l \in Nick, l \notin DOMAIN users,
         DOMAIN chans' = DOMAIN chans,
         \A d \in DOMAIN chans :
           KeysIn(d)' = IF k \in KeysIn(d) THEN (KeysIn(d) \ {k}) \cup {l} ELSE KeysIn(d)
  PROVE  Rosters
<1>1. PICK s : s = Listed
  OBVIOUS
<1>2. PICK r : r = [d \in DOMAIN s |-> IF k \in s[d] THEN (s[d] \ {k}) \cup {l} ELSE s[d]]
  OBVIOUS
<1>3. /\ r = [d \in DOMAIN r |-> r[d]] /\ DOMAIN r = DOMAIN chans'
      /\ \A d \in DOMAIN r : r[d] = KeysIn(d)'
  BY <1>1, <1>2 DEF KeysIn, Listed
<1>4. Listed' = r /\ DOMAIN users' = UNION {r[d] : d \in DOMAIN r}
  BY <1>3, Seen, ZenonT(30)
<1>5. R!Rename(k, l)
  <2>1. l \notin DOMAIN users
    BY DEF Listed
  <2> QED BY <1>1, <1>2, <1>4, <2>1 DEF R!Rename, R!Becomes, R!Seen, R!Range
<1> QED BY <1>5 DEF R!Next, Rosters

-----------------------------------------------------------------------------
(* What the tracker makes of a message *)

(* Each name that h_353 has yet to add will be a new member.                *)
PendOk ==
  \A i \in 1..Len(names) :
    /\ names[i].chan \in DOMAIN chans
    /\ names[i].nick \notin Nicks(names[i].chan)
    /\ \A j \in 1..Len(names) : names[i].nick = names[j].nick => i = j

(* The tracker comes to know z, if it is not out of memory.                 *)
Learns(z) == Tidy' /\ Rosters /\ (online' => TrView' = z /\ PendOk')

(* Ready for a message that makes z of what the tracker knows.              *)
Ready(z) ==
  /\ Inv /\ Tidy /\ online /\ names = <<>> /\ phase = "run"
  /\ Good(TrView) /\ Good(z)

LEMMA NicksIs ==
  ASSUME NEW c
  PROVE  /\ \A x : x \in Nicks(c) <=> \E k \in KeysIn(c) : x = Name(k)
         /\ \A x : x \in Nicks(c)' <=> \E k \in KeysIn(c)' : x = Name(k)'
  BY DEF Nicks

LEMMA NoPending ==
  /\ names = <<>> => PendOk /\ \A c : Pending(c) = {}
  /\ names' = <<>> => PendOk' /\ \A c : Pending(c)' = {}
<1>1. Len(<<>>) = 0
  OBVIOUS
<1>2. ASSUME names = <<>> PROVE PendOk /\ \A c : Pending(c) = {}
  BY <1>1, <1>2 DEF PendOk, Pending
<1>3. ASSUME names' = <<>> PROVE PendOk' /\ \A c : Pending(c)' = {}
  BY <1>1, <1>3 DEF PendOk, Pending
<1> QED BY <1>2, <1>3

LEMMA TrViewIs ==
  /\ TrView.me = mynick /\ TrView.eon = (tracking => endofnames)
  /\ TrView.ros = [c \in DOMAIN chans |-> Nicks(c) \cup Pending(c)]
  BY DEF TrView, View

LEMMA Shows ==
  ASSUME NEW z, Good(z), z.me = mynick', z.eon = (tracking' => endofnames'),
         DOMAIN z.ros = DOMAIN chans',
         \A c \in DOMAIN chans' : z.ros[c] = Nicks(c)' \cup Pending(c)'
  PROVE  TrView' = z
<1>1. z = View(z.me, z.ros, z.eon) /\ z.ros = [c \in DOMAIN z.ros |-> z.ros[c]]
  BY DEF Good
<1>2. z.ros = [c \in DOMAIN chans' |-> Nicks(c)' \cup Pending(c)']
  BY <1>1
<1> QED BY <1>1, <1>2 DEF TrView

(* The tracker knows a nickname that makes sense by its key.                *)
LEMMA ByKey ==
  ASSUME Tidy, names = <<>>, Good(TrView)
  PROVE  /\ mynick \in Nick /\ TrView.me = mynick /\ DOMAIN TrView.ros = DOMAIN chans
         /\ \A c \in DOMAIN chans : TrView.ros[c] = Nicks(c) /\ Nicks(c) \subseteq NamesOf(TrView)
         /\ \A k \in DOMAIN users : Name(k) \in NamesOf(TrView) /\ NickKey[Name(k)] = k
         /\ \A c \in DOMAIN chans : KeysIn(c) \subseteq DOMAIN users
         /\ KeyInj(NamesOf(TrView)) /\ NamesOf(TrView) \subseteq Nick /\ mynick \in NamesOf(TrView)
<1>1. PICK v : v = TrView
  OBVIOUS
<1>2. v.me = mynick /\ v.ros = [c \in DOMAIN chans |-> Nicks(c) \cup Pending(c)]
  BY <1>1, TrViewIs
<1>3. /\ v.me \in Nick /\ KeyInj(NamesOf(v))
      /\ v.ros \in [DOMAIN v.ros -> SUBSET Nick]
  BY <1>1 DEF Good
<1>4. ASSUME NEW c \in DOMAIN chans PROVE v.ros[c] = Nicks(c) /\ Nicks(c) \subseteq NamesOf(v)
  <2>1. v.ros[c] = Nicks(c)
    BY <1>2, NoPending
  <2> QED BY <1>2, <2>1 DEF NamesOf
<1>5. NamesOf(v) \subseteq Nick /\ v.me \in NamesOf(v)
  BY <1>3 DEF NamesOf
<1>6. ASSUME NEW k \in DOMAIN users PROVE Name(k) \in NamesOf(v) /\ NickKey[Name(k)] = k
  <2>1. PICK c \in DOMAIN chans : k \in KeysIn(c)
    BY DEF Tidy, CountedOnce, ChansWith, KeysIn
  <2>2. Name(k) \in Nicks(c)
    BY <2>1 DEF Nicks
  <2>3. Name(k) \in NamesOf(v)
    BY <1>4, <2>2
  <2> QED BY <2>3, Users
<1>7. \A c \in DOMAIN chans : KeysIn(c) \subseteq DOMAIN users
  BY DEF Tidy, Mapped
<1> QED BY <1>1, <1>2, <1>3, <1>4, <1>5, <1>6, <1>7

LEMMA SameKey ==
  ASSUME Tidy, names = <<>>, Good(TrView), NEW n \in NamesOf(TrView), NEW k, k = NickKey[n]
  PROVE  /\ Me(n) <=> n = mynick
         /\ k \in DOMAIN users => Name(k) = n
         /\ \A c \in DOMAIN chans : n \in Nicks(c) <=> k \in KeysIn(c)
         /\ \A j \in DOMAIN users : j # k => Name(j) # n
<1>1. /\ mynick \in Nick /\ mynick \in NamesOf(TrView) /\ KeyInj(NamesOf(TrView))
      /\ \A j \in DOMAIN users : Name(j) \in NamesOf(TrView) /\ NickKey[Name(j)] = j
      /\ \A c \in DOMAIN chans : KeysIn(c) \subseteq DOMAIN users
  BY ByKey
<1>2. Me(n) <=> n = mynick
  BY <1>1, TrackAssumption DEF Me, KeyInj
<1>3. k \in DOMAIN users => Name(k) = n
  BY <1>1 DEF KeyInj
<1>4. \A j \in DOMAIN users : j # k => Name(j) # n
  BY <1>1
<1>5. ASSUME NEW c \in DOMAIN chans PROVE n \in Nicks(c) <=> k \in KeysIn(c)
  BY <1>1, <1>3, <1>4, NicksIs
<1> QED BY <1>2, <1>3, <1>4, <1>5

LEMMA SameNicks ==
  ASSUME NEW c, KeysIn(c)' = KeysIn(c), \A k \in KeysIn(c) : Name(k)' = Name(k)
  PROVE  Nicks(c)' = Nicks(c)
<1>1. \A x : x \in Nicks(c)' <=> x \in Nicks(c)
  BY NicksIs
<1> QED BY <1>1 DEF Nicks

(* A handler that changes nobody's nickname and no roster.                  *)
LEMMA LearnsSame ==
  ASSUME NEW z, Ready(z), Tidy', DOMAIN chans' = DOMAIN chans, DOMAIN users' = DOMAIN users,
         \A c \in DOMAIN chans : KeysIn(c)' = KeysIn(c),
         \A k \in DOMAIN users : Name(k)' = Name(k),
         online' => /\ names' = <<>> /\ z.me = mynick' /\ z.eon = (tracking' => endofnames')
                    /\ z.ros = TrView.ros
  PROVE  Learns(z)
<1>1. Rosters
  BY RosterStays
<1>2. ASSUME online' PROVE TrView' = z /\ PendOk'
  <2>1. Good(z) /\ Tidy /\ names = <<>> /\ Good(TrView)
    BY DEF Ready
  <2>2. /\ z.me = mynick' /\ DOMAIN z.ros = DOMAIN chans'
        /\ \A c \in DOMAIN chans : z.ros[c] = Nicks(c) /\ KeysIn(c) \subseteq DOMAIN users
    BY <1>2, <2>1, ByKey
  <2>3. ASSUME NEW c \in DOMAIN chans' PROVE z.ros[c] = Nicks(c)' \cup Pending(c)'
    <3>1. Nicks(c)' = Nicks(c)
      BY <2>2, SameNicks
    <3>2. Pending(c)' = {}
      BY <1>2, NoPending
    <3> QED BY <2>2, <3>1, <3>2
  <2>4. z.eon = (tracking' => endofnames')
    BY <1>2
  <2>5. TrView' = z
    BY <2>1, <2>2, <2>3, <2>4, Shows
  <2> QED BY <1>2, <2>5, NoPending
<1> QED BY <1>1, <1>2 DEF Learns

(* Nothing happens to the maps.                                             *)
LEMMA LearnsIdle ==
  ASSUME NEW z, Ready(z), Inv', UNCHANGED ucvars,
         online' => /\ names' = <<>> /\ z.me = mynick' /\ z.eon = (tracking' => endofnames')
                    /\ z.ros = TrView.ros
  PROVE  Learns(z)
<1>1. Tidy /\ UcTypeOK'
  BY DEF Ready, Inv
<1>2. SameShape
  BY DEF SameShape, ucvars
<1>3. /\ Tidy' /\ DOMAIN chans' = DOMAIN chans /\ DOMAIN users' = DOMAIN users
      /\ \A d \in DOMAIN chans : KeysIn(d)' = KeysIn(d)
      /\ \A k \in DOMAIN users : Name(k)' = Name(k)
  BY <1>1, <1>2, TidyShape
<1> QED BY <1>3, LearnsSame

LEMMA LearnsPart ==
  ASSUME NEW z, Ready(z), Inv', NEW n \in Nick, NEW c \in Chan,
         Parts(TrView, n, c, z), h_PART(n, c)
  PROVE  Learns(z)
<1>1. PICK v : v = TrView
  OBVIOUS
<1>2. Good(z) /\ Good(v) /\ Tidy /\ names = <<>> /\ ChanKey[c] = c
  BY <1>1, ServerAssumption DEF Ready
<1>3. /\ mynick \in Nick /\ v.me = mynick /\ DOMAIN v.ros = DOMAIN chans
      /\ \A d \in DOMAIN chans : v.ros[d] = Nicks(d) /\ KeysIn(d) \subseteq DOMAIN users
      /\ v.eon = (tracking => endofnames)
  BY <1>1, <1>2, ByKey, TrViewIs
<1>4. PICK k : k = NickKey[n]
  OBVIOUS
<1>5. n \in NamesOf(v) /\ c \in DOMAIN chans /\ k \in Nick
  BY <1>1, <1>3, <1>4, KeyAssumption DEF Parts
<1>6. /\ Me(n) <=> n = mynick
      /\ k \in DOMAIN users => Name(k) = n
      /\ \A d \in DOMAIN chans : n \in Nicks(d) <=> k \in KeysIn(d)
      /\ \A j \in DOMAIN users : j # k => Name(j) # n
  BY <1>1, <1>2, <1>4, <1>5, SameKey
<1>7. KnownChan(c) /\ CarryOn
  BY <1>2, <1>5 DEF KnownChan, h_PART
<1>8. names' = <<>> /\ mynick' = mynick /\ tracking' = tracking /\ endofnames' = endofnames
  BY <1>2, <1>7 DEF CarryOn, conn
<1>9. PendOk' /\ \A d : Pending(d)' = {}
  BY <1>8, NoPending
<1>10. CASE n = mynick
  <2>1. DropChan(c)
    BY <1>2, <1>6, <1>7, <1>10 DEF h_PART
  <2>2. z = View(v.me, Del(v.ros, c), v.eon)
    BY <1>1, <1>3, <1>10 DEF Parts
  <2>3. /\ Tidy' /\ DOMAIN chans' = IF ClearMemb(c) THEN DOMAIN chans ELSE DOMAIN chans \ {c}
        /\ \A d \in DOMAIN chans' :
             d \in DOMAIN chans /\ KeysIn(d)' = IF d = c THEN {} ELSE KeysIn(d)
        /\ \A j \in DOMAIN users' : j \in DOMAIN users /\ Name(j)' = Name(j)
    BY <1>2, <1>5, <2>1, TidyEmptied
  <2>4. DOMAIN chans' = DOMAIN chans \ {c}
    BY <2>1 DEF DropChan, Del, Restrict
  <2>5. \A d \in DOMAIN chans' : d \in DOMAIN chans /\ KeysIn(d)' = KeysIn(d)
    BY <2>3, <2>4
  <2>6. Rosters
    BY <1>5, <2>3, <2>4, <2>5, RosterCloses
  <2>7. /\ z.me = mynick' /\ z.eon = (tracking' => endofnames') /\ DOMAIN z.ros = DOMAIN chans'
        /\ \A d \in DOMAIN chans' : z.ros[d] = v.ros[d]
    BY <1>3, <1>8, <2>2, <2>4 DEF View, Del, Restrict
  <2>8. ASSUME NEW d \in DOMAIN chans' PROVE z.ros[d] = Nicks(d)' \cup Pending(d)'
    <3>1. \A j \in KeysIn(d)' : j \in DOMAIN users'
      BY <2>3 DEF Tidy, Mapped
    <3>2. Nicks(d)' = Nicks(d)
      BY <2>3, <2>5, <3>1, SameNicks
    <3> QED BY <1>3, <1>9, <2>5, <2>7, <3>2
  <2> QED BY <1>2, <1>9, <2>3, <2>6, <2>7, <2>8, Shows DEF Learns
<1>11. CASE n # mynick
  <2>1. z = View(v.me, [v.ros EXCEPT ![c] = @ \ {n}], v.eon)
    BY <1>1, <1>3, <1>11 DEF Parts
  <2>2. /\ z.me = mynick' /\ z.eon = (tracking' => endofnames') /\ DOMAIN z.ros = DOMAIN chans
        /\ z.ros[c] = v.ros[c] \ {n}
        /\ \A d \in DOMAIN chans : d # c => z.ros[d] = v.ros[d]
    BY <1>3, <1>5, <1>8, <2>1 DEF View
  <2>3. CASE k \notin DOMAIN users
    <3>1. UNCHANGED ucvars
      BY <1>2, <1>4, <1>6, <1>7, <1>11, <2>3 DEF h_PART, KnownUser
    <3>2. k \notin KeysIn(c)
      BY <1>3, <1>5, <2>3
    <3>3. n \notin v.ros[c]
      BY <1>3, <1>5, <1>6, <3>2
    <3>4. \A d \in DOMAIN chans : z.ros[d] = v.ros[d]
      BY <2>2, <3>3
    <3>5. v.ros \in [DOMAIN v.ros -> SUBSET Nick] /\ z.ros \in [DOMAIN z.ros -> SUBSET Nick]
      BY <1>2 DEF Good
    <3>6. z.ros = v.ros
      BY <1>3, <2>2, <3>4, <3>5
    <3> QED BY <1>1, <1>3, <1>8, <2>2, <3>1, <3>6, LearnsIdle
  <2>4. CASE k \in DOMAIN users
    <3>1. DropMemb(c, users[k])
      BY <1>2, <1>4, <1>6, <1>7, <1>11, <2>4 DEF h_PART, KnownUser
    <3>2. /\ Tidy' /\ DOMAIN chans' = DOMAIN chans
          /\ \A d \in DOMAIN chans : KeysIn(d)' = IF d = c THEN KeysIn(c) \ {k} ELSE KeysIn(d)
          /\ \A j \in DOMAIN users' : j \in DOMAIN users /\ Name(j)' = Name(j)
      BY <1>2, <1>5, <2>4, <3>1, TidyLeft
    <3>3. Rosters
      BY <1>5, <3>2, RosterLoses
    <3>4. ASSUME NEW d \in DOMAIN chans' PROVE z.ros[d] = Nicks(d)' \cup Pending(d)'
      <4>1. \A j \in KeysIn(d)' : j \in DOMAIN users'
        BY <3>2 DEF Tidy, Mapped
      <4>2. CASE d # c
        <5>1. Nicks(d)' = Nicks(d)
          BY <3>2, <4>1, <4>2, SameNicks
        <5> QED BY <1>3, <1>9, <2>2, <3>2, <4>2, <5>1
      <4>3. CASE d = c
        <5>1. KeysIn(c)' = KeysIn(c) \ {k}
          BY <1>5, <3>2
        <5>2. \A x : x \in Nicks(c)' <=> \E j \in KeysIn(c) \ {k} : x = Name(j)
          BY <3>2, <4>1, <4>3, <5>1, NicksIs
        <5>3. \A x : x \in Nicks(c)' <=> x \in Nicks(c) /\ x # n
          BY <1>3, <1>5, <1>6, <2>4, <5>2, NicksIs
        <5>4. Nicks(c)' = Nicks(c) \ {n}
          BY <5>3
        <5> QED BY <1>3, <1>5, <1>9, <2>2, <4>3, <5>4
      <4> QED BY <4>2, <4>3
    <3> QED BY <1>2, <1>9, <2>2, <3>2, <3>3, <3>4, Shows DEF Learns
  <2> QED BY <2>3, <2>4
<1> QED BY <1>10, <1>11

LEMMA LearnsQuit ==
  ASSUME NEW z, Ready(z), Inv', NEW n \in Nick, Quits(TrView, n, z), h_QUIT(n)
  PROVE  Learns(z)
<1>1. PICK v : v = TrView
  OBVIOUS
<1>2. Good(z) /\ Good(v) /\ Tidy /\ names = <<>>
  BY <1>1 DEF Ready
<1>3. /\ mynick \in Nick /\ v.me = mynick /\ DOMAIN v.ros = DOMAIN chans
      /\ \A d \in DOMAIN chans : v.ros[d] = Nicks(d) /\ KeysIn(d) \subseteq DOMAIN users
      /\ v.eon = (tracking => endofnames)
  BY <1>1, <1>2, ByKey, TrViewIs
<1>4. PICK k : k = NickKey[n]
  OBVIOUS
<1>5. n \in NamesOf(v) /\ k \in Nick
  BY <1>1, <1>4, KeyAssumption DEF Quits
<1>6. /\ k \in DOMAIN users => Name(k) = n
      /\ \A d \in DOMAIN chans : n \in Nicks(d) <=> k \in KeysIn(d)
      /\ \A j \in DOMAIN users : j # k => Name(j) # n
  BY <1>1, <1>2, <1>4, <1>5, SameKey
<1>7. names' = <<>> /\ mynick' = mynick /\ tracking' = tracking /\ endofnames' = endofnames
  BY <1>2 DEF CarryOn, conn, h_QUIT
<1>8. PendOk' /\ \A d : Pending(d)' = {}
  BY <1>7, NoPending
<1>9. /\ z.me = mynick' /\ z.eon = (tracking' => endofnames') /\ DOMAIN z.ros = DOMAIN chans
      /\ \A d \in DOMAIN chans : z.ros[d] = v.ros[d] \ {n}
  BY <1>1, <1>3, <1>7 DEF View, Quits
<1>10. CASE k \notin DOMAIN users
  <2>1. UNCHANGED ucvars
    BY <1>4, <1>10 DEF h_QUIT, KnownUser
  <2>2. ASSUME NEW d \in DOMAIN chans PROVE z.ros[d] = v.ros[d]
    <3>1. n \notin v.ros[d]
      BY <1>3, <1>6, <1>10
    <3> QED BY <1>9, <3>1
  <2>3. v.ros \in [DOMAIN v.ros -> SUBSET Nick] /\ z.ros \in [DOMAIN z.ros -> SUBSET Nick]
    BY <1>2 DEF Good
  <2>4. z.ros = v.ros
    BY <1>3, <1>9, <2>2, <2>3
  <2> QED BY <1>1, <1>3, <1>7, <1>9, <2>1, <2>4, LearnsIdle
<1>11. CASE k \in DOMAIN users
  <2>1. DropUser(users[k])
    BY <1>4, <1>11 DEF h_QUIT, KnownUser
  <2>2. /\ Tidy' /\ DOMAIN chans' = DOMAIN chans /\ DOMAIN users' = DOMAIN users \ {k}
        /\ \A d \in DOMAIN chans : KeysIn(d)' = KeysIn(d) \ {k}
        /\ \A j \in DOMAIN users' : Name(j)' = Name(j)
    BY <1>2, <1>11, <2>1, TidyGone
  <2>3. Rosters
    BY <1>5, <2>2, RosterQuits
  <2>4. ASSUME NEW d \in DOMAIN chans' PROVE z.ros[d] = Nicks(d)' \cup Pending(d)'
    <3>1. \A j \in KeysIn(d)' : j \in DOMAIN users'
      BY <2>2 DEF Tidy, Mapped
    <3>2. KeysIn(d)' = KeysIn(d) \ {k}
      BY <2>2
    <3>3. \A x : x \in Nicks(d)' <=> \E j \in KeysIn(d) \ {k} : x = Name(j)
      BY <2>2, <3>1, <3>2, NicksIs
    <3>4. \A x : x \in Nicks(d)' <=> x \in Nicks(d) /\ x # n
      BY <1>3, <1>6, <1>11, <2>2, <3>3, NicksIs
    <3>5. Nicks(d)' = Nicks(d) \ {n}
      BY <3>4
    <3> QED BY <1>3, <1>8, <1>9, <2>2, <3>5
  <2> QED BY <1>2, <1>8, <1>9, <2>2, <2>3, <2>4, Shows DEF Learns
<1> QED BY <1>10, <1>11

LEMMA LearnsMode ==
  ASSUME NEW z, Ready(z), z = TrView, Inv', NEW c \in Chan, NEW n \in Nick, NEW s \in Sym,
         NEW enab \in BOOLEAN, h_MODE(c, n, s, enab)
  PROVE  Learns(z)
<1>1. /\ Tidy /\ names = <<>> /\ Inv /\ ChanKey[c] = c
      /\ z.me = mynick /\ z.eon = (tracking => endofnames)
  BY TrViewIs, ServerAssumption DEF Ready
<1>2. names' = <<>> /\ mynick' = mynick /\ tracking' = tracking /\ endofnames' = endofnames
  BY <1>1 DEF CarryOn, conn, h_MODE
<1>3. SameShape
  <2>1. CASE UNCHANGED ucvars
    BY <2>1 DEF SameShape, ucvars
  <2>2. CASE UpdateModePfx(c, n, s, enab) /\ c \in DOMAIN chans
    BY <1>1, <2>2, UpdateModePfxStep, TidyRefs DEF Tidy
  <2> QED BY <1>1, <2>1, <2>2 DEF h_MODE, KnownChan
<1>4. /\ Tidy' /\ DOMAIN chans' = DOMAIN chans /\ DOMAIN users' = DOMAIN users
      /\ \A d \in DOMAIN chans : KeysIn(d)' = KeysIn(d)
      /\ \A k \in DOMAIN users : Name(k)' = Name(k)
  BY <1>1, <1>3, TidyShape DEF Inv
<1> QED BY <1>1, <1>2, <1>4, LearnsSame

LEMMA LearnsEnd ==
  ASSUME NEW z, Ready(z), Inv', z = View(TrView.me, TrView.ros, TRUE), h_366
  PROVE  Learns(z)
<1>1. UNCHANGED ucvars /\ names' = <<>> /\ mynick' = mynick /\ endofnames' = TRUE
  BY DEF h_366, conn, Tracking, Idle
<1>2. z.me = mynick' /\ z.ros = TrView.ros /\ z.eon = (tracking' => endofnames')
  BY <1>1, TrViewIs DEF View
<1> QED BY <1>1, <1>2, LearnsIdle

(* The tracker starts with the maps empty, as they are without channels.    *)
LEMMA LearnsSupport ==
  ASSUME NEW z, Ready(z), z = TrView, Inv', DOMAIN chans = {}, handle_005
  PROVE  Learns(z)
<1>1. Tidy /\ z.me = mynick /\ z.eon = (tracking => endofnames) /\ ~tracking
  BY TrViewIs DEF Ready, handle_005
<1>2. users = EmptyMap /\ chans = EmptyMap
  BY <1>1, TidyEmpty
<1>3. UNCHANGED ucvars
  BY <1>2 DEF handle_005, handle_005_Fails, ucvars
<1>4. names' = <<>> /\ mynick' = mynick
  BY DEF handle_005, Idle
<1>5. tracking' => endofnames'
  <2>1. CASE handle_005_Fails
    BY <1>1, <2>1 DEF handle_005_Fails
  <2>2. CASE endofnames' = TRUE
    BY <2>2
  <2> QED BY <2>1, <2>2 DEF handle_005
<1> QED BY <1>1, <1>3, <1>4, <1>5, LearnsIdle

(* h_353 has the names of a list to add.                                    *)
LEMMA ListPending ==
  ASSUME NEW l \in Seq(Entry), NEW c, names' = [i \in 1..Len(l) |-> In(c, l[i])]
  PROVE  /\ Pending(c)' = Named(l) /\ \A d : d # c => Pending(d)' = {}
         /\ c \in DOMAIN chans' /\ Distinct(l) /\ Named(l) \cap Nicks(c)' = {} => PendOk'
<1>1. PICK q : q = names'
  OBVIOUS
<1>2. /\ Len(l) \in Nat /\ Len(q) = Len(l)
      /\ \A i \in 1..Len(l) : q[i].nick = l[i].nick /\ q[i].chan = c
  BY <1>1 DEF In
<1>3. Pending(c)' = Named(l)
  BY <1>1, <1>2 DEF Pending, Named
<1>4. ASSUME NEW d, d # c PROVE Pending(d)' = {}
  BY <1>1, <1>2, <1>4 DEF Pending
<1>5. ASSUME c \in DOMAIN chans', Distinct(l), Named(l) \cap Nicks(c)' = {} PROVE PendOk'
  <2>1. ASSUME NEW i \in 1..Len(l) PROVE l[i].nick \notin Nicks(c)'
    BY <1>5 DEF Named
  <2>2. \A i, j \in 1..Len(l) : l[i].nick = l[j].nick => i = j
    BY <1>5 DEF Distinct
  <2> QED BY <1>1, <1>2, <1>5, <2>1, <2>2 DEF PendOk
<1> QED BY <1>3, <1>4, <1>5

LEMMA LearnsList ==
  ASSUME NEW z, Ready(z), Inv', NEW c \in Chan, NEW l \in Seq(Entry),
         Lists(TrView, c, l, z), h_353(c, l)
  PROVE  Learns(z)
<1>1. PICK v : v = TrView
  OBVIOUS
<1>2. Good(z) /\ Good(v) /\ Tidy /\ names = <<>> /\ ChanKey[c] = c /\ tracking
  BY <1>1, ServerAssumption DEF Ready, h_353, Tracking
<1>3. /\ mynick \in Nick /\ v.me = mynick /\ DOMAIN v.ros = DOMAIN chans
      /\ \A d \in DOMAIN chans : v.ros[d] = Nicks(d) /\ KeysIn(d) \subseteq DOMAIN users
      /\ v.eon = (tracking => endofnames)
  BY <1>1, <1>2, ByKey, TrViewIs
<1>4. CASE c \notin DOMAIN chans
  <2>1. z = v
    BY <1>1, <1>3, <1>4 DEF Lists
  <2>2. UNCHANGED ucvars /\ CarryOn
    BY <1>2, <1>4 DEF h_353, KnownChan
  <2>3. names' = <<>> /\ mynick' = mynick /\ tracking' = tracking /\ endofnames' = endofnames
    BY <1>2, <2>2 DEF CarryOn, conn
  <2> QED BY <1>1, <1>3, <2>1, <2>2, <2>3, LearnsIdle
<1>5. CASE c \in DOMAIN chans
  <2>1. /\ Distinct(l) /\ (v.eon \/ Named(l) \cap v.ros[c] = {})
        /\ z = View(v.me, [v.ros EXCEPT ![c] = (IF v.eon THEN {} ELSE @) \cup Named(l)], FALSE)
    BY <1>1, <1>3, <1>5 DEF Lists
  <2>2. /\ names' = [i \in 1..Len(l) |-> In(c, l[i])]
        /\ mynick' = mynick /\ tracking' /\ endofnames' = FALSE
        /\ IF endofnames THEN ClearMemb(c) ELSE UNCHANGED ucvars
    <3>1. KnownChan(c)
      BY <1>2, <1>5 DEF KnownChan
    <3>2. /\ names' = [i \in 1..Len(l) |-> In(c, l[i])]
          /\ endofnames' = FALSE
          /\ IF endofnames THEN ClearMemb(c) ELSE UNCHANGED ucvars
          /\ UNCHANGED <<conn, phase>>
      BY <1>2, <3>1 DEF h_353
    <3>3. mynick' = mynick /\ tracking'
      BY <1>2, <3>2 DEF conn
    <3> QED BY <3>2, <3>3
  <2>3. /\ z.me = mynick' /\ z.eon = (tracking' => endofnames') /\ DOMAIN z.ros = DOMAIN chans
        /\ z.ros[c] = (IF v.eon THEN {} ELSE v.ros[c]) \cup Named(l)
        /\ \A d \in DOMAIN chans : d # c => z.ros[d] = v.ros[d]
    BY <1>3, <1>5, <2>1, <2>2 DEF View
  <2>4. /\ Pending(c)' = Named(l) /\ \A d : d # c => Pending(d)' = {}
        /\ c \in DOMAIN chans' /\ Distinct(l) /\ Named(l) \cap Nicks(c)' = {} => PendOk'
    BY <2>2, ListPending
  <2>5. CASE endofnames
    <3>1. ClearMemb(c) /\ v.eon = TRUE
      BY <1>3, <2>2, <2>5
    <3>2. /\ Tidy' /\ DOMAIN chans' = IF ClearMemb(c) THEN DOMAIN chans ELSE DOMAIN chans \ {c}
          /\ \A d \in DOMAIN chans' :
               d \in DOMAIN chans /\ KeysIn(d)' = IF d = c THEN {} ELSE KeysIn(d)
          /\ \A j \in DOMAIN users' : j \in DOMAIN users /\ Name(j)' = Name(j)
      BY <1>2, <1>5, <3>1, TidyEmptied
    <3>3. DOMAIN chans' = DOMAIN chans
      BY <3>1, <3>2
    <3>4. Rosters
      BY <1>5, <3>2, <3>3, RosterForgets
    <3>5. Nicks(c)' = {}
      <4>1. KeysIn(c)' = {}
        BY <1>5, <3>2, <3>3
      <4> QED BY <4>1, NicksIs
    <3>6. PendOk'
      BY <1>5, <2>1, <2>4, <3>3, <3>5
    <3>7. ASSUME NEW d \in DOMAIN chans' PROVE z.ros[d] = Nicks(d)' \cup Pending(d)'
      <4>1. CASE d = c
        BY <2>3, <2>4, <3>1, <3>5, <4>1
      <4>2. CASE d # c
        <5>1. \A j \in KeysIn(d)' : j \in DOMAIN users'
          BY <3>2 DEF Tidy, Mapped
        <5>2. Nicks(d)' = Nicks(d)
          BY <3>2, <4>2, <5>1, SameNicks
        <5> QED BY <1>3, <2>3, <2>4, <3>3, <4>2, <5>2
      <4> QED BY <4>1, <4>2
    <3> QED BY <1>2, <2>3, <3>2, <3>3, <3>4, <3>6, <3>7, Shows DEF Learns
  <2>6. CASE ~endofnames
    <3>1. UNCHANGED ucvars /\ v.eon = FALSE /\ SameShape /\ UcTypeOK'
      BY <1>2, <1>3, <2>2, <2>6 DEF SameShape, ucvars, Inv
    <3>2. /\ Tidy' /\ DOMAIN chans' = DOMAIN chans /\ DOMAIN users' = DOMAIN users
          /\ \A d \in DOMAIN chans : KeysIn(d)' = KeysIn(d)
          /\ \A j \in DOMAIN users : Name(j)' = Name(j)
      BY <1>2, <3>1, TidyShape
    <3>3. Rosters
      BY <3>2, RosterStays
    <3>4. \A d \in DOMAIN chans : Nicks(d)' = Nicks(d)
      BY <1>3, <3>2, SameNicks
    <3>5. PendOk'
      BY <1>3, <1>5, <2>1, <2>4, <3>1, <3>2, <3>4
    <3>6. ASSUME NEW d \in DOMAIN chans' PROVE z.ros[d] = Nicks(d)' \cup Pending(d)'
      <4>1. CASE d = c
        BY <1>3, <1>5, <2>3, <2>4, <3>1, <3>4, <4>1
      <4>2. CASE d # c
        BY <1>3, <2>3, <2>4, <3>2, <3>4, <4>2
      <4> QED BY <4>1, <4>2
    <3> QED BY <1>2, <2>3, <3>2, <3>3, <3>5, <3>6, Shows DEF Learns
  <2> QED BY <2>5, <2>6
<1> QED BY <1>4, <1>5

(* A member nobody has heard of, or who is known under the same nickname.   *)
LEMMA GainsMember ==
  ASSUME Tidy, NEW c \in DOMAIN chans, NEW n \in Nick, NEW k, k = NickKey[n],
         k \notin KeysIn(c), NEW p \in Seq(Sym), AddMember(c, n, p),
         k \in DOMAIN users => Name(k) = n
  PROVE  /\ Tidy' /\ Rosters /\ DOMAIN chans' = DOMAIN chans
         /\ Nicks(c)' = Nicks(c) \cup {n}
         /\ \A d \in DOMAIN chans : d # c => Nicks(d)' = Nicks(d)
<1>1. /\ Tidy' /\ DOMAIN chans' = DOMAIN chans /\ DOMAIN users' = DOMAIN users \cup {k}
      /\ \A d \in DOMAIN chans : KeysIn(d)' = IF d = c THEN KeysIn(c) \cup {k} ELSE KeysIn(d)
      /\ \A j \in DOMAIN users' : Name(j)' = IF j \in DOMAIN users THEN Name(j) ELSE n
  BY TidyMember
<1>2. \A d \in DOMAIN chans : KeysIn(d) \subseteq DOMAIN users
  BY DEF Tidy, Mapped
<1>3. k \in Nick
  BY KeyAssumption
<1>4. Rosters
  BY <1>1, <1>3, RosterGains
<1>5. ASSUME NEW d \in DOMAIN chans, d # c PROVE Nicks(d)' = Nicks(d)
  <2>1. KeysIn(d)' = KeysIn(d)
    BY <1>1, <1>5
  <2>2. \A j \in KeysIn(d) : Name(j)' = Name(j)
    BY <1>1, <1>2
  <2> QED BY <2>1, <2>2, SameNicks
<1>6. Nicks(c)' = Nicks(c) \cup {n}
  <2>1. KeysIn(c)' = KeysIn(c) \cup {k}
    BY <1>1
  <2>2. (\A j \in KeysIn(c) : Name(j)' = Name(j)) /\ Name(k)' = n
    BY <1>1, <1>2
  <2>3. \A x : x \in Nicks(c)' <=> x \in Nicks(c) \/ x = n
    BY <2>1, <2>2, NicksIs
  <2> QED BY <2>3
<1> QED BY <1>1, <1>4, <1>5, <1>6

LEMMA LearnsJoin ==
  ASSUME NEW z, Ready(z), Inv', NEW n \in Nick, NEW c \in Chan,
         Joins(TrView, n, c, z), h_JOIN(n, c)
  PROVE  Learns(z)
<1>1. PICK v : v = TrView
  OBVIOUS
<1>2. Good(z) /\ Good(v) /\ Tidy /\ names = <<>> /\ ChanKey[c] = c
  BY <1>1, ServerAssumption DEF Ready
<1>3. /\ mynick \in Nick /\ v.me = mynick /\ DOMAIN v.ros = DOMAIN chans
      /\ \A d \in DOMAIN chans : v.ros[d] = Nicks(d) /\ KeysIn(d) \subseteq DOMAIN users
      /\ v.eon = (tracking => endofnames)
      /\ \A k \in DOMAIN users : Name(k) \in NamesOf(v) /\ NickKey[Name(k)] = k
  BY <1>1, <1>2, ByKey, TrViewIs
<1>4. KnownChan(c) <=> c \in DOMAIN chans
  BY <1>2 DEF KnownChan
<1>5. ASSUME CarryOn
      PROVE  /\ names' = <<>> /\ mynick' = mynick /\ tracking' = tracking
             /\ endofnames' = endofnames /\ PendOk' /\ \A d : Pending(d)' = {}
  BY <1>2, <1>5, NoPending DEF CarryOn, conn
<1>6. ASSUME GiveUp PROVE ~online'
  BY <1>6 DEF GiveUp
<1>7. CASE n = v.me
  <2>1. z = View(v.me, Put(v.ros, c, {}), v.eon) /\ c \notin DOMAIN chans
    BY <1>1, <1>3, <1>7 DEF Joins
  <2>2. Me(n)
    BY <1>3, <1>7, TrackAssumption DEF Me
  <2>3. CASE UNCHANGED ucvars /\ GiveUp
    BY <1>6, <2>3, LearnsIdle
  <2>4. CASE AddChan(c) /\ CarryOn
    <3>1. /\ Tidy' /\ DOMAIN chans' = DOMAIN chans \cup {c} /\ DOMAIN users' = DOMAIN users
          /\ \A d \in DOMAIN chans' : KeysIn(d)' = IF d = c THEN {} ELSE KeysIn(d)
          /\ \A k \in DOMAIN users : Name(k)' = Name(k)
      BY <1>2, <2>1, <2>4, TidyChan
    <3>2. Rosters
      BY <2>1, <3>1, RosterOpens
    <3>3. /\ z.me = mynick' /\ z.eon = (tracking' => endofnames')
          /\ DOMAIN z.ros = DOMAIN chans' /\ z.ros[c] = {}
          /\ \A d \in DOMAIN chans : z.ros[d] = v.ros[d]
      BY <1>3, <1>5, <2>1, <2>4, <3>1 DEF View, Put
    <3>4. ASSUME NEW d \in DOMAIN chans' PROVE z.ros[d] = Nicks(d)' \cup Pending(d)'
      <4>1. CASE d = c
        <5>1. KeysIn(c)' = {}
          BY <3>1, <4>1
        <5> QED BY <1>5, <2>4, <3>3, <4>1, <5>1, NicksIs
      <4>2. CASE d # c
        <5>1. d \in DOMAIN chans /\ KeysIn(d)' = KeysIn(d)
          BY <3>1, <4>2
        <5>2. Nicks(d)' = Nicks(d)
          BY <1>3, <3>1, <5>1, SameNicks
        <5> QED BY <1>3, <1>5, <2>4, <3>3, <5>1, <5>2
      <4> QED BY <4>1, <4>2
    <3> QED BY <1>2, <1>5, <2>4, <3>1, <3>2, <3>3, <3>4, Shows DEF Learns
  <2> QED BY <1>2, <1>4, <2>1, <2>2, <2>3, <2>4 DEF h_JOIN
<1>8. CASE n # v.me
  <2>1. /\ z = View(v.me, [v.ros EXCEPT ![c] = @ \cup {n}], v.eon)
        /\ c \in DOMAIN chans /\ n \notin v.ros[c]
    BY <1>1, <1>3, <1>8 DEF Joins
  <2>2. /\ z.me = v.me /\ z.eon = v.eon /\ DOMAIN z.ros = DOMAIN v.ros
        /\ z.ros[c] = v.ros[c] \cup {n}
        /\ \A d \in DOMAIN v.ros : d # c => z.ros[d] = v.ros[d]
    BY <1>3, <2>1 DEF View
  <2>3. NamesOf(v) \subseteq NamesOf(z) /\ n \in NamesOf(z) /\ KeyInj(NamesOf(z))
    <3>1. \A d \in DOMAIN v.ros : v.ros[d] \subseteq z.ros[d]
      BY <2>2
    <3>2. NamesOf(v) \subseteq NamesOf(z)
      BY <2>2, <3>1 DEF NamesOf
    <3>a. c \in DOMAIN z.ros /\ n \in z.ros[c]
      BY <1>3, <2>1, <2>2
    <3>b. \A d \in DOMAIN z.ros : z.ros[d] \subseteq NamesOf(z)
      BY DEF NamesOf
    <3>3. n \in NamesOf(z)
      BY <3>a, <3>b
    <3> QED BY <1>2, <3>2, <3>3 DEF Good
  <2>4. PICK k : k = NickKey[n]
    OBVIOUS
  <2>5. k \in DOMAIN users => Name(k) = n
    BY <1>3, <2>3, <2>4 DEF KeyInj
  <2>6. k \notin KeysIn(c)
    BY <1>3, <2>1, <2>5, NicksIs
  <2>7. ~Me(n)
    <3>1. v.me \in NamesOf(z)
      BY <2>2 DEF NamesOf
    <3> QED BY <1>3, <1>8, <2>3, <3>1 DEF Me, KeyInj
  <2>8. CASE AddMemberFails(c, n) /\ GiveUp
    <3>1. /\ Tidy' /\ DOMAIN chans' = DOMAIN chans /\ DOMAIN users' = DOMAIN users
          /\ \A d \in DOMAIN chans : KeysIn(d)' = KeysIn(d)
          /\ \A j \in DOMAIN users : Name(j)' = Name(j)
      BY <1>2, <2>8, TidyMemberFails
    <3> QED BY <1>6, <2>8, <3>1, LearnsSame
  <2>9. CASE AddMember(c, n, <<>>) /\ CarryOn
    <3>1. <<>> \in Seq(Sym)
      OBVIOUS
    <3>2. /\ Tidy' /\ Rosters /\ DOMAIN chans' = DOMAIN chans
          /\ Nicks(c)' = Nicks(c) \cup {n}
          /\ \A d \in DOMAIN chans : d # c => Nicks(d)' = Nicks(d)
      BY <1>2, <2>1, <2>4, <2>5, <2>6, <2>9, <3>1, GainsMember
    <3>3. z.me = mynick' /\ z.eon = (tracking' => endofnames') /\ DOMAIN z.ros = DOMAIN chans'
      BY <1>3, <1>5, <2>2, <2>9, <3>2
    <3>4. ASSUME NEW d \in DOMAIN chans' PROVE z.ros[d] = Nicks(d)' \cup Pending(d)'
      BY <1>3, <1>5, <2>2, <2>9, <3>2
    <3> QED BY <1>2, <1>5, <2>9, <3>2, <3>3, <3>4, Shows DEF Learns
  <2> QED BY <1>2, <1>4, <2>1, <2>7, <2>8, <2>9 DEF h_JOIN
<1> QED BY <1>7, <1>8

(* h_353 has added the first of its names.                                  *)
LEMMA TailPending ==
  ASSUME names \in Seq(NameIn), names # <<>>, names' = Tail(names)
  PROVE  /\ Len(names) \in Nat /\ 1 \in 1..Len(names) /\ Head(names) = names[1]
         /\ \A i \in 1..Len(names') : i + 1 \in 2..Len(names) /\ names'[i] = names[i + 1]
         /\ \A d, x : x \in Pending(d) <=> \/ x \in Pending(d)'
                                           \/ d = names[1].chan /\ x = names[1].nick
<1>1. Len(names) \in Nat /\ 1 \in 1..Len(names) /\ Head(names) = names[1]
  OBVIOUS
<1>2. Len(names') = Len(names) - 1
  BY <1>1
<1>3. ASSUME NEW i \in 1..Len(names') PROVE i + 1 \in 2..Len(names) /\ names'[i] = names[i + 1]
  BY <1>1, <1>2
<1>4. ASSUME NEW d, NEW x
      PROVE  x \in Pending(d) <=> \/ x \in Pending(d)'
                                  \/ d = names[1].chan /\ x = names[1].nick
  <2>1. /\ x \in Pending(d) <=> \E i \in 1..Len(names) : names[i].chan = d /\ x = names[i].nick
        /\ x \in Pending(d)' <=> \E i \in 1..Len(names') : names'[i].chan = d /\ x = names'[i].nick
    BY DEF Pending
  <2>2. ASSUME NEW i \in 1..Len(names), i # 1 PROVE \E j \in 1..Len(names') : names'[j] = names[i]
    <3>1. i - 1 \in 1..Len(names') /\ (i - 1) + 1 = i
      BY <1>1, <1>2, <2>2
    <3> QED BY <1>3, <3>1
  <2>3. ASSUME NEW i \in 1..Len(names') PROVE \E j \in 1..Len(names) : names[j] = names'[i]
    <3>1. i + 1 \in 1..Len(names)
      BY <1>1, <1>2
    <3> QED BY <1>3, <3>1
  <2>4. ASSUME x \in Pending(d)
        PROVE  x \in Pending(d)' \/ (d = names[1].chan /\ x = names[1].nick)
    <3>1. PICK i \in 1..Len(names) : names[i].chan = d /\ x = names[i].nick
      BY <2>1, <2>4
    <3>2. CASE i # 1
      <4>1. PICK j \in 1..Len(names') : names'[j] = names[i]
        BY <2>2, <3>2
      <4> QED BY <2>1, <3>1, <4>1
    <3> QED BY <3>1, <3>2
  <2>5. ASSUME x \in Pending(d)' PROVE x \in Pending(d)
    <3>1. PICK i \in 1..Len(names') : names'[i].chan = d /\ x = names'[i].nick
      BY <2>1, <2>5
    <3>2. PICK j \in 1..Len(names) : names[j] = names'[i]
      BY <2>3
    <3> QED BY <2>1, <3>1, <3>2
  <2>6. ASSUME d = names[1].chan, x = names[1].nick PROVE x \in Pending(d)
    BY <1>1, <2>1, <2>6
  <2> QED BY <2>4, <2>5, <2>6
<1> QED BY <1>1, <1>3, <1>4

(* Adding a name of a list teaches nothing: it counts as known already.     *)
LEMMA LearnsName ==
  ASSUME Inv, Tidy, PendOk, online, Good(TrView), NextName
  PROVE  Learns(TrView)
<1>1. PICK v : v = TrView
  OBVIOUS
<1>2. names \in Seq(NameIn) /\ names # <<>> /\ Good(v)
  BY <1>1 DEF NextName, Inv, CtlOK
<1>3. v.me = mynick /\ v.eon = (tracking => endofnames)
  BY <1>1, TrViewIs
<1>4. /\ DOMAIN v.ros = DOMAIN chans
      /\ \A d \in DOMAIN chans : v.ros[d] = Nicks(d) \cup Pending(d)
  BY <1>1, TrViewIs
<1>5. PICK n \in Nick, c \in Chan, p \in Seq(Sym) :
        /\ n = names[1].nick /\ c = names[1].chan
        /\ n = Head(names).nick /\ c = Head(names).chan /\ p = Head(names).pfx
  <2>1. names[1] \in NameIn /\ Head(names) = names[1]
    BY <1>2
  <2>2. names[1].nick \in Nick /\ names[1].chan \in Chan /\ names[1].pfx \in Pfx1
    BY <2>1 DEF NameIn
  <2>3. Pfx1 \subseteq Seq(Sym)
    <3>1. <<>> \in Seq(Sym) /\ \A x \in Sym : <<x>> \in Seq(Sym)
      OBVIOUS
    <3> QED BY <3>1 DEF Pfx1
  <2> QED BY <2>1, <2>2, <2>3
<1>6. 1 \in 1..Len(names)
  BY <1>2
<1>7. c \in DOMAIN chans /\ n \notin Nicks(c) /\ n \in Pending(c)
  <2>1. c \in DOMAIN chans /\ n \notin Nicks(c)
    BY <1>5, <1>6 DEF PendOk
  <2>2. n \in Pending(c)
    BY <1>5, <1>6 DEF Pending
  <2> QED BY <2>1, <2>2
<1>8. KeyInj(NamesOf(v)) /\ \A d \in DOMAIN chans : Nicks(d) \cup Pending(d) \subseteq NamesOf(v)
  BY <1>2, <1>4 DEF NamesOf, Good
<1>9. PICK k : k = NickKey[n]
  OBVIOUS
<1>10. k \in DOMAIN users => Name(k) = n
  <2>1. ASSUME k \in DOMAIN users PROVE Name(k) = n
    <3>1. PICK d \in DOMAIN chans : k \in KeysIn(d)
      BY <2>1 DEF Tidy, CountedOnce, ChansWith, KeysIn
    <3>2. Name(k) \in Nicks(d)
      BY <3>1 DEF Nicks
    <3>3. Name(k) \in NamesOf(v) /\ n \in NamesOf(v)
      BY <1>7, <1>8, <3>2
    <3>4. NickKey[Name(k)] = k
      BY <2>1, Users
    <3> QED BY <1>8, <1>9, <3>3, <3>4 DEF KeyInj
  <2> QED BY <2>1
<1>11. k \notin KeysIn(c)
  <2>1. KeysIn(c) \subseteq DOMAIN users
    BY <1>7 DEF Tidy, Mapped
  <2> QED BY <1>7, <1>10, <2>1, NicksIs
<1>12. CASE AddMemberFails(c, n) /\ GiveUp
  <2>1. /\ Tidy' /\ DOMAIN chans' = DOMAIN chans /\ DOMAIN users' = DOMAIN users
        /\ \A d \in DOMAIN chans : KeysIn(d)' = KeysIn(d)
        /\ \A j \in DOMAIN users : Name(j)' = Name(j)
    BY <1>12, TidyMemberFails
  <2>2. Rosters
    BY <2>1, RosterStays
  <2>3. ~online'
    BY <1>12 DEF GiveUp
  <2> QED BY <2>1, <2>2, <2>3 DEF Learns
<1>13. CASE AddMember(c, n, p) /\ names' = Tail(names) /\ UNCHANGED <<conn, endofnames, phase>>
  <2>1. /\ Tidy' /\ Rosters /\ DOMAIN chans' = DOMAIN chans
        /\ Nicks(c)' = Nicks(c) \cup {n}
        /\ \A d \in DOMAIN chans : d # c => Nicks(d)' = Nicks(d)
    BY <1>7, <1>9, <1>10, <1>11, <1>13, GainsMember
  <2>2. /\ \A i \in 1..Len(names') : i + 1 \in 2..Len(names) /\ names'[i] = names[i + 1]
        /\ \A d, x : x \in Pending(d) <=> \/ x \in Pending(d)'
                                          \/ d = names[1].chan /\ x = names[1].nick
    BY <1>2, <1>13, TailPending
  <2>3. PendOk'
    <3>1. Len(names) \in Nat /\ \A i \in 2..Len(names) : i \in 1..Len(names) /\ i # 1
      BY <1>2
    <3>2. ASSUME NEW i \in 1..Len(names')
          PROVE  names'[i].chan \in DOMAIN chans' /\ names'[i].nick \notin Nicks(names[i].chan)'
      <4>1. PICK j \in 1..Len(names) : j # 1 /\ names'[i] = names[j]
        BY <2>2, <3>1
      <4>2. PICK d \in DOMAIN chans : d = names[j].chan /\ names[j].nick \notin Nicks(d)
        BY DEF PendOk
      <4>3. names[j].nick # n
        BY <1>5, <1>6, <4>1 DEF PendOk
      <4>4. names[j].nick \notin Nicks(d)'
        BY <2>1, <4>2, <4>3
      <4> QED BY <2>1, <4>1, <4>2, <4>4
    <3>3. ASSUME NEW i \in 1..Len(names'), NEW j \in 1..Len(names'),
                 names'[i].nick = names'[j].nick
          PROVE  i = j
      <4>1. i + 1 \in 1..Len(names) /\ j + 1 \in 1..Len(names)
        BY <2>2, <3>1
      <4>2. i + 1 = j + 1
        BY <2>2, <3>3, <4>1 DEF PendOk
      <4> QED BY <4>2
    <3> QED BY <3>2, <3>3 DEF PendOk
  <2>4. v.me = mynick' /\ v.eon = (tracking' => endofnames') /\ DOMAIN v.ros = DOMAIN chans'
    BY <1>3, <1>4, <1>13, <2>1 DEF conn
  <2>5. ASSUME NEW d \in DOMAIN chans' PROVE v.ros[d] = Nicks(d)' \cup Pending(d)'
    <3>1. d \in DOMAIN chans /\ v.ros[d] = Nicks(d) \cup Pending(d)
      BY <1>4, <2>1
    <3>2. CASE d = c
      BY <1>5, <2>1, <2>2, <3>1, <3>2
    <3>3. CASE d # c
      BY <1>5, <2>1, <2>2, <3>1, <3>3
    <3> QED BY <3>2, <3>3
  <2> QED BY <1>1, <1>2, <2>1, <2>3, <2>4, <2>5, Shows DEF Learns
<1> QED BY <1>5, <1>12, <1>13 DEF NextName

(* A member gets a nickname nobody else has.                                *)
LEMMA RenamesMember ==
  ASSUME Tidy, NEW n \in Nick, NEW m \in Nick, NEW k \in DOMAIN users, k = NickKey[n],
         NEW l, l = NickKey[m], k = l \/ l \notin DOMAIN users, Name(k) = n,
         \A j \in DOMAIN users : j # k => Name(j) # n, RenameUser(n, m)
  PROVE  /\ Tidy' /\ Rosters /\ DOMAIN chans' = DOMAIN chans
         /\ \A d \in DOMAIN chans : /\ k \in KeysIn(d) => Nicks(d)' = (Nicks(d) \ {n}) \cup {m}
                                    /\ k \notin KeysIn(d) => Nicks(d)' = Nicks(d)
<1>1. /\ Tidy'
      /\ DOMAIN chans' = DOMAIN chans /\ DOMAIN users' = (DOMAIN users \ {k}) \cup {l}
      /\ \A d \in DOMAIN chans :
           KeysIn(d)' = IF k \in KeysIn(d) THEN (KeysIn(d) \ {k}) \cup {l} ELSE KeysIn(d)
      /\ \A j \in DOMAIN users' : Name(j)' = IF j = l THEN m ELSE Name(j)
  BY TidyRenamed
<1>2. Rosters
  <2>1. CASE k # l
    <3>1. k \in Nick /\ l \in Nick
      BY KeyAssumption
    <3> QED BY <1>1, <2>1, <3>1, RosterRenames
  <2>2. CASE k = l
    <3>1. DOMAIN users' = DOMAIN users
      BY <1>1, <2>2
    <3>2. \A d \in DOMAIN chans : KeysIn(d)' = KeysIn(d)
      BY <1>1, <2>2
    <3> QED BY <1>1, <3>1, <3>2, RosterStays
  <2> QED BY <2>1, <2>2
<1>3. \A d \in DOMAIN chans : KeysIn(d) \subseteq DOMAIN users /\ KeysIn(d)' \subseteq DOMAIN users'
  BY <1>1 DEF Tidy, Mapped
<1>4. ASSUME NEW d \in DOMAIN chans, k \in KeysIn(d) PROVE Nicks(d)' = (Nicks(d) \ {n}) \cup {m}
  <2>1. KeysIn(d)' = (KeysIn(d) \ {k}) \cup {l}
    BY <1>1, <1>4
  <2>2. \A j \in KeysIn(d) \ {k} : j # l /\ Name(j)' = Name(j) /\ Name(j) # n
    BY <1>1, <1>3, <2>1
  <2>3. Name(l)' = m
    BY <1>1
  <2>4. \A x : x \in Nicks(d)' <=> x = m \/ \E j \in KeysIn(d) \ {k} : x = Name(j)
    BY <2>1, <2>2, <2>3, NicksIs
  <2>5. \A x : x \in Nicks(d)' <=> x = m \/ (x \in Nicks(d) /\ x # n)
    BY <1>4, <2>2, <2>4, NicksIs
  <2> QED BY <2>5
<1>5. ASSUME NEW d \in DOMAIN chans, k \notin KeysIn(d) PROVE Nicks(d)' = Nicks(d)
  <2>1. KeysIn(d)' = KeysIn(d)
    BY <1>1, <1>5
  <2>2. \A j \in KeysIn(d) : j # l /\ Name(j)' = Name(j)
    BY <1>1, <1>3, <1>5, <2>1
  <2> QED BY <2>1, <2>2, SameNicks
<1> QED BY <1>1, <1>2, <1>4, <1>5

LEMMA LearnsNick ==
  ASSUME NEW z, Ready(z), Inv', NEW n \in Nick, NEW m \in Nick,
         {"rename", "strdup"} \cap FailSites = {}, ~tracking => DOMAIN chans = {},
         Renames(TrView, n, m, z), h_NICK(n, m)
  PROVE  Learns(z)
<1>1. PICK v : v = TrView
  OBVIOUS
<1>2. Good(z) /\ Good(v) /\ Tidy /\ names = <<>>
  BY <1>1 DEF Ready
<1>3. /\ mynick \in Nick /\ v.me = mynick /\ DOMAIN v.ros = DOMAIN chans
      /\ \A d \in DOMAIN chans : v.ros[d] = Nicks(d) /\ KeysIn(d) \subseteq DOMAIN users
      /\ v.eon = (tracking => endofnames)
      /\ \A j \in DOMAIN users : Name(j) \in NamesOf(v) /\ NickKey[Name(j)] = j
  BY <1>1, <1>2, ByKey, TrViewIs
<1>4. PICK k \in Nick, l \in Nick : k = NickKey[n] /\ l = NickKey[m]
  BY KeyAssumption
<1>5. /\ n \in NamesOf(v) /\ \A o \in NamesOf(v) \ {n} : NickKey[o] # l
      /\ z = View(IF n = v.me THEN m ELSE v.me,
                  [c \in DOMAIN v.ros |-> IF n \in v.ros[c] THEN (v.ros[c] \ {n}) \cup {m}
                                                            ELSE v.ros[c]],
                  v.eon)
  BY <1>1, <1>4 DEF Renames
<1>6. /\ Me(n) <=> n = mynick
      /\ k \in DOMAIN users => Name(k) = n
      /\ \A d \in DOMAIN chans : n \in Nicks(d) <=> k \in KeysIn(d)
      /\ \A j \in DOMAIN users : j # k => Name(j) # n
  BY <1>1, <1>2, <1>4, <1>5, SameKey
<1>7. /\ mynick' = (IF n = mynick THEN m ELSE mynick) /\ names' = <<>>
      /\ tracking' = tracking /\ endofnames' = endofnames
  BY <1>2, <1>6 DEF h_NICK, handle_NICK
<1>8. IF tracking THEN RenameUser(n, m) ELSE UNCHANGED ucvars
  <2>1. "rename" \notin FailSites /\ "strdup" \notin FailSites
    OBVIOUS
  <2> QED BY <2>1 DEF h_NICK, RenameUserGivesUp, RenameUserFails
<1>9. PendOk' /\ \A d : Pending(d)' = {}
  BY <1>7, NoPending
<1>10. z.me = mynick' /\ z.eon = (tracking' => endofnames') /\ DOMAIN z.ros = DOMAIN chans
  BY <1>3, <1>5, <1>7 DEF View
<1>11. ASSUME NEW d \in DOMAIN chans
       PROVE  z.ros[d] = IF n \in v.ros[d] THEN (v.ros[d] \ {n}) \cup {m} ELSE v.ros[d]
  BY <1>3, <1>5 DEF View
<1>12. CASE UNCHANGED ucvars /\ \A d \in DOMAIN chans : n \notin v.ros[d]
  <2>1. v.ros \in [DOMAIN v.ros -> SUBSET Nick] /\ z.ros \in [DOMAIN z.ros -> SUBSET Nick]
    BY <1>2 DEF Good
  <2>2. \A d \in DOMAIN chans : z.ros[d] = v.ros[d]
    BY <1>11, <1>12
  <2>3. z.ros = v.ros
    BY <1>3, <1>10, <2>1, <2>2
  <2> QED BY <1>1, <1>7, <1>10, <1>12, <2>3, LearnsIdle
<1>13. CASE k \in DOMAIN users /\ RenameUser(n, m)
  <2>1. k = l \/ l \notin DOMAIN users
    BY <1>3, <1>5, <1>6
  <2>2. \A j \in DOMAIN users : j # k => Name(j) # n
    BY <1>6
  <2>3. Tidy /\ Name(k) = n /\ k = NickKey[n] /\ l = NickKey[m]
    BY <1>2, <1>4, <1>6, <1>13
  <2>4. /\ Tidy' /\ Rosters /\ DOMAIN chans' = DOMAIN chans
        /\ \A d \in DOMAIN chans : /\ k \in KeysIn(d) => Nicks(d)' = (Nicks(d) \ {n}) \cup {m}
                                   /\ k \notin KeysIn(d) => Nicks(d)' = Nicks(d)
    BY <1>13, <2>1, <2>2, <2>3, RenamesMember
  <2>5. ASSUME NEW d \in DOMAIN chans' PROVE z.ros[d] = Nicks(d)' \cup Pending(d)'
    <3>1. d \in DOMAIN chans /\ v.ros[d] = Nicks(d) /\ (n \in v.ros[d] <=> k \in KeysIn(d))
      BY <1>3, <1>6, <2>4
    <3>2. Pending(d)' = {}
      BY <1>9
    <3>3. z.ros[d] = Nicks(d)'
      <4>1. CASE n \in v.ros[d]
        <5>1. z.ros[d] = (v.ros[d] \ {n}) \cup {m}
          BY <1>11, <3>1, <4>1
        <5>2. Nicks(d)' = (Nicks(d) \ {n}) \cup {m}
          BY <2>4, <3>1, <4>1
        <5> QED BY <3>1, <5>1, <5>2
      <4>2. CASE n \notin v.ros[d]
        <5>1. z.ros[d] = v.ros[d]
          BY <1>11, <3>1, <4>2
        <5>2. Nicks(d)' = Nicks(d)
          BY <2>4, <3>1, <4>2
        <5> QED BY <3>1, <5>1, <5>2
      <4> QED BY <4>1, <4>2
    <3> QED BY <3>2, <3>3
  <2> QED BY <1>2, <1>9, <1>10, <2>4, <2>5, Shows DEF Learns
<1>14. CASE k \notin DOMAIN users
  <2>1. UNCHANGED ucvars
    BY <1>4, <1>8, <1>14 DEF RenameUser, KnownUser
  <2>2. \A d \in DOMAIN chans : n \notin v.ros[d]
    BY <1>3, <1>6, <1>14
  <2> QED BY <1>12, <2>1, <2>2
<1>15. CASE ~tracking
  BY <1>8, <1>12, <1>15
<1> QED BY <1>8, <1>13, <1>14, <1>15

-----------------------------------------------------------------------------
(* One message *)

LEMMA MsgFields ==
  ASSUME NEW m \in Msgs
  PROVE  /\ m.cmd \in {"JOIN", "PART", "KICK"} => m.nick \in Nick /\ m.chan \in Chan
         /\ m.cmd = "QUIT" => m.nick \in Nick
         /\ m.cmd = "NICK" => m.nick \in Nick /\ m.new \in Nick
         /\ m.cmd = "MODE" => /\ m.chan \in Chan /\ m.nick \in Nick
                              /\ m.sym \in Sym /\ m.enab \in BOOLEAN
         /\ m.cmd = "353" => m.chan \in Chan /\ m.list \in Seq(Entry)
         /\ m.cmd \in {"JOIN", "PART", "KICK", "QUIT", "NICK", "MODE", "353", "366", "005"}
  BY DEF Msgs

LEMMA Handles ==
  ASSUME NEW m \in Msgs, Handle(m)
  PROVE  \/ m.cmd = "JOIN" /\ h_JOIN(m.nick, m.chan)
         \/ m.cmd = "353" /\ h_353(m.chan, m.list)
         \/ m.cmd = "366" /\ h_366
         \/ m.cmd \in {"PART", "KICK"} /\ h_PART(m.nick, m.chan)
         \/ m.cmd = "QUIT" /\ h_QUIT(m.nick)
         \/ m.cmd = "NICK" /\ h_NICK(m.nick, m.new)
         \/ m.cmd = "MODE" /\ h_MODE(m.chan, m.nick, m.sym, m.enab)
         \/ m.cmd = "005" /\ handle_005
<1>1. m.cmd \in {"JOIN", "PART", "KICK", "QUIT", "NICK", "MODE", "353", "366", "005"}
  BY MsgFields
<1> QED BY <1>1 DEF Handle, h_KICK

LEMMA HandleInv ==
  ASSUME Inv, NEW m \in Msgs, Handle(m)
  PROVE  Inv'
<1>1. CASE m.cmd = "JOIN" /\ h_JOIN(m.nick, m.chan)
  BY <1>1, MsgFields, JoinInv
<1>2. CASE m.cmd = "353" /\ h_353(m.chan, m.list)
  BY <1>2, MsgFields, NamesInv
<1>3. CASE m.cmd = "366" /\ h_366
  BY <1>3, EndInv
<1>4. CASE m.cmd \in {"PART", "KICK"} /\ h_PART(m.nick, m.chan)
  BY <1>4, MsgFields, PartInv
<1>5. CASE m.cmd = "QUIT" /\ h_QUIT(m.nick)
  BY <1>5, MsgFields, QuitInv
<1>6. CASE m.cmd = "NICK" /\ h_NICK(m.nick, m.new)
  BY <1>6, MsgFields, NickInv
<1>7. CASE m.cmd = "MODE" /\ h_MODE(m.chan, m.nick, m.sym, m.enab)
  <2>1. m.chan \in Chan /\ m.nick \in Nick /\ m.sym \in Sym /\ m.enab \in BOOLEAN
    BY <1>7, MsgFields
  <2> QED BY <1>7, <2>1, ModeInv, Zenon
<1>8. CASE m.cmd = "005" /\ handle_005
  BY <1>8, SupportInv
<1> QED BY <1>1, <1>2, <1>3, <1>4, <1>5, <1>6, <1>7, <1>8, Handles

(* A handler makes of a message what it says.                               *)
LEMMA HandleLearns ==
  ASSUME NEW z, Ready(z), Inv', NEW m \in Msgs, Handle(m), Tells(TrView, m, z),
         {"rename", "strdup"} \cap FailSites = {}, ~tracking => DOMAIN chans = {}
  PROVE  Learns(z)
<1>1. CASE m.cmd = "JOIN" /\ h_JOIN(m.nick, m.chan)
  BY <1>1, MsgFields, LearnsJoin DEF Tells
<1>2. CASE m.cmd = "353" /\ h_353(m.chan, m.list)
  BY <1>2, MsgFields, LearnsList DEF Tells
<1>3. CASE m.cmd = "366" /\ h_366
  BY <1>3, LearnsEnd DEF Tells
<1>4. CASE m.cmd \in {"PART", "KICK"} /\ h_PART(m.nick, m.chan)
  BY <1>4, MsgFields, LearnsPart DEF Tells
<1>5. CASE m.cmd = "QUIT" /\ h_QUIT(m.nick)
  BY <1>5, MsgFields, LearnsQuit DEF Tells
<1>6. CASE m.cmd = "NICK" /\ h_NICK(m.nick, m.new)
  BY <1>6, MsgFields, LearnsNick DEF Tells
<1>7. CASE m.cmd = "MODE" /\ h_MODE(m.chan, m.nick, m.sym, m.enab)
  <2>1. m.chan \in Chan /\ m.nick \in Nick /\ m.sym \in Sym /\ m.enab \in BOOLEAN
    BY <1>7, MsgFields
  <2>2. z = TrView
    BY <1>7 DEF Tells
  <2> QED BY <1>7, <2>1, <2>2, LearnsMode, Zenon
<1>8. CASE m.cmd = "005" /\ handle_005
  <2>1. z = TrView
    BY <1>8 DEF Tells
  <2>2. ~tracking
    BY <1>8 DEF handle_005
  <2> QED BY <1>8, <2>1, <2>2, LearnsSupport
<1> QED BY <1>1, <1>2, <1>3, <1>4, <1>5, <1>6, <1>7, <1>8, Handles

-----------------------------------------------------------------------------
(* The inductive invariant *)

(* Where we are in a session.  The 005 that switches tracking on is the     *)
(* first message of a connection.                                           *)
Session ==
  /\ inq \in Seq(Msgs)
  /\ online <=> self \in Nick
  /\ ~online => inq = <<>>
  /\ phase = "connect" => ~online
  /\ phase = "gone" => ~online /\ ~tracking
  /\ ~tracking => DOMAIN chans = {} /\ names = <<>>
  /\ \A i \in 1..Len(inq) : inq[i].cmd = "005" => i = 1 /\ ~tracking

(* We are tracking, or the message that makes us track is on its way: there *)
(* is none if it has come and lsi_trk_init was out of memory.               *)
Told == tracking \/ \E i \in 1..Len(inq) : inq[i].cmd = "005"

(* Then the messages on their way lead from what we know to what is the     *)
(* case.                                                                    *)
Synced == online /\ phase = "run" /\ Told => Leads({}, inq, TrView, SrvView) /\ PendOk

SyncInv == Inv /\ Tidy /\ SrvOk /\ Session /\ Synced

(* What the theorems are about: the allocations of a rename succeed, and    *)
(* NAMES is only sent for one channel.                                      *)
Assumed == {"rename", "strdup"} \cap FailSites = {} /\ "all" \notin AppNames

(* Nothing the tracker knows changes.                                       *)
LEMMA KnowsSame ==
  ASSUME Tidy, SameShape, UcTypeOK', mynick' = mynick, tracking' = tracking,
         endofnames' = endofnames, names' = names
  PROVE  /\ Tidy' /\ Rosters /\ DOMAIN chans' = DOMAIN chans
         /\ TrView' = TrView /\ (PendOk => PendOk')
<1>1. /\ Tidy' /\ DOMAIN chans' = DOMAIN chans /\ DOMAIN users' = DOMAIN users
      /\ \A d \in DOMAIN chans : KeysIn(d)' = KeysIn(d)
      /\ \A k \in DOMAIN users : Name(k)' = Name(k)
  BY TidyShape
<1>2. Rosters
  BY <1>1, RosterStays
<1>3. \A c \in DOMAIN chans : Nicks(c)' = Nicks(c)
  BY <1>1, SameNicks DEF Tidy, Mapped
<1>4. \A c : Pending(c)' = Pending(c)
  BY DEF Pending
<1>5. TrView' = TrView
  <2>1. PICK f : f = [c \in DOMAIN chans |-> Nicks(c) \cup Pending(c)]
    OBVIOUS
  <2>2. f = [c \in DOMAIN chans' |-> Nicks(c)' \cup Pending(c)']
    BY <1>1, <1>3, <1>4, <2>1
  <2> QED BY <2>1, <2>2 DEF TrView
<1>6. ASSUME PendOk PROVE PendOk'
  <2>1. ASSUME NEW i \in 1..Len(names')
        PROVE  names'[i].chan \in DOMAIN chans' /\ names'[i].nick \notin Nicks(names[i].chan)'
    <3>1. PICK d \in DOMAIN chans : d = names[i].chan /\ names[i].nick \notin Nicks(d)
      BY <1>6 DEF PendOk
    <3> QED BY <1>1, <1>3, <3>1
  <2> QED BY <1>6, <2>1 DEF PendOk
<1> QED BY <1>1, <1>2, <1>5, <1>6

(* The server takes us for gone.                                            *)
LEMMA HangupOk ==
  ASSUME SrvOk, Hangup
  PROVE  SrvOk' /\ self' \notin Nick /\ inq' = <<>> /\ inq' \in Seq(Msgs) /\ Len(inq') = 0
<1>1. /\ self' = NoNick /\ inq' = <<>>
      /\ on' = [c \in Chan |-> Del(on[c], self)]
  BY DEF Hangup
<1>2. ASSUME NEW c \in Chan
      PROVE  /\ on'[c] = [n \in DOMAIN on'[c] |-> on'[c][n]]
             /\ DOMAIN on'[c] \subseteq DOMAIN on[c]
             /\ \A n \in DOMAIN on'[c] : on'[c][n] = on[c][n]
  BY <1>1 DEF Del, Restrict
<1>3. ASSUME NEW c \in Chan
      PROVE  /\ DOMAIN on'[c] \subseteq Nick /\ IsFiniteSet(DOMAIN on'[c])
             /\ \A n \in DOMAIN on'[c] : on'[c][n] \subseteq Sym
  <2>1. DOMAIN on[c] \subseteq Nick /\ IsFiniteSet(DOMAIN on[c])
    BY DEF SrvOk
  <2>2. IsFiniteSet(DOMAIN on'[c])
    BY <1>2, <2>1, FS_Subset
  <2> QED BY <1>2, <2>1, <2>2 DEF SrvOk
<1>4. \A x : x \in Online' => x \in Online
  BY <1>1, <1>2, OnlineIs, OnlineNext
<1>5. KeyInj(Online')
  BY <1>4 DEF SrvOk, KeyInj
<1>6. on' = [c \in Chan |-> on'[c]]
  BY <1>1
<1>7. SrvOk'
  BY <1>1, <1>2, <1>3, <1>5, <1>6 DEF SrvOk
<1>8. self' \notin Nick
  BY <1>1, TrackAssumption
<1>9. inq' \in Seq(Msgs) /\ Len(inq') = 0
  BY <1>1
<1> QED BY <1>1, <1>7, <1>8, <1>9

LEMMA ServerStep ==
  ASSUME SyncInv, Assumed, Server
  PROVE  SyncInv' /\ Rosters
<1>1. /\ Inv /\ Tidy /\ SrvOk /\ Session /\ Synced
      /\ inq \in Seq(Msgs) /\ "all" \notin AppNames /\ UNCHANGED vars
  BY DEF SyncInv, Assumed, Session, Server
<1>2. Inv'
  BY <1>1, LostInv
<1>3. /\ UNCHANGED ucvars /\ mynick' = mynick /\ tracking' = tracking
      /\ endofnames' = endofnames /\ names' = names /\ online' = online /\ phase' = phase
  BY <1>1 DEF vars, conn
<1>4. SameShape /\ UcTypeOK'
  BY <1>2, <1>3 DEF SameShape, ucvars, Inv
<1>5. /\ Tidy' /\ Rosters /\ DOMAIN chans' = DOMAIN chans
      /\ TrView' = TrView /\ (PendOk => PendOk')
  BY <1>1, <1>3, <1>4, KnowsSame
<1>6. /\ SrvOk' /\ (self \in Nick <=> self' \in Nick)
      /\ \E q \in Seq(Msgs) : /\ inq' = inq \o q
                              /\ \A i \in 1..Len(q) : q[i].cmd # "005"
                              /\ self \in Nick => Leading(q, SrvView, SrvView')
                              /\ self \notin Nick => q = <<>>
  BY <1>1, ServerInforms DEF Informs
<1>7. PICK q \in Seq(Msgs) : /\ inq' = inq \o q
                             /\ \A i \in 1..Len(q) : q[i].cmd # "005"
                             /\ self \in Nick => Leading(q, SrvView, SrvView')
                             /\ self \notin Nick => q = <<>>
  BY <1>6
<1>8. PICK p \in Seq(Msgs) : p = inq
  BY <1>1
<1>9. /\ p \o q \in Seq(Msgs) /\ Len(p \o q) = Len(p) + Len(q)
      /\ \A i \in 1..Len(p) : (p \o q)[i] = p[i]
      /\ \A i \in 1..Len(q) : (p \o q)[Len(p) + i] = q[i]
      /\ Len(p) \in Nat /\ Len(q) \in Nat
  OBVIOUS
<1>10. ASSUME NEW i \in 1..Len(p \o q), (p \o q)[i].cmd = "005"
       PROVE  i \in 1..Len(p) /\ p[i].cmd = "005"
  <2>1. CASE i <= Len(p)
    BY <1>9, <1>10, <2>1
  <2>2. CASE i > Len(p)
    <3>1. i - Len(p) \in 1..Len(q) /\ Len(p) + (i - Len(p)) = i
      BY <1>9, <2>2
    <3>2. (p \o q)[i] = q[i - Len(p)]
      BY <1>9, <3>1
    <3> QED BY <1>7, <1>10, <3>1, <3>2
  <2> QED BY <1>9, <2>1, <2>2
<1>11. Session'
  <2>1. inq' \in Seq(Msgs) /\ (online' <=> self' \in Nick)
    BY <1>1, <1>3, <1>6, <1>7, <1>8, <1>9 DEF Session
  <2>2. ASSUME ~online' PROVE inq' = <<>>
    <3>1. p = <<>> /\ q = <<>>
      BY <1>1, <1>3, <1>7, <1>8, <2>2 DEF Session
    <3> QED BY <1>7, <1>8, <3>1
  <2>3. ASSUME NEW i \in 1..Len(inq'), inq'[i].cmd = "005" PROVE i = 1 /\ ~tracking'
    <3>1. i \in 1..Len(p) /\ p[i].cmd = "005"
      BY <1>7, <1>8, <1>10, <2>3
    <3> QED BY <1>1, <1>3, <1>8, <3>1 DEF Session
  <2>4. /\ phase' = "connect" => ~online'
        /\ phase' = "gone" => ~online' /\ ~tracking'
        /\ ~tracking' => DOMAIN chans' = {} /\ names' = <<>>
    BY <1>1, <1>3, <1>5 DEF Session
  <2> QED BY <2>1, <2>2, <2>3, <2>4 DEF Session
<1>12. Synced'
  <2> SUFFICES ASSUME online', phase' = "run", Told' PROVE Leads({}, inq', TrView', SrvView') /\ PendOk'
    BY DEF Synced
  <2>1. Told
    BY <1>3, <1>7, <1>8, <1>10 DEF Told
  <2>2. Leads({}, p, TrView, SrvView) /\ PendOk
    BY <1>1, <1>3, <1>8, <2>1 DEF Synced
  <2>3. Leads({}, q, SrvView, SrvView')
    BY <1>1, <1>3, <1>7 DEF Session, Leading
  <2>4. PICK v, y, z : v = TrView /\ y = SrvView /\ z = SrvView'
    OBVIOUS
  <2>5. Leads({}, p \o q, v, z)
    BY <2>2, <2>3, <2>4, LeadsOn
  <2> QED BY <1>5, <1>7, <1>8, <2>2, <2>4, <2>5
<1> QED BY <1>2, <1>5, <1>6, <1>11, <1>12 DEF SyncInv

(* What becomes of the connection after a step of irc_read.                 *)
LEMMA FollowOk ==
  ASSUME SrvOk, Session, online, NEW q \in Seq(Msgs), Follow(q), online' \in BOOLEAN
  PROVE  /\ SrvOk' /\ inq' \in Seq(Msgs)
         /\ online' <=> self' \in Nick
         /\ ~online' => inq' = <<>> /\ Len(inq') = 0
         /\ online' => inq' = q /\ SrvView' = SrvView
<1>1. CASE online'
  <2>1. inq' = q /\ self' = self /\ on' = on
    BY <1>1 DEF Follow
  <2>2. SrvOk' /\ SrvView' = SrvView
    BY <2>1 DEF SrvOk, SrvView, In_, Online
  <2> QED BY <1>1, <2>1, <2>2 DEF Session
<1>2. CASE ~online'
  <2>1. Hangup
    BY <1>2 DEF Follow
  <2> QED BY <1>2, <2>1, HangupOk
<1> QED BY <1>1, <1>2

LEMMA HeadTail ==
  ASSUME NEW T, NEW s \in Seq(T), s # <<>>
  PROVE  Head(s) \in T /\ Tail(s) \in Seq(T)
  OBVIOUS

(* The next message is handled.                                             *)
LEMMA HandleStep ==
  ASSUME SyncInv, Assumed, Idle, online, inq # <<>>, Follow(Tail(inq)), Handle(Head(inq)),
         tracking \/ Head(inq).cmd \in {"005", "NICK"}
  PROVE  SyncInv' /\ Rosters
<1>1. /\ Inv /\ Tidy /\ SrvOk /\ Session /\ Synced /\ names = <<>> /\ phase = "run"
      /\ inq \in Seq(Msgs) /\ {"rename", "strdup"} \cap FailSites = {}
      /\ ~tracking => DOMAIN chans = {}
  BY DEF SyncInv, Assumed, Session, Idle
<1>2. PICK m \in Msgs, q \in Seq(Msgs) : m = Head(inq) /\ q = Tail(inq)
  BY <1>1, HeadTail
<1>3. /\ Len(inq) \in Nat /\ 1 \in 1..Len(inq) /\ m = inq[1]
      /\ \A i \in 1..Len(q) : i + 1 \in 2..Len(inq) /\ q[i] = inq[i + 1]
  <2>1. Len(inq) \in Nat /\ 1 \in 1..Len(inq) /\ m = inq[1] /\ Len(q) = Len(inq) - 1
    BY <1>1, <1>2
  <2>2. \A i \in 1..Len(q) : i + 1 \in 2..Len(inq) /\ q[i] = inq[i + 1]
    BY <1>1, <1>2, <2>1
  <2> QED BY <2>1, <2>2
<1>4. \A i \in 1..Len(q) : q[i].cmd # "005"
  <2> SUFFICES ASSUME NEW i \in 1..Len(q), q[i].cmd = "005" PROVE FALSE
    OBVIOUS
  <2>1. i + 1 \in 1..Len(inq) /\ inq[i + 1].cmd = "005" /\ i + 1 # 1
    BY <1>3
  <2> QED BY <1>1, <2>1 DEF Session
<1>5. Inv'
  BY <1>1, <1>2, HandleInv
<1>6. online' \in BOOLEAN /\ tracking' \in BOOLEAN /\ tracking \in BOOLEAN /\ UcTypeOK'
  BY <1>1, <1>5 DEF Inv, CtlOK
<1>7. /\ SrvOk' /\ inq' \in Seq(Msgs)
      /\ online' <=> self' \in Nick
      /\ ~online' => inq' = <<>> /\ Len(inq') = 0
      /\ online' => inq' = q /\ SrvView' = SrvView
  BY <1>1, <1>2, <1>6, FollowOk
<1>8. phase' = "run" /\ (tracking' = tracking \/ tracking')
  BY <1>1, <1>2, Handles DEF h_JOIN, h_353, h_366, h_PART, h_QUIT, h_NICK, h_MODE, handle_005,
                           handle_005_Fails, GiveUp, CarryOn, conn, vars
<1>9. m.cmd = "NICK" /\ ~tracking => UNCHANGED ucvars /\ names' = names
  BY <1>1, <1>2, Handles DEF h_NICK
<1>10. ASSUME ~tracking' PROVE DOMAIN chans' = {} /\ names' = <<>>
  <2>1. ~tracking /\ m.cmd \in {"005", "NICK"}
    BY <1>2, <1>6, <1>8, <1>10
  <2>2. CASE m.cmd = "005"
    BY <1>1, <1>2, <1>10, <2>2, Handles DEF handle_005, handle_005_Fails, vars, ucvars
  <2>3. CASE m.cmd = "NICK"
    BY <1>1, <1>9, <2>1, <2>3 DEF ucvars
  <2> QED BY <2>1, <2>2, <2>3
<1>11. Session'
  <2>1. ASSUME NEW i \in 1..Len(inq'), inq'[i].cmd = "005" PROVE FALSE
    BY <1>4, <1>7, <2>1
  <2> QED BY <1>7, <1>8, <1>10, <2>1 DEF Session
<1>12. CASE Told
  <2>1. PICK v, z : v = TrView /\ z = SrvView
    OBVIOUS
  <2>2. Leads({}, inq, v, z)
    BY <1>1, <1>12, <2>1 DEF Synced
  <2>3. PICK y : Step({}, v, m, y) /\ Leads({}, q, y, z)
    BY <1>1, <1>2, <2>2, LeadsTail
  <2>4. Good(v) /\ Good(y) /\ Tells(v, m, y)
    BY <1>1, <2>2, <2>3, LeadsTo DEF Step
  <2>5. Ready(y)
    BY <1>1, <2>1, <2>4 DEF Ready
  <2>6. Learns(y)
    BY <1>1, <1>2, <1>5, <2>1, <2>4, <2>5, HandleLearns
  <2>7. Synced'
    BY <1>7, <2>1, <2>3, <2>6 DEF Synced, Learns
  <2> QED BY <1>5, <1>7, <1>11, <2>6, <2>7 DEF SyncInv, Learns
<1>13. CASE ~Told
  <2>1. ~tracking /\ m.cmd = "NICK"
    BY <1>2, <1>3, <1>13 DEF Told
  <2>2. UNCHANGED ucvars /\ ~tracking' /\ SameShape
    BY <1>2, <1>9, <2>1, Handles DEF h_NICK, SameShape, ucvars
  <2>3. /\ Tidy' /\ DOMAIN chans' = DOMAIN chans /\ DOMAIN users' = DOMAIN users
        /\ \A d \in DOMAIN chans : KeysIn(d)' = KeysIn(d)
        /\ \A k \in DOMAIN users : Name(k)' = Name(k)
    BY <1>1, <1>6, <2>2, TidyShape
  <2>4. Rosters
    BY <2>3, RosterStays
  <2>5. Synced'
    BY <1>4, <1>7, <2>2 DEF Synced, Told
  <2> QED BY <1>5, <1>7, <1>11, <2>3, <2>4, <2>5 DEF SyncInv
<1> QED BY <1>12, <1>13

LEMMA ReceiveStep ==
  ASSUME SyncInv, Assumed, Receive
  PROVE  SyncInv' /\ Rosters
<1>1. Idle /\ online /\ inq # <<>> /\ Follow(Tail(inq))
  BY DEF Receive
<1>2. CASE tracking \/ Head(inq).cmd \in {"005", "NICK"}
  BY <1>1, <1>2, HandleStep DEF Receive
<1>3. CASE ~tracking /\ Head(inq).cmd \notin {"005", "NICK"}
  <2>1. /\ Inv /\ Tidy /\ SrvOk /\ Session /\ UNCHANGED vars /\ inq \in Seq(Msgs)
        /\ names = <<>> /\ DOMAIN chans = {}
    BY <1>1, <1>3 DEF SyncInv, Session, Receive
  <2>2. Inv' /\ UNCHANGED ucvars /\ UNCHANGED <<online, mynick, tracking, endofnames, names, phase>>
    BY <2>1, LostInv DEF vars, conn
  <2>3. SameShape /\ UcTypeOK' /\ online' \in BOOLEAN
    BY <2>2 DEF SameShape, ucvars, Inv, CtlOK
  <2>4. Tidy' /\ Rosters /\ DOMAIN chans' = DOMAIN chans
    BY <2>1, <2>2, <2>3, KnowsSame
  <2>5. PICK q \in Seq(Msgs) : q = Tail(inq)
    BY <1>1, <2>1, HeadTail
  <2>6. /\ SrvOk' /\ inq' \in Seq(Msgs)
        /\ online' <=> self' \in Nick
        /\ ~online' => inq' = <<>> /\ Len(inq') = 0
        /\ online' => inq' = q /\ SrvView' = SrvView
    BY <1>1, <2>1, <2>3, <2>5, FollowOk
  <2>7. ASSUME NEW i \in 1..Len(q) PROVE q[i].cmd # "005"
    <3>1. i + 1 \in 1..Len(inq) /\ q[i] = inq[i + 1] /\ i + 1 # 1
      BY <1>1, <2>1, <2>5
    <3> QED BY <2>1, <3>1 DEF Session
  <2>8. inq' = q
    BY <1>1, <2>2, <2>6
  <2>9. Session' /\ Synced'
    BY <1>1, <1>3, <2>1, <2>2, <2>4, <2>6, <2>7, <2>8 DEF Session, Synced, Told, Idle
  <2> QED BY <2>2, <2>4, <2>6, <2>9 DEF SyncInv
<1> QED BY <1>2, <1>3

LEMMA LoopStep ==
  ASSUME SyncInv, Loop
  PROVE  SyncInv' /\ Rosters
<1>1. /\ Inv /\ Tidy /\ SrvOk /\ Session /\ Synced /\ NextName /\ Follow(inq)
      /\ inq \in Seq(Msgs) /\ names # <<>>
  BY DEF SyncInv, Session, Loop, NextName
<1>2. online /\ phase = "run" /\ tracking
  BY <1>1 DEF Inv, NamesOnline, Session
<1>3. Leads({}, inq, TrView, SrvView) /\ PendOk
  BY <1>1, <1>2 DEF Synced, Told
<1>4. Good(TrView)
  BY <1>3 DEF Leads
<1>5. Inv'
  BY <1>1, NextNameInv
<1>6. Learns(TrView)
  BY <1>1, <1>2, <1>3, <1>4, LearnsName
<1>7. tracking' = tracking /\ phase' = phase /\ online' \in BOOLEAN
  <2>1. UNCHANGED <<conn, endofnames, phase>> \/ GiveUp
    BY <1>1 DEF NextName
  <2> QED BY <1>5, <2>1 DEF GiveUp, conn, Inv, CtlOK
<1>8. PICK q \in Seq(Msgs) : q = inq
  BY <1>1
<1>9. /\ SrvOk' /\ inq' \in Seq(Msgs)
      /\ online' <=> self' \in Nick
      /\ ~online' => inq' = <<>> /\ Len(inq') = 0
      /\ online' => inq' = q /\ SrvView' = SrvView
  BY <1>1, <1>2, <1>7, <1>8, FollowOk
<1>10. ASSUME NEW i \in 1..Len(inq'), inq'[i].cmd = "005" PROVE FALSE
  BY <1>1, <1>2, <1>8, <1>9, <1>10 DEF Session
<1>11. Session'
  BY <1>2, <1>7, <1>9, <1>10 DEF Session
<1>12. Synced'
  <2>1. PICK v, z : v = TrView /\ z = SrvView
    OBVIOUS
  <2>2. Leads({}, q, v, z)
    BY <1>3, <1>8, <2>1
  <2> QED BY <1>6, <1>9, <2>1, <2>2 DEF Synced, Learns
<1> QED BY <1>5, <1>6, <1>9, <1>11, <1>12 DEF SyncInv, Learns

LEMMA TagStep ==
  ASSUME SyncInv, UNCHANGED server, NEW t \in TagKinds,
         \/ \E n \in Nick : irc_tag_user(n, t)
         \/ \E c \in Chan : irc_tag_chan(c, t)
  PROVE  SyncInv' /\ Rosters
<1>1. /\ Inv /\ Tidy /\ SrvOk /\ Session /\ Synced /\ UcTypeOK /\ MembInv /\ t \in Tag
      /\ self' = self /\ on' = on /\ inq' = inq
  BY TidyRefs, TrackAssumption DEF SyncInv, Tidy, server
<1>2. Inv'
  BY <1>1, TagInv
<1>3. UNCHANGED <<online, mynick, tracking, endofnames, names, phase>>
  BY DEF irc_tag_user, irc_tag_chan, CarryOn, conn
<1>4. SameShape /\ UcTypeOK'
  BY <1>1, TagUserStep, TagChanStep DEF irc_tag_user, irc_tag_chan
<1>5. /\ Tidy' /\ Rosters /\ DOMAIN chans' = DOMAIN chans
      /\ TrView' = TrView /\ (PendOk => PendOk')
  BY <1>1, <1>3, <1>4, KnowsSame
<1>6. SrvOk' /\ SrvView' = SrvView
  BY <1>1 DEF SrvOk, SrvView, In_, Online
<1>7. Session' /\ Synced'
  BY <1>1, <1>3, <1>5, <1>6 DEF Session, Synced, Told
<1> QED BY <1>2, <1>5, <1>6, <1>7 DEF SyncInv

(* Nothing happens to the maps, and we are not reading.                     *)
LEMMA AsideStep ==
  ASSUME SyncInv, Inv', UNCHANGED ucvars, tracking' = tracking, names' = names,
         SrvOk', Session', ~(online' /\ phase' = "run")
  PROVE  SyncInv' /\ Rosters
<1>1. Tidy /\ SameShape /\ UcTypeOK'
  BY DEF SyncInv, SameShape, ucvars, Inv
<1>2. /\ Tidy' /\ DOMAIN chans' = DOMAIN chans /\ DOMAIN users' = DOMAIN users
      /\ \A d \in DOMAIN chans : KeysIn(d)' = KeysIn(d)
      /\ \A k \in DOMAIN users : Name(k)' = Name(k)
  BY <1>1, TidyShape
<1>3. Rosters
  BY <1>2, RosterStays
<1>4. Synced'
  BY DEF Synced
<1> QED BY <1>2, <1>3, <1>4 DEF SyncInv

LEMMA LostStep ==
  ASSUME SyncInv, Lost, Hangup
  PROVE  SyncInv' /\ Rosters
<1>1. /\ UNCHANGED ucvars /\ online' = FALSE
      /\ UNCHANGED <<mynick, tracking, endofnames, names, phase>>
  BY DEF Lost
<1>2. Inv' /\ SrvOk /\ Session
  BY LostInv DEF SyncInv
<1>3. SrvOk' /\ self' \notin Nick /\ inq' = <<>> /\ inq' \in Seq(Msgs) /\ Len(inq') = 0
  BY <1>2, HangupOk
<1>4. DOMAIN chans' = DOMAIN chans
  BY <1>1 DEF ucvars
<1>5. Session'
  BY <1>1, <1>2, <1>3, <1>4 DEF Session
<1> QED BY <1>1, <1>2, <1>3, <1>5, AsideStep

LEMMA DeinitStep ==
  ASSUME SyncInv, NEW p \in {"connect", "dispose"}, lsi_trk_deinit(p),
         p = "connect" => ~online, UNCHANGED server
  PROVE  SyncInv' /\ Rosters
<1>1. Inv /\ Tidy /\ SrvOk /\ Session /\ self' = self /\ on' = on /\ inq' = inq
  BY DEF SyncInv, server
<1>2. Inv'
  BY <1>1, DeinitInv
<1>3. UNCHANGED ucvars
  <2>1. CASE chans = EmptyMap
    <3>1. DOMAIN chans = {}
      BY <2>1 DEF EmptyMap
    <3>2. users = EmptyMap
      BY <1>1, <3>1, TidyEmpty
    <3> QED BY <2>1, <3>2 DEF lsi_trk_deinit, ucvars
  <2>2. CASE chans # EmptyMap
    BY <2>2 DEF lsi_trk_deinit, ucvars
  <2> QED BY <2>1, <2>2
<1>4. UNCHANGED <<online, mynick, tracking, endofnames, names>> /\ phase' = p
  BY DEF lsi_trk_deinit, conn
<1>5. SrvOk'
  BY <1>1 DEF SrvOk, Online
<1>6. DOMAIN chans' = DOMAIN chans
  BY <1>3 DEF ucvars
<1>7. Session'
  BY <1>1, <1>4, <1>6 DEF Session
<1>8. ~(online' /\ phase' = "run")
  BY <1>4
<1> QED BY <1>2, <1>3, <1>4, <1>5, <1>7, <1>8, AsideStep

LEMMA ClearStep ==
  ASSUME SyncInv, ClearNext, UNCHANGED server
  PROVE  SyncInv' /\ Rosters
<1>1. Inv /\ Tidy /\ SrvOk /\ Session /\ self' = self /\ on' = on /\ inq' = inq
  BY DEF SyncInv, server
<1>2. Inv'
  BY <1>1, ClearInv
<1>3. PICK c \in DOMAIN chans : ClearChan(c)
  BY DEF ClearNext
<1>4. /\ Tidy' /\ DOMAIN chans' = IF ClearMemb(c) THEN DOMAIN chans ELSE DOMAIN chans \ {c}
      /\ \A d \in DOMAIN chans' :
           d \in DOMAIN chans /\ KeysIn(d)' = IF d = c THEN {} ELSE KeysIn(d)
      /\ \A j \in DOMAIN users' : j \in DOMAIN users /\ Name(j)' = Name(j)
  BY <1>1, <1>3, TidyEmptied
<1>5. DOMAIN chans' = DOMAIN chans \ {c}
  BY <1>3 DEF ClearChan, Del, Restrict
<1>6. Rosters
  BY <1>4, <1>5, RosterCloses
<1>7. /\ UNCHANGED <<online, mynick, tracking, endofnames, names, phase>>
      /\ phase \in {"connect", "dispose"}
  BY DEF ClearNext, CarryOn, conn
<1>8. SrvOk'
  BY <1>1 DEF SrvOk, Online
<1>9. Session' /\ Synced'
  BY <1>1, <1>5, <1>7 DEF Session, Synced
<1> QED BY <1>2, <1>4, <1>6, <1>8, <1>9 DEF SyncInv

(* What is left to clear when there is no channel: nothing.                 *)
LEMMA NothingLeft ==
  ASSUME Tidy, Cleared
  PROVE  UNCHANGED ucvars /\ DOMAIN chans = {} /\ DOMAIN chans' = {}
<1>1. DOMAIN chans = {}
  BY DEF Cleared, EmptyMap
<1>2. users = EmptyMap /\ uobj = EmptyMap
  BY <1>1, TidyEmpty
<1>3. DOMAIN uobj = {} /\ uobj' = Restrict(uobj, DOMAIN uobj \ Range(users))
  BY <1>2 DEF EmptyMap, Cleared, ClearUsers
<1>4. uobj' = EmptyMap
  BY <1>3 DEF Restrict, EmptyMap
<1> QED BY <1>1, <1>2, <1>4 DEF Cleared, ClearUsers, ucvars

LEMMA UseFreedStep ==
  ASSUME SyncInv, UseFreed, UNCHANGED server
  PROVE  SyncInv' /\ Rosters
<1>1. /\ Inv /\ SrvOk /\ Session /\ self' = self /\ on' = on /\ inq' = inq
      /\ UNCHANGED ucvars /\ UNCHANGED <<online, mynick, tracking, endofnames, names>>
      /\ phase' = "broken"
  BY DEF SyncInv, server, UseFreed, conn
<1>2. Inv'
  BY <1>1, UseFreedInv
<1>3. SrvOk'
  BY <1>1 DEF SrvOk, Online
<1>4. DOMAIN chans' = DOMAIN chans
  BY <1>1 DEF ucvars
<1>5. Session'
  BY <1>1, <1>4 DEF Session
<1> QED BY <1>1, <1>2, <1>3, <1>5, AsideStep

LEMMA DisposeStep ==
  ASSUME SyncInv, irc_dispose, Hangup
  PROVE  SyncInv' /\ Rosters
<1>1. Inv /\ Tidy /\ SrvOk /\ Session
  BY DEF SyncInv
<1>2. Inv' /\ names' = <<>> /\ names = <<>>
  BY <1>1, DisposeInv DEF irc_dispose, Inv, NamesOnline
<1>3. UNCHANGED ucvars /\ DOMAIN chans = {} /\ DOMAIN chans' = {}
  BY <1>1, NothingLeft DEF irc_dispose
<1>4. phase' = "gone" /\ online' = FALSE /\ tracking' = FALSE
  BY DEF irc_dispose
<1>5. SrvOk' /\ self' \notin Nick /\ inq' = <<>> /\ inq' \in Seq(Msgs) /\ Len(inq') = 0
  BY <1>1, HangupOk
<1>6. Session'
  BY <1>2, <1>3, <1>4, <1>5 DEF Session
<1>7. SameShape /\ UcTypeOK'
  BY <1>2, <1>3 DEF SameShape, ucvars, Inv
<1>8. /\ Tidy' /\ DOMAIN chans' = DOMAIN chans /\ DOMAIN users' = DOMAIN users
      /\ \A d \in DOMAIN chans : KeysIn(d)' = KeysIn(d)
      /\ \A k \in DOMAIN users : Name(k)' = Name(k)
  BY <1>1, <1>7, TidyShape
<1>9. Rosters
  BY <1>8, RosterStays
<1>10. Synced'
  BY <1>4 DEF Synced
<1> QED BY <1>2, <1>5, <1>6, <1>8, <1>9, <1>10 DEF SyncInv

(* A new connection: we are in no channel, and a 005 is on its way.         *)
LEMMA ConnectStep ==
  ASSUME SyncInv, Connects
  PROVE  SyncInv' /\ Rosters
<1>1. Inv /\ Tidy /\ SrvOk /\ Session /\ irc_connect
  BY DEF SyncInv, Connects
<1>2. Inv' /\ names' = <<>> /\ names = <<>>
  BY <1>1, ConnectInv DEF irc_connect, Inv, NamesOnline
<1>3. UNCHANGED ucvars /\ DOMAIN chans = {} /\ DOMAIN chans' = {}
  BY <1>1, NothingLeft DEF irc_connect
<1>4. ~online /\ self \notin Nick /\ inq = <<>> /\ phase' = "run" /\ tracking' = FALSE
  BY <1>1 DEF irc_connect, Session
<1>5. SameShape /\ UcTypeOK'
  BY <1>2, <1>3 DEF SameShape, ucvars, Inv
<1>6. /\ Tidy' /\ DOMAIN chans' = DOMAIN chans /\ DOMAIN users' = DOMAIN users
      /\ \A d \in DOMAIN chans : KeysIn(d)' = KeysIn(d)
      /\ \A k \in DOMAIN users : Name(k)' = Name(k)
  BY <1>1, <1>5, TidyShape
<1>7. Rosters
  BY <1>6, RosterStays
<1>8. CASE ~online'
  <2>1. self' = self /\ on' = on /\ inq' = inq
    BY <1>8 DEF Connects, server
  <2>2. SrvOk'
    BY <1>1, <2>1 DEF SrvOk, Online
  <2>3. Session' /\ Synced'
    BY <1>1, <1>2, <1>3, <1>4, <1>8, <2>1 DEF Session, Synced
  <2> QED BY <1>2, <1>6, <1>7, <2>2, <2>3 DEF SyncInv
<1>9. CASE online'
  <2>1. /\ mynick' \in Nick /\ Free(mynick') /\ self' = mynick' /\ on' = on
        /\ inq' = <<[cmd |-> "005"]>>
    BY <1>4, <1>9 DEF Connects, irc_connect
  <2>2. PICK b \in Nick : b = mynick'
    BY <2>1
  <2>3. \A x : x \in Online' <=> x \in Online \/ x = b
    <3>1. self = NoNick
      BY <1>1, <1>4 DEF SrvOk
    <3>2. b # NoNick
      BY TrackAssumption
    <3> QED BY <2>1, <2>2, <3>1, <3>2, OnlineIs, OnlineNext
  <2>4. \A o \in Online : NickKey[o] # NickKey[b]
    BY <2>1, <2>2 DEF Free
  <2>5. KeyInj(Online')
    BY <1>1, <2>3, <2>4 DEF SrvOk, KeyInj
  <2>6. SrvOk'
    BY <1>1, <2>1, <2>2, <2>5 DEF SrvOk
  <2>7. PICK m \in Msgs : m = [cmd |-> "005"] /\ m.cmd = "005"
    <3>1. [cmd |-> "005"] \in [cmd : {"366", "005"}]
      OBVIOUS
    <3>2. [cmd |-> "005"] \in Msgs
      BY <3>1 DEF Msgs
    <3> QED BY <3>2
  <2>8. /\ inq' \in Seq(Msgs) /\ Len(inq') = 1 /\ inq' = <<m>>
        /\ \A i \in 1..Len(inq') : i = 1
    BY <2>1, <2>7
  <2>9. Session'
    BY <1>2, <1>3, <1>4, <1>9, <2>1, <2>8 DEF Session
  <2>10. \A c \in Chan : b \notin DOMAIN on[c]
    BY <2>4, OnlineIs
  <2>11. PICK v : v = View(b, EmptyMap, TRUE)
    OBVIOUS
  <2>12. SrvView' = v
    <3>1. \A c \in Chan : ~In_(c)'
      BY <2>1, <2>2, <2>10 DEF In_
    <3>2. {c \in Chan : In_(c)'} = {}
      BY <3>1
    <3> QED BY <2>1, <2>2, <2>11, <3>2 DEF SrvView, EmptyMap
  <2>13. TrView' = v
    BY <1>3, <1>4, <2>1, <2>2, <2>11 DEF TrView, EmptyMap
  <2>14. Good(v)
    <3>1. v.me = b /\ v.ros = EmptyMap /\ v.eon = TRUE
      BY <2>11 DEF View
    <3>2. DOMAIN EmptyMap = {} /\ EmptyMap \in [{} -> SUBSET Nick]
      BY DEF EmptyMap
    <3>3. NamesOf(v) = {b}
      BY <3>1, <3>2 DEF NamesOf
    <3> QED BY <2>11, <3>1, <3>2, <3>3 DEF Good, KeyInj
  <2>15. Step({}, v, m, v)
    BY <2>7, <2>14 DEF Step, Tells, Spares
  <2>16. Leads({}, <<m>>, v, v)
    BY <2>14, <2>15, LeadsOne
  <2>17. PendOk'
    BY <1>2, NoPending
  <2>18. Synced'
    BY <2>8, <2>12, <2>13, <2>16, <2>17 DEF Synced
  <2> QED BY <1>2, <1>6, <1>7, <2>6, <2>9, <2>18 DEF SyncInv
<1> QED BY <1>8, <1>9

LEMMA StutterStep ==
  ASSUME SyncInv, UNCHANGED allvars
  PROVE  SyncInv' /\ Rosters
<1>1. /\ Inv /\ Tidy /\ SrvOk /\ Session /\ Synced /\ UNCHANGED vars
      /\ self' = self /\ on' = on /\ inq' = inq
  BY DEF SyncInv, allvars, server
<1>2. Inv'
  BY <1>1, LostInv
<1>3. UNCHANGED ucvars /\ UNCHANGED <<online, mynick, tracking, endofnames, names, phase>>
  BY <1>1 DEF vars, conn
<1>4. SameShape /\ UcTypeOK'
  BY <1>2, <1>3 DEF SameShape, ucvars, Inv
<1>5. /\ Tidy' /\ Rosters /\ DOMAIN chans' = DOMAIN chans
      /\ TrView' = TrView /\ (PendOk => PendOk')
  BY <1>1, <1>3, <1>4, KnowsSame
<1>6. SrvOk' /\ SrvView' = SrvView
  BY <1>1 DEF SrvOk, SrvView, In_, Online
<1>7. Session' /\ Synced'
  BY <1>1, <1>3, <1>5, <1>6 DEF Session, Synced, Told
<1> QED BY <1>2, <1>5, <1>6, <1>7 DEF SyncInv

LEMMA SyncInit == ServerInit => SyncInv
<1> SUFFICES ASSUME ServerInit PROVE SyncInv
  OBVIOUS
<1>1. Init /\ self = NoNick /\ on = [c \in Chan |-> EmptyMap] /\ inq = <<>>
  BY DEF ServerInit
<1>2. Inv /\ ~online /\ names = <<>> /\ phase = "run"
  BY <1>1, InitInv DEF Init
<1>3. DOMAIN users = {} /\ DOMAIN uobj = {} /\ DOMAIN chans = {}
  BY <1>1 DEF Init, EmptyMap
<1>4. Tidy
  BY <1>2, <1>3 DEF Tidy, Inv, UsersLive, Mapped, AllMapped, CountedOnce
<1>5. SrvOk
  <2>1. \A c \in Chan : on[c] = EmptyMap /\ DOMAIN on[c] = {}
    BY <1>1 DEF EmptyMap
  <2>2. \A x : x \notin Online
    BY <1>1, <2>1, OnlineIs
  <2>3. KeyInj(Online)
    BY <2>2 DEF KeyInj
  <2>4. IsFiniteSet({})
    BY FS_EmptySet
  <2> QED BY <1>1, <2>1, <2>3, <2>4 DEF SrvOk, EmptyMap
<1>6. Session
  <2>1. inq \in Seq(Msgs) /\ Len(inq) = 0 /\ self \notin Nick
    BY <1>1, TrackAssumption
  <2> QED BY <1>1, <1>2, <1>3, <2>1 DEF Session
<1>7. Synced
  BY <1>2 DEF Synced
<1> QED BY <1>2, <1>4, <1>5, <1>6, <1>7 DEF SyncInv

LEMMA SyncStep == Assumed /\ SyncInv /\ [ServerNext]_allvars => SyncInv' /\ Rosters
<1> SUFFICES ASSUME Assumed, SyncInv, [ServerNext]_allvars PROVE SyncInv' /\ Rosters
  OBVIOUS
<1>1. CASE Server
  BY <1>1, ServerStep
<1>2. CASE Receive
  BY <1>2, ReceiveStep
<1>3. CASE Loop
  BY <1>3, LoopStep
<1>4. ASSUME NEW n \in Nick, NEW t \in TagKinds, irc_tag_user(n, t), UNCHANGED server
      PROVE  SyncInv' /\ Rosters
  BY <1>4, TagStep
<1>5. ASSUME NEW c \in Chan, NEW t \in TagKinds, irc_tag_chan(c, t), UNCHANGED server
      PROVE  SyncInv' /\ Rosters
  BY <1>5, TagStep
<1>6. CASE Lost /\ Hangup
  BY <1>6, LostStep
<1>7. ASSUME NEW p \in {"connect", "dispose"}, lsi_trk_deinit(p), p = "connect" => ~online,
             UNCHANGED server
      PROVE  SyncInv' /\ Rosters
  BY <1>7, DeinitStep
<1>8. CASE ClearNext /\ UNCHANGED server
  BY <1>8, ClearStep
<1>9. CASE Connects
  BY <1>9, ConnectStep
<1>10. CASE irc_dispose /\ Hangup
  BY <1>10, DisposeStep
<1>11. CASE UNCHANGED allvars
  BY <1>11, StutterStep
<1>12. CASE UseFreed /\ UNCHANGED server
  BY <1>12, UseFreedStep
<1> QED BY <1>1, <1>2, <1>3, <1>4, <1>5, <1>6, <1>7, <1>8, <1>9, <1>10, <1>11, <1>12
        DEF ServerNext, Client

-----------------------------------------------------------------------------
(* nchans "counts the number of channels this user is known to be in": it   *)
(* is the number of membership objects h_JOIN and h_353 have added and      *)
(* h_PART, h_QUIT and the rest have not removed, at any number of users and *)
(* channels, while the server only says what is the case.                   *)
THEOREM NchansCorrect == Assumed => (SafeSpec => []NchansExact)
<1> SUFFICES ASSUME Assumed PROVE SafeSpec => []NchansExact
  OBVIOUS
<1>1. SyncInv => NchansExact
  <2> SUFFICES ASSUME Tidy, NEW o \in DOMAIN uobj PROVE uobj[o].nchans = Cardinality(RefChans(o))
    BY DEF SyncInv, NchansExact
  <2>1. PICK k \in DOMAIN users : users[k] = o
    BY DEF Tidy, AllMapped
  <2> QED BY <2>1, TidyRefs DEF Tidy, CountedOnce
<1> QED BY <1>1, SyncInit, SyncStep, PTL DEF SafeSpec

(* The user map points to all the user objects there are, and each of them  *)
(* is in a channel: lsi_ucb_drop_memb, lsi_ucb_drop_chan, lsi_ucb_clear_memb *)
(* and lsi_ucb_drop_user leave nobody behind, nor does a failed h_JOIN.     *)
THEOREM DanglesCorrect == Assumed => (SafeSpec => []NobodyDangles)
<1> SUFFICES ASSUME Assumed PROVE SafeSpec => []NobodyDangles
  OBVIOUS
<1>1. SyncInv => NobodyDangles
  <2> SUFFICES ASSUME Tidy PROVE NobodyDangles
    BY DEF SyncInv
  <2>1. UcTypeOK /\ UsersLive /\ Mapped /\ AllMapped /\ CountedOnce
    BY DEF Tidy
  <2>2. Range(users) = DOMAIN uobj
    BY <2>1 DEF Range, UsersLive, AllMapped
  <2>3. ASSUME NEW o \in DOMAIN uobj PROVE \E c \in DOMAIN chans : o \in Refs(c)
    <3>1. PICK k \in DOMAIN users : users[k] = o
      BY <2>1 DEF AllMapped
    <3>2. PICK c \in DOMAIN chans : k \in KeysIn(c)
      BY <2>1 DEF CountedOnce, ChansWith, KeysIn
    <3> QED BY <2>1, <3>1, <3>2 DEF Mapped, Refs, KeysIn
  <2>4. ASSUME NEW c \in DOMAIN chans PROVE Refs(c) \subseteq DOMAIN uobj
    BY <2>1 DEF Mapped, Refs, KeysIn, UsersLive
  <2>5. PICK S : S = {Refs(c) : c \in DOMAIN chans}
    OBVIOUS
  <2>6. DOMAIN uobj = UNION S
    BY <2>3, <2>4, <2>5
  <2> QED BY <2>2, <2>5, <2>6 DEF NobodyDangles
<1> QED BY <1>1, SyncInit, SyncStep, PTL DEF SafeSpec

(* irc_dispose "deallocates all resources": no user object is left.         *)
THEOREM DisposeCorrect == Assumed => (SafeSpec => []ObjectsFreed)
<1> SUFFICES ASSUME Assumed PROVE SafeSpec => []ObjectsFreed
  OBVIOUS
<1>1. SyncInv => ObjectsFreed
  <2> SUFFICES ASSUME Tidy, Session, phase = "gone" PROVE DOMAIN uobj = {}
    BY DEF SyncInv, ObjectsFreed
  <2>1. DOMAIN chans = {}
    BY DEF Session
  <2> QED BY <2>1, TidyEmpty DEF EmptyMap
<1> QED BY <1>1, SyncInit, SyncStep, PTL DEF SafeSpec

LEMMA ViewNowMatches == SyncInv => ViewMatches
<1> SUFFICES ASSUME SyncInv, CaughtUp PROVE InSync
  BY DEF ViewMatches
<1>1. /\ Tidy /\ SrvOk /\ Session /\ names = <<>> /\ inq = <<>> /\ inq \in Seq(Msgs)
      /\ Leads({}, inq, TrView, SrvView)
  BY DEF SyncInv, CaughtUp, Idle, Synced, Told, Session
<1>2. PICK v, z : v = TrView /\ z = SrvView
  OBVIOUS
<1>3. v = z /\ Good(v)
  BY <1>1, <1>2, LeadsTo
<1>4. /\ mynick = v.me /\ DOMAIN v.ros = DOMAIN chans
      /\ \A c \in DOMAIN chans : v.ros[c] = Nicks(c) /\ Nicks(c) \subseteq NamesOf(v)
      /\ \A k \in DOMAIN users : Name(k) \in NamesOf(v) /\ NickKey[Name(k)] = k
      /\ \A c \in DOMAIN chans : KeysIn(c) \subseteq DOMAIN users
      /\ KeyInj(NamesOf(v))
  BY <1>1, <1>2, <1>3, ByKey
<1>5. /\ z.me = self /\ z.ros = [c \in DOMAIN z.ros |-> DOMAIN on[c]]
      /\ \A c : c \in DOMAIN z.ros <=> c \in Chan /\ self \in DOMAIN on[c]
  BY <1>1, <1>2, ViewNow
<1>6. /\ mynick = self
      /\ \A c : c \in DOMAIN chans <=> c \in Chan /\ In_(c)
      /\ \A c \in DOMAIN chans : Nicks(c) = Members(c)
  BY <1>3, <1>4, <1>5 DEF In_, Members
<1>7. \A c \in Chan : ChanKey[c] = c
  BY ServerAssumption
<1>8. DOMAIN chans = {ChanKey[c] : c \in {d \in Chan : In_(d)}}
  BY <1>6, <1>7
<1>9. ASSUME NEW c \in Chan, In_(c)
      PROVE  /\ DOMAIN chans[c].memb = {NickKey[n] : n \in Members(c)}
             /\ \A n \in Members(c) : uobj[chans[c].memb[NickKey[n]].u].nick = n
  <2>1. c \in DOMAIN chans /\ Nicks(c) = Members(c)
    BY <1>6, <1>9
  <2>2. \A k \in KeysIn(c) : /\ Name(k) \in Members(c) /\ NickKey[Name(k)] = k
                             /\ uobj[chans[c].memb[k].u].nick = Name(k)
    BY <1>1, <1>4, <2>1, NicksIs DEF Tidy, Mapped, Name
  <2>3. \A n \in Members(c) : \E k \in KeysIn(c) : n = Name(k)
    BY <2>1, NicksIs
  <2>4. KeysIn(c) = {NickKey[n] : n \in Members(c)}
    BY <2>2, <2>3
  <2>5. ASSUME NEW n \in Members(c) PROVE uobj[chans[c].memb[NickKey[n]].u].nick = n
    <3>1. PICK k \in KeysIn(c) : n = Name(k)
      BY <2>3
    <3> QED BY <2>2, <3>1
  <2> QED BY <2>4, <2>5 DEF KeysIn
<1> QED BY <1>6, <1>7, <1>8, <1>9 DEF InSync

(* Once everything the server has sent is read, the tracker knows our       *)
(* nickname, our channels, and the members of each with the spelling of     *)
(* their nicknames: whatever the order of JOIN, 353, PART, KICK, QUIT and   *)
(* NICK, however the names are spread over 353s, and over any number of     *)
(* connections.                                                             *)
THEOREM ViewCorrect == Assumed => (SafeSpec => []ViewMatches)
<1> SUFFICES ASSUME Assumed PROVE SafeSpec => []ViewMatches
  OBVIOUS
<1> QED BY ViewNowMatches, SyncInit, SyncStep, PTL DEF SafeSpec

(* The user map and the membership objects of ucbase.c, three structures    *)
(* that several handlers change in turn, implement the rosters of module    *)
(* Roster: every step of the tracker is one change of the rosters, or none. *)
THEOREM RosterCorrect == Assumed => (SafeSpec => ImplementsRoster)
<1> SUFFICES ASSUME Assumed PROVE SafeSpec => ImplementsRoster
  OBVIOUS
<1>1. ServerInit => R!Init
  <2> SUFFICES ASSUME ServerInit PROVE R!Init
    OBVIOUS
  <2>1. users = EmptyMap /\ chans = EmptyMap
    BY DEF ServerInit, Init
  <2>2. DOMAIN users = {} /\ DOMAIN chans = {}
    BY <2>1 DEF EmptyMap
  <2> QED BY <2>2 DEF R!Init, Listed
<1>2. Rosters => [R!Next]_(R!vars)
  BY DEF Rosters
<1> QED BY <1>1, <1>2, SyncInit, SyncStep, PTL DEF SafeSpec, ImplementsRoster, R!Spec

(* What the composition does, the tracker can do.                           *)
LEMMA HandleAny == ASSUME NEW m \in Msgs, Handle(m) PROVE AnyStep
<1>1. CASE m.cmd = "353" /\ h_353(m.chan, m.list)
  BY <1>1, MsgFields DEF AnyStep
<1>2. CASE m.cmd = "MODE" /\ h_MODE(m.chan, m.nick, m.sym, m.enab)
  <2>1. m.chan \in Chan /\ m.nick \in Nick /\ m.sym \in Sym /\ m.enab \in BOOLEAN
    BY <1>2, MsgFields
  <2>2. \E c \in Chan, n \in Nick, s \in Sym, enab \in BOOLEAN : h_MODE(c, n, s, enab)
    BY <1>2, <2>1, Zenon
  <2> QED BY <2>2 DEF AnyStep, Next, Message
<1>3. CASE m.cmd \in {"PART", "KICK"} /\ h_PART(m.nick, m.chan)
  BY <1>3, MsgFields DEF AnyStep, Next, Message
<1>4. CASE m.cmd = "JOIN" /\ h_JOIN(m.nick, m.chan)
  BY <1>4, MsgFields DEF AnyStep, Next, Message
<1>5. CASE m.cmd = "QUIT" /\ h_QUIT(m.nick)
  BY <1>5, MsgFields DEF AnyStep, Next, Message
<1>6. CASE m.cmd = "NICK" /\ h_NICK(m.nick, m.new)
  BY <1>6, MsgFields DEF AnyStep, Next, Message
<1>7. CASE h_366 \/ handle_005
  BY <1>7 DEF AnyStep, Next, Message
<1> QED BY <1>1, <1>2, <1>3, <1>4, <1>5, <1>6, <1>7, Handles

LEMMA ServerAny == SyncInv /\ [ServerNext]_allvars => AnyStep
<1> SUFFICES ASSUME SyncInv, [ServerNext]_allvars PROVE AnyStep
  OBVIOUS
<1>1. CASE Server
  BY <1>1 DEF Server, AnyStep
<1>2. CASE Receive
  <2>1. Head(inq) \in Msgs
    BY <1>2, HeadTail DEF SyncInv, Session, Receive
  <2> QED BY <1>2, <2>1, HandleAny DEF Receive, AnyStep
<1>3. CASE Loop
  BY <1>3 DEF Loop, AnyStep, Next
<1>4. ASSUME NEW n \in Nick, NEW t \in TagKinds, irc_tag_user(n, t) PROVE AnyStep
  BY <1>4 DEF AnyStep, Next, Application
<1>5. ASSUME NEW c \in Chan, NEW t \in TagKinds, irc_tag_chan(c, t) PROVE AnyStep
  BY <1>5 DEF AnyStep, Next, Application
<1>6. ASSUME NEW p \in {"connect", "dispose"}, lsi_trk_deinit(p) PROVE AnyStep
  BY <1>6 DEF AnyStep, Next, Application
<1>7. CASE Lost \/ ClearNext \/ Connects \/ irc_dispose \/ UseFreed
  BY <1>7 DEF AnyStep, Next, Application, Connects
<1>8. CASE UNCHANGED allvars
  BY <1>8 DEF allvars, AnyStep
<1> QED BY <1>1, <1>2, <1>3, <1>4, <1>5, <1>6, <1>7, <1>8 DEF ServerNext, Client

(* Over any number of connections to a server that tells the truth, the      *)
(* autofree tags of the users and channels we know have not been freed.      *)
THEOREM AutofreeCorrect == Assumed => (SafeSpec => []TagsAlive)
<1> SUFFICES ASSUME Assumed PROVE SafeSpec => []TagsAlive
  OBVIOUS
<1>1. ServerInit => TagsAlive
  BY InitTags DEF ServerInit
<1>2. SyncInv /\ TagsAlive /\ [ServerNext]_allvars => TagsAlive'
  BY ServerAny, StepTags DEF SyncInv, Assumed
<1> QED BY <1>1, <1>2, SyncInit, SyncStep, PTL DEF SafeSpec

-----------------------------------------------------------------------------
(* Tags                                                                     *)

(* The user under key k is known, and tagged.                               *)
Has(k) == k \in DOMAIN users /\ uobj[users[k]].tag # "none"

SameTags ==
  \A k \in DOMAIN users : k \in DOMAIN users' => uobj'[users'[k]].tag = uobj[users[k]].tag

(* Whoever is in a channel of ours is known.                                *)
LEMMA KnownNext ==
  ASSUME Tidy', names' = <<>>, NEW k, Shares(TrView', k)
  PROVE  k \in DOMAIN users'
<1>1. PICK v : v = TrView'
  OBVIOUS
<1>2. v.ros = [c \in DOMAIN chans' |-> Nicks(c)' \cup Pending(c)']
  BY <1>1 DEF TrView, View
<1>3. PICK c \in DOMAIN v.ros : \E n \in v.ros[c] : NickKey[n] = k
  BY <1>1 DEF Shares
<1>4. c \in DOMAIN chans' /\ v.ros[c] = Nicks(c)'
  BY <1>2, NoPending
<1>5. PICK n \in Nicks(c)' : NickKey[n] = k
  BY <1>3, <1>4
<1>6. PICK j \in KeysIn(c)' : n = Name(j)'
  BY <1>5, NicksIs
<1>7. j \in DOMAIN users'
  BY <1>4, <1>6 DEF Tidy, Mapped
<1>8. NickKey[Name(j)'] = j
  BY <1>7 DEF Tidy, UsersLive, Name
<1> QED BY <1>5, <1>6, <1>7, <1>8

LEMMA KnownNow ==
  ASSUME Tidy, names = <<>>, Good(TrView), NEW k \in DOMAIN users
  PROVE  Shares(TrView, k)
<1>1. PICK c \in DOMAIN chans : k \in KeysIn(c)
  BY DEF Tidy, CountedOnce, ChansWith, KeysIn
<1>2. Name(k) \in Nicks(c)
  BY <1>1, NicksIs
<1>3. PICK v : v = TrView
  OBVIOUS
<1>4. DOMAIN v.ros = DOMAIN chans /\ v.ros[c] = Nicks(c) /\ NickKey[Name(k)] = k
  BY <1>1, <1>3, ByKey
<1>5. \E d \in DOMAIN v.ros : \E n \in v.ros[d] : NickKey[n] = k
  BY <1>1, <1>2, <1>4
<1> QED BY <1>3, <1>5 DEF Shares

(* What happens to the tags when users are forgotten.                       *)
LEMMA ForgetTags ==
  ASSUME UcTypeOK, NEW O, Release(O), UsersLive'
  PROVE  SameTags
<1> SUFFICES ASSUME NEW k \in DOMAIN users, k \in DOMAIN users'
             PROVE  uobj'[users'[k]].tag = uobj[users[k]].tag
  BY DEF SameTags
<1>1. PICK o : o = users'[k]
  OBVIOUS
<1>2. users[k] = o
  BY <1>1, ReleaseUsers
<1>3. o \in DOMAIN uobj'
  BY <1>1 DEF UsersLive
<1>4. /\ DOMAIN uobj' = DOMAIN uobj \ Dying(O)
      /\ \A x \in DOMAIN uobj' : uobj'[x] = IF x \in O THEN [uobj[x] EXCEPT !.nchans = @ - 1] ELSE uobj[x]
  BY DEF Release
<1>5. uobj[o] \in UserRec
  BY <1>3, <1>4 DEF UcTypeOK, IsMap
<1>6. [uobj[o] EXCEPT !.nchans = @ - 1].tag = uobj[o].tag
  BY <1>5 DEF UserRec
<1>7. uobj'[o] = IF o \in O THEN [uobj[o] EXCEPT !.nchans = @ - 1] ELSE uobj[o]
  BY <1>3, <1>4
<1>8. uobj'[o].tag = uobj[o].tag
  BY <1>6, <1>7
<1> QED BY <1>1, <1>2, <1>8

LEMMA NothingTags ==
  ASSUME users' = users, uobj' = uobj
  PROVE  SameTags
  BY DEF SameTags

(* Whoever is known when a member is added stays so, with the same tag.     *)
LEMMA MemberTags ==
  ASSUME UcTypeOK, UsersLive, NEW c, NEW n, NEW p, AddMember(c, n, p)
  PROVE  SameTags /\ DOMAIN users \subseteq DOMAIN users'
<1>1. PICK l : l = NickKey[n]
  OBVIOUS
<1>2. CASE /\ KnownUser(n) /\ users' = users
           /\ uobj' = [uobj EXCEPT ![users[l]].nchans = @ + 1]
  <2> SUFFICES ASSUME NEW k \in DOMAIN users PROVE uobj'[users[k]].tag = uobj[users[k]].tag
    BY <1>2 DEF SameTags
  <2>1. PICK o, u : o = users[k] /\ u = users[l]
    OBVIOUS
  <2>2. o \in DOMAIN uobj /\ uobj[o] \in UserRec
    BY <2>1 DEF UsersLive, UcTypeOK, IsMap
  <2>3. uobj'[o] = IF o = u THEN [uobj[o] EXCEPT !.nchans = @ + 1] ELSE uobj[o]
    BY <1>2, <2>1, <2>2
  <2>4. [uobj[o] EXCEPT !.nchans = @ + 1].tag = uobj[o].tag
    BY <2>2 DEF UserRec
  <2>5. uobj'[o].tag = uobj[o].tag
    BY <2>3, <2>4
  <2> QED BY <2>1, <2>5
<1>3. CASE ~KnownUser(n) /\ CanAllocUser /\ AddUser(l, n, Fresh)
  <2>1. PICK f : f = Fresh /\ f \notin DOMAIN uobj
    BY <1>3, FreshNew
  <2>2. /\ users' = Put(users, l, f) /\ l \notin DOMAIN users
        /\ uobj' = Put(uobj, f, [nick |-> n, nchans |-> 1, tag |-> "none"])
    BY <1>1, <1>3, <2>1 DEF AddUser, KnownUser
  <2>3. ASSUME NEW k \in DOMAIN users
        PROVE  k \in DOMAIN users' /\ uobj'[users'[k]].tag = uobj[users[k]].tag
    <3>1. k \in DOMAIN users' /\ users'[k] = users[k]
      BY <2>2 DEF Put
    <3>2. users[k] \in DOMAIN uobj
      BY DEF UsersLive
    <3>3. uobj'[users[k]] = uobj[users[k]]
      BY <2>1, <2>2, <3>2 DEF Put
    <3> QED BY <3>1, <3>3
  <2> QED BY <2>3 DEF SameTags
<1> QED BY <1>1, <1>2, <1>3 DEF AddMember

LEMMA JoinTags ==
  ASSUME Tidy, NEW n \in Nick, NEW c \in Chan, h_JOIN(n, c), online'
  PROVE  SameTags
<1>1. UcTypeOK /\ UsersLive
  BY DEF Tidy
<1>2. CASE users' = users /\ uobj' = uobj
  BY <1>2, NothingTags
<1>3. CASE AddMember(ChanKey[c], n, <<>>)
  BY <1>1, <1>3, MemberTags
<1> QED BY <1>2, <1>3 DEF h_JOIN, AddChan, ucvars, GiveUp

LEMMA PartTags ==
  ASSUME Tidy, Tidy', NEW n \in Nick, NEW c \in Chan, h_PART(n, c)
  PROVE  SameTags
<1>1. UcTypeOK /\ UsersLive'
  BY DEF Tidy
<1>2. CASE users' = users /\ uobj' = uobj
  BY <1>2, NothingTags
<1>3. CASE \E O : Release(O)
  BY <1>1, <1>3, ForgetTags
<1>4. CASE DropChan(ChanKey[c])
  BY <1>3, <1>4 DEF DropChan
<1>5. CASE DropMemb(ChanKey[c], users[NickKey[n]])
  BY <1>2, <1>3, <1>5 DEF DropMemb, ucvars
<1> QED BY <1>2, <1>4, <1>5 DEF h_PART, ucvars

LEMMA QuitTags ==
  ASSUME Tidy, Tidy', NEW n \in Nick, h_QUIT(n)
  PROVE  SameTags
<1>1. UcTypeOK /\ UsersLive /\ UsersLive'
  BY DEF Tidy
<1>2. CASE users' = users /\ uobj' = uobj
  BY <1>2, NothingTags
<1>3. CASE DropUser(users[NickKey[n]])
  <2>1. PICK u, l : u = users[NickKey[n]] /\ l = NickKey[uobj[u].nick]
    OBVIOUS
  <2>2. users' = Del(users, l) /\ UnlinkKey(l, {u})
    BY <1>3, <2>1 DEF DropUser
  <2> SUFFICES ASSUME NEW k \in DOMAIN users, k \in DOMAIN users'
               PROVE  uobj'[users'[k]].tag = uobj[users[k]].tag
    BY DEF SameTags
  <2>3. PICK o : o = users[k]
    OBVIOUS
  <2>4. users'[k] = o
    BY <2>2, <2>3 DEF Del, Restrict
  <2>5. o \in DOMAIN uobj /\ o \in DOMAIN uobj' /\ uobj[o] \in UserRec
    BY <1>1, <2>3, <2>4 DEF UsersLive, UcTypeOK, IsMap
  <2>6. /\ DOMAIN uobj' = DOMAIN uobj \ {u}
        /\ uobj'[o] = [uobj[o] EXCEPT !.nchans = @ - Cardinality(RefsAt(l, o))]
    BY <2>2, <2>5 DEF UnlinkKey
  <2>7. [uobj[o] EXCEPT !.nchans = @ - Cardinality(RefsAt(l, o))].tag = uobj[o].tag
    BY <2>5 DEF UserRec
  <2> QED BY <2>3, <2>4, <2>6, <2>7
<1> QED BY <1>2, <1>3 DEF h_QUIT, ucvars

LEMMA NickTags ==
  ASSUME NEW z, Ready(z), NEW n \in Nick, NEW m \in Nick, h_NICK(n, m),
         Renames(TrView, n, m, z), "rename" \notin FailSites
  PROVE  SameTags
<1>1. Tidy /\ UcTypeOK /\ UsersLive /\ names = <<>> /\ Good(TrView)
  BY DEF Tidy, Ready
<1>2. CASE users' = users /\ uobj' = uobj
  BY <1>2, NothingTags
<1>3. PICK j, l : j = NickKey[n] /\ l = NickKey[m]
  OBVIOUS
<1>4. CASE /\ j \in DOMAIN users /\ SetNick(users[j], m)
           /\ \/ users' = users
              \/ j # l /\ users' = Del(Put(users, l, users[j]), j)
  <2>1. PICK u : u = users[j]
    OBVIOUS
  <2>2. ASSUME NEW o \in DOMAIN uobj PROVE uobj'[o].tag = uobj[o].tag
    <3>1. uobj[o] \in UserRec
      BY <1>1 DEF UcTypeOK, IsMap
    <3>2. uobj'[o] = IF o = u THEN [uobj[o] EXCEPT !.nick = m] ELSE uobj[o]
      BY <1>4, <2>1 DEF SetNick
    <3>3. [uobj[o] EXCEPT !.nick = m].tag = uobj[o].tag
      BY <3>1 DEF UserRec
    <3> QED BY <3>2, <3>3
  <2>3. ASSUME j # l PROVE l \notin DOMAIN users
    <3> SUFFICES ASSUME l \in DOMAIN users PROVE FALSE
      OBVIOUS
    <3>1. Name(l) \in NamesOf(TrView) /\ NickKey[Name(l)] = l
      BY <1>1, ByKey
    <3>2. Name(l) = n
      BY <1>3, <3>1 DEF Renames
    <3> QED BY <1>3, <2>3, <3>1, <3>2
  <2> SUFFICES ASSUME NEW k \in DOMAIN users, k \in DOMAIN users'
               PROVE  uobj'[users'[k]].tag = uobj[users[k]].tag
    BY DEF SameTags
  <2>4. users'[k] = users[k]
    <3>1. CASE users' = users
      BY <3>1
    <3>2. CASE j # l /\ users' = Del(Put(users, l, users[j]), j)
      <4>1. k # j /\ k # l
        BY <2>3, <3>2 DEF Del, Restrict
      <4> QED BY <3>2, <4>1 DEF Del, Put, Restrict
    <3> QED BY <1>4, <3>1, <3>2
  <2>5. users[k] \in DOMAIN uobj
    BY <1>1 DEF UsersLive
  <2> QED BY <2>2, <2>4, <2>5
<1> QED BY <1>2, <1>3, <1>4 DEF h_NICK, RenameUser, RenameUserGivesUp, RenameUserFails,
                              KnownUser, ucvars

(* The list of a channel that begins anew forgets nobody, when nobody was   *)
(* known there.                                                             *)
LEMMA ListTags ==
  ASSUME NEW z, Ready(z), NEW c \in Chan, NEW list, h_353(c, list), NEW m, NEW T, T # {},
         m.cmd = "353", m.chan = c, Spares(T, TrView, m, z)
  PROVE  users' = users /\ uobj' = uobj
<1>1. Tidy /\ UcTypeOK /\ names = <<>> /\ Good(TrView) /\ ChanKey[c] = c
  BY ServerAssumption DEF Tidy, Ready
<1>2. tracking
  BY DEF h_353, Tracking
<1>3. CASE ~(c \in DOMAIN chans /\ endofnames)
  BY <1>1, <1>3 DEF h_353, KnownChan, ucvars
<1>4. CASE c \in DOMAIN chans /\ endofnames
  <2>1. ClearMemb(c)
    BY <1>1, <1>4 DEF h_353, KnownChan
  <2>2. PICK v : v = TrView
    OBVIOUS
  <2>3. v.eon = TRUE /\ c \in DOMAIN v.ros /\ v.ros[c] = Nicks(c)
    BY <1>1, <1>2, <1>4, <2>2, TrViewIs, ByKey
  <2>4. v.ros[c] = {}
    BY <2>2, <2>3 DEF Spares
  <2>5. KeysIn(c) = {}
    <3> SUFFICES ASSUME NEW k \in KeysIn(c) PROVE FALSE
      OBVIOUS
    <3>1. Name(k) \in Nicks(c)
      BY NicksIs
    <3> QED BY <2>3, <2>4, <3>1
  <2>6. Refs(c) = {}
    BY <2>5 DEF Refs, KeysIn
  <2>7. Release({}) /\ Dying({}) = {}
    BY <2>1, <2>6 DEF ClearMemb, Dying
  <2>8. /\ users' = Restrict(users, DOMAIN users)
        /\ uobj' = [o \in DOMAIN uobj |-> uobj[o]]
    <3>1. {NickKey[uobj[o].nick] : o \in Dying({})} = {}
      BY <2>7
    <3>2. \A S : S \ {} = S
      OBVIOUS
    <3> QED BY <2>7, <3>1, <3>2 DEF Release
  <2> QED BY <1>1, <2>8 DEF UcTypeOK, IsMap, Restrict
<1> QED BY <1>3, <1>4

(* A handler of the tracker leaves those known, and their tags, whom what   *)
(* it is told leaves in a channel of ours.                                  *)
LEMMA HandleTags ==
  ASSUME NEW z, Ready(z), Tidy', online', TrView' = z, NEW m \in Msgs, Handle(m),
         Tells(TrView, m, z), NEW T, Spares(T, TrView, m, z), "rename" \notin FailSites,
         ~tracking => DOMAIN chans = {}, NEW k \in T, Has(k)
  PROVE  Has(k)'
<1>1. Tidy /\ names = <<>> /\ k \in DOMAIN users
  BY DEF Ready, Has
<1>2. CASE m.cmd = "353" /\ h_353(m.chan, m.list)
  BY <1>2, MsgFields, ListTags DEF Has
<1>3. ASSUME SameTags, names' = names PROVE Has(k)'
  <2>1. Shares(TrView', k)
    BY DEF Spares
  <2>2. k \in DOMAIN users'
    BY <1>1, <1>3, <2>1, KnownNext
  <2> QED BY <1>1, <1>3, <2>2 DEF SameTags, Has
<1>4. CASE m.cmd = "JOIN" /\ h_JOIN(m.nick, m.chan)
  <2>1. names' = names
    BY <1>1, <1>4 DEF h_JOIN, CarryOn, GiveUp
  <2> QED BY <1>1, <1>3, <1>4, <2>1, MsgFields, JoinTags
<1>5. CASE m.cmd = "366" /\ h_366
  BY <1>3, <1>5, NothingTags DEF h_366, ucvars
<1>6. CASE m.cmd \in {"PART", "KICK"} /\ h_PART(m.nick, m.chan)
  <2>1. names' = names
    BY <1>6 DEF h_PART, CarryOn
  <2> QED BY <1>1, <1>3, <1>6, <2>1, MsgFields, PartTags
<1>7. CASE m.cmd = "QUIT" /\ h_QUIT(m.nick)
  <2>1. names' = names
    BY <1>7 DEF h_QUIT, CarryOn
  <2> QED BY <1>1, <1>3, <1>7, <2>1, MsgFields, QuitTags
<1>8. CASE m.cmd = "NICK" /\ h_NICK(m.nick, m.new)
  <2>1. names' = names
    BY <1>8 DEF h_NICK
  <2> QED BY <1>3, <1>8, <2>1, MsgFields, NickTags DEF Tells
<1>9. CASE m.cmd = "MODE" /\ h_MODE(m.chan, m.nick, m.sym, m.enab)
  <2>1. names' = names /\ users' = users /\ uobj' = uobj
    BY <1>9 DEF h_MODE, UpdateModePfx, CarryOn, ucvars
  <2> QED BY <1>3, <2>1, NothingTags
<1>10. CASE m.cmd = "005" /\ handle_005
  <2>1. DOMAIN chans = {}
    BY <1>10 DEF handle_005
  <2> QED BY <1>1, <2>1, TidyEmpty DEF EmptyMap
<1> QED BY <1>2, <1>4, <1>5, <1>6, <1>7, <1>8, <1>9, <1>10, Handles

-----------------------------------------------------------------------------
(* The record of the tagged users *)

LEMMA SharingIs ==
  /\ SrvOk => \A k : k \in Sharing <=> Shares(SrvView, k)
  /\ SrvOk' => \A k : k \in Sharing' <=> Shares(SrvView', k)
<1>1. ASSUME SrvOk, NEW k PROVE k \in Sharing <=> Shares(SrvView, k)
  <2>1. PICK v : v = SrvView
    OBVIOUS
  <2>2. /\ v.ros = [c \in DOMAIN v.ros |-> DOMAIN on[c]]
        /\ \A c : c \in DOMAIN v.ros <=> c \in Chan /\ self \in DOMAIN on[c]
    BY <1>1, <2>1, ViewNow
  <2>3. k \in Sharing <=> \E n \in Nick : NickKey[n] = k /\ \E c \in Chan : self \in DOMAIN on[c] /\ n \in DOMAIN on[c]
    BY DEF Sharing, Common, In_
  <2>4. \A c \in Chan : DOMAIN on[c] \subseteq Nick
    BY <1>1 DEF SrvOk
  <2>5. Shares(v, k) <=> \E c \in DOMAIN v.ros : \E n \in DOMAIN on[c] : NickKey[n] = k
    BY <2>2 DEF Shares
  <2>6. k \in Sharing <=> \E c \in DOMAIN v.ros : \E n \in DOMAIN on[c] : NickKey[n] = k
    BY <2>2, <2>3, <2>4
  <2> QED BY <2>1, <2>5, <2>6
<1>2. ASSUME SrvOk', NEW k PROVE k \in Sharing' <=> Shares(SrvView', k)
  <2>1. PICK v : v = SrvView'
    OBVIOUS
  <2>2. /\ v.ros = [c \in DOMAIN v.ros |-> DOMAIN on'[c]]
        /\ \A c : c \in DOMAIN v.ros <=> c \in Chan /\ self' \in DOMAIN on'[c]
    BY <1>2, <2>1, ViewNext
  <2>3. k \in Sharing' <=> \E n \in Nick : NickKey[n] = k /\ \E c \in Chan : self' \in DOMAIN on'[c] /\ n \in DOMAIN on'[c]
    BY DEF Sharing, Common, In_
  <2>4. \A c \in Chan : DOMAIN on'[c] \subseteq Nick
    BY <1>2 DEF SrvOk
  <2>5. Shares(v, k) <=> \E c \in DOMAIN v.ros : \E n \in DOMAIN on'[c] : NickKey[n] = k
    BY <2>2 DEF Shares
  <2>6. k \in Sharing' <=> \E c \in DOMAIN v.ros : \E n \in DOMAIN on'[c] : NickKey[n] = k
    BY <2>2, <2>3, <2>4
  <2> QED BY <2>1, <2>5, <2>6
<1> QED BY <1>1, <1>2

(* The messages on their way never make us lose sight of the tagged users,  *)
(* and until they arrive the tags are where they were.                      *)
Held ==
  /\ \A k \in tagged : Shares(SrvView, k)
  /\ online /\ phase = "run" /\ tagged # {} =>
       Leads(tagged, inq, TrView, SrvView) /\ \A k \in tagged : Has(k)

(* What the theorem is about: besides, we send no NAMES, whose answer makes *)
(* the tracker forget the members of a channel, and never take a tag away.  *)
TagsAssumed == Assumed /\ AppNames = {} /\ "none" \notin TagKinds

(* Only those on a connection are in a channel.                             *)
LEMMA SharingOnline ==
  ASSUME SrvOk, Session, NEW k, Shares(SrvView, k)
  PROVE  online /\ self \in Nick
<1>1. k \in Sharing
  BY SharingIs
<1>2. PICK c \in Chan : In_(c)
  BY <1>1 DEF Sharing, Common
<1> QED BY <1>2 DEF SrvOk, In_, Session

LEMMA HeldServer ==
  ASSUME SyncInv, TagsAssumed, Server, NEW T, T # {}, online, phase = "run",
         Leads(T, inq, TrView, SrvView), \A k \in T : Shares(SrvView, k) /\ Shares(SrvView', k),
         \A k \in T : Has(k)
  PROVE  Leads(T, inq', TrView', SrvView') /\ \A k \in T : Has(k)'
<1>1. /\ Inv /\ Tidy /\ SrvOk /\ Session /\ inq \in Seq(Msgs) /\ "all" \notin AppNames
      /\ UNCHANGED vars /\ self \in Nick
  BY DEF SyncInv, TagsAssumed, Assumed, Session, Server
<1>2. /\ UNCHANGED ucvars /\ mynick' = mynick /\ tracking' = tracking
      /\ endofnames' = endofnames /\ names' = names
  BY <1>1 DEF vars, conn
<1>3. users' = users /\ uobj' = uobj /\ chans' = chans
  BY <1>2 DEF ucvars
<1>4. TrView' = TrView
  BY <1>2, <1>3 DEF TrView, Nicks, Pending, KeysIn, Name
<1>5. PICK q \in Seq(Msgs) : inq' = inq \o q /\ Leading(q, SrvView, SrvView')
  BY <1>1, ServerInforms DEF Informs
<1>6. PICK p, v, y, z : p = inq /\ v = TrView /\ y = SrvView /\ z = SrvView'
  OBVIOUS
<1>7. Leads(T, q, y, z)
  BY <1>5, <1>6 DEF Leading, TagsAssumed
<1>8. Leads(T, p \o q, v, z)
  BY <1>1, <1>6, <1>7, LeadsOn
<1> QED BY <1>3, <1>4, <1>5, <1>6, <1>8 DEF Has

LEMMA HeldReceive ==
  ASSUME SyncInv, SyncInv', TagsAssumed, Receive, online', NEW T, T # {},
         Leads(T, inq, TrView, SrvView), \A k \in T : Has(k)
  PROVE  Leads(T, inq', TrView', SrvView') /\ \A k \in T : Has(k)'
<1>1. /\ Inv /\ Inv' /\ Tidy /\ Tidy' /\ Session /\ inq \in Seq(Msgs) /\ inq # <<>>
      /\ {"rename", "strdup"} \cap FailSites = {}
      /\ Idle /\ online /\ names = <<>> /\ phase = "run" /\ Follow(Tail(inq))
      /\ ~tracking => DOMAIN chans = {} /\ names = <<>>
  BY DEF SyncInv, Session, Receive, TagsAssumed, Assumed, Idle
<1>2. tracking
  <2>1. PICK k \in T : k \in DOMAIN users
    BY DEF Has
  <2> QED BY <1>1, <2>1, TidyEmpty DEF EmptyMap
<1>3. PICK m \in Msgs, q \in Seq(Msgs) : m = Head(inq) /\ q = Tail(inq)
  BY <1>1, HeadTail
<1>4. Handle(m)
  BY <1>2, <1>3 DEF Receive
<1>5. inq' = q /\ SrvView' = SrvView
  BY <1>1, <1>3 DEF Follow, SrvView, In_
<1>6. PICK v, z : v = TrView /\ z = SrvView
  OBVIOUS
<1>7. PICK y : Step(T, v, m, y) /\ Leads(T, q, y, z)
  BY <1>1, <1>3, <1>6, LeadsTail
<1>8. Good(v) /\ Good(y) /\ Tells(v, m, y) /\ Spares(T, v, m, y)
  BY <1>1, <1>6, <1>7, LeadsTo DEF Step
<1>9. Ready(y)
  BY <1>1, <1>6, <1>8 DEF Ready
<1>10. TrView' = y
  BY <1>1, <1>4, <1>6, <1>8, <1>9, HandleLearns DEF Learns
<1>11. ASSUME NEW k \in T PROVE Has(k)'
  <2>1. "rename" \notin FailSites /\ Has(k)
    BY <1>1
  <2> QED BY <1>1, <1>2, <1>4, <1>6, <1>8, <1>9, <1>10, <2>1, HandleTags
<1> QED BY <1>5, <1>6, <1>7, <1>10, <1>11

(* A name of a 353 is added: those who are known stay so.                   *)
LEMMA HeldLoop ==
  ASSUME SyncInv, Loop, online', NEW T, Leads(T, inq, TrView, SrvView), \A k \in T : Has(k)
  PROVE  Leads(T, inq', TrView', SrvView') /\ \A k \in T : Has(k)'
<1>1. /\ Inv /\ Tidy /\ Session /\ Synced /\ NextName /\ Follow(inq)
      /\ inq \in Seq(Msgs) /\ names # <<>>
  BY DEF SyncInv, Session, Loop, NextName
<1>2. online /\ phase = "run" /\ tracking
  BY <1>1 DEF Inv, NamesOnline, Session
<1>3. PendOk /\ Good(TrView)
  BY <1>1, <1>2 DEF Synced, Told, Leads
<1>4. TrView' = TrView
  BY <1>1, <1>2, <1>3, LearnsName DEF Learns
<1>5. inq' = inq /\ SrvView' = SrvView
  BY <1>1 DEF Follow, SrvView, In_
<1>6. UcTypeOK /\ UsersLive
  BY <1>1 DEF Tidy
<1>7. PICK c, n, p : AddMember(c, n, p)
  BY <1>1 DEF NextName, GiveUp
<1>8. ASSUME NEW k \in T PROVE Has(k)'
  BY <1>6, <1>7, <1>8, MemberTags DEF Has, SameTags
<1> QED BY <1>4, <1>5, <1>8

(* We, or the application, tag a user or a channel.                         *)
LEMMA HeldTag ==
  ASSUME SyncInv, UNCHANGED server, NEW t \in TagKinds, "none" \notin TagKinds,
         \/ \E n \in Nick : irc_tag_user(n, t)
         \/ \E c \in Chan : irc_tag_chan(c, t)
  PROVE  /\ TrView' = TrView /\ SrvView' = SrvView /\ inq' = inq
         /\ \A k : Has(k) => Has(k)'
         /\ \A n \in Nick : irc_tag_user(n, t) => Has(NickKey[n])'
<1>1. /\ Inv /\ Tidy /\ UcTypeOK /\ UsersLive /\ MembInv /\ t \in Tag /\ t # "none"
      /\ self' = self /\ on' = on /\ inq' = inq
  BY TidyRefs, TrackAssumption DEF SyncInv, Tidy, server
<1>2. UNCHANGED <<mynick, tracking, endofnames, names>>
  BY DEF irc_tag_user, irc_tag_chan, CarryOn, conn
<1>3. SameShape /\ UcTypeOK'
  BY <1>1, TagUserStep, TagChanStep DEF irc_tag_user, irc_tag_chan
<1>4. TrView' = TrView
  BY <1>1, <1>2, <1>3, KnowsSame
<1>5. SrvView' = SrvView
  BY <1>1 DEF SrvView, In_
<1>6. ASSUME NEW n \in Nick, TagUser(n, t)
      PROVE  Has(NickKey[n])' /\ \A k : Has(k) => Has(k)'
  <2>1. PICK u : u = users[NickKey[n]]
    OBVIOUS
  <2>2. users' = users /\ NickKey[n] \in DOMAIN users /\ uobj' = [uobj EXCEPT ![u].tag = t]
    BY <1>6, <2>1 DEF TagUser, KnownUser
  <2>3. ASSUME NEW k \in DOMAIN users
        PROVE  uobj'[users[k]].tag = IF users[k] = u THEN t ELSE uobj[users[k]].tag
    <3>1. PICK o : o = users[k]
      OBVIOUS
    <3>2. o \in DOMAIN uobj /\ uobj[o] \in UserRec
      BY <1>1, <3>1 DEF UsersLive, UcTypeOK, IsMap
    <3>3. uobj'[o] = IF o = u THEN [uobj[o] EXCEPT !.tag = t] ELSE uobj[o]
      BY <2>2, <3>2
    <3>4. [uobj[o] EXCEPT !.tag = t].tag = t
      BY <3>2 DEF UserRec
    <3> QED BY <3>1, <3>3, <3>4
  <2> QED BY <1>1, <2>1, <2>2, <2>3 DEF Has
<1>7. ASSUME NEW c \in Chan, irc_tag_chan(c, t) PROVE \A k : Has(k) => Has(k)'
  BY <1>7 DEF irc_tag_chan, TagChan, Has
<1> QED BY <1>1, <1>4, <1>5, <1>6, <1>7 DEF irc_tag_user

LEMMA HeldNext ==
  ASSUME SyncInv, SyncInv', TagsAssumed, Held, ServerNext, tagged' = tagged \cap Sharing'
  PROVE  Held'
<1>1. PICK T \in SUBSET tagged : T = tagged'
  OBVIOUS
<1>2. SrvOk /\ SrvOk' /\ Session
  BY DEF SyncInv
<1>3. \A k \in T : Shares(SrvView, k) /\ Shares(SrvView', k)
  BY <1>1, <1>2, SharingIs DEF Held
<1> SUFFICES ASSUME online', phase' = "run", T # {}
             PROVE  Leads(T, inq', TrView', SrvView') /\ \A k \in T : Has(k)'
  BY <1>1, <1>3 DEF Held
<1>4. online /\ phase # "connect"
  BY <1>2, <1>3, SharingOnline DEF Session
<1>5. ASSUME phase = "run" PROVE Leads(T, inq, TrView, SrvView) /\ \A k \in T : Has(k)
  <2>1. Leads(tagged, inq, TrView, SrvView) /\ \A k \in tagged : Has(k)
    BY <1>4, <1>5 DEF Held
  <2> QED BY <2>1, LeadsLess
<1>6. CASE Server
  <2>1. phase = "run"
    BY <1>6 DEF Server, vars
  <2> QED BY <1>3, <1>4, <1>5, <1>6, <2>1, HeldServer
<1>7. CASE Receive
  <2>1. phase = "run"
    BY <1>7 DEF Receive, Idle
  <2> QED BY <1>5, <1>7, <2>1, HeldReceive
<1>8. CASE Loop
  <2>1. phase = "run"
    BY <1>8 DEF SyncInv, Inv, NamesOnline, Loop, NextName
  <2> QED BY <1>5, <1>8, <2>1, HeldLoop
<1>9. CASE \/ \E n \in Nick, t \in TagKinds : irc_tag_user(n, t) /\ UNCHANGED server
           \/ \E c \in Chan, t \in TagKinds : irc_tag_chan(c, t) /\ UNCHANGED server
  <2>1. /\ phase = "run" /\ UNCHANGED server
        /\ \E t \in TagKinds : \/ \E n \in Nick : irc_tag_user(n, t)
                               \/ \E c \in Chan : irc_tag_chan(c, t)
    BY <1>9 DEF irc_tag_user, irc_tag_chan, Idle
  <2>2. /\ TrView' = TrView /\ SrvView' = SrvView /\ inq' = inq
        /\ \A k : Has(k) => Has(k)'
    BY <2>1, HeldTag DEF TagsAssumed
  <2>3. Leads(T, inq, TrView, SrvView) /\ \A k \in T : Has(k)
    BY <1>5, <2>1
  <2> QED BY <2>2, <2>3
<1>10. CASE Lost /\ Hangup
  BY <1>10 DEF Lost
<1>11. CASE \E p \in {"connect", "dispose"} : lsi_trk_deinit(p)
  BY <1>11 DEF lsi_trk_deinit
<1>12. CASE ClearNext
  BY <1>12 DEF ClearNext, CarryOn
<1>13. CASE Connects
  BY <1>4, <1>13 DEF Connects, irc_connect
<1>14. CASE irc_dispose \/ UseFreed
  BY <1>14 DEF irc_dispose, UseFreed
<1> QED BY <1>6, <1>7, <1>8, <1>9, <1>10, <1>11, <1>12, <1>13, <1>14 DEF ServerNext, Client

(* Up to date, the tracker knows what the server does.                      *)
LEMMA UpToDate ==
  ASSUME SyncInv, CaughtUp
  PROVE  TrView = SrvView /\ Good(TrView) /\ names = <<>> /\ Tidy /\ inq = <<>> /\ phase = "run"
<1>1. /\ Tidy /\ names = <<>> /\ inq = <<>> /\ inq \in Seq(Msgs) /\ phase = "run"
      /\ Leads({}, inq, TrView, SrvView)
  BY DEF SyncInv, CaughtUp, Idle, Synced, Told, Session
<1>2. PICK v, z : v = TrView /\ z = SrvView
  OBVIOUS
<1> QED BY <1>1, <1>2, LeadsTo

LEMMA HeldTags ==
  ASSUME SyncInv, SyncInv', TagsAssumed, Held, NEW n \in Nick, Tags(n)
  PROVE  Held'
<1>1. PICK t \in TagKinds : irc_tag_user(n, t) /\ UNCHANGED server
  BY DEF Tags
<1>2. /\ TrView' = TrView /\ SrvView' = SrvView /\ inq' = inq
      /\ \A k : Has(k) => Has(k)'
      /\ Has(NickKey[n])'
  BY <1>1, HeldTag DEF TagsAssumed
<1>3. online' = online /\ phase' = phase
  BY <1>1 DEF irc_tag_user, CarryOn, conn
<1>4. CASE ~CaughtUp
  BY <1>2, <1>3, <1>4 DEF Tags, Held
<1>5. CASE CaughtUp
  <2>1. tagged' = tagged \cup {NickKey[n]}
    BY <1>5 DEF Tags
  <2>2. TrView = SrvView /\ Good(TrView) /\ names = <<>> /\ Tidy /\ inq = <<>> /\ online /\ phase = "run"
    BY <1>5, UpToDate DEF CaughtUp
  <2>3. NickKey[n] \in DOMAIN users
    BY <1>1 DEF irc_tag_user, TagUser, KnownUser
  <2>4. Shares(SrvView, NickKey[n])
    BY <2>2, <2>3, KnownNow
  <2>5. \A k \in tagged : Shares(SrvView, k) /\ Has(k)
    BY <2>2 DEF Held
  <2>6. Leads(tagged', inq', TrView', SrvView')
    BY <1>2, <2>2, LeadsNone
  <2> QED BY <1>2, <2>1, <2>4, <2>5, <2>6 DEF Held
<1> QED BY <1>4, <1>5

LEMMA HeldStep ==
  ASSUME SyncInv, SyncInv', TagsAssumed, Held, [TagsNext]_<<allvars, tagged>>
  PROVE  Held'
<1>1. CASE \E n \in Nick : Tags(n)
  BY <1>1, HeldTags
<1>2. CASE ServerNext /\ tagged' = tagged \cap Sharing'
  BY <1>2, HeldNext
<1>3. CASE UNCHANGED <<allvars, tagged>>
  <2>1. UNCHANGED allvars /\ UNCHANGED vars /\ UNCHANGED server /\ tagged' = tagged
    BY <1>3 DEF allvars
  <2>2. /\ online' = online /\ phase' = phase /\ inq' = inq /\ SrvView' = SrvView
        /\ TrView' = TrView /\ \A k : Has(k)' <=> Has(k)
    BY <2>1 DEF vars, conn, ucvars, server, SrvView, In_, TrView, Nicks, Pending, KeysIn, Name, Has
  <2> QED BY <2>1, <2>2 DEF Held
<1> QED BY <1>1, <1>2, <1>3 DEF TagsNext

(* A tag is "persistent" (irc_track.h): whoever has been tagged, and has    *)
(* shared a channel with us ever since, is known and has a tag whenever we  *)
(* have read everything -- though tags are kept in the user object, which   *)
(* ucbase.c frees as soon as no channel has the user, so that a handler     *)
(* that let a user go for a moment would lose the tag.                      *)
THEOREM TagsPersist == TagsAssumed => (TagsSpec => []TagPersists)
<1> SUFFICES ASSUME TagsAssumed PROVE TagsSpec => []TagPersists
  OBVIOUS
<1>1. TagsInit => SyncInv /\ Held
  BY SyncInit DEF TagsInit, Held
<1>2. SyncInv /\ Held /\ [TagsNext]_<<allvars, tagged>> => (SyncInv /\ Held)'
  <2> SUFFICES ASSUME SyncInv, Held, [TagsNext]_<<allvars, tagged>> PROVE SyncInv' /\ Held'
    OBVIOUS
  <2>1. [ServerNext]_allvars
    <3>1. CASE \E n \in Nick : Tags(n)
      <4>1. \E n \in Nick, t \in TagKinds : irc_tag_user(n, t) /\ UNCHANGED server
        BY <3>1 DEF Tags
      <4> QED BY <4>1 DEF ServerNext, Client
    <3> QED BY <3>1 DEF TagsNext
  <2>2. SyncInv'
    BY <2>1, SyncStep DEF TagsAssumed
  <2> QED BY <2>2, HeldStep
<1>3. SyncInv /\ Held => TagPersists
  <2> SUFFICES ASSUME SyncInv, Held, CaughtUp, NEW k \in tagged
               PROVE  k \in DOMAIN users /\ uobj[users[k]].tag # "none"
    BY DEF TagPersists
  <2>1. phase = "run" /\ online
    BY UpToDate DEF CaughtUp
  <2> QED BY <2>1 DEF Held, Has
<1> QED BY <1>1, <1>2, <1>3, PTL DEF TagsSpec

-----------------------------------------------------------------------------
(* The prefix symbols of a member *)

(* PREFIX is a list of different symbols.                                   *)
LEMMA SymOrder ==
  ASSUME NEW s \in Sym, NEW t \in Sym
  PROVE  /\ s \notin Stronger[s]
         /\ s # t => s \in Stronger[t] \/ t \in Stronger[s]
         /\ \A r \in Sym : s \in Stronger[t] /\ t \in Stronger[r] => s \in Stronger[r]
<1>1. \A x, y \in Sym : x \in Stronger[y] => y \notin Stronger[x]
  BY PrefixAssumption
<1>2. \A S \in (SUBSET Sym) \ {{}} : \E x \in S : \A y \in S : x \in Stronger[y] \/ x = y
  BY ServerAssumption
<1>3. s # t => s \in Stronger[t] \/ t \in Stronger[s]
  <2>1. PICK S : S = {s, t}
    OBVIOUS
  <2>2. \E x \in S : \A y \in S : x \in Stronger[y] \/ x = y
    BY <1>2, <2>1
  <2> QED BY <2>1, <2>2
<1>4. ASSUME NEW r \in Sym, s \in Stronger[t], t \in Stronger[r] PROVE s \in Stronger[r]
  <2>1. PICK S : S = {s, t, r}
    OBVIOUS
  <2>2. PICK x \in S : \A y \in S : x \in Stronger[y] \/ x = y
    BY <1>2, <2>1
  <2>3. x # t /\ x # r
    BY <1>1, <1>4, <2>1, <2>2
  <2>4. s # r
    BY <1>1, <1>4
  <2> QED BY <2>1, <2>2, <2>3, <2>4
<1> QED BY <1>1, <1>3, <1>4

LEMMA CatIs ==
  ASSUME NEW a \in Seq(Sym), NEW b \in Seq(Sym)
  PROVE  /\ a \o b \in Seq(Sym) /\ Len(a \o b) = Len(a) + Len(b)
         /\ \A i \in 1..Len(a) : (a \o b)[i] = a[i]
         /\ \A i \in 1..Len(b) : (a \o b)[Len(a) + i] = b[i]
  OBVIOUS

(* How many symbols s comes after.                                          *)
LEMMA InsertPlace ==
  ASSUME NEW p \in Seq(Sym), NEW s \in Sym
  PROVE  \E at \in 0..Len(p) :
           /\ InsertSym(p, s) = SubSeq(p, 1, at) \o <<s>> \o SubSeq(p, at + 1, Len(p))
           /\ \A j \in 1..at : p[j] \in Stronger[s]
           /\ at < Len(p) => p[at + 1] \notin Stronger[s]
<1> DEFINE I == {i \in 1..Len(p) : \A j \in 1..i : p[j] \in Stronger[s]}
<1>1. PICK at : at = Cardinality(I)
  OBVIOUS
<1>2. Len(p) \in Nat
  OBVIOUS
<1>3. ASSUME NEW n \in Nat PROVE IsFiniteSet(1..n) /\ Cardinality(1..n) = n
  <2>1. 1 \in Int /\ n \in Int
    OBVIOUS
  <2>2. IsFiniteSet(1..n) /\ Cardinality(1..n) = IF 1 > n THEN 0 ELSE n - 1 + 1
    BY <2>1, FS_Interval
  <2> QED BY <2>2
<1>4. I \subseteq 1..Len(p) /\ IsFiniteSet(I)
  <2>1. I \subseteq 1..Len(p)
    OBVIOUS
  <2> HIDE DEF I
  <2> QED BY <1>2, <1>3, <2>1, FS_Subset
<1>5. at \in 0..Len(p)
  <2> HIDE DEF I
  <2>2. IsFiniteSet(1..Len(p)) /\ Cardinality(1..Len(p)) = Len(p)
    BY <1>2, <1>3
  <2>1. at \in Nat /\ at <= Len(p)
    BY <1>1, <1>4, <2>2, FS_Subset, FS_CardinalityType
  <2> QED BY <1>2, <2>1
<1>6. ASSUME NEW i \in I PROVE 1..i \subseteq I /\ i <= at
  <2>1. i \in 1..Len(p) /\ \A j \in 1..i : p[j] \in Stronger[s]
    OBVIOUS
  <2>2. \A k \in 1..i : k \in 1..Len(p) /\ \A j \in 1..k : j \in 1..i
    BY <1>2, <2>1
  <2>3. 1..i \subseteq I
    BY <2>1, <2>2
  <2> HIDE DEF I
  <2>4. i \in Nat /\ Cardinality(1..i) <= Cardinality(I)
    BY <1>2, <1>4, <2>1, <2>3, FS_Subset
  <2> QED BY <1>1, <1>3, <2>3, <2>4
<1>7. at # 0 => at \in I
  <2>1. SUFFICES ASSUME at # 0, at \notin I PROVE FALSE
    OBVIOUS
  <2> HIDE DEF I
  <2>2. I \subseteq 1..(at - 1) /\ at - 1 \in Nat
    BY <1>2, <1>4, <1>5, <1>6, <2>1
  <2>3. Cardinality(I) <= Cardinality(1..(at - 1))
    BY <1>3, <2>2, FS_Subset
  <2> QED BY <1>1, <1>3, <1>5, <2>2, <2>3
<1>8. \A j \in 1..at : p[j] \in Stronger[s]
  BY <1>5, <1>7
<1>9. at < Len(p) => p[at + 1] \notin Stronger[s]
  <2>1. SUFFICES ASSUME at < Len(p), p[at + 1] \in Stronger[s] PROVE FALSE
    OBVIOUS
  <2>2. at + 1 \in 1..Len(p) /\ \A j \in 1..(at + 1) : j \in 1..at \/ j = at + 1
    BY <1>2, <1>5, <2>1
  <2>3. at + 1 \in I
    BY <1>8, <2>1, <2>2
  <2> HIDE DEF I
  <2>4. at + 1 <= at
    BY <1>6, <2>3
  <2> QED BY <1>5, <2>4
<1>10. InsertSym(p, s) = SubSeq(p, 1, at) \o <<s>> \o SubSeq(p, at + 1, Len(p))
  BY <1>1 DEF InsertSym
<1> QED BY <1>5, <1>8, <1>9, <1>10

(* A symbol is put where it belongs ...                                     *)
LEMMA InsertSorted ==
  ASSUME NEW p \in Seq(Sym), NEW s \in Sym, Sorted(p), s \notin Range(p)
  PROVE  Sorted(InsertSym(p, s)) /\ Range(InsertSym(p, s)) = Range(p) \cup {s}
<1>1. PICK at \in 0..Len(p) :
           /\ InsertSym(p, s) = SubSeq(p, 1, at) \o <<s>> \o SubSeq(p, at + 1, Len(p))
           /\ \A j \in 1..at : p[j] \in Stronger[s]
           /\ at < Len(p) => p[at + 1] \notin Stronger[s]
  BY InsertPlace
<1>2. PICK q : q = InsertSym(p, s)
  OBVIOUS
<1>3. Len(p) \in Nat /\ \A i \in 1..Len(p) : p[i] \in Sym /\ p[i] # s
  BY DEF Range
<1>4. /\ q \in Seq(Sym) /\ Len(q) = Len(p) + 1 /\ q[at + 1] = s
      /\ \A i \in 1..at : q[i] = p[i]
      /\ \A i \in at + 1..Len(p) : q[i + 1] = p[i]
  <2>0. SubSeq(p, 1, at) \in Seq(Sym) /\ SubSeq(p, at + 1, Len(p)) \in Seq(Sym)
    BY <1>3
  <2>1. PICK a, b : a = SubSeq(p, 1, at) /\ b = SubSeq(p, at + 1, Len(p)) /\ a \in Seq(Sym) /\ b \in Seq(Sym)
    BY <2>0
  <2>2. Len(a) = at /\ \A i \in 1..at : a[i] = p[i]
    BY <1>3, <2>1
  <2>3. Len(b) = Len(p) - at /\ \A i \in 1..Len(p) - at : b[i] = p[at + i]
    BY <1>3, <2>1
  <2>4. q = a \o <<s>> \o b /\ <<s>> \in Seq(Sym) /\ Len(<<s>>) = 1 /\ <<s>>[1] = s
    BY <1>1, <1>2, <2>1
  <2>5. PICK h : h = a \o <<s>>
    OBVIOUS
  <2>6. h \in Seq(Sym) /\ Len(h) = at + 1 /\ h[at + 1] = s /\ \A i \in 1..at : h[i] = p[i]
    <3>1. PICK e \in Seq(Sym) : e = <<s>> /\ Len(e) = 1 /\ e[1] = s
      BY <2>4
    <3>2. /\ a \o e \in Seq(Sym) /\ Len(a \o e) = Len(a) + Len(e)
          /\ \A i \in 1..Len(a) : (a \o e)[i] = a[i]
          /\ \A i \in 1..Len(e) : (a \o e)[Len(a) + i] = e[i]
      BY <2>1, CatIs
    <3>3. h = a \o e
      BY <2>5, <3>1
    <3>4. h[at + 1] = s
      BY <2>2, <3>1, <3>2, <3>3
    <3> QED BY <2>2, <3>1, <3>2, <3>3, <3>4
  <2>7. q = h \o b /\ q \in Seq(Sym) /\ Len(q) = Len(p) + 1
    <3>1. q = h \o b
      BY <2>4, <2>5
    <3>2. q \in Seq(Sym) /\ Len(q) = Len(h) + Len(b)
      BY <2>1, <2>6, <3>1, CatIs
    <3> QED BY <1>3, <2>3, <2>6, <3>1, <3>2
  <2>8. q[at + 1] = s /\ \A i \in 1..at : q[i] = p[i]
    BY <2>6, <2>7
  <2>9. ASSUME NEW i \in at + 1..Len(p) PROVE q[i + 1] = p[i]
    <3>1. i - at \in 1..Len(b) /\ at + (i - at) = i /\ Len(h) + (i - at) = i + 1
      BY <1>3, <2>3, <2>6
    <3>2. q[Len(h) + (i - at)] = b[i - at]
      BY <2>7, <3>1
    <3> QED BY <2>3, <3>1, <3>2
  <2> QED BY <2>7, <2>8, <2>9
<1>5. \A i \in 1..Len(q) :
         \/ i \in 1..at /\ q[i] = p[i]
         \/ i = at + 1 /\ q[i] = s
         \/ i - 1 \in at + 1..Len(p) /\ q[i] = p[i - 1]
  <2>1. ASSUME NEW i \in 1..Len(q), i > at + 1 PROVE i - 1 \in at + 1..Len(p) /\ q[i] = p[i - 1]
    <3>1. i - 1 \in at + 1..Len(p) /\ (i - 1) + 1 = i
      BY <1>3, <1>4, <2>1
    <3> QED BY <1>4, <3>1
  <2> QED BY <1>3, <1>4, <2>1
<1>6. \A j \in at + 1..Len(p) : s \in Stronger[p[j]]
  <2>1. ASSUME NEW j \in at + 1..Len(p) PROVE s \in Stronger[p[j]]
    <3>1. at + 1 \in 1..Len(p) /\ j \in 1..Len(p)
      BY <1>3, <2>1
    <3>2. p[at + 1] \in Sym /\ p[at + 1] # s /\ p[at + 1] \notin Stronger[s] /\ p[j] \in Sym
      BY <1>1, <1>3, <3>1
    <3>3. s \in Stronger[p[at + 1]]
      BY <3>2, SymOrder
    <3>4. j = at + 1 \/ p[at + 1] \in Stronger[p[j]]
      BY <2>1, <3>1 DEF Sorted
    <3> QED BY <3>2, <3>3, <3>4, SymOrder
  <2> QED BY <2>1
<1>7. ASSUME NEW i \in 1..Len(q), NEW j \in 1..Len(q), i < j PROVE q[i] \in Stronger[q[j]]
  <2>0. \A x, y \in 1..Len(p) : x < y => p[x] \in Stronger[p[y]]
    BY DEF Sorted
  <2>1. CASE i \in 1..at /\ q[i] = p[i]
    <3>1. i \in 1..Len(p) /\ at + 1 > i
      BY <1>3, <2>1
    <3>2. CASE j \in 1..at /\ q[j] = p[j]
      BY <1>3, <1>7, <2>0, <2>1, <3>2
    <3>3. CASE j = at + 1 /\ q[j] = s
      BY <1>1, <2>1, <3>3
    <3>4. CASE j - 1 \in at + 1..Len(p) /\ q[j] = p[j - 1]
      <4>1. j - 1 \in 1..Len(p) /\ i < j - 1
        BY <1>3, <3>1, <3>4
      <4> QED BY <2>0, <2>1, <3>1, <3>4, <4>1
    <3> QED BY <1>5, <3>2, <3>3, <3>4
  <2>2. CASE i = at + 1 /\ q[i] = s
    <3>1. j - 1 \in at + 1..Len(p) /\ q[j] = p[j - 1]
      BY <1>5, <1>7, <2>2
    <3> QED BY <1>6, <2>2, <3>1
  <2>3. CASE i - 1 \in at + 1..Len(p) /\ q[i] = p[i - 1]
    <3>1. j - 1 \in at + 1..Len(p) /\ q[j] = p[j - 1]
      BY <1>3, <1>5, <1>7, <2>3
    <3>2. i - 1 \in 1..Len(p) /\ j - 1 \in 1..Len(p) /\ i - 1 < j - 1
      BY <1>3, <1>7, <2>3, <3>1
    <3> QED BY <2>0, <2>3, <3>1, <3>2
  <2> QED BY <1>5, <2>1, <2>2, <2>3
<1>8. Range(q) = Range(p) \cup {s}
  <2>1. DOMAIN q = 1..Len(q) /\ DOMAIN p = 1..Len(p)
    BY <1>4
  <2>2. ASSUME NEW x \in Range(q) PROVE x \in Range(p) \cup {s}
    <3>1. PICK i \in 1..Len(q) : x = q[i]
      BY <2>1, <2>2 DEF Range
    <3>2. CASE i \in 1..at /\ q[i] = p[i]
      BY <1>3, <2>1, <3>1, <3>2 DEF Range
    <3>3. CASE i - 1 \in at + 1..Len(p) /\ q[i] = p[i - 1]
      <4>1. i - 1 \in 1..Len(p)
        BY <1>3, <3>3
      <4> QED BY <2>1, <3>1, <3>3, <4>1 DEF Range
    <3> QED BY <1>5, <3>1, <3>2, <3>3
  <2>3. at + 1 \in 1..Len(q)
    BY <1>3, <1>4
  <2>4. ASSUME NEW x \in Range(p) PROVE x \in Range(q)
    <3>1. PICK i \in 1..Len(p) : x = p[i]
      BY <2>1, <2>4 DEF Range
    <3>2. CASE i \in 1..at
      <4>1. i \in 1..Len(q)
        BY <1>3, <1>4
      <4> QED BY <1>4, <2>1, <3>1, <3>2, <4>1 DEF Range
    <3>3. CASE i \in at + 1..Len(p)
      <4>1. i + 1 \in 1..Len(q)
        BY <1>3, <1>4
      <4> QED BY <1>4, <2>1, <3>1, <3>3, <4>1 DEF Range
    <3> QED BY <1>3, <3>1, <3>2, <3>3
  <2> QED BY <1>4, <2>1, <2>2, <2>3, <2>4 DEF Range
<1> QED BY <1>2, <1>7, <1>8 DEF Sorted

(* ... and the gap closed behind one that goes.                             *)
LEMMA RemoveSorted ==
  ASSUME NEW p \in Seq(Sym), NEW s \in Range(p), Sorted(p)
  PROVE  Sorted(RemoveSym(p, s)) /\ Range(RemoveSym(p, s)) = Range(p) \ {s}
<1>1. PICK at : at = CHOOSE i \in 1..Len(p) : p[i] = s
  OBVIOUS
<1>2. at \in 1..Len(p) /\ p[at] = s /\ Len(p) \in Nat
  BY <1>1 DEF Range
<1>3. PICK q : q = SubSeq(p, 1, at - 1) \o SubSeq(p, at + 1, Len(p))
  OBVIOUS
<1>4. q = RemoveSym(p, s)
  BY <1>1, <1>3 DEF RemoveSym
<1>5. \A i \in 1..Len(p) : p[i] \in Sym
  OBVIOUS
<1>6. /\ q \in Seq(Sym) /\ Len(q) = Len(p) - 1
      /\ \A i \in 1..Len(q) : q[i] = IF i < at THEN p[i] ELSE p[i + 1]
  <2>0. SubSeq(p, 1, at - 1) \in Seq(Sym) /\ SubSeq(p, at + 1, Len(p)) \in Seq(Sym)
    BY <1>2
  <2>1. PICK a, b : a = SubSeq(p, 1, at - 1) /\ b = SubSeq(p, at + 1, Len(p)) /\ a \in Seq(Sym) /\ b \in Seq(Sym)
    BY <2>0
  <2>2. Len(a) = at - 1 /\ \A i \in 1..at - 1 : a[i] = p[i]
    BY <1>2, <2>1
  <2>3. Len(b) = Len(p) - at /\ \A i \in 1..Len(p) - at : b[i] = p[at + i]
    BY <1>2, <2>1
  <2>4. q = a \o b /\ q \in Seq(Sym) /\ Len(q) = Len(p) - 1
    <3>1. q = a \o b
      BY <1>3, <2>1
    <3>2. q \in Seq(Sym) /\ Len(q) = Len(a) + Len(b)
      BY <2>1, <3>1, CatIs
    <3> QED BY <1>2, <2>2, <2>3, <3>1, <3>2
  <2>5. ASSUME NEW i \in 1..Len(q) PROVE q[i] = IF i < at THEN p[i] ELSE p[i + 1]
    <3>1. CASE i < at
      BY <1>2, <2>2, <2>4, <3>1
    <3>2. CASE i >= at
      <4>1. i - (at - 1) \in 1..Len(b) /\ Len(a) + (i - (at - 1)) = i /\ at + (i - (at - 1)) = i + 1
        BY <1>2, <2>2, <2>3, <2>4, <3>2
      <4>2. q[Len(a) + (i - (at - 1))] = b[i - (at - 1)]
        BY <2>4, <4>1
      <4> QED BY <1>2, <2>3, <3>2, <4>1, <4>2
    <3> QED BY <1>2, <3>1, <3>2
  <2> QED BY <2>4, <2>5
<1>7. \A i, j \in 1..Len(p) : i < j => p[i] \in Stronger[p[j]]
  BY DEF Sorted
<1>8. \A i \in 1..Len(p) : i # at => p[i] # s
  <2>1. ASSUME NEW i \in 1..Len(p), i # at, p[i] = s PROVE FALSE
    <3>1. i < at \/ at < i
      BY <1>2, <2>1
    <3>2. s \in Stronger[s] /\ s \in Sym
      BY <1>2, <1>5, <1>7, <2>1, <3>1
    <3> QED BY <3>2, SymOrder
  <2> QED BY <2>1
<1>9. Sorted(q)
  <2>1. ASSUME NEW i \in 1..Len(q), NEW j \in 1..Len(q), i < j PROVE q[i] \in Stronger[q[j]]
    <3>1. PICK x \in 1..Len(p), y \in 1..Len(p) : x < y /\ q[i] = p[x] /\ q[j] = p[y]
      <4>1. i \in 1..Len(p) /\ i + 1 \in 1..Len(p) /\ j \in 1..Len(p) /\ j + 1 \in 1..Len(p)
        BY <1>2, <1>6
      <4>2. i < j + 1 /\ i + 1 < j + 1 /\ (j < at => i < at)
        BY <1>2, <2>1
      <4> QED BY <1>6, <2>1, <4>1, <4>2
    <3> QED BY <1>7, <3>1
  <2> QED BY <2>1 DEF Sorted
<1>10. Range(q) = Range(p) \ {s}
  <2>1. DOMAIN q = 1..Len(q) /\ DOMAIN p = 1..Len(p)
    BY <1>6
  <2>2. ASSUME NEW x \in Range(q) PROVE x \in Range(p) \ {s}
    <3>1. PICK i \in 1..Len(q) : x = q[i]
      BY <2>1, <2>2 DEF Range
    <3>2. PICK k \in 1..Len(p) : x = p[k] /\ k # at
      BY <1>2, <1>6, <3>1
    <3> QED BY <1>8, <2>1, <3>2 DEF Range
  <2>3. ASSUME NEW x \in Range(p), x # s PROVE x \in Range(q)
    <3>1. PICK i \in 1..Len(p) : x = p[i] /\ i # at
      BY <1>2, <2>1, <2>3 DEF Range
    <3>2. \E k \in 1..Len(q) : x = q[k]
      <4>1. CASE i < at
        BY <1>2, <1>6, <3>1, <4>1
      <4>2. CASE i > at
        <5>1. i - 1 \in 1..Len(q) /\ ~(i - 1 < at) /\ (i - 1) + 1 = i
          BY <1>2, <1>6, <4>2
        <5> QED BY <1>6, <3>1, <5>1
      <4> QED BY <1>2, <3>1, <4>1, <4>2
    <3> QED BY <2>1, <3>2 DEF Range
  <2> QED BY <2>2, <2>3
<1> QED BY <1>4, <1>9, <1>10

(* The symbols of the member under key k of channel c.                      *)
Pfx(c, k) == chans[c].memb[k].pfx

(* The member under key k of channel c was there, with the symbols it has.  *)
Stays(c, k) == c \in DOMAIN chans /\ k \in KeysIn(c) /\ Pfx(c, k)' = Pfx(c, k)

LEMMA StaysSame ==
  ASSUME UNCHANGED chans, NEW d \in DOMAIN chans', NEW j \in KeysIn(d)'
  PROVE  Stays(d, j)
  BY DEF Stays, KeysIn, Pfx

(* A channel that is gone, or has no members any more.                      *)
LEMMA StaysWithout ==
  ASSUME UcTypeOK, NEW c, ClearMemb(c) \/ DropChan(c) \/ ClearChan(c),
         NEW d \in DOMAIN chans', NEW j \in KeysIn(d)'
  PROVE  Stays(d, j) /\ d # c
<1>1. CASE ClearMemb(c)
  <2>1. chans' = [chans EXCEPT ![c].memb = EmptyMap]
    BY <1>1 DEF ClearMemb
  <2>2. d \in DOMAIN chans /\ chans[d] \in ChanRec(chans[d].memb)
    BY <2>1 DEF UcTypeOK
  <2>3. CASE d = c
    <3>1. chans'[d].memb = EmptyMap
      BY <2>1, <2>2, <2>3 DEF ChanRec
    <3> QED BY <3>1 DEF KeysIn, EmptyMap
  <2>4. CASE d # c
    BY <2>1, <2>2, <2>4 DEF Stays, KeysIn, Pfx
  <2> QED BY <2>3, <2>4
<1>2. CASE DropChan(c) \/ ClearChan(c)
  BY <1>2 DEF DropChan, ClearChan, Del, Restrict, Stays, KeysIn, Pfx
<1> QED BY <1>1, <1>2

LEMMA StaysDropMemb ==
  ASSUME UcTypeOK, NEW c \in DOMAIN chans, NEW u, DropMemb(c, u), NEW d \in DOMAIN chans',
         NEW j \in KeysIn(d)'
  PROVE  Stays(d, j) /\ (d = c => j # NickKey[uobj[u].nick])
<1> DEFINE k == NickKey[uobj[u].nick]
<1>1. CASE k \in DOMAIN chans[c].memb
  <2>1. chans' = [chans EXCEPT ![c].memb = Del(@, k)]
    BY <1>1 DEF DropMemb
  <2> HIDE DEF k
  <2>2. d \in DOMAIN chans /\ chans[c] \in ChanRec(chans[c].memb)
    BY <2>1 DEF UcTypeOK
  <2>3. chans'[c].memb = Del(chans[c].memb, k) /\ (d # c => chans'[d] = chans[d])
    BY <2>1, <2>2 DEF ChanRec
  <2> QED BY <2>2, <2>3 DEF Stays, KeysIn, Pfx, Del, Restrict, k
<1>2. CASE k \notin DOMAIN chans[c].memb
  <2>1. chans' = chans
    BY <1>2 DEF DropMemb, ucvars
  <2> QED BY <1>2, <2>1, StaysSame DEF KeysIn
<1> QED BY <1>1, <1>2

LEMMA StaysUnlink ==
  ASSUME UcTypeOK, NEW k, NEW X, UnlinkKey(k, X), NEW d \in DOMAIN chans', NEW j \in KeysIn(d)'
  PROVE  Stays(d, j) /\ j # k
<1>1. d \in DOMAIN chans /\ chans[d] \in ChanRec(chans[d].memb)
  BY DEF UnlinkKey, UcTypeOK
<1>2. chans'[d] = [chans[d] EXCEPT !.memb = Del(@, k)]
  BY <1>1 DEF UnlinkKey
<1>3. chans'[d].memb = Del(chans[d].memb, k)
  BY <1>1, <1>2 DEF ChanRec
<1> QED BY <1>1, <1>3 DEF Stays, KeysIn, Pfx, Del, Restrict

LEMMA StaysAddChan ==
  ASSUME NEW c, AddChan(c), NEW d \in DOMAIN chans', NEW j \in KeysIn(d)'
  PROVE  Stays(d, j) /\ d # c
<1>1. chans' = Put(chans, c, [memb |-> EmptyMap, tag |-> "none"])
  BY DEF AddChan
<1>2. CASE d = c
  BY <1>1, <1>2 DEF Put, KeysIn, EmptyMap
<1>3. CASE d # c
  BY <1>1, <1>3 DEF Put, Stays, KeysIn, Pfx
<1> QED BY <1>2, <1>3

(* A member is added, or replaced.                                          *)
LEMMA StaysLink ==
  ASSUME UcTypeOK, NEW c, NEW k, NEW u, NEW p, LinkMemb(c, k, u, p),
         NEW d \in DOMAIN chans', NEW j \in KeysIn(d)'
  PROVE  IF d = c /\ j = k THEN Pfx(d, j)' = p ELSE Stays(d, j)
<1> DEFINE f == Put(chans[c].memb, k, [u |-> u, pfx |-> p])
<1>1. chans' = [chans EXCEPT ![c].memb = f]
  BY DEF LinkMemb
<1>2. d \in DOMAIN chans /\ chans[d] \in ChanRec(chans[d].memb)
  BY <1>1 DEF UcTypeOK
<1>3. CASE d = c
  <2>1. chans'[c].memb = f
    BY <1>1, <1>2, <1>3 DEF ChanRec
  <2> QED BY <1>2, <1>3, <2>1 DEF Put, Stays, KeysIn, Pfx
<1>4. CASE d # c
  BY <1>1, <1>2, <1>4 DEF Stays, KeysIn, Pfx
<1> QED BY <1>3, <1>4

LEMMA StaysAdd ==
  ASSUME UcTypeOK, NEW c, NEW n, NEW p, AddMember(c, n, p),
         NEW d \in DOMAIN chans', NEW j \in KeysIn(d)'
  PROVE  IF d = c /\ j = NickKey[n] THEN Pfx(d, j)' = p ELSE Stays(d, j)
<1>1. PICK u : LinkMemb(c, NickKey[n], u, p)
  BY DEF AddMember
<1> QED BY <1>1, StaysLink

LEMMA StaysAddFails ==
  ASSUME UcTypeOK, NEW c, NEW n, AddMemberFails(c, n), NEW d \in DOMAIN chans',
         NEW j \in KeysIn(d)'
  PROVE  Stays(d, j)
<1>1. CASE UNCHANGED ucvars
  BY <1>1, StaysSame DEF ucvars
<1>2. CASE UnlinkKey(NickKey[n], {})
  BY <1>2, StaysUnlink
<1> QED BY <1>1, <1>2 DEF AddMemberFails

(* A user gets another nickname.                                            *)
LEMMA StaysRename ==
  ASSUME UcTypeOK, Mapped, NEW n \in Nick, NEW m \in Nick, RenameUser(n, m),
         NEW d \in DOMAIN chans', NEW j \in KeysIn(d)'
  PROVE  IF j = NickKey[m] /\ d \in DOMAIN chans /\ NickKey[n] \in KeysIn(d)
         THEN Pfx(d, j)' = Pfx(d, NickKey[n])
         ELSE Stays(d, j) /\ j # NickKey[n]
<1> DEFINE k == NickKey[n]
           l == NickKey[m]
<1>1. \A c \in DOMAIN chans : k \in KeysIn(c) => KnownUser(n)
  BY DEF Mapped, KnownUser
<1>2. CASE chans' = chans /\ (KnownUser(n) => k = l)
  BY <1>1, <1>2, StaysSame DEF Stays, KeysIn
<1>3. CASE k # l /\ Rekey(k, l, ChansWith(k))
  <2>1. d \in DOMAIN chans
    BY <1>3 DEF Rekey
  <2>2. CASE k \in KeysIn(d)
    <3>1. /\ chans'[d] = [chans[d] EXCEPT !.memb = Del(Put(@, l, @[k]), k)]
          /\ chans[d] \in ChanRec(chans[d].memb)
      BY <1>3, <2>1, <2>2 DEF Rekey, ChansWith, KeysIn, UcTypeOK
    <3>2. chans'[d].memb = Del(Put(chans[d].memb, l, chans[d].memb[k]), k)
      BY <3>1 DEF ChanRec
    <3> QED BY <1>3, <2>1, <2>2, <3>2 DEF Del, Restrict, Put, Stays, KeysIn, Pfx
  <2>3. CASE k \notin KeysIn(d)
    <3>1. chans'[d] = chans[d]
      BY <1>3, <2>1, <2>3 DEF Rekey, ChansWith, KeysIn
    <3> QED BY <2>1, <2>3, <3>1 DEF Stays, KeysIn, Pfx
  <2> QED BY <2>2, <2>3
<1>4. \/ chans' = chans /\ (KnownUser(n) => k = l)
      \/ k # l /\ Rekey(k, l, ChansWith(k))
  BY DEF RenameUser, ucvars
<1> QED BY <1>2, <1>3, <1>4

(* The symbols of a member change.                                          *)
LEMMA StaysMode ==
  ASSUME UcTypeOK, NEW c \in DOMAIN chans, NEW n, NEW s, NEW enab \in BOOLEAN,
         UpdateModePfx(c, n, s, enab), NEW d \in DOMAIN chans', NEW j \in KeysIn(d)'
  PROVE  \/ ~(d = c /\ j = NickKey[n]) /\ Stays(d, j)
         \/ d = c /\ j = NickKey[n] /\ Stays(d, j) /\ (~enab => s \notin Range(Pfx(d, j)))
         \/ /\ d = c /\ j = NickKey[n] /\ d \in DOMAIN chans /\ j \in KeysIn(d)
            /\ IF enab THEN s \notin Range(Pfx(d, j)) /\ Pfx(d, j)' = InsertSym(Pfx(d, j), s)
                       ELSE s \in Range(Pfx(d, j)) /\ Pfx(d, j)' = RemoveSym(Pfx(d, j), s)
<1> DEFINE k == NickKey[n]
           p == chans[c].memb[k].pfx
<1>1. CASE UNCHANGED ucvars /\ ~(k \in DOMAIN chans[c].memb /\ ~enab /\ s \in Range(p))
  <2>1. chans' = chans
    BY <1>1 DEF ucvars
  <2>2. Stays(d, j)
    BY <2>1, StaysSame
  <2>3. CASE d = c /\ j = k
    <3>1. j \in DOMAIN chans[c].memb
      BY <2>2, <2>3 DEF Stays, KeysIn
    <3> QED BY <1>1, <2>2, <2>3, <3>1 DEF Pfx
  <2> QED BY <2>2, <2>3
<1>2. CASE /\ k \in DOMAIN chans[c].memb
           /\ enab => s \notin Range(p)
           /\ ~enab => s \in Range(p)
           /\ chans' = [chans EXCEPT ![c].memb[k].pfx = IF enab THEN InsertSym(p, s) ELSE RemoveSym(p, s)]
  <2>1. PICK q : q = IF enab THEN InsertSym(p, s) ELSE RemoveSym(p, s)
    OBVIOUS
  <2>2. /\ chans' = [chans EXCEPT ![c].memb[k].pfx = q]
        /\ chans[c] \in ChanRec(chans[c].memb) /\ IsMap(chans[c].memb, Nick, Memb)
    BY <1>2, <2>1 DEF UcTypeOK
  <2>3. d \in DOMAIN chans /\ chans[c].memb[k] \in Memb
    BY <1>2, <2>2 DEF IsMap
  <2>4. chans'[c].memb = [chans[c].memb EXCEPT ![k].pfx = q]
    BY <2>2 DEF ChanRec
  <2>5. CASE d # c
    BY <2>2, <2>3, <2>5 DEF Stays, KeysIn, Pfx
  <2>6. CASE d = c /\ j # k
    BY <2>3, <2>4, <2>6 DEF Stays, KeysIn, Pfx
  <2>7. CASE d = c /\ j = k
    <3>1. chans'[c].memb[k].pfx = q
      <4>1. PICK f : f = chans[c].memb
        OBVIOUS
      <4>2. k \in DOMAIN f /\ f[k] \in Memb /\ chans'[c].memb = [f EXCEPT ![k].pfx = q]
        BY <1>2, <2>3, <2>4, <4>1
      <4>3. chans'[c].memb[k] = [f[k] EXCEPT !.pfx = q]
        BY <4>2
      <4> QED BY <4>2, <4>3 DEF Memb
    <3>2. Pfx(d, j)' = q /\ Pfx(d, j) = p
      BY <2>7, <3>1 DEF Pfx
    <3>3. j \in KeysIn(d)
      BY <1>2, <2>7 DEF KeysIn
    <3>4. CASE enab
      BY <1>2, <2>1, <2>3, <3>2, <3>3, <2>7, <3>4
    <3>5. CASE ~enab
      BY <1>2, <2>1, <2>3, <3>2, <3>3, <2>7, <3>5
    <3> QED BY <3>4, <3>5
  <2> QED BY <2>5, <2>6, <2>7
<1>3. \/ UNCHANGED ucvars /\ ~(k \in DOMAIN chans[c].memb /\ ~enab /\ s \in Range(p))
      \/ /\ k \in DOMAIN chans[c].memb
         /\ enab => s \notin Range(p)
         /\ ~enab => s \in Range(p)
         /\ chans' = [chans EXCEPT ![c].memb[k].pfx = IF enab THEN InsertSym(p, s) ELSE RemoveSym(p, s)]
  <2>1. CASE enab
    <3>1. enab = TRUE
      BY <2>1
    <3> QED BY <3>1 DEF UpdateModePfx
  <2>2. CASE ~enab
    <3>1. enab = FALSE
      BY <2>2
    <3> QED BY <3>1 DEF UpdateModePfx
  <2> QED BY <2>1, <2>2
<1> QED BY <1>1, <1>2, <1>3

-----------------------------------------------------------------------------
(* The symbols of all the members are sorted *)

(* Strongest first, and each once.                                          *)
AllSorted == \A c \in DOMAIN chans : \A k \in KeysIn(c) : Sorted(Pfx(c, k))

LEMMA ShortSorted == ASSUME NEW p \in Pfx1 PROVE Sorted(p)
<1>1. p = <<>> \/ \E s \in Sym : p = <<s>>
  BY DEF Pfx1
<1>2. Len(p) \in {0, 1}
  BY <1>1
<1> QED BY <1>2 DEF Sorted

LEMMA PfxType ==
  ASSUME UcTypeOK, NEW c \in DOMAIN chans, NEW k \in KeysIn(c)
  PROVE  Pfx(c, k) \in Seq(Sym)
  BY DEF UcTypeOK, IsMap, Memb, KeysIn, Pfx

(* The tracker keeps them so, whatever it is told.                          *)
LEMMA SortedStep ==
  ASSUME "rename" \notin FailSites, Inv, Mapped, AllSorted, AnyStep
  PROVE  AllSorted'
<1> SUFFICES ASSUME NEW d \in DOMAIN chans', NEW j \in KeysIn(d)'
             PROVE  Sorted(Pfx(d, j)')
  BY DEF AllSorted
<1>1. /\ UcTypeOK /\ CtlOK /\ \A c \in Chan : ChanKey[c] \in Chan
  BY KeyAssumption DEF Inv
<1>2. ASSUME Stays(d, j) PROVE Sorted(Pfx(d, j)')
  BY <1>2 DEF Stays, AllSorted
<1>3. CASE UNCHANGED chans
  BY <1>2, <1>3, StaysSame
<1>4. CASE UNCHANGED ucvars
  BY <1>3, <1>4 DEF ucvars
<1>5. ASSUME NEW c, NEW n, NEW p \in Pfx1, AddMember(c, n, p) PROVE Sorted(Pfx(d, j)')
  BY <1>1, <1>2, <1>5, StaysAdd, ShortSorted
<1>6. ASSUME NEW c, NEW n, AddMemberFails(c, n) PROVE Sorted(Pfx(d, j)')
  BY <1>1, <1>2, <1>6, StaysAddFails
<1>7. ASSUME NEW c, ClearMemb(c) \/ DropChan(c) \/ ClearChan(c) PROVE Sorted(Pfx(d, j)')
  BY <1>1, <1>2, <1>7, StaysWithout
<1>8. ASSUME NEW n \in Nick, NEW c \in Chan, h_JOIN(n, c) PROVE Sorted(Pfx(d, j)')
  <2>1. <<>> \in Pfx1
    BY DEF Pfx1
  <2>2. ASSUME NEW x, AddChan(x) PROVE Sorted(Pfx(d, j)')
    BY <1>2, <2>2, StaysAddChan
  <2> QED BY <1>4, <1>5, <1>6, <1>8, <2>1, <2>2 DEF h_JOIN
<1>9. ASSUME NEW n \in Nick, NEW c \in Chan, h_PART(n, c) PROVE Sorted(Pfx(d, j)')
  <2>1. ASSUME NEW x \in DOMAIN chans, NEW u, DropMemb(x, u) PROVE Sorted(Pfx(d, j)')
    BY <1>1, <1>2, <2>1, StaysDropMemb
  <2> QED BY <1>4, <1>7, <1>9, <2>1 DEF h_PART, KnownChan
<1>10. ASSUME NEW c \in Chan, NEW list, h_353(c, list) PROVE Sorted(Pfx(d, j)')
  BY <1>4, <1>7, <1>10 DEF h_353
<1>11. CASE h_366
  BY <1>4, <1>11 DEF h_366
<1>12. ASSUME NEW n \in Nick, h_QUIT(n) PROVE Sorted(Pfx(d, j)')
  <2>1. ASSUME NEW u, DropUser(u) PROVE Sorted(Pfx(d, j)')
    <3>1. UnlinkKey(NickKey[uobj[u].nick], {u})
      BY <2>1 DEF DropUser
    <3> QED BY <1>1, <1>2, <3>1, StaysUnlink
  <2> QED BY <1>4, <1>12, <2>1 DEF h_QUIT
<1>13. ASSUME NEW n \in Nick, NEW m \in Nick, h_NICK(n, m) PROVE Sorted(Pfx(d, j)')
  <2>1. CASE RenameUser(n, m)
    <3>1. CASE j = NickKey[m] /\ d \in DOMAIN chans /\ NickKey[n] \in KeysIn(d)
      BY <1>1, <2>1, <3>1, StaysRename DEF AllSorted
    <3>2. CASE ~(j = NickKey[m] /\ d \in DOMAIN chans /\ NickKey[n] \in KeysIn(d))
      BY <1>1, <1>2, <2>1, <3>2, StaysRename
    <3> QED BY <3>1, <3>2
  <2> QED BY <1>4, <1>13, <2>1 DEF h_NICK, RenameUserGivesUp, RenameUserFails
<1>14. ASSUME NEW c \in Chan, NEW n \in Nick, NEW s \in Sym, NEW enab \in BOOLEAN,
             h_MODE(c, n, s, enab)
      PROVE  Sorted(Pfx(d, j)')
  <2>1. CASE ChanKey[c] \in DOMAIN chans /\ UpdateModePfx(ChanKey[c], n, s, enab)
    <3>1. \/ Stays(d, j)
          \/ /\ d \in DOMAIN chans /\ j \in KeysIn(d)
             /\ \/ s \notin Range(Pfx(d, j)) /\ Pfx(d, j)' = InsertSym(Pfx(d, j), s)
                \/ s \in Range(Pfx(d, j)) /\ Pfx(d, j)' = RemoveSym(Pfx(d, j), s)
      <4>1. PICK x \in DOMAIN chans : UpdateModePfx(x, n, s, enab)
        BY <2>1
      <4>2. \/ ~(d = x /\ j = NickKey[n]) /\ Stays(d, j)
            \/ d = x /\ j = NickKey[n] /\ Stays(d, j) /\ (~enab => s \notin Range(Pfx(d, j)))
            \/ /\ d = x /\ j = NickKey[n] /\ d \in DOMAIN chans /\ j \in KeysIn(d)
               /\ IF enab THEN s \notin Range(Pfx(d, j)) /\ Pfx(d, j)' = InsertSym(Pfx(d, j), s)
                          ELSE s \in Range(Pfx(d, j)) /\ Pfx(d, j)' = RemoveSym(Pfx(d, j), s)
        BY <1>1, <4>1, StaysMode
      <4> QED BY <4>2, Zenon
    <3>2. CASE d \in DOMAIN chans /\ j \in KeysIn(d)
      <4>1. Pfx(d, j) \in Seq(Sym) /\ Sorted(Pfx(d, j))
        BY <1>1, <3>2, PfxType DEF AllSorted
      <4> QED BY <1>2, <3>1, <4>1, InsertSorted, RemoveSorted
    <3> QED BY <1>2, <3>1, <3>2
  <2> QED BY <1>4, <1>14, <2>1 DEF h_MODE, KnownChan
<1>15. ASSUME chans' = EmptyMap PROVE FALSE
  BY <1>15 DEF EmptyMap
<1>16. CASE handle_005
  BY <1>3, <1>15, <1>16 DEF handle_005, handle_005_Fails, vars, ucvars
<1>17. CASE NextName
  <2>1. CASE names # <<>> /\ AddMember(Head(names).chan, Head(names).nick, Head(names).pfx)
    <3>1. names \in Seq(NameIn) /\ names # <<>>
      BY <1>1, <2>1 DEF CtlOK
    <3>2. Head(names) \in NameIn
      BY <3>1
    <3>3. Head(names).pfx \in Pfx1
      BY <3>2 DEF NameIn
    <3> QED BY <1>5, <2>1, <3>3
  <2> QED BY <1>6, <1>17, <2>1 DEF NextName
<1>18. ASSUME NEW n \in Nick, NEW t \in TagKinds, irc_tag_user(n, t) PROVE Sorted(Pfx(d, j)')
  BY <1>3, <1>18 DEF irc_tag_user, TagUser
<1>19. ASSUME NEW c \in Chan, NEW t \in TagKinds, irc_tag_chan(c, t) PROVE Sorted(Pfx(d, j)')
  <2>1. chans' = [chans EXCEPT ![ChanKey[c]].tag = t]
    BY <1>19 DEF irc_tag_chan, TagChan
  <2>2. d \in DOMAIN chans /\ chans[d] \in ChanRec(chans[d].memb)
    BY <1>1, <2>1 DEF UcTypeOK
  <2>3. chans'[d].memb = chans[d].memb
    BY <2>1, <2>2 DEF ChanRec
  <2> QED BY <1>2, <2>2, <2>3 DEF Stays, KeysIn, Pfx
<1>20. ASSUME NEW p, lsi_trk_deinit(p) PROVE Sorted(Pfx(d, j)')
  BY <1>3, <1>20 DEF lsi_trk_deinit
<1>21. CASE ClearNext
  BY <1>7, <1>21 DEF ClearNext
<1>22. CASE Cleared
  BY <1>3, <1>22 DEF Cleared, ClearUsers
<1>23. CASE irc_connect \/ irc_dispose
  BY <1>22, <1>23 DEF irc_connect, irc_dispose
<1>24. CASE Lost \/ UseFreed \/ UNCHANGED vars
  BY <1>4, <1>24 DEF Lost, UseFreed, vars
<1> QED BY <1>8, <1>9, <1>10, <1>11, <1>12, <1>13, <1>14, <1>16, <1>17, <1>18, <1>19, <1>20, <1>21,
           <1>23, <1>24 DEF AnyStep, Next, Message, Application, h_KICK

LEMMA SortedInit == Init => AllSorted
  BY DEF Init, AllSorted, EmptyMap

-----------------------------------------------------------------------------
(* What one is told of the symbols *)

(* What the symbols may be: u[c][k] are those that the member under key k   *)
(* of channel c may have, as far as one has been told.                      *)
More(u, y, c, k) == u[c][k] \subseteq y[c][k]

Given(l, c, y) == \A i \in 1..Len(l) : Range(l[i].pfx) \subseteq y[c][NickKey[l[i].nick]]

(* Being told m, one whose nickname is me, and whose members may have u,     *)
(* knows that they may have y.                                              *)
Allows(me, u, m, y) ==
  \/ /\ m.cmd = "JOIN"
     /\ \A d \in Chan, k \in Nick :
          (d = m.chan /\ (m.nick = me \/ k = NickKey[m.nick])) \/ More(u, y, d, k)
  \/ /\ m.cmd \in {"PART", "KICK"}
     /\ \A d \in Chan, k \in Nick : (d = m.chan /\ k = NickKey[m.nick]) \/ More(u, y, d, k)
  \/ /\ m.cmd = "QUIT"
     /\ \A d \in Chan, k \in Nick : k = NickKey[m.nick] \/ More(u, y, d, k)
  \/ /\ m.cmd = "NICK"
     /\ \A d \in Chan, k \in Nick \ {NickKey[m.nick], NickKey[m.new]} : More(u, y, d, k)
     /\ \A d \in Chan : u[d][NickKey[m.nick]] \subseteq y[d][NickKey[m.new]]
  \/ /\ m.cmd = "MODE"
     /\ \A d \in Chan, k \in Nick : (d = m.chan /\ k = NickKey[m.nick]) \/ More(u, y, d, k)
     /\ (IF m.enab THEN u[m.chan][NickKey[m.nick]] \cup {m.sym}
                   ELSE u[m.chan][NickKey[m.nick]] \ {m.sym})
          \subseteq y[m.chan][NickKey[m.nick]]
  \/ m.cmd = "353" /\ Given(m.list, m.chan, y) /\ \A d \in Chan, k \in Nick : More(u, y, d, k)
  \/ m.cmd \in {"366", "005"} /\ \A d \in Chan, k \in Nick : More(u, y, d, k)

(* The members have no other symbols, nor will those have whom h_353 has    *)
(* yet to add.                                                              *)
Bounded(u) ==
  /\ \A c \in DOMAIN chans : \A k \in KeysIn(c) : Range(Pfx(c, k)) \subseteq u[c][k]
  /\ \A i \in 1..Len(names) : Range(names[i].pfx) \subseteq u[names[i].chan][NickKey[names[i].nick]]

LEMMA BoundedIf ==
  ASSUME NEW y, names' = <<>>,
         \A d \in DOMAIN chans' : \A j \in KeysIn(d)' : Range(Pfx(d, j)') \subseteq y[d][j]
  PROVE  Bounded(y)'
<1>1. Len(names') = 0
  OBVIOUS
<1> QED BY <1>1 DEF Bounded

LEMMA StaysBounded ==
  ASSUME NEW u, NEW y, Bounded(u), NEW d, NEW j, Stays(d, j), More(u, y, d, j)
  PROVE  Range(Pfx(d, j)') \subseteq y[d][j]
  BY DEF Stays, More, Bounded

(* Members are in a channel, and have a key.                                *)
LEMMA MembersAre ==
  ASSUME UcTypeOK
  PROVE  /\ DOMAIN chans \subseteq Chan
         /\ \A c \in DOMAIN chans : KeysIn(c) \subseteq Nick
  BY DEF UcTypeOK, IsMap, KeysIn

LEMMA BoundedJoin ==
  ASSUME NEW z, Ready(z), NEW n \in Nick, NEW c \in Chan, Joins(TrView, n, c, z), h_JOIN(n, c),
         UcTypeOK', NEW u, NEW y, Bounded(u), online',
         \A d \in Chan, k \in Nick : (d = c /\ (n = mynick \/ k = NickKey[n])) \/ More(u, y, d, k)
  PROVE  Bounded(y)'
<1>1. PICK v : v = TrView
  OBVIOUS
<1>2. Good(z) /\ Good(v) /\ Tidy /\ names = <<>> /\ ChanKey[c] = c /\ UcTypeOK
  BY <1>1, ServerAssumption DEF Ready, Inv
<1>3. /\ mynick \in Nick /\ v.me = mynick /\ DOMAIN v.ros = DOMAIN chans
  BY <1>1, <1>2, ByKey
<1>4. KnownChan(c) <=> c \in DOMAIN chans
  BY <1>2 DEF KnownChan
<1>5. ~GiveUp
  BY DEF GiveUp
<1>6. CarryOn /\ names' = <<>>
  BY <1>2, <1>5 DEF h_JOIN, CarryOn
<1> SUFFICES ASSUME NEW d \in DOMAIN chans', NEW j \in KeysIn(d)'
             PROVE  Range(Pfx(d, j)') \subseteq y[d][j]
  BY <1>6, BoundedIf
<1>7. ASSUME Stays(d, j), ~(d = c /\ (n = mynick \/ j = NickKey[n]))
      PROVE  Range(Pfx(d, j)') \subseteq y[d][j]
  <2>1. d \in Chan /\ j \in Nick
    BY <1>2, <1>7, MembersAre DEF Stays
  <2> QED BY <1>7, <2>1, StaysBounded
<1>8. CASE n = v.me
  <2>1. c \notin DOMAIN chans
    BY <1>1, <1>3, <1>8 DEF Joins
  <2>2. Stays(d, j) /\ d # c
    <3>1. CASE AddChan(c)
      BY <3>1, StaysAddChan
    <3>2. CASE UNCHANGED ucvars
      BY <2>1, <3>2, StaysSame DEF ucvars, Stays
    <3> QED BY <1>2, <1>4, <2>1, <3>1, <3>2 DEF h_JOIN
  <2> QED BY <1>7, <2>2
<1>9. CASE n # v.me
  <2>1. c \in DOMAIN chans /\ z = View(v.me, [v.ros EXCEPT ![c] = @ \cup {n}], v.eon)
    BY <1>1, <1>3, <1>9 DEF Joins
  <2>2. n \in NamesOf(z) /\ v.me \in NamesOf(z)
    BY <1>3, <2>1 DEF NamesOf, View
  <2>3. ~Me(n)
    BY <1>2, <1>3, <1>9, <2>2 DEF Good, KeyInj, Me
  <2>4. AddMember(c, n, <<>>)
    BY <1>2, <1>4, <1>5, <2>1, <2>3 DEF h_JOIN
  <2>5. IF d = c /\ j = NickKey[n] THEN Pfx(d, j)' = <<>> ELSE Stays(d, j)
    BY <1>2, <2>4, StaysAdd
  <2>6. Range(<<>>) = {}
    BY DEF Range
  <2> QED BY <1>3, <1>7, <1>9, <2>5, <2>6
<1> QED BY <1>8, <1>9

LEMMA BoundedPart ==
  ASSUME NEW z, Ready(z), NEW n \in Nick, NEW c \in Chan, Parts(TrView, n, c, z), h_PART(n, c),
         NEW u, NEW y, Bounded(u),
         \A d \in Chan, k \in Nick : (d = c /\ k = NickKey[n]) \/ More(u, y, d, k)
  PROVE  Bounded(y)'
<1>1. Good(TrView) /\ Tidy /\ names = <<>> /\ ChanKey[c] = c /\ UcTypeOK /\ UsersLive
  BY ServerAssumption DEF Ready, Inv, Tidy
<1>2. names' = <<>>
  BY <1>1 DEF h_PART, CarryOn
<1> SUFFICES ASSUME NEW d \in DOMAIN chans', NEW j \in KeysIn(d)'
             PROVE  Range(Pfx(d, j)') \subseteq y[d][j]
  BY <1>2, BoundedIf
<1>3. DOMAIN TrView.ros = DOMAIN chans /\ \A x \in DOMAIN chans : KeysIn(x) \subseteq DOMAIN users
  BY <1>1, ByKey
<1>4. c \in DOMAIN chans /\ KnownChan(c)
  BY <1>1, <1>3 DEF Parts, KnownChan
<1>5. Stays(d, j) /\ ~(d = c /\ j = NickKey[n])
  <2>1. CASE DropChan(c)
    BY <1>1, <2>1, StaysWithout
  <2>2. CASE KnownUser(n) /\ DropMemb(c, users[NickKey[n]])
    <3>1. NickKey[uobj[users[NickKey[n]]].nick] = NickKey[n]
      BY <1>1, <2>2 DEF UsersLive, KnownUser
    <3> QED BY <1>1, <1>4, <2>2, <3>1, StaysDropMemb
  <2>3. CASE ~KnownUser(n) /\ UNCHANGED ucvars
    <3>1. Stays(d, j)
      BY <2>3, StaysSame DEF ucvars
    <3> QED BY <1>3, <2>3, <3>1 DEF Stays, KnownUser
  <2> QED BY <1>1, <1>4, <2>1, <2>2, <2>3 DEF h_PART
<1>6. d \in Chan /\ j \in Nick
  BY <1>1, <1>5, MembersAre DEF Stays
<1> QED BY <1>5, <1>6, StaysBounded

LEMMA BoundedQuit ==
  ASSUME NEW z, Ready(z), NEW n \in Nick, h_QUIT(n), NEW u, NEW y, Bounded(u),
         \A d \in Chan, k \in Nick : k = NickKey[n] \/ More(u, y, d, k)
  PROVE  Bounded(y)'
<1>1. Good(TrView) /\ Tidy /\ names = <<>> /\ UcTypeOK /\ UsersLive
  BY DEF Ready, Inv, Tidy
<1>2. names' = <<>>
  BY <1>1 DEF h_QUIT, CarryOn
<1> SUFFICES ASSUME NEW d \in DOMAIN chans', NEW j \in KeysIn(d)'
             PROVE  Range(Pfx(d, j)') \subseteq y[d][j]
  BY <1>2, BoundedIf
<1>3. \A x \in DOMAIN chans : KeysIn(x) \subseteq DOMAIN users
  BY <1>1, ByKey
<1>4. Stays(d, j) /\ j # NickKey[n]
  <2>1. CASE KnownUser(n) /\ DropUser(users[NickKey[n]])
    <3>1. NickKey[uobj[users[NickKey[n]]].nick] = NickKey[n]
      BY <1>1, <2>1 DEF UsersLive, KnownUser
    <3>2. UnlinkKey(NickKey[n], {users[NickKey[n]]})
      BY <2>1, <3>1 DEF DropUser
    <3> QED BY <1>1, <3>2, StaysUnlink
  <2>2. CASE ~KnownUser(n) /\ UNCHANGED ucvars
    <3>1. Stays(d, j)
      BY <2>2, StaysSame DEF ucvars
    <3> QED BY <1>3, <2>2, <3>1 DEF Stays, KnownUser
  <2> QED BY <2>1, <2>2 DEF h_QUIT
<1>5. d \in Chan /\ j \in Nick
  BY <1>1, <1>4, MembersAre DEF Stays
<1> QED BY <1>4, <1>5, StaysBounded

LEMMA BoundedNick ==
  ASSUME NEW z, Ready(z), NEW n \in Nick, NEW m \in Nick, Renames(TrView, n, m, z), h_NICK(n, m),
         {"rename", "strdup"} \cap FailSites = {}, ~tracking => DOMAIN chans = {},
         NEW u, NEW y, Bounded(u),
         \A d \in Chan, k \in Nick \ {NickKey[n], NickKey[m]} : More(u, y, d, k),
         \A d \in Chan : u[d][NickKey[n]] \subseteq y[d][NickKey[m]]
  PROVE  Bounded(y)'
<1>1. Good(TrView) /\ Tidy /\ names = <<>> /\ UcTypeOK /\ Mapped
  BY DEF Ready, Inv, Tidy
<1>2. names' = <<>>
  BY <1>1 DEF h_NICK
<1> SUFFICES ASSUME NEW d \in DOMAIN chans', NEW j \in KeysIn(d)'
             PROVE  Range(Pfx(d, j)') \subseteq y[d][j]
  BY <1>2, BoundedIf
<1>3. tracking /\ RenameUser(n, m)
  <2>1. ASSUME ~tracking PROVE FALSE
    BY <2>1 DEF h_NICK, ucvars
  <2> QED BY <2>1 DEF h_NICK, RenameUserGivesUp, RenameUserFails
<1>4. CASE j = NickKey[m] /\ d \in DOMAIN chans /\ NickKey[n] \in KeysIn(d)
  <2>1. Pfx(d, j)' = Pfx(d, NickKey[n])
    BY <1>1, <1>3, <1>4, StaysRename
  <2>2. Range(Pfx(d, NickKey[n])) \subseteq u[d][NickKey[n]] /\ d \in Chan
    BY <1>1, <1>4, MembersAre DEF Bounded
  <2> QED BY <1>4, <2>1, <2>2
<1>5. CASE ~(j = NickKey[m] /\ d \in DOMAIN chans /\ NickKey[n] \in KeysIn(d))
  <2>1. Stays(d, j) /\ j # NickKey[n]
    BY <1>1, <1>3, <1>5, StaysRename
  <2>2. d \in DOMAIN chans /\ j \in KeysIn(d) /\ d \in Chan /\ j \in Nick
    BY <1>1, <2>1, MembersAre DEF Stays
  <2>3. Name(j) \in NamesOf(TrView) /\ NickKey[Name(j)] = j
    BY <1>1, <2>2, ByKey
  <2>4. j # NickKey[m]
    BY <2>1, <2>3 DEF Renames
  <2> QED BY <2>1, <2>2, <2>4, StaysBounded
<1> QED BY <1>4, <1>5

LEMMA BoundedMode ==
  ASSUME NEW z, Ready(z), AllSorted, NEW c \in Chan, NEW n \in Nick, NEW s \in Sym,
         NEW enab \in BOOLEAN, h_MODE(c, n, s, enab), NEW u, NEW y, Bounded(u),
         \A d \in Chan, k \in Nick : (d = c /\ k = NickKey[n]) \/ More(u, y, d, k),
         enab => u[c][NickKey[n]] \cup {s} \subseteq y[c][NickKey[n]],
         ~enab => u[c][NickKey[n]] \ {s} \subseteq y[c][NickKey[n]]
  PROVE  Bounded(y)'
<1>1. names = <<>> /\ UcTypeOK /\ ChanKey[c] = c
  BY ServerAssumption DEF Ready, Inv
<1>2. names' = <<>>
  BY <1>1 DEF h_MODE, CarryOn
<1> SUFFICES ASSUME NEW d \in DOMAIN chans', NEW j \in KeysIn(d)'
             PROVE  Range(Pfx(d, j)') \subseteq y[d][j]
  BY <1>2, BoundedIf
<1>3. PICK k \in Nick : k = NickKey[n]
  BY KeyAssumption
<1>4. \/ ~(d = c /\ j = k) /\ Stays(d, j)
      \/ d = c /\ j = k /\ Stays(d, j) /\ (~enab => s \notin Range(Pfx(d, j)))
      \/ /\ d = c /\ j = k /\ d \in DOMAIN chans /\ j \in KeysIn(d)
         /\ IF enab THEN s \notin Range(Pfx(d, j)) /\ Pfx(d, j)' = InsertSym(Pfx(d, j), s)
                    ELSE s \in Range(Pfx(d, j)) /\ Pfx(d, j)' = RemoveSym(Pfx(d, j), s)
  <2>1. CASE c \in DOMAIN chans
    <3>1. UpdateModePfx(c, n, s, enab)
      BY <1>1, <2>1 DEF h_MODE, KnownChan
    <3>2. \/ ~(d = c /\ j = NickKey[n]) /\ Stays(d, j)
          \/ d = c /\ j = NickKey[n] /\ Stays(d, j) /\ (~enab => s \notin Range(Pfx(d, j)))
          \/ /\ d = c /\ j = NickKey[n] /\ d \in DOMAIN chans /\ j \in KeysIn(d)
             /\ IF enab THEN s \notin Range(Pfx(d, j)) /\ Pfx(d, j)' = InsertSym(Pfx(d, j), s)
                        ELSE s \in Range(Pfx(d, j)) /\ Pfx(d, j)' = RemoveSym(Pfx(d, j), s)
      BY <1>1, <2>1, <3>1, StaysMode
    <3> QED BY <1>3, <3>2
  <2>2. CASE c \notin DOMAIN chans
    <3>1. chans' = chans
      BY <1>1, <2>2 DEF h_MODE, KnownChan, ucvars
    <3> QED BY <2>2, <3>1, StaysSame DEF Stays
  <2> QED BY <2>1, <2>2
<1>5. CASE ~(d = c /\ j = k) /\ Stays(d, j)
  <2>1. d \in Chan /\ j \in Nick
    BY <1>1, <1>5, MembersAre DEF Stays
  <2> QED BY <1>3, <1>5, <2>1, StaysBounded
<1>6. CASE d = c /\ j = k /\ Stays(d, j) /\ (~enab => s \notin Range(Pfx(d, j)))
  <2>1. Range(Pfx(d, j)) \subseteq u[d][j] /\ Pfx(d, j)' = Pfx(d, j)
    BY <1>6 DEF Stays, Bounded
  <2>2. CASE enab
    BY <1>3, <1>6, <2>1, <2>2
  <2>3. CASE ~enab
    BY <1>3, <1>6, <2>1, <2>3
  <2> QED BY <2>2, <2>3
<1>7. CASE /\ d = c /\ j = k /\ d \in DOMAIN chans /\ j \in KeysIn(d)
           /\ IF enab THEN s \notin Range(Pfx(d, j)) /\ Pfx(d, j)' = InsertSym(Pfx(d, j), s)
                      ELSE s \in Range(Pfx(d, j)) /\ Pfx(d, j)' = RemoveSym(Pfx(d, j), s)
  <2>1. Range(Pfx(d, j)) \subseteq u[d][j] /\ Sorted(Pfx(d, j)) /\ Pfx(d, j) \in Seq(Sym)
    BY <1>1, <1>7, PfxType DEF Bounded, AllSorted
  <2>2. CASE enab
    <3>1. Range(Pfx(d, j)') = Range(Pfx(d, j)) \cup {s}
      BY <1>7, <2>1, <2>2, InsertSorted
    <3> QED BY <1>3, <1>7, <2>1, <2>2, <3>1
  <2>3. CASE ~enab
    <3>1. Range(Pfx(d, j)') = Range(Pfx(d, j)) \ {s}
      BY <1>7, <2>1, <2>3, RemoveSorted
    <3> QED BY <1>3, <1>7, <2>1, <2>3, <3>1
  <2> QED BY <2>2, <2>3
<1> QED BY <1>4, <1>5, <1>6, <1>7

LEMMA BoundedList ==
  ASSUME NEW z, Ready(z), NEW c \in Chan, NEW l \in Seq(Entry), h_353(c, l),
         NEW u, NEW y, Bounded(u), \A d \in Chan, k \in Nick : More(u, y, d, k), Given(l, c, y)
  PROVE  Bounded(y)'
<1>1. names = <<>> /\ UcTypeOK /\ ChanKey[c] = c
  BY ServerAssumption DEF Ready, Inv
<1>2. ASSUME NEW d \in DOMAIN chans', NEW j \in KeysIn(d)'
      PROVE  Range(Pfx(d, j)') \subseteq y[d][j]
  <2>1. Stays(d, j)
    BY <1>1, <1>2, StaysWithout, StaysSame DEF h_353, ucvars
  <2>2. d \in Chan /\ j \in Nick
    BY <1>1, <2>1, MembersAre DEF Stays
  <2> QED BY <2>1, <2>2, StaysBounded
<1>3. CASE names' = <<>>
  BY <1>2, <1>3, BoundedIf
<1>4. CASE names' = [i \in 1..Len(l) |-> In(c, l[i])]
  <2>1. Len(names') = Len(l)
    BY <1>4
  <2>2. \A i \in 1..Len(names') : Range(names'[i].pfx) \subseteq y[names'[i].chan][NickKey[names'[i].nick]]
    BY <1>4, <2>1 DEF In, Given
  <2> QED BY <1>2, <2>2 DEF Bounded
<1> QED BY <1>1, <1>3, <1>4 DEF h_353, CarryOn

(* A name of a list is added.                                               *)
LEMMA BoundedName ==
  ASSUME Inv, NEW u, Bounded(u), NextName, online'
  PROVE  Bounded(u)'
<1>1. names \in Seq(NameIn) /\ names # <<>> /\ UcTypeOK
  BY DEF NextName, Inv, CtlOK
<1>2. PICK e : e = Head(names)
  OBVIOUS
<1>3. AddMember(e.chan, e.nick, e.pfx) /\ names' = Tail(names)
  BY <1>2 DEF NextName, GiveUp
<1>4. /\ Len(names) \in Nat /\ 1 \in 1..Len(names) /\ e = names[1]
      /\ \A i \in 1..Len(names') : i + 1 \in 2..Len(names) /\ names'[i] = names[i + 1]
  BY <1>1, <1>2, <1>3, TailPending
<1>5. ASSUME NEW d \in DOMAIN chans', NEW j \in KeysIn(d)'
      PROVE  Range(Pfx(d, j)') \subseteq u[d][j]
  <2>1. IF d = e.chan /\ j = NickKey[e.nick] THEN Pfx(d, j)' = e.pfx ELSE Stays(d, j)
    BY <1>1, <1>3, StaysAdd
  <2>2. Range(e.pfx) \subseteq u[e.chan][NickKey[e.nick]]
    BY <1>4 DEF Bounded
  <2>3. More(u, u, d, j)
    BY DEF More
  <2> QED BY <2>1, <2>2, <2>3, StaysBounded
<1>6. ASSUME NEW i \in 1..Len(names')
      PROVE  Range(names'[i].pfx) \subseteq u[names'[i].chan][NickKey[names'[i].nick]]
  <2>1. i + 1 \in 1..Len(names) /\ names'[i] = names[i + 1]
    BY <1>4
  <2> QED BY <2>1 DEF Bounded
<1> QED BY <1>5, <1>6 DEF Bounded

(* A handler of the tracker.                                                *)
LEMMA HandleBounded ==
  ASSUME NEW z, Ready(z), Inv', AllSorted, NEW m \in Msgs, Handle(m), Tells(TrView, m, z),
         {"rename", "strdup"} \cap FailSites = {}, ~tracking => DOMAIN chans = {},
         NEW u, NEW y, Bounded(u), Allows(TrView.me, u, m, y), online'
  PROVE  Bounded(y)'
<1>1. CASE m.cmd = "JOIN" /\ h_JOIN(m.nick, m.chan)
  BY <1>1, MsgFields, BoundedJoin, TrViewIs DEF Tells, Allows, Inv
<1>2. CASE m.cmd = "353" /\ h_353(m.chan, m.list)
  BY <1>2, MsgFields, BoundedList DEF Allows
<1>3. CASE m.cmd \in {"366", "005"} /\ (h_366 \/ handle_005)
  <2>1. names' = <<>> /\ (UNCHANGED chans \/ chans' = EmptyMap)
    BY <1>3 DEF h_366, handle_005, handle_005_Fails, vars, ucvars, Tracking, Idle
  <2>2. \A d \in Chan, k \in Nick : More(u, y, d, k)
    BY <1>3 DEF Allows
  <2>3. ASSUME NEW d \in DOMAIN chans', NEW j \in KeysIn(d)'
        PROVE  Range(Pfx(d, j)') \subseteq y[d][j]
    <3>1. UNCHANGED chans
      BY <2>1, <2>3 DEF EmptyMap
    <3>2. Stays(d, j)
      BY <3>1, StaysSame
    <3>3. d \in Chan /\ j \in Nick
      BY <3>2, MembersAre DEF Stays, Ready, Inv
    <3> QED BY <2>2, <3>2, <3>3, StaysBounded
  <2> QED BY <2>1, <2>3, BoundedIf
<1>4. CASE m.cmd \in {"PART", "KICK"} /\ h_PART(m.nick, m.chan)
  <2>1. Parts(TrView, m.nick, m.chan, z)
    BY <1>4 DEF Tells
  <2>2. \A d \in Chan, k \in Nick : (d = m.chan /\ k = NickKey[m.nick]) \/ More(u, y, d, k)
    BY <1>4 DEF Allows
  <2> QED BY <1>4, <2>1, <2>2, MsgFields, BoundedPart
<1>5. CASE m.cmd = "QUIT" /\ h_QUIT(m.nick)
  BY <1>5, MsgFields, BoundedQuit DEF Allows
<1>6. CASE m.cmd = "NICK" /\ h_NICK(m.nick, m.new)
  BY <1>6, MsgFields, BoundedNick DEF Tells, Allows
<1>7. CASE m.cmd = "MODE" /\ h_MODE(m.chan, m.nick, m.sym, m.enab)
  <2>1. PICK c \in Chan, n \in Nick, s \in Sym, enab \in BOOLEAN :
          c = m.chan /\ n = m.nick /\ s = m.sym /\ enab = m.enab
    BY <1>7, MsgFields
  <2>2. h_MODE(c, n, s, enab)
    BY <1>7, <2>1, Zenon
  <2>3. /\ \A d \in Chan, k \in Nick : (d = c /\ k = NickKey[n]) \/ More(u, y, d, k)
        /\ enab => u[c][NickKey[n]] \cup {s} \subseteq y[c][NickKey[n]]
        /\ ~enab => u[c][NickKey[n]] \ {s} \subseteq y[c][NickKey[n]]
    BY <1>7, <2>1 DEF Allows
  <2> QED BY <2>1, <2>2, <2>3, BoundedMode
<1> QED BY <1>1, <1>2, <1>3, <1>4, <1>5, <1>6, <1>7, Handles

-----------------------------------------------------------------------------
(* One who knows v, and u of the symbols, is told q and so comes to know z, *)
(* and y of the symbols.                                                    *)
Grants(q, v, u, z, y) ==
  /\ Good(v)
  /\ \E w, b : /\ w[0] = v /\ w[Len(q)] = z /\ b[0] = u /\ b[Len(q)] = y
               /\ \A i \in 1..Len(q) : /\ Step({}, w[i - 1], q[i], w[i])
                                       /\ Allows(w[i - 1].me, b[i - 1], q[i], b[i])

LEMMA GrantsTo ==
  ASSUME NEW q \in Seq(Msgs), NEW v, NEW u, NEW z, NEW y, Grants(q, v, u, z, y)
  PROVE  Good(v) /\ Good(z) /\ (q = <<>> => v = z /\ u = y)
<1>1. PICK w, b : /\ w[0] = v /\ w[Len(q)] = z /\ b[0] = u /\ b[Len(q)] = y
                  /\ \A i \in 1..Len(q) : Step({}, w[i - 1], q[i], w[i])
  BY DEF Grants
<1>2. CASE q = <<>>
  BY <1>1, <1>2 DEF Grants
<1>3. CASE q # <<>>
  <2>1. Len(q) \in 1..Len(q)
    BY <1>3
  <2> QED BY <1>1, <1>3, <2>1 DEF Grants, Step
<1> QED BY <1>2, <1>3

LEMMA GrantsOne ==
  ASSUME NEW v, Good(v), NEW u, NEW m, NEW z, Step({}, v, m, z), NEW y, Allows(v.me, u, m, y)
  PROVE  Grants(<<m>>, v, u, z, y)
<1>1. PICK w : w = [i \in 0..1 |-> IF i = 0 THEN v ELSE z]
  OBVIOUS
<1>2. PICK b : b = [i \in 0..1 |-> IF i = 0 THEN u ELSE y]
  OBVIOUS
<1>3. /\ w[0] = v /\ w[1] = z /\ Len(<<m>>) = 1 /\ <<m>>[1] = m /\ w[Len(<<m>>)] = z
      /\ b[0] = u /\ b[1] = y /\ b[Len(<<m>>)] = y
  BY <1>1, <1>2
<1>4. ASSUME NEW i \in 1..Len(<<m>>)
      PROVE  /\ Step({}, w[i - 1], <<m>>[i], w[i])
             /\ Allows(w[i - 1].me, b[i - 1], <<m>>[i], b[i])
  <2>1. /\ i = 1 /\ w[i - 1] = v /\ w[i] = z /\ <<m>>[i] = m
        /\ b[i - 1] = u /\ b[i] = y
    BY <1>1, <1>2, <1>3
  <2> QED BY <2>1
<1> QED BY <1>3, <1>4 DEF Grants

LEMMA GrantsTail ==
  ASSUME NEW q \in Seq(Msgs), q # <<>>, NEW v, NEW u, NEW z, NEW y, Grants(q, v, u, z, y)
  PROVE  \E w, b : /\ Step({}, v, Head(q), w) /\ Allows(v.me, u, Head(q), b)
                   /\ Grants(Tail(q), w, b, z, y)
<1>1. Len(q) \in Nat /\ Len(q) >= 1 /\ Head(q) = q[1]
  OBVIOUS
<1>2. Len(Tail(q)) = Len(q) - 1 /\ \A i \in 1..Len(q) - 1 : Tail(q)[i] = q[i + 1]
  BY <1>1
<1>3. PICK f, g : /\ f[0] = v /\ f[Len(q)] = z /\ g[0] = u /\ g[Len(q)] = y
                  /\ \A i \in 1..Len(q) : /\ Step({}, f[i - 1], q[i], f[i])
                                          /\ Allows(f[i - 1].me, g[i - 1], q[i], g[i])
  BY DEF Grants
<1>4. PICK w : w = [i \in 0..Len(q) - 1 |-> f[i + 1]]
  OBVIOUS
<1>5. PICK b : b = [i \in 0..Len(q) - 1 |-> g[i + 1]]
  OBVIOUS
<1>6. Step({}, v, Head(q), f[1]) /\ Allows(v.me, u, Head(q), g[1])
  <2>1. /\ Step({}, f[1 - 1], q[1], f[1]) /\ 1 - 1 = 0
        /\ Allows(f[1 - 1].me, g[1 - 1], q[1], g[1])
    BY <1>1, <1>3
  <2> QED BY <1>1, <1>3, <2>1
<1>7. w[0] = f[1] /\ w[Len(Tail(q))] = z /\ b[0] = g[1] /\ b[Len(Tail(q))] = y
  BY <1>1, <1>2, <1>3, <1>4, <1>5
<1>8. ASSUME NEW i \in 1..Len(Tail(q))
      PROVE  /\ Step({}, w[i - 1], Tail(q)[i], w[i])
             /\ Allows(w[i - 1].me, b[i - 1], Tail(q)[i], b[i])
  <2>1. /\ w[i] = f[i + 1] /\ w[i - 1] = f[i] /\ b[i] = g[i + 1] /\ b[i - 1] = g[i]
        /\ i + 1 \in 1..Len(q) /\ Tail(q)[i] = q[i + 1]
    BY <1>1, <1>2, <1>4, <1>5
  <2>2. /\ Step({}, f[(i + 1) - 1], q[i + 1], f[i + 1]) /\ (i + 1) - 1 = i
        /\ Allows(f[(i + 1) - 1].me, g[(i + 1) - 1], q[i + 1], g[i + 1])
    BY <1>3, <2>1
  <2> QED BY <2>1, <2>2
<1>9. Good(f[1])
  BY <1>6 DEF Step
<1>10. Grants(Tail(q), f[1], g[1], z, y)
  BY <1>7, <1>8, <1>9 DEF Grants
<1> QED BY <1>6, <1>10

LEMMA GrantsOn ==
  ASSUME NEW p \in Seq(Msgs), NEW q \in Seq(Msgs), NEW v, NEW u, NEW y, NEW s, NEW z, NEW t,
         Grants(p, v, u, y, s), Grants(q, y, s, z, t)
  PROVE  Grants(p \o q, v, u, z, t)
<1>1. /\ Len(p) \in Nat /\ Len(q) \in Nat /\ Len(p \o q) = Len(p) + Len(q)
      /\ \A i \in 1..Len(p) : (p \o q)[i] = p[i]
      /\ \A i \in 1..Len(q) : (p \o q)[Len(p) + i] = q[i]
  OBVIOUS
<1>2. PICK f, a : /\ f[0] = v /\ f[Len(p)] = y /\ a[0] = u /\ a[Len(p)] = s
                  /\ \A i \in 1..Len(p) : /\ Step({}, f[i - 1], p[i], f[i])
                                          /\ Allows(f[i - 1].me, a[i - 1], p[i], a[i])
  BY DEF Grants
<1>3. PICK g, b : /\ g[0] = y /\ g[Len(q)] = z /\ b[0] = s /\ b[Len(q)] = t
                  /\ \A i \in 1..Len(q) : /\ Step({}, g[i - 1], q[i], g[i])
                                          /\ Allows(g[i - 1].me, b[i - 1], q[i], b[i])
  BY DEF Grants
<1>4. PICK h : h = [i \in 0..Len(p) + Len(q) |-> IF i <= Len(p) THEN f[i] ELSE g[i - Len(p)]]
  OBVIOUS
<1>5. PICK c : c = [i \in 0..Len(p) + Len(q) |-> IF i <= Len(p) THEN a[i] ELSE b[i - Len(p)]]
  OBVIOUS
<1>6. \A i \in 0..Len(p) : h[i] = f[i] /\ c[i] = a[i]
  BY <1>1, <1>4, <1>5
<1>7. ASSUME NEW i \in 0..Len(q) PROVE h[Len(p) + i] = g[i] /\ c[Len(p) + i] = b[i]
  <2>1. CASE i = 0
    BY <1>1, <1>2, <1>3, <1>4, <1>5, <2>1
  <2>2. CASE i # 0
    <3>1. Len(p) + i \in 0..Len(p) + Len(q) /\ ~(Len(p) + i <= Len(p)) /\ Len(p) + i - Len(p) = i
      BY <1>1, <2>2
    <3> QED BY <1>4, <1>5, <3>1
  <2> QED BY <2>1, <2>2
<1>8. h[0] = v /\ h[Len(p \o q)] = z /\ c[0] = u /\ c[Len(p \o q)] = t
  BY <1>1, <1>2, <1>3, <1>6, <1>7
<1>9. ASSUME NEW i \in 1..Len(p \o q)
      PROVE  /\ Step({}, h[i - 1], (p \o q)[i], h[i])
             /\ Allows(h[i - 1].me, c[i - 1], (p \o q)[i], c[i])
  <2>1. CASE i <= Len(p)
    <3>1. /\ i \in 1..Len(p) /\ i - 1 \in 0..Len(p) /\ i \in 0..Len(p)
      BY <1>1, <2>1
    <3> QED BY <1>1, <1>2, <1>6, <3>1
  <2>2. CASE i > Len(p)
    <3>1. PICK j \in 1..Len(q) : i = Len(p) + j
      <4>1. i - Len(p) \in 1..Len(q) /\ i = Len(p) + (i - Len(p))
        BY <1>1, <2>2
      <4> QED BY <4>1
    <3>2. /\ j - 1 \in 0..Len(q) /\ j \in 0..Len(q) /\ i - 1 = Len(p) + (j - 1)
      BY <1>1, <3>1
    <3> QED BY <1>1, <1>3, <1>7, <3>1, <3>2
  <2> QED BY <1>1, <2>1, <2>2
<1> QED BY <1>8, <1>9, GrantsTo DEF Grants

LEMMA GrantsLead ==
  ASSUME NEW q, NEW v, NEW u, NEW z, NEW y, Grants(q, v, u, z, y)
  PROVE  Leads({}, q, v, z)
  BY DEF Grants, Leads

-----------------------------------------------------------------------------
(* What the server says of the symbols *)

(* The symbols that a server with channels o gives, told to one known by s. *)
(* Of a channel one is not in, one expects anything.                        *)
SymsOf(s, o) ==
  [c \in Chan |-> [k \in Nick |->
     IF s \in DOMAIN o[c]
     THEN {t \in Sym : \E n \in DOMAIN o[c] : NickKey[n] = k /\ t \in o[c][n]}
     ELSE Sym]]

Syms == SymsOf(self, on)

LEMMA SymsAre ==
  ASSUME NEW s, NEW o, NEW c \in Chan, NEW k \in Nick
  PROVE  /\ SymsOf(s, o)[c][k] \subseteq Sym
         /\ s \notin DOMAIN o[c] => SymsOf(s, o)[c][k] = Sym
         /\ (s \in DOMAIN o[c] /\ \A n \in DOMAIN o[c] : NickKey[n] # k) => SymsOf(s, o)[c][k] = {}
<1>1. SymsOf(s, o)[c][k] = IF s \in DOMAIN o[c]
                           THEN {t \in Sym : \E n \in DOMAIN o[c] : NickKey[n] = k /\ t \in o[c][n]}
                           ELSE Sym
  BY DEF SymsOf
<1> QED BY <1>1

LEMMA SymsHas ==
  ASSUME NEW s, NEW o, NEW c \in Chan, NEW n \in DOMAIN o[c], DOMAIN o[c] \subseteq Nick,
         o[c][n] \subseteq Sym
  PROVE  /\ o[c][n] \subseteq SymsOf(s, o)[c][NickKey[n]]
         /\ KeyInj(DOMAIN o[c]) /\ s \in DOMAIN o[c] => SymsOf(s, o)[c][NickKey[n]] = o[c][n]
<1>1. PICK k \in Nick : k = NickKey[n]
  BY KeyAssumption
<1>2. SymsOf(s, o)[c][k] = IF s \in DOMAIN o[c]
                           THEN {t \in Sym : \E x \in DOMAIN o[c] : NickKey[x] = k /\ t \in o[c][x]}
                           ELSE Sym
  BY DEF SymsOf
<1>3. o[c][n] \subseteq SymsOf(s, o)[c][k]
  BY <1>1, <1>2
<1>4. ASSUME KeyInj(DOMAIN o[c]), s \in DOMAIN o[c] PROVE SymsOf(s, o)[c][k] \subseteq o[c][n]
  <2>1. \A x \in DOMAIN o[c] : NickKey[x] = k => x = n
    BY <1>1, <1>4 DEF KeyInj
  <2> QED BY <1>2, <1>4, <2>1
<1> QED BY <1>1, <1>3, <1>4

(* Nothing has become of those with key k in channel c.                     *)
Unmoved(s, o, r, p, c, k) ==
  /\ s \in DOMAIN o[c] <=> r \in DOMAIN p[c]
  /\ s \in DOMAIN o[c] =>
       \A n : NickKey[n] = k => /\ n \in DOMAIN o[c] <=> n \in DOMAIN p[c]
                                /\ n \in DOMAIN o[c] => p[c][n] = o[c][n]

LEMMA SymsBut ==
  ASSUME NEW s, NEW o, NEW r, NEW p, NEW c \in Chan, NEW k \in Nick, Unmoved(s, o, r, p, c, k)
  PROVE  SymsOf(r, p)[c][k] = SymsOf(s, o)[c][k]
<1>1. SymsOf(s, o)[c][k] = IF s \in DOMAIN o[c]
                           THEN {t \in Sym : \E n \in DOMAIN o[c] : NickKey[n] = k /\ t \in o[c][n]}
                           ELSE Sym
  BY DEF SymsOf
<1>2. SymsOf(r, p)[c][k] = IF r \in DOMAIN p[c]
                           THEN {t \in Sym : \E n \in DOMAIN p[c] : NickKey[n] = k /\ t \in p[c][n]}
                           ELSE Sym
  BY DEF SymsOf
<1>3. CASE s \notin DOMAIN o[c]
  BY <1>1, <1>2, <1>3 DEF Unmoved
<1>4. CASE s \in DOMAIN o[c]
  <2>1. r \in DOMAIN p[c]
    BY <1>4 DEF Unmoved
  <2>2. ASSUME NEW t \in Sym
        PROVE  (\E n \in DOMAIN o[c] : NickKey[n] = k /\ t \in o[c][n])
                 <=> (\E n \in DOMAIN p[c] : NickKey[n] = k /\ t \in p[c][n])
    BY <1>4 DEF Unmoved
  <2> QED BY <1>1, <1>2, <1>4, <2>1, <2>2
<1> QED BY <1>3, <1>4

LEMMA SymsSame ==
  ASSUME NEW s, NEW o, NEW r, NEW p, \A c \in Chan, k \in Nick : Unmoved(s, o, r, p, c, k)
  PROVE  SymsOf(r, p) = SymsOf(s, o)
<1>1. PICK f : f = SymsOf(s, o)
  OBVIOUS
<1>2. PICK g : g = SymsOf(r, p)
  OBVIOUS
<1>3. ASSUME NEW c \in Chan, NEW k \in Nick PROVE g[c][k] = f[c][k]
  BY <1>1, <1>2, SymsBut
<1>4. ASSUME NEW c \in Chan PROVE g[c] = f[c]
  <2>1. f[c] = [k \in Nick |-> f[c][k]]
    BY <1>1 DEF SymsOf
  <2>2. g[c] = [k \in Nick |-> g[c][k]]
    BY <1>2 DEF SymsOf
  <2> QED BY <1>3, <2>1, <2>2
<1>5. f = [c \in Chan |-> f[c]]
  BY <1>1 DEF SymsOf
<1>6. g = [c \in Chan |-> g[c]]
  BY <1>2 DEF SymsOf
<1> QED BY <1>1, <1>2, <1>4, <1>5, <1>6

-----------------------------------------------------------------------------
(* Whoever knows the symbols that the server gives, and is told q, knows    *)
(* those that it then gives.                                                *)
Covers(q) ==
  \A w : w[0] = SrvView =>
    \E b : /\ b[0] = Syms /\ b[Len(q)] = Syms'
           /\ \A i \in 1..Len(q) : Allows(w[i - 1].me, b[i - 1], q[i], b[i])

(* A line in the answer to a NAMES.                                         *)
Line(m, y) == (m.cmd = "353" /\ Given(m.list, m.chan, y)) \/ m.cmd = "366"

LEMMA LineAllows == ASSUME NEW me, NEW y, NEW m, Line(m, y) PROVE Allows(me, y, m, y)
  BY DEF Line, Allows, More

LEMMA CoversSame ==
  ASSUME NEW q \in Seq(Msgs), Syms' = Syms, \A i \in 1..Len(q) : Line(q[i], Syms)
  PROVE  Covers(q)
<1> SUFFICES ASSUME NEW w
             PROVE  \E b : /\ b[0] = Syms /\ b[Len(q)] = Syms'
                           /\ \A i \in 1..Len(q) : Allows(w[i - 1].me, b[i - 1], q[i], b[i])
  BY DEF Covers
<1>1. PICK u : u = Syms
  OBVIOUS
<1>2. PICK b : b = [i \in 0..Len(q) |-> u]
  OBVIOUS
<1>3. ASSUME NEW i \in 1..Len(q) PROVE Allows(w[i - 1].me, b[i - 1], q[i], b[i])
  <2>1. b[i - 1] = u /\ b[i] = u
    BY <1>2
  <2>2. Allows(w[i - 1].me, u, q[i], u)
    BY <1>1, LineAllows
  <2> QED BY <2>1, <2>2
<1>4. b[0] = u /\ b[Len(q)] = u
  BY <1>2
<1> QED BY <1>1, <1>3, <1>4

LEMMA CoversFirst ==
  ASSUME SrvOk, NEW q \in Seq(Msgs), q # <<>>, Allows(self, Syms, q[1], Syms'),
         \A i \in 2..Len(q) : Line(q[i], Syms')
  PROVE  Covers(q)
<1> SUFFICES ASSUME NEW w, w[0] = SrvView
             PROVE  \E b : /\ b[0] = Syms /\ b[Len(q)] = Syms'
                           /\ \A i \in 1..Len(q) : Allows(w[i - 1].me, b[i - 1], q[i], b[i])
  BY DEF Covers
<1>1. PICK u, y : u = Syms /\ y = Syms'
  OBVIOUS
<1>2. PICK b : b = [i \in 0..Len(q) |-> IF i = 0 THEN u ELSE y]
  OBVIOUS
<1>3. w[0].me = self
  BY ViewNow
<1>4. Len(q) \in Nat /\ Len(q) >= 1
  OBVIOUS
<1>5. ASSUME NEW i \in 1..Len(q) PROVE Allows(w[i - 1].me, b[i - 1], q[i], b[i])
  <2>1. CASE i = 1
    <3>1. w[i - 1] = w[0] /\ b[i - 1] = u /\ b[i] = y
      BY <1>2, <1>4, <2>1
    <3> QED BY <1>1, <1>3, <2>1, <3>1
  <2>2. CASE i # 1
    <3>1. i \in 2..Len(q) /\ b[i - 1] = y /\ b[i] = y
      BY <1>2, <1>4, <2>2
    <3>2. Allows(w[i - 1].me, y, q[i], y)
      BY <1>1, <3>1, LineAllows
    <3> QED BY <3>1, <3>2
  <2> QED BY <2>1, <2>2
<1>6. b[0] = u /\ b[Len(q)] = y
  BY <1>2, <1>4
<1> QED BY <1>1, <1>5, <1>6

-----------------------------------------------------------------------------
(* The lines q for channel c, with members m, show symbols that they have.  *)
Truthful(q, c, m) ==
  \A i \in 1..Len(q) :
    /\ q[i].cmd = "353" /\ q[i].chan = c
    /\ \A j \in 1..Len(q[i].list) :
         /\ q[i].list[j].nick \in DOMAIN m
         /\ Range(q[i].list[j].pfx) \subseteq m[q[i].list[j].nick]

LEMMA LinesShow ==
  ASSUME NEW c \in Chan, NEW m, IsFiniteSet(DOMAIN m), DOMAIN m \subseteq Nick,
         \A n \in DOMAIN m : m[n] \subseteq Sym
  PROVE  Truthful(Lines(c, m), c, m)
<1>1. PICK S : S = DOMAIN m
  OBVIOUS
<1>2. PICK N \in Nat : N = Cardinality(S)
  BY <1>1, FS_CardinalityType
<1>3. PICK s : s = SetToSeq(S)
  OBVIOUS
<1>4. s \in [1..N -> S]
  BY <1>1, <1>2, <1>3, SetSeq
<1>5. PICK P \in Nat \ {0} : P = PerLine
  BY ServerAssumption
<1>6. PICK all : all = [i \in 1..N |-> [nick |-> s[i], pfx |-> Shown(m[s[i]])]]
  OBVIOUS
<1>7. all \in Seq(Entry) /\ Len(all) = N /\ \A i \in 1..N : all[i] \in Entry
  <2>1. \A i \in 1..N : [nick |-> s[i], pfx |-> Shown(m[s[i]])] \in Entry
    BY <1>1, <1>4, ShownType DEF Entry
  <2>2. all \in Seq(Entry) /\ Len(all) = N
    BY <1>6, <2>1, IsASeq
  <2> QED BY <1>6, <2>1, <2>2
<1>8. ASSUME NEW i \in 1..N
      PROVE  all[i].nick \in S /\ Range(all[i].pfx) \subseteq m[all[i].nick]
  <2>1. PICK n \in S : n = s[i]
    BY <1>4
  <2>2. all[i].nick = n /\ all[i].pfx = Shown(m[n])
    BY <1>6, <2>1
  <2>3. PICK T : T = m[n] /\ T \subseteq Sym
    BY <1>1, <2>1
  <2>4. CASE T = {}
    <3>1. Shown(T) = <<>>
      BY <2>4 DEF Shown
    <3> QED BY <2>1, <2>2, <2>3, <3>1 DEF Range
  <2>5. CASE T # {}
    <3>1. \E t \in T : \A r \in T : t \in Stronger[r] \/ t = r
      BY <2>3, <2>5, ServerAssumption
    <3>2. PICK t \in T : Shown(T) = <<t>>
      BY <2>5, <3>1 DEF Shown
    <3>3. Range(<<t>>) = {t}
      BY DEF Range
    <3> QED BY <2>1, <2>2, <2>3, <3>2, <3>3
  <2> QED BY <2>4, <2>5
<1>9. PICK K : K = (N + P - 1) \div P
  OBVIOUS
<1>10. K \in Nat /\ N <= K * P /\ \A i \in 1..K : (i - 1) * P < N /\ (i - 1) * P \in Nat
  BY <1>9, Chunks
<1>11. PICK q : q = Lines(c, m)
  OBVIOUS
<1>12. q = [i \in 1..K |-> [cmd |-> "353", chan |-> c,
                           list |-> SubSeq(all, (i - 1) * P + 1, Min({i * P, N}))]]
  BY <1>1, <1>2, <1>3, <1>5, <1>6, <1>7, <1>9, <1>11 DEF Lines
<1>13. Len(q) = K
  <2>1. q \in Seq(Msgs)
    BY <1>11, LinesCut
  <2> QED BY <1>10, <1>12, <2>1
<1>14. ASSUME NEW i \in 1..K
       PROVE  /\ q[i].cmd = "353" /\ q[i].chan = c
              /\ \A j \in 1..Len(q[i].list) : \E k \in 1..N : q[i].list[j] = all[k]
  <2>1. PICK a \in Nat : a = (i - 1) * P /\ a < N
    BY <1>10
  <2>2. PICK b \in Nat : b = i * P /\ b = a + P
    BY <2>1
  <2>3. PICK e : e = Min({b, N})
    OBVIOUS
  <2>4. e \in Nat /\ a < e /\ e <= N
    BY <2>1, <2>2, <2>3, MinOfTwo
  <2>5. PICK l : l = SubSeq(all, a + 1, e)
    OBVIOUS
  <2>6. /\ Len(l) = IF a + 1 <= e THEN e - (a + 1) + 1 ELSE 0
        /\ \A j \in 1..e - (a + 1) + 1 : l[j] = all[a + 1 + j - 1]
    <3>1. a + 1 \in Int /\ e \in Int /\ \A j \in a + 1..e : all[j] \in Entry
      BY <1>7, <2>4
    <3> QED BY <2>5, <3>1, SubSeqProperties
  <2>7. q[i] = [cmd |-> "353", chan |-> c, list |-> l]
    BY <1>12, <2>1, <2>2, <2>3, <2>5
  <2>8. ASSUME NEW j \in 1..Len(l) PROVE \E k \in 1..N : l[j] = all[k]
    <3>1. l[j] = all[a + 1 + j - 1] /\ a + 1 + j - 1 \in 1..N
      BY <2>4, <2>6
    <3> QED BY <3>1
  <2> QED BY <2>7, <2>8
<1>15. ASSUME NEW i \in 1..K, NEW j \in 1..Len(q[i].list)
       PROVE  /\ q[i].list[j].nick \in DOMAIN m
              /\ Range(q[i].list[j].pfx) \subseteq m[q[i].list[j].nick]
  <2>1. PICK k \in 1..N : q[i].list[j] = all[k]
    BY <1>14
  <2> QED BY <1>1, <1>8, <2>1
<1>16. Truthful(q, c, m)
  BY <1>13, <1>14, <1>15 DEF Truthful
<1> QED BY <1>11, <1>16

(* They tell the symbols that the server gives.                             *)
LEMMA LinesGive ==
  ASSUME NEW s, NEW o, NEW c \in Chan, IsFiniteSet(DOMAIN o[c]), DOMAIN o[c] \subseteq Nick,
         \A n \in DOMAIN o[c] : o[c][n] \subseteq Sym
  PROVE  /\ Lines(c, o[c]) \o EndOfNames \in Seq(Msgs)
         /\ \A i \in 1..Len(Lines(c, o[c]) \o EndOfNames) :
              Line((Lines(c, o[c]) \o EndOfNames)[i], SymsOf(s, o))
<1>1. PICK m : m = o[c]
  OBVIOUS
<1>2. PICK y : y = SymsOf(s, o)
  OBVIOUS
<1>3. PICK q \in Seq(Msgs) : q = Lines(c, m)
  BY <1>1, LinesCut
<1>4. Truthful(q, c, m)
  <2>1. Truthful(Lines(c, m), c, m)
    BY <1>1, LinesShow
  <2> QED BY <1>3, <2>1
<1>5. \A n \in DOMAIN m : m[n] \subseteq y[c][NickKey[n]]
  BY <1>1, <1>2, SymsHas
<1>6. ASSUME NEW i \in 1..Len(q) PROVE Line(q[i], y)
  <2>1. PICK l : l = q[i].list
    OBVIOUS
  <2>2. Given(l, c, y)
    BY <1>4, <1>5, <2>1 DEF Truthful, Given
  <2> QED BY <1>4, <2>1, <2>2 DEF Truthful, Line
<1>7. PICK e \in Msgs : e = [cmd |-> "366"] /\ EndOfNames = <<e>> /\ e.cmd = "366"
  <2>1. [cmd |-> "366"] \in [cmd : {"366", "005"}]
    OBVIOUS
  <2>2. [cmd |-> "366"] \in Msgs
    BY <2>1 DEF Msgs
  <2> QED BY <2>2 DEF EndOfNames
<1>8. /\ q \o <<e>> \in Seq(Msgs) /\ Len(q \o <<e>>) = Len(q) + 1 /\ Len(q) \in Nat
      /\ \A i \in 1..Len(q) : (q \o <<e>>)[i] = q[i]
      /\ (q \o <<e>>)[Len(q) + 1] = e
  OBVIOUS
<1>9. ASSUME NEW i \in 1..Len(q \o <<e>>) PROVE Line((q \o <<e>>)[i], y)
  <2>1. CASE i \in 1..Len(q)
    BY <1>6, <1>8, <2>1
  <2>2. CASE i = Len(q) + 1
    BY <1>7, <1>8, <2>2 DEF Line
  <2> QED BY <1>8, <2>1, <2>2
<1> QED BY <1>1, <1>2, <1>3, <1>7, <1>8, <1>9

-----------------------------------------------------------------------------
(* What the server sends covers what it does.                               *)
Covered == \E q \in Seq(Msgs) : inq' = inq \o q /\ Covers(q)

Moveless(c, k) == Unmoved(self, on, self', on', c, k)

LEMMA CoveredNone ==
  ASSUME inq \in Seq(Msgs), inq' = inq, \A c \in Chan, k \in Nick : Moveless(c, k)
  PROVE  Covered
<1>1. Syms' = Syms
  BY SymsSame DEF Moveless, Syms
<1>2. <<>> \in Seq(Msgs) /\ inq \o <<>> = inq /\ Len(<<>>) = 0
  OBVIOUS
<1>3. PICK q \in Seq(Msgs) : q = <<>> /\ inq' = inq \o q /\ Len(q) = 0
  BY <1>2
<1>4. \A i \in 1..Len(q) : Line(q[i], Syms)
  BY <1>3
<1>5. Covers(q)
  BY <1>1, <1>4, CoversSame
<1> QED BY <1>3, <1>5 DEF Covered

LEMMA CoveredOne ==
  ASSUME SrvOk, NEW m \in Msgs, inq' = inq \o <<m>>, Allows(self, Syms, m, Syms')
  PROVE  Covered
<1>0. <<m>> \in Seq(Msgs) /\ Len(<<m>>) = 1 /\ <<m>>[1] = m
  OBVIOUS
<1>1. PICK q \in Seq(Msgs) : q = <<m>> /\ Len(q) = 1 /\ q[1] = m
  BY <1>0
<1>2. q # <<>> /\ q[1] = m /\ \A i \in 2..Len(q) : FALSE
  BY <1>1
<1>3. Covers(q)
  BY <1>2, CoversFirst
<1> QED BY <1>1, <1>3 DEF Covered

LEMMA MovelessMore ==
  ASSUME NEW c \in Chan, NEW k \in Nick, Moveless(c, k)
  PROVE  More(Syms, Syms', c, k)
<1>1. SymsOf(self', on')[c][k] = SymsOf(self, on)[c][k]
  BY SymsBut DEF Moveless
<1> QED BY <1>1 DEF More, Syms

LEMMA OutsideMore ==
  ASSUME NEW c \in Chan, NEW k \in Nick, self' \notin DOMAIN on'[c]
  PROVE  More(Syms, Syms', c, k)
<1>1. SymsOf(self', on')[c][k] = Sym /\ SymsOf(self, on)[c][k] \subseteq Sym
  BY SymsAre
<1> QED BY <1>1 DEF More, Syms

LEMMA LeaveCovered ==
  ASSUME SrvOk, inq \in Seq(Msgs), NEW n \in Nick, NEW c \in Chan,
         NEW cmd \in {"PART", "KICK"}, SrvLeave(cmd, n, c)
  PROVE  Covered
<1>1. /\ n \in DOMAIN on[c] /\ self' = self
      /\ on' = [on EXCEPT ![c] = Del(@, n)]
      /\ IF self \in DOMAIN on[c] THEN inq' = inq \o <<Msg(cmd, n, c)>> ELSE inq' = inq
  BY DEF SrvLeave, SendIf, In_
<1>2. /\ \A d \in Chan \ {c} : on'[d] = on[d]
      /\ on'[c] = Del(on[c], n)
  BY <1>1 DEF SrvOk
<1>3. DOMAIN on'[c] = DOMAIN on[c] \ {n} /\ \A x \in DOMAIN on'[c] : on'[c][x] = on[c][x]
  BY <1>2 DEF Del, Restrict
<1>4. ASSUME NEW d \in Chan, NEW k \in Nick, ~(d = c /\ k = NickKey[n]), ~(d = c /\ self = n)
      PROVE  Moveless(d, k)
  <2>1. CASE d # c
    BY <1>1, <1>2, <2>1 DEF Moveless, Unmoved
  <2>2. CASE d = c
    BY <1>1, <1>3, <1>4, <2>2 DEF Moveless, Unmoved
  <2> QED BY <2>1, <2>2
<1>5. CASE self \notin DOMAIN on[c]
  <2>1. ASSUME NEW d \in Chan, NEW k \in Nick PROVE Moveless(d, k)
    <3>1. CASE d = c
      BY <1>1, <1>3, <1>5, <3>1 DEF Moveless, Unmoved
    <3> QED BY <1>4, <3>1
  <2> QED BY <1>1, <1>5, <2>1, CoveredNone
<1>6. CASE self \in DOMAIN on[c]
  <2>1. PICK m \in Msgs : m = Msg(cmd, n, c) /\ m.cmd = cmd /\ m.nick = n /\ m.chan = c
    <3>1. Msg(cmd, n, c) \in [cmd : {"JOIN", "PART", "KICK"}, nick : Nick, chan : Chan]
      BY DEF Msg
    <3>2. Msg(cmd, n, c) \in Msgs
      BY <3>1 DEF Msgs
    <3> QED BY <3>2 DEF Msg
  <2>2. ASSUME NEW d \in Chan, NEW k \in Nick, ~(d = c /\ k = NickKey[n])
        PROVE  More(Syms, Syms', d, k)
    <3>1. CASE d = c /\ self = n
      BY <1>1, <1>3, <3>1, OutsideMore
    <3>2. CASE ~(d = c /\ self = n)
      BY <1>4, <2>2, <3>2, MovelessMore
    <3> QED BY <3>1, <3>2
  <2>3. Allows(self, Syms, m, Syms')
    BY <2>1, <2>2 DEF Allows
  <2> QED BY <1>1, <1>6, <2>1, <2>3, CoveredOne
<1> QED BY <1>5, <1>6

LEMMA QuitCovered ==
  ASSUME SrvOk, inq \in Seq(Msgs), NEW n \in Nick, SrvQuit(n)
  PROVE  Covered
<1>1. /\ n # self /\ self' = self
      /\ on' = [c \in Chan |-> Del(on[c], n)]
      /\ IF Common(n) THEN inq' = inq \o <<[cmd |-> "QUIT", nick |-> n]>> ELSE inq' = inq
  BY DEF SrvQuit, SendIf
<1>2. ASSUME NEW c \in Chan
      PROVE  /\ DOMAIN on'[c] = DOMAIN on[c] \ {n}
             /\ \A x \in DOMAIN on'[c] : on'[c][x] = on[c][x]
  <2>1. on'[c] = Del(on[c], n)
    BY <1>1
  <2> QED BY <2>1 DEF Del, Restrict
<1>3. ASSUME NEW c \in Chan, NEW k \in Nick, k # NickKey[n] PROVE Moveless(c, k)
  BY <1>1, <1>2, <1>3 DEF Moveless, Unmoved
<1>4. CASE ~Common(n)
  <2>1. ASSUME NEW c \in Chan, NEW k \in Nick PROVE Moveless(c, k)
    <3>1. self \in DOMAIN on[c] => n \notin DOMAIN on[c]
      BY <1>4 DEF Common, In_
    <3> QED BY <1>1, <1>2, <3>1 DEF Moveless, Unmoved
  <2> QED BY <1>1, <1>4, <2>1, CoveredNone
<1>5. CASE Common(n)
  <2>1. PICK m \in Msgs : m = [cmd |-> "QUIT", nick |-> n] /\ m.cmd = "QUIT" /\ m.nick = n
    <3>1. [cmd |-> "QUIT", nick |-> n] \in [cmd : {"QUIT"}, nick : Nick]
      OBVIOUS
    <3>2. [cmd |-> "QUIT", nick |-> n] \in Msgs
      BY <3>1 DEF Msgs
    <3> QED BY <3>2
  <2>2. \A c \in Chan, k \in Nick : k = NickKey[n] \/ More(Syms, Syms', c, k)
    BY <1>3, MovelessMore
  <2>3. Allows(self, Syms, m, Syms')
    BY <2>1, <2>2 DEF Allows
  <2> QED BY <1>1, <1>5, <2>1, <2>3, CoveredOne
<1> QED BY <1>4, <1>5

LEMMA NamesCovered ==
  ASSUME SrvOk, inq \in Seq(Msgs), NEW c \in Chan, SrvNames(c)
  PROVE  Covered
<1>1. self' = self /\ on' = on /\ inq' = inq \o (Lines(c, on[c]) \o EndOfNames)
  BY DEF SrvNames, SendIf
<1>2. Syms' = Syms
  BY <1>1 DEF Syms, SymsOf
<1>3. IsFiniteSet(DOMAIN on[c]) /\ DOMAIN on[c] \subseteq Nick /\ \A n \in DOMAIN on[c] : on[c][n] \subseteq Sym
  BY DEF SrvOk
<1>4. /\ Lines(c, on[c]) \o EndOfNames \in Seq(Msgs)
      /\ \A i \in 1..Len(Lines(c, on[c]) \o EndOfNames) :
           Line((Lines(c, on[c]) \o EndOfNames)[i], SymsOf(self, on))
  BY <1>3, LinesGive
<1>5. PICK q \in Seq(Msgs) : q = Lines(c, on[c]) \o EndOfNames
  BY <1>4
<1>6. Covers(q)
  BY <1>2, <1>4, <1>5, CoversSame DEF Syms
<1> QED BY <1>1, <1>5, <1>6 DEF Covered

LEMMA ModeCovered ==
  ASSUME SrvOk, SrvOk', inq \in Seq(Msgs), NEW n \in Nick, NEW c \in Chan,
         NEW s \in Sym, NEW enab \in BOOLEAN, SrvMode(c, n, s, enab)
  PROVE  Covered
<1>1. PICK m : m = [cmd |-> "MODE", chan |-> c, nick |-> n, sym |-> s, enab |-> enab]
  OBVIOUS
<1>2. /\ n \in DOMAIN on[c] /\ self' = self
      /\ on' = [on EXCEPT ![c][n] = IF enab THEN @ \cup {s} ELSE @ \ {s}]
      /\ IF self \in DOMAIN on[c] THEN inq' = inq \o <<m>> ELSE inq' = inq
  BY <1>1 DEF SrvMode, SendIf, In_
<1>3. PICK T : T = IF enab THEN on[c][n] \cup {s} ELSE on[c][n] \ {s}
  OBVIOUS
<1>4. /\ \A d \in Chan : DOMAIN on'[d] = DOMAIN on[d]
      /\ \A d \in Chan : \A x \in DOMAIN on[d] : ~(d = c /\ x = n) => on'[d][x] = on[d][x]
      /\ on'[c][n] = T
  BY <1>2, <1>3 DEF SrvOk
<1>5. ASSUME NEW d \in Chan, NEW k \in Nick, ~(d = c /\ k = NickKey[n]) PROVE Moveless(d, k)
  BY <1>2, <1>4, <1>5 DEF Moveless, Unmoved
<1>6. CASE self \notin DOMAIN on[c]
  <2>1. ASSUME NEW d \in Chan, NEW k \in Nick PROVE Moveless(d, k)
    <3>1. CASE d = c
      BY <1>2, <1>4, <1>6, <3>1 DEF Moveless, Unmoved
    <3> QED BY <1>5, <3>1
  <2> QED BY <1>2, <1>6, <2>1, CoveredNone
<1>7. CASE self \in DOMAIN on[c]
  <2>1. m \in [cmd : {"MODE"}, chan : Chan, nick : Nick, sym : Sym, enab : BOOLEAN]
    BY <1>1
  <2>2. /\ m \in Msgs /\ m.cmd = "MODE" /\ m.chan = c /\ m.nick = n /\ m.sym = s
        /\ m.enab = enab
    BY <1>1, <2>1 DEF Msgs
  <2>3. \A d \in Chan, k \in Nick : (d = c /\ k = NickKey[n]) \/ More(Syms, Syms', d, k)
    BY <1>5, MovelessMore
  <2>4. KeyInj(DOMAIN on[c])
    <3>1. DOMAIN on[c] \subseteq Online
      BY OnlineIs
    <3> QED BY <3>1, KeyInjSub DEF SrvOk
  <2>5. SymsOf(self, on)[c][NickKey[n]] = on[c][n]
    <3>1. DOMAIN on[c] \subseteq Nick /\ on[c][n] \subseteq Sym
      BY <1>2 DEF SrvOk
    <3>2. n \in DOMAIN on[c]
      BY <1>2
    <3>3. KeyInj(DOMAIN on[c]) /\ self \in DOMAIN on[c] => SymsOf(self, on)[c][NickKey[n]] = on[c][n]
      BY <3>1, <3>2, SymsHas
    <3> QED BY <1>7, <2>4, <3>3
  <2>6. T \subseteq SymsOf(self', on')[c][NickKey[n]]
    <3>1. DOMAIN on'[c] \subseteq Nick /\ n \in DOMAIN on'[c] /\ on'[c][n] \subseteq Sym
      BY <1>2, <1>4 DEF SrvOk
    <3>2. on'[c][n] \subseteq SymsOf(self', on')[c][NickKey[n]]
      BY <3>1, SymsHas
    <3> QED BY <1>4, <3>2
  <2>7. (IF enab THEN Syms[c][NickKey[n]] \cup {s} ELSE Syms[c][NickKey[n]] \ {s})
          \subseteq Syms'[c][NickKey[n]]
    BY <1>3, <2>5, <2>6 DEF Syms
  <2>8. Allows(self, Syms, m, Syms')
    BY <2>2, <2>3, <2>7 DEF Allows
  <2> QED BY <1>2, <1>7, <2>2, <2>8, CoveredOne
<1> QED BY <1>6, <1>7

LEMMA NickCovered ==
  ASSUME SrvOk, SrvOk', inq \in Seq(Msgs), NEW n \in Nick, NEW p \in Nick, SrvNick(n, p)
  PROVE  Covered
<1>1. PICK m : m = [cmd |-> "NICK", nick |-> n, new |-> p]
  OBVIOUS
<1>2. /\ n \in Online /\ p # n /\ \A o \in Online \ {n} : NickKey[o] # NickKey[p]
      /\ on' = [c \in Chan |-> IF n \in DOMAIN on[c] THEN Put(Del(on[c], n), p, on[c][n])
                                                     ELSE on[c]]
      /\ self' = IF n = self THEN p ELSE self
      /\ IF n = self \/ Common(n) THEN inq' = inq \o <<m>> ELSE inq' = inq
  BY <1>1 DEF SrvNick, SendIf
<1>3. p \notin Online
  BY <1>2
<1>4. ASSUME NEW c \in Chan
      PROVE  /\ DOMAIN on[c] \subseteq Online /\ p \notin DOMAIN on[c]
             /\ self # p
  <2>1. DOMAIN on[c] \subseteq Online
    BY OnlineIs
  <2>2. self # p
    BY <1>3, TrackAssumption, OnlineIs
  <2> QED BY <1>3, <2>1, <2>2
<1>5. ASSUME NEW c \in Chan
      PROVE  /\ n \notin DOMAIN on[c] => on'[c] = on[c]
             /\ n \in DOMAIN on[c] => /\ DOMAIN on'[c] = (DOMAIN on[c] \ {n}) \cup {p}
                                      /\ on'[c][p] = on[c][n]
                                      /\ \A x \in DOMAIN on[c] \ {n} : on'[c][x] = on[c][x]
  <2>1. CASE n \notin DOMAIN on[c]
    BY <1>2, <2>1
  <2>2. CASE n \in DOMAIN on[c]
    <3>1. PICK f : f = on[c]
      OBVIOUS
    <3>2. PICK g : g = on'[c]
      OBVIOUS
    <3>3. g = Put(Del(f, n), p, f[n])
      BY <1>2, <2>2, <3>1, <3>2
    <3>4. Del(f, n) = [x \in DOMAIN f \ {n} |-> f[x]]
      BY DEF Del, Restrict
    <3>5. g = [x \in (DOMAIN f \ {n}) \cup {p} |-> IF x = p THEN f[n] ELSE f[x]]
      BY <3>3, <3>4 DEF Put
    <3>6. p \notin DOMAIN f
      BY <1>4, <3>1
    <3> QED BY <2>2, <3>1, <3>2, <3>5, <3>6
  <2> QED BY <2>1, <2>2
<1>6. ASSUME NEW c \in Chan PROVE self \in DOMAIN on[c] <=> self' \in DOMAIN on'[c]
  BY <1>2, <1>4, <1>5
<1>7. ASSUME NEW c \in Chan, NEW k \in Nick, k # NickKey[n], k # NickKey[p] PROVE Moveless(c, k)
  BY <1>5, <1>6, <1>7 DEF Moveless, Unmoved
<1>8. CASE ~(n = self \/ Common(n))
  <2>1. ASSUME NEW c \in Chan, NEW k \in Nick PROVE Moveless(c, k)
    <3>1. self \in DOMAIN on[c] => n \notin DOMAIN on[c]
      BY <1>8 DEF Common, In_
    <3> QED BY <1>5, <1>6, <3>1 DEF Moveless, Unmoved
  <2> QED BY <1>2, <1>8, <2>1, CoveredNone
<1>9. CASE n = self \/ Common(n)
  <2>1. m \in [cmd : {"NICK"}, nick : Nick, new : Nick]
    BY <1>1
  <2>2. m \in Msgs /\ m.cmd = "NICK" /\ m.nick = n /\ m.new = p
    BY <1>1, <2>1 DEF Msgs
  <2>3. \A c \in Chan, k \in Nick \ {NickKey[n], NickKey[p]} : More(Syms, Syms', c, k)
    BY <1>7, MovelessMore
  <2>4. ASSUME NEW c \in Chan PROVE Syms[c][NickKey[n]] \subseteq Syms'[c][NickKey[p]]
    <3>0. NickKey[n] \in Nick /\ NickKey[p] \in Nick /\ KeyInj(Online)
      BY KeyAssumption DEF SrvOk
    <3>1. CASE self \notin DOMAIN on[c]
      <4>1. self' \notin DOMAIN on'[c]
        BY <1>6, <3>1
      <4>2. SymsOf(self', on')[c][NickKey[p]] = Sym
        BY <3>0, <4>1, SymsAre
      <4>3. SymsOf(self, on)[c][NickKey[n]] \subseteq Sym
        BY <3>0, SymsAre
      <4> QED BY <4>2, <4>3 DEF Syms
    <3>2. CASE self \in DOMAIN on[c] /\ n \notin DOMAIN on[c]
      <4>1. \A x \in DOMAIN on[c] : NickKey[x] # NickKey[n]
        BY <1>2, <1>4, <3>0, <3>2 DEF KeyInj
      <4>2. SymsOf(self, on)[c][NickKey[n]] = {}
        BY <3>0, <3>2, <4>1, SymsAre
      <4> QED BY <4>2 DEF Syms
    <3>3. CASE self \in DOMAIN on[c] /\ n \in DOMAIN on[c]
      <4>1. KeyInj(DOMAIN on[c])
        BY <1>4, <3>0, KeyInjSub
      <4>2. DOMAIN on[c] \subseteq Nick /\ on[c][n] \subseteq Sym
        BY <3>3 DEF SrvOk
      <4>3. SymsOf(self, on)[c][NickKey[n]] = on[c][n]
        BY <3>3, <4>1, <4>2, SymsHas
      <4>4. DOMAIN on'[c] \subseteq Nick /\ p \in DOMAIN on'[c] /\ on'[c][p] = on[c][n]
        BY <1>5, <3>3 DEF SrvOk
      <4>5. on'[c][p] \subseteq SymsOf(self', on')[c][NickKey[p]]
        BY <4>2, <4>4, SymsHas
      <4> QED BY <4>3, <4>4, <4>5 DEF Syms
    <3> QED BY <3>1, <3>2, <3>3
  <2>5. Allows(self, Syms, m, Syms')
    BY <2>2, <2>3, <2>4 DEF Allows
  <2> QED BY <1>2, <1>9, <2>2, <2>5, CoveredOne
<1> QED BY <1>8, <1>9

LEMMA JoinCovered ==
  ASSUME SrvOk, SrvOk', inq \in Seq(Msgs), NEW n \in Nick, NEW c \in Chan, SrvJoin(n, c)
  PROVE  Covered
<1>1. PICK S : S = IF on[c] = EmptyMap THEN {s \in Sym : Stronger[s] = {}} ELSE {}
  OBVIOUS
<1>2. PICK f : f = Put(on[c], n, S)
  OBVIOUS
<1>3. PICK m \in Msgs : m = Msg("JOIN", n, c) /\ m.cmd = "JOIN" /\ m.nick = n /\ m.chan = c
  <2>1. Msg("JOIN", n, c) \in [cmd : {"JOIN", "PART", "KICK"}, nick : Nick, chan : Chan]
    BY DEF Msg
  <2>2. Msg("JOIN", n, c) \in Msgs
    BY <2>1 DEF Msgs
  <2> QED BY <2>2 DEF Msg
<1>4. /\ n \notin DOMAIN on[c]
      /\ on' = [on EXCEPT ![c] = f] /\ self' = self
      /\ n = self => inq' = inq \o (<<m>> \o Lines(c, f) \o EndOfNames)
      /\ n # self /\ self \in DOMAIN on[c] => inq' = inq \o <<m>>
      /\ n # self /\ self \notin DOMAIN on[c] => inq' = inq
  BY <1>1, <1>2, <1>3 DEF SrvJoin, SendIf, In_
<1>5. on'[c] = f /\ \A d \in Chan \ {c} : on'[d] = on[d]
  BY <1>4 DEF SrvOk
<1>6. DOMAIN f = DOMAIN on[c] \cup {n} /\ \A x \in DOMAIN on[c] : f[x] = on[c][x]
  BY <1>2, <1>4 DEF Put
<1>7. ASSUME NEW d \in Chan, NEW k \in Nick, ~(d = c /\ (n = self \/ k = NickKey[n]))
      PROVE  Moveless(d, k)
  <2>1. CASE d # c
    BY <1>4, <1>5, <2>1 DEF Moveless, Unmoved
  <2>2. CASE d = c
    BY <1>4, <1>5, <1>6, <1>7, <2>2 DEF Moveless, Unmoved
  <2> QED BY <2>1, <2>2
<1>8. Allows(self, Syms, m, Syms')
  <2>1. \A d \in Chan, k \in Nick : (d = c /\ (n = self \/ k = NickKey[n])) \/ More(Syms, Syms', d, k)
    BY <1>7, MovelessMore
  <2> QED BY <1>3, <2>1 DEF Allows
<1>9. CASE n # self /\ self \notin DOMAIN on[c]
  <2>1. ASSUME NEW d \in Chan, NEW k \in Nick PROVE Moveless(d, k)
    <3>1. CASE d = c
      BY <1>4, <1>5, <1>6, <1>9, <3>1 DEF Moveless, Unmoved
    <3> QED BY <1>7, <3>1
  <2> QED BY <1>4, <1>9, <2>1, CoveredNone
<1>10. CASE n # self /\ self \in DOMAIN on[c]
  BY <1>4, <1>8, <1>10, CoveredOne
<1>11. CASE n = self
  <2>1. /\ IsFiniteSet(DOMAIN on'[c]) /\ DOMAIN on'[c] \subseteq Nick
        /\ \A x \in DOMAIN on'[c] : on'[c][x] \subseteq Sym
    BY DEF SrvOk
  <2>2. PICK o : o = on'
    OBVIOUS
  <2>3. PICK y : y = Syms'
    OBVIOUS
  <2>4. y = SymsOf(self', o)
    BY <2>2, <2>3 DEF Syms
  <2>5. /\ Lines(c, o[c]) \o EndOfNames \in Seq(Msgs)
        /\ \A i \in 1..Len(Lines(c, o[c]) \o EndOfNames) :
             Line((Lines(c, o[c]) \o EndOfNames)[i], SymsOf(self', o))
    BY <2>1, <2>2, LinesGive
  <2>6. PICK r \in Seq(Msgs) : r = Lines(c, f) \o EndOfNames
    BY <1>5, <2>2, <2>5
  <2>7. \A i \in 1..Len(r) : Line(r[i], y)
    BY <1>5, <2>2, <2>4, <2>5, <2>6
  <2>8. /\ <<m>> \o r \in Seq(Msgs) /\ Len(<<m>> \o r) = Len(r) + 1 /\ (<<m>> \o r)[1] = m
        /\ \A i \in 2..Len(r) + 1 : (<<m>> \o r)[i] = r[i - 1]
    OBVIOUS
  <2>9. PICK q \in Seq(Msgs) : q = <<m>> \o r
    BY <2>8
  <2>10. q[1] = m /\ q # <<>>
    BY <2>8, <2>9
  <2>11. ASSUME NEW i \in 2..Len(q) PROVE Line(q[i], y)
    <3>1. i - 1 \in 1..Len(r) /\ q[i] = r[i - 1]
      BY <2>8, <2>9
    <3> QED BY <2>7, <3>1
  <2>12. Covers(q)
    BY <1>8, <2>3, <2>10, <2>11, CoversFirst
  <2>13. inq' = inq \o q
    <3>1. Lines(c, f) \in Seq(Msgs)
      BY <1>5, <2>1, LinesCut
    <3>2. PICK l \in Seq(Msgs) : l = Lines(c, f)
      BY <3>1
    <3>3. EndOfNames \in Seq([cmd : {"366"}])
      BY DEF EndOfNames
    <3>4. <<m>> \o l \o EndOfNames = <<m>> \o (l \o EndOfNames)
      BY <3>3
    <3> QED BY <1>4, <1>11, <2>6, <2>9, <3>2, <3>4
  <2> QED BY <2>12, <2>13 DEF Covered
<1> QED BY <1>9, <1>10, <1>11

(* Of every action of the server.                                           *)
LEMMA ServerCovered ==
  ASSUME SrvOk, SrvOk', inq \in Seq(Msgs), "all" \notin AppNames, Server
  PROVE  Covered
<1>1. \/ \E n \in Nick, c \in Chan : \/ SrvJoin(n, c)
                                     \/ SrvLeave("PART", n, c)
                                     \/ SrvLeave("KICK", n, c)
      \/ \E n \in Nick : SrvQuit(n)
      \/ \E n, m \in Nick : SrvNick(n, m)
      \/ \E c \in Chan, n \in Nick, s \in Sym, enab \in BOOLEAN : SrvMode(c, n, s, enab)
      \/ \E c \in Chan : SrvNames(c)
  BY DEF Server, SrvNamesAll
<1>2. CASE \E n \in Nick, c \in Chan : SrvJoin(n, c)
  BY <1>2, JoinCovered
<1>3. CASE \E n \in Nick, c \in Chan : SrvLeave("PART", n, c) \/ SrvLeave("KICK", n, c)
  BY <1>3, LeaveCovered
<1>4. CASE \E n \in Nick : SrvQuit(n)
  BY <1>4, QuitCovered
<1>5. CASE \E n, m \in Nick : SrvNick(n, m)
  BY <1>5, NickCovered
<1>6. CASE \E c \in Chan, n \in Nick, s \in Sym, enab \in BOOLEAN : SrvMode(c, n, s, enab)
  BY <1>6, ModeCovered, Zenon
<1>7. CASE \E c \in Chan : SrvNames(c)
  BY <1>7, NamesCovered
<1> QED BY <1>1, <1>2, <1>3, <1>4, <1>5, <1>6, <1>7

LEMMA SameRest ==
  ASSUME NEW p \in Seq(Msgs), NEW q \in Seq(Msgs), NEW r \in Seq(Msgs), p \o q = p \o r
  PROVE  q = r
<1>1. /\ Len(p \o q) = Len(p) + Len(q) /\ Len(p \o r) = Len(p) + Len(r)
      /\ Len(p) \in Nat /\ Len(q) \in Nat /\ Len(r) \in Nat
      /\ \A i \in 1..Len(q) : (p \o q)[Len(p) + i] = q[i]
      /\ \A i \in 1..Len(r) : (p \o r)[Len(p) + i] = r[i]
  OBVIOUS
<1>2. Len(q) = Len(r)
  BY <1>1
<1>3. \A i \in 1..Len(q) : q[i] = r[i]
  BY <1>1, <1>2
<1> QED BY <1>2, <1>3

(* The server tells us of what it gives, as well as of who is where.        *)
LEMMA ServerGrants ==
  ASSUME SrvOk, inq \in Seq(Msgs), self \in Nick, "all" \notin AppNames, Server
  PROVE  \E q \in Seq(Msgs) : /\ inq' = inq \o q
                              /\ \A i \in 1..Len(q) : q[i].cmd # "005"
                              /\ Grants(q, SrvView, Syms, SrvView', Syms')
<1>1. SrvOk' /\ Informs
  BY ServerInforms DEF Informs
<1>2. PICK q \in Seq(Msgs) : /\ inq' = inq \o q
                             /\ \A i \in 1..Len(q) : q[i].cmd # "005"
                             /\ Leading(q, SrvView, SrvView')
  BY <1>1 DEF Informs
<1>3. PICK r \in Seq(Msgs) : inq' = inq \o r /\ Covers(r)
  BY <1>1, ServerCovered DEF Covered
<1>4. Covers(q)
  <2>1. q = r
    BY <1>2, <1>3, SameRest
  <2> QED BY <1>3, <2>1
<1>5. Leads({}, q, SrvView, SrvView')
  BY <1>2 DEF Leading
<1>6. PICK w : /\ w[0] = SrvView /\ w[Len(q)] = SrvView'
               /\ \A i \in 1..Len(q) : Step({}, w[i - 1], q[i], w[i])
  BY <1>5 DEF Leads
<1>7. PICK b : /\ b[0] = Syms /\ b[Len(q)] = Syms'
               /\ \A i \in 1..Len(q) : Allows(w[i - 1].me, b[i - 1], q[i], b[i])
  BY <1>4, <1>6 DEF Covers
<1>8. Good(SrvView)
  BY <1>5 DEF Leads
<1>9. Grants(q, SrvView, Syms, SrvView', Syms')
  BY <1>6, <1>7, <1>8 DEF Grants
<1> QED BY <1>2, <1>9

-----------------------------------------------------------------------------
(* The inductive invariant, again *)

(* While we are up, the symbols of the members are bounded by some that the *)
(* messages on their way turn into those the server gives.                  *)
Promised ==
  online /\ phase = "run" /\ Told =>
    \E u : Bounded(u) /\ Grants(inq, TrView, u, SrvView, Syms)

LEMMA SameBounds ==
  ASSUME UcTypeOK, SameShape, names' = names, \A c \in DOMAIN chans : chans'[c].memb = chans[c].memb,
         NEW u, Bounded(u)
  PROVE  Bounded(u)'
<1>1. DOMAIN chans' = DOMAIN chans
  BY DEF SameShape
<1> QED BY <1>1 DEF Bounded, KeysIn, Pfx

LEMMA FollowSyms ==
  ASSUME NEW q, Follow(q), online'
  PROVE  inq' = q /\ SrvView' = SrvView /\ Syms' = Syms
<1>1. inq' = q /\ self' = self /\ on' = on
  BY DEF Follow
<1> QED BY <1>1 DEF SrvView, In_, Syms, SymsOf

LEMMA TailTold ==
  ASSUME Session, inq # <<>>
  PROVE  \A i \in 1..Len(Tail(inq)) : Tail(inq)[i].cmd # "005"
<1> SUFFICES ASSUME NEW i \in 1..Len(Tail(inq)) PROVE Tail(inq)[i].cmd # "005"
  OBVIOUS
<1>1. i + 1 \in 1..Len(inq) /\ Tail(inq)[i] = inq[i + 1] /\ i + 1 # 1
  BY DEF Session
<1> QED BY <1>1 DEF Session

LEMMA PromisedServer ==
  ASSUME SyncInv, Assumed, Promised, Server
  PROVE  Promised'
<1> SUFFICES ASSUME online', phase' = "run", Told'
             PROVE  (\E u : Bounded(u) /\ Grants(inq, TrView, u, SrvView, Syms))'
  BY DEF Promised
<1>1. /\ UNCHANGED vars /\ SrvOk /\ Session /\ "all" \notin AppNames /\ inq \in Seq(Msgs)
  BY DEF SyncInv, Assumed, Session, Server
<1>2. /\ online /\ phase = "run" /\ tracking' = tracking /\ TrView' = TrView
      /\ \A u : Bounded(u) => Bounded(u)'
  BY <1>1 DEF vars, ucvars, conn, TrView, Nicks, Pending, KeysIn, Name, Bounded, Pfx
<1>3. self \in Nick
  BY <1>1, <1>2 DEF Session
<1>4. PICK q \in Seq(Msgs) : /\ inq' = inq \o q
                             /\ \A i \in 1..Len(q) : q[i].cmd # "005"
                             /\ Grants(q, SrvView, Syms, SrvView', Syms')
  BY <1>1, <1>3, ServerGrants
<1>5. PICK p \in Seq(Msgs) : p = inq
  BY <1>1
<1>6. Told
  <2>1. CASE tracking'
    BY <1>2, <2>1 DEF Told
  <2>2. CASE ~tracking'
    <3>1. PICK i \in 1..Len(p \o q) : (p \o q)[i].cmd = "005"
      BY <1>4, <1>5, <2>2 DEF Told
    <3>2. /\ Len(p \o q) = Len(p) + Len(q) /\ Len(p) \in Nat /\ Len(q) \in Nat
          /\ \A j \in 1..Len(p) : (p \o q)[j] = p[j]
          /\ \A j \in 1..Len(q) : (p \o q)[Len(p) + j] = q[j]
      OBVIOUS
    <3>3. i \in 1..Len(p)
      <4> SUFFICES ASSUME i > Len(p) PROVE FALSE
        BY <3>2
      <4>1. i - Len(p) \in 1..Len(q) /\ Len(p) + (i - Len(p)) = i
        BY <3>2
      <4>2. (p \o q)[i] = q[i - Len(p)]
        BY <3>2, <4>1
      <4> QED BY <1>4, <3>1, <4>1, <4>2
    <3> QED BY <1>5, <3>1, <3>2, <3>3 DEF Told
  <2> QED BY <2>1, <2>2
<1>7. PICK u : Bounded(u) /\ Grants(p, TrView, u, SrvView, Syms)
  BY <1>2, <1>5, <1>6 DEF Promised
<1>8. Grants(p \o q, TrView, u, SrvView', Syms')
  <2>1. PICK v, z, y, s, t : v = TrView /\ z = SrvView /\ y = SrvView' /\ s = Syms /\ t = Syms'
    OBVIOUS
  <2>2. Grants(p, v, u, z, s) /\ Grants(q, z, s, y, t)
    BY <1>4, <1>7, <2>1
  <2>3. Grants(p \o q, v, u, y, t)
    BY <2>2, GrantsOn
  <2> QED BY <2>1, <2>3
<1> QED BY <1>2, <1>4, <1>5, <1>7, <1>8

LEMMA PromisedHandle ==
  ASSUME SyncInv, Inv', Assumed, AllSorted, Promised, Receive,
         tracking \/ Head(inq).cmd \in {"005", "NICK"}
  PROVE  Promised'
<1> SUFFICES ASSUME online', phase' = "run", Told'
             PROVE  (\E u : Bounded(u) /\ Grants(inq, TrView, u, SrvView, Syms))'
  BY DEF Promised
<1>1. /\ Inv /\ Tidy /\ SrvOk /\ Session /\ names = <<>> /\ phase = "run" /\ online
      /\ inq \in Seq(Msgs) /\ inq # <<>> /\ {"rename", "strdup"} \cap FailSites = {}
      /\ ~tracking => DOMAIN chans = {}
      /\ Handle(Head(inq)) /\ Follow(Tail(inq))
  BY DEF SyncInv, Assumed, Session, Idle, Receive
<1>2. PICK m \in Msgs, q \in Seq(Msgs) : m = Head(inq) /\ q = Tail(inq)
  BY <1>1, HeadTail
<1>3. inq' = q /\ SrvView' = SrvView /\ Syms' = Syms
  BY <1>1, <1>2, FollowSyms
<1>4. Told
  <2>1. tracking'
    BY <1>1, <1>2, <1>3, TailTold DEF Told
  <2>2. m.cmd \in {"005", "NICK"} /\ ~tracking => m.cmd = "005"
    BY <1>1, <1>2, <2>1, Handles DEF h_NICK, conn
  <2>3. 1 \in 1..Len(inq) /\ inq[1] = m
    BY <1>1, <1>2
  <2> QED BY <1>2, <2>2, <2>3 DEF Told
<1>5. PICK v, z, t : v = TrView /\ z = SrvView /\ t = Syms
  OBVIOUS
<1>6. PICK u : Bounded(u) /\ Grants(inq, v, u, z, t)
  BY <1>1, <1>4, <1>5 DEF Promised
<1>7. PICK w, y : Step({}, v, m, w) /\ Allows(v.me, u, m, y) /\ Grants(q, w, y, z, t)
  BY <1>1, <1>2, <1>6, GrantsTail
<1>8. Good(v) /\ Good(w) /\ Tells(v, m, w)
  BY <1>1, <1>6, <1>7, GrantsTo DEF Step
<1>9. Ready(w)
  BY <1>1, <1>5, <1>8 DEF Ready
<1>10. Learns(w)
  BY <1>1, <1>2, <1>5, <1>8, <1>9, HandleLearns
<1>11. Bounded(y)'
  BY <1>1, <1>2, <1>5, <1>6, <1>7, <1>8, <1>9, HandleBounded
<1> QED BY <1>3, <1>5, <1>7, <1>10, <1>11 DEF Learns

LEMMA PromisedLoop ==
  ASSUME SyncInv, Promised, Loop
  PROVE  Promised'
<1> SUFFICES ASSUME online', phase' = "run", Told'
             PROVE  (\E u : Bounded(u) /\ Grants(inq, TrView, u, SrvView, Syms))'
  BY DEF Promised
<1>1. /\ Inv /\ Tidy /\ SrvOk /\ Session /\ Synced /\ NextName /\ Follow(inq)
      /\ inq \in Seq(Msgs) /\ names # <<>>
  BY DEF SyncInv, Session, Loop, NextName
<1>2. online /\ phase = "run" /\ tracking
  BY <1>1 DEF Inv, NamesOnline, Session
<1>3. Leads({}, inq, TrView, SrvView) /\ PendOk
  BY <1>1, <1>2 DEF Synced, Told
<1>4. Good(TrView)
  BY <1>3 DEF Leads
<1>5. TrView' = TrView
  BY <1>1, <1>2, <1>3, <1>4, LearnsName DEF Learns
<1>6. inq' = inq /\ SrvView' = SrvView /\ Syms' = Syms
  BY <1>1, FollowSyms
<1>7. PICK u : Bounded(u) /\ Grants(inq, TrView, u, SrvView, Syms)
  BY <1>2 DEF Promised, Told
<1>8. Bounded(u)'
  BY <1>1, <1>7, BoundedName
<1> QED BY <1>5, <1>6, <1>7, <1>8

LEMMA PromisedTag ==
  ASSUME SyncInv, Promised, UNCHANGED server, NEW t \in TagKinds,
         \/ \E n \in Nick : irc_tag_user(n, t)
         \/ \E c \in Chan : irc_tag_chan(c, t)
  PROVE  Promised'
<1>1. /\ Inv /\ Tidy /\ UcTypeOK /\ MembInv /\ t \in Tag
      /\ self' = self /\ on' = on /\ inq' = inq
  BY TidyRefs, TrackAssumption DEF SyncInv, Tidy, server
<1>2. Inv'
  BY <1>1, TagInv
<1>3. UNCHANGED <<online, mynick, tracking, endofnames, names, phase>>
  BY DEF irc_tag_user, irc_tag_chan, CarryOn, conn
<1>4. SameShape /\ UcTypeOK'
  BY <1>1, TagUserStep, TagChanStep DEF irc_tag_user, irc_tag_chan
<1>5. TrView' = TrView
  BY <1>1, <1>3, <1>4, KnowsSame
<1>6. SrvView' = SrvView /\ Syms' = Syms
  BY <1>1 DEF SrvView, In_, Syms, SymsOf
<1>7. \A c \in DOMAIN chans : chans'[c].memb = chans[c].memb
  <2>1. CASE \E n \in Nick : irc_tag_user(n, t)
    BY <2>1 DEF irc_tag_user, TagUser
  <2>2. CASE \E c \in Chan : irc_tag_chan(c, t)
    <3>1. PICK c \in Chan : chans' = [chans EXCEPT ![ChanKey[c]].tag = t]
      BY <2>2 DEF irc_tag_chan, TagChan
    <3> SUFFICES ASSUME NEW d \in DOMAIN chans PROVE chans'[d].memb = chans[d].memb
      OBVIOUS
    <3>2. chans[d] \in ChanRec(chans[d].memb)
      BY <1>1 DEF UcTypeOK
    <3> QED BY <3>1, <3>2 DEF ChanRec
  <2> QED BY <2>1, <2>2
<1>8. \A u : Bounded(u) => Bounded(u)'
  BY <1>1, <1>3, <1>4, <1>7, SameBounds
<1> QED BY <1>1, <1>3, <1>5, <1>6, <1>8 DEF Promised, Told

(* A new connection: we have no channel.                                    *)
LEMMA PromisedConnect ==
  ASSUME SyncInv, SyncInv', Connects
  PROVE  Promised'
<1> SUFFICES ASSUME online', Told'
             PROVE  (\E u : Bounded(u) /\ Grants(inq, TrView, u, SrvView, Syms))'
  BY DEF Promised
<1>1. Inv /\ Tidy /\ SrvOk /\ Session /\ irc_connect /\ SrvOk' /\ Synced'
  BY DEF SyncInv, Connects
<1>2. DOMAIN chans' = {} /\ names' = <<>> /\ phase' = "run"
  <2>1. phase' = "run" /\ tracking' = FALSE
    BY <1>1 DEF irc_connect
  <2> QED BY <2>1 DEF SyncInv, Session
<1>3. PICK m \in Msgs : m.cmd = "005" /\ inq' = <<m>>
  <2>1. [cmd |-> "005"] \in [cmd : {"366", "005"}]
    OBVIOUS
  <2>2. [cmd |-> "005"] \in Msgs
    BY <2>1 DEF Msgs
  <2> QED BY <2>2 DEF Connects
<1>4. PICK v, z : v = TrView' /\ z = SrvView'
  OBVIOUS
<1>5. Leads({}, <<m>>, v, z)
  BY <1>1, <1>2, <1>3, <1>4 DEF Synced
<1>6. Good(v) /\ Step({}, v, m, z)
  <2>1. PICK w : /\ w[0] = v /\ w[Len(<<m>>)] = z
                 /\ \A i \in 1..Len(<<m>>) : Step({}, w[i - 1], <<m>>[i], w[i])
    BY <1>5 DEF Leads
  <2>2. Len(<<m>>) = 1 /\ <<m>>[1] = m /\ 1 - 1 = 0
    OBVIOUS
  <2>3. Step({}, w[1 - 1], <<m>>[1], w[1])
    BY <2>1, <2>2
  <2> QED BY <1>5, <2>1, <2>2, <2>3 DEF Leads
<1>7. PICK y : y = Syms'
  OBVIOUS
<1>8. Allows(v.me, y, m, y)
  BY <1>3 DEF Allows, More
<1>9. Grants(<<m>>, v, y, z, y)
  BY <1>6, <1>8, GrantsOne
<1>10. Bounded(y)'
  BY <1>2, BoundedIf
<1> QED BY <1>3, <1>4, <1>7, <1>9, <1>10

LEMMA PromisedStep ==
  ASSUME Assumed, SyncInv, SyncInv', AllSorted, Promised, [ServerNext]_allvars
  PROVE  Promised'
<1>1. CASE Server
  BY <1>1, PromisedServer
<1>2. CASE Receive
  <2>1. CASE tracking \/ Head(inq).cmd \in {"005", "NICK"}
    BY <1>2, <2>1, PromisedHandle DEF SyncInv
  <2>2. CASE ~(tracking \/ Head(inq).cmd \in {"005", "NICK"})
    <3> SUFFICES ASSUME online', Told' PROVE FALSE
      BY DEF Promised
    <3>1. UNCHANGED vars /\ ~tracking /\ inq' = Tail(inq) /\ inq # <<>>
      BY <1>2, <2>2, FollowSyms DEF Receive
    <3> QED BY <3>1, TailTold DEF vars, conn, Told, SyncInv
  <2> QED BY <2>1, <2>2
<1>3. CASE Loop
  BY <1>3, PromisedLoop
<1>4. ASSUME NEW n \in Nick, NEW t \in TagKinds, irc_tag_user(n, t), UNCHANGED server
      PROVE  Promised'
  BY <1>4, PromisedTag
<1>5. ASSUME NEW c \in Chan, NEW t \in TagKinds, irc_tag_chan(c, t), UNCHANGED server
      PROVE  Promised'
  BY <1>5, PromisedTag
<1>6. CASE Lost
  BY <1>6 DEF Lost, Promised
<1>7. ASSUME NEW p \in {"connect", "dispose"}, lsi_trk_deinit(p) PROVE Promised'
  BY <1>7 DEF lsi_trk_deinit, Promised
<1>8. CASE ClearNext
  BY <1>8 DEF ClearNext, CarryOn, Promised
<1>9. CASE Connects
  BY <1>9, PromisedConnect
<1>10. CASE irc_dispose \/ UseFreed
  BY <1>10 DEF irc_dispose, UseFreed, Promised
<1>11. CASE UNCHANGED allvars
  <2>1. UNCHANGED vars /\ UNCHANGED server
    BY <1>11 DEF allvars
  <2>2. /\ online' = online /\ phase' = phase /\ tracking' = tracking /\ inq' = inq
        /\ SrvView' = SrvView /\ TrView' = TrView /\ Syms' = Syms
        /\ \A u : Bounded(u) => Bounded(u)'
    BY <2>1 DEF vars, conn, ucvars, server, SrvView, In_, TrView, Nicks, Pending, KeysIn, Name,
                Bounded, Pfx, Syms, SymsOf
  <2> QED BY <2>2 DEF Promised, Told
<1> QED BY <1>1, <1>2, <1>3, <1>4, <1>5, <1>6, <1>7, <1>8, <1>9, <1>10, <1>11
        DEF ServerNext, Client

(* The prefix symbols that ucbase.c keeps with a member, in the order of    *)
(* the 005 PREFIX attribute, are those the server gave it: h_353 copies     *)
(* them, lsi_ucb_update_modepfx inserts and removes them for h_MODE, and a  *)
(* rename moves them to another key.  None is kept that has been taken.     *)
THEOREM PrefixesCorrect == Assumed => (SafeSpec => []PrefixesTrue)
<1> SUFFICES ASSUME Assumed PROVE SafeSpec => []PrefixesTrue
  OBVIOUS
<1>1. ServerInit => SyncInv /\ AllSorted /\ Promised
  BY SyncInit, SortedInit DEF ServerInit, Init, Promised
<1>2. SyncInv /\ AllSorted /\ Promised /\ [ServerNext]_allvars => (SyncInv /\ AllSorted /\ Promised)'
  <2> SUFFICES ASSUME SyncInv, AllSorted, Promised, [ServerNext]_allvars
               PROVE  SyncInv' /\ AllSorted' /\ Promised'
    OBVIOUS
  <2>1. SyncInv'
    BY SyncStep
  <2>2. AllSorted'
    BY ServerAny, SortedStep DEF Assumed, SyncInv, Tidy
  <2> QED BY <2>1, <2>2, PromisedStep
<1>3. SyncInv /\ AllSorted /\ Promised => PrefixesTrue
  <2> SUFFICES ASSUME SyncInv, AllSorted, Promised PROVE PrefixesTrue
    OBVIOUS
  <2>1. \A c \in DOMAIN chans : \A k \in DOMAIN chans[c].memb : Sorted(chans[c].memb[k].pfx)
    BY DEF AllSorted, KeysIn, Pfx
  <2>2. ASSUME CaughtUp, NEW c \in Chan, In_(c), NEW n \in Members(c)
        PROVE  Range(chans[ChanKey[c]].memb[NickKey[n]].pfx) \subseteq on[c][n]
    <3>1. /\ SrvOk /\ inq = <<>> /\ inq \in Seq(Msgs) /\ online /\ phase = "run" /\ tracking
          /\ ChanKey[c] = c
      BY <2>2, UpToDate, ServerAssumption DEF CaughtUp, SyncInv, Session
    <3>2. PICK u : Bounded(u) /\ Grants(inq, TrView, u, SrvView, Syms)
      BY <3>1 DEF Promised, Told
    <3>3. PICK v, z, y : v = TrView /\ z = SrvView /\ y = Syms
      OBVIOUS
    <3>4. Bounded(Syms)
      BY <3>1, <3>2, <3>3, GrantsTo
    <3>5. c \in DOMAIN chans /\ NickKey[n] \in KeysIn(c)
      <4>1. InSync
        BY <2>2, ViewNowMatches DEF ViewMatches
      <4> QED BY <2>2, <3>1, <4>1 DEF InSync, KeysIn
    <3>6. Syms[c][NickKey[n]] = on[c][n]
      <4>1. DOMAIN on[c] \subseteq Nick /\ n \in DOMAIN on[c] /\ on[c][n] \subseteq Sym
        BY <2>2, <3>1 DEF SrvOk, Members
      <4>2. DOMAIN on[c] \subseteq Online
        BY OnlineIs
      <4>3. KeyInj(DOMAIN on[c])
        BY <3>1, <4>2, KeyInjSub DEF SrvOk
      <4> QED BY <2>2, <4>1, <4>3, SymsHas DEF Syms, In_
    <3>7. Range(Pfx(c, NickKey[n])) \subseteq Syms[c][NickKey[n]]
      BY <3>4, <3>5 DEF Bounded
    <3> QED BY <3>1, <3>6, <3>7 DEF Pfx
  <2> QED BY <2>1, <2>2 DEF PrefixesTrue
<1> QED BY <1>1, <1>2, <1>3, PTL DEF SafeSpec

=============================================================================
