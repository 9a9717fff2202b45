---------------------------- MODULE TrackProofs ----------------------------
(***************************************************************************)
(* Proofs about module Track, for any server, any number of nicknames and   *)
(* channels, and any pattern of allocation failures.                        *)
(***************************************************************************)
EXTENDS Track, FiniteSetTheorems, SequenceTheorems, TLAPS

-----------------------------------------------------------------------------
(* Sets *)

(* Taking an element out of a finite set.                                   *)
LEMMA CardTake ==
  ASSUME NEW S, NEW x \in S, IsFiniteSet(S)
  PROVE  Cardinality(S \ {x}) = Cardinality(S) - 1 /\ Cardinality(S) \in Nat
  BY FS_RemoveElement, FS_CardinalityType

(* A set with at most one element that contains x is {x}.                   *)
LEMMA CardOne ==
  ASSUME NEW S, NEW x \in S, IsFiniteSet(S), Cardinality(S) <= 1
  PROVE  S = {x}
<1>1. Cardinality(S \ {x}) <= 0 /\ IsFiniteSet(S \ {x})
  BY CardTake, FS_RemoveElement
<1>2. Cardinality(S \ {x}) = 0
  BY <1>1, FS_CardinalityType
<1> QED BY <1>1, <1>2, FS_EmptySet

(* Taking a subset out of a finite set.                                     *)
LEMMA CardSplit ==
  ASSUME NEW S, NEW T \in SUBSET S, IsFiniteSet(S)
  PROVE  /\ Cardinality(T) \in Nat /\ Cardinality(S \ T) \in Nat
         /\ Cardinality(S \ T) + Cardinality(T) = Cardinality(S)
<1>1. IsFiniteSet(T) /\ IsFiniteSet(S \ T)
  BY FS_Subset
<1>2. /\ T \cap (S \ T) = {} /\ T \cup (S \ T) = S
  OBVIOUS
<1>3. Cardinality(T \cup (S \ T))
        = Cardinality(T) + Cardinality(S \ T) - Cardinality(T \cap (S \ T))
  BY <1>1, FS_Union
<1>4. Cardinality(S) = Cardinality(T) + Cardinality(S \ T) - 0
  BY <1>2, <1>3, FS_EmptySet
<1>5. Cardinality(T) \in Nat /\ Cardinality(S \ T) \in Nat
  BY <1>1, FS_CardinalityType
<1> QED BY <1>4, <1>5

(* A set with at most one more element.                                     *)
LEMMA CardGrow ==
  ASSUME NEW S, NEW x, IsFiniteSet(S), NEW T \in SUBSET (S \cup {x})
  PROVE  Cardinality(T) <= Cardinality(S) + 1
<1>1. /\ IsFiniteSet(S \cup {x})
      /\ Cardinality(S \cup {x}) = IF x \in S THEN Cardinality(S) ELSE Cardinality(S) + 1
  BY FS_AddElement
<1>2. Cardinality(T) <= Cardinality(S \cup {x}) /\ IsFiniteSet(T)
  BY <1>1, FS_Subset
<1>3. Cardinality(S) \in Nat /\ Cardinality(T) \in Nat
  BY <1>2, FS_CardinalityType
<1> QED BY <1>1, <1>2, <1>3

(* The channels that point to an object are finitely many.                  *)
LEMMA RefChansFinite ==
  ASSUME UcTypeOK, NEW o
  PROVE  IsFiniteSet(RefChans(o)) /\ Cardinality(RefChans(o)) \in Nat
<1>1. RefChans(o) \in SUBSET Chan
  BY DEF UcTypeOK, RefChans
<1> QED BY <1>1, FiniteAssumption, FS_Subset, FS_CardinalityType

LEMMA RefChansFinitePrime ==
  ASSUME UcTypeOK', NEW o
  PROVE  IsFiniteSet(RefChans(o)') /\ Cardinality(RefChans(o)') \in Nat
<1>1. RefChans(o)' \in SUBSET Chan
  BY DEF UcTypeOK, RefChans
<1> QED BY <1>1, FiniteAssumption, FS_Subset, FS_CardinalityType

(* An object counted once is in one channel only.                           *)
LEMMA OnlyChan ==
  ASSUME UcTypeOK, MembInv, NEW c \in DOMAIN chans, NEW o \in Refs(c), uobj[o].nchans = 1
  PROVE  RefChans(o) = {c}
<1>1. o \in DOMAIN uobj /\ c \in RefChans(o)
  BY DEF MembInv, MembLive, RefChans
<1>2. Cardinality(RefChans(o)) <= 1
  BY <1>1 DEF MembInv, NchansEnough
<1> QED BY <1>1, <1>2, RefChansFinite, CardOne

-----------------------------------------------------------------------------
(* Removing members *)

(* chans' is chans without the members under the keys K of channel c, or    *)
(* without c.                                                               *)
Without(c, K) ==
  /\ chans' = [d \in DOMAIN chans' |-> chans'[d]]
  /\ DOMAIN chans \ {c} \subseteq DOMAIN chans' /\ DOMAIN chans' \subseteq DOMAIN chans
  /\ \A d \in DOMAIN chans' \ {c} : chans'[d] = chans[d]
  /\ IF c \in DOMAIN chans'
     THEN /\ chans'[c].memb = Restrict(chans[c].memb, DOMAIN chans[c].memb \ K)
          /\ chans'[c] \in ChanRec(chans'[c].memb)
     ELSE K = DOMAIN chans[c].memb

Us(c, K) == {chans[c].memb[k].u : k \in K}

(* What is left of the members, and of the channels that point to o.        *)
LEMMA WithoutMemb ==
  ASSUME UcTypeOK, NEW c \in DOMAIN chans, NEW K \in SUBSET DOMAIN chans[c].memb,
         Without(c, K), NEW d \in DOMAIN chans'
  PROVE  /\ DOMAIN chans'[d].memb \subseteq DOMAIN chans[d].memb
         /\ d = c => DOMAIN chans'[d].memb = DOMAIN chans[d].memb \ K
         /\ d # c => DOMAIN chans'[d].memb = DOMAIN chans[d].memb
         /\ \A k \in DOMAIN chans'[d].memb : chans'[d].memb[k] = chans[d].memb[k]
         /\ IsMap(chans'[d].memb, Nick, Memb)
         /\ chans'[d] \in ChanRec(chans'[d].memb)
  BY DEF Without, UcTypeOK, Restrict, IsMap

LEMMA WithoutRefs ==
  ASSUME UcTypeOK, MembInv, NEW c \in DOMAIN chans, NEW K \in SUBSET DOMAIN chans[c].memb,
         Without(c, K), NEW o
  PROVE  /\ o \in Us(c, K) => RefChans(o)' = RefChans(o) \ {c}
         /\ o \notin Us(c, K) => RefChans(o)' = RefChans(o)
<1>1. \A d \in DOMAIN chans' \ {c} : Refs(d)' = Refs(d)
  BY WithoutMemb DEF Without, Refs
<1>2. c \in DOMAIN chans' => Refs(c)' = Refs(c) \ Us(c, K)
  <2>1. \A i, j \in DOMAIN chans[c].memb : chans[c].memb[i].u = chans[c].memb[j].u => i = j
    BY DEF MembInv, OncePerChan
  <2> QED BY <2>1, WithoutMemb DEF Refs, Us
<1>3. c \notin DOMAIN chans' => Refs(c) = Us(c, K)
  BY DEF Without, Refs, Us
<1>4. Us(c, K) \subseteq Refs(c)
  BY DEF Us, Refs
<1> QED BY <1>1, <1>2, <1>3, <1>4 DEF RefChans, Without

(* Release on the objects the removed members point to, which is how        *)
(* ClearMemb, DropChan, ClearChan and DropMemb go about it.                 *)
LEMMA ReleaseObjs ==
  ASSUME UcTypeOK, MembInv, NEW c \in DOMAIN chans, NEW K \in SUBSET DOMAIN chans[c].memb,
         Release(Us(c, K))
  PROVE  /\ Us(c, K) \subseteq DOMAIN uobj
         /\ DOMAIN uobj' = DOMAIN uobj \ Dying(Us(c, K))
         /\ \A o \in DOMAIN uobj' :
              /\ uobj'[o].nick = uobj[o].nick /\ uobj'[o].tag = uobj[o].tag
              /\ uobj'[o].nchans = IF o \in Us(c, K) THEN uobj[o].nchans - 1
                                                     ELSE uobj[o].nchans
         /\ IsMap(uobj', Obj, UserRec)
<1>1. Us(c, K) \subseteq Refs(c) /\ Refs(c) \subseteq DOMAIN uobj
  BY DEF Us, Refs, MembInv, MembLive
<1>2. /\ DOMAIN uobj' = DOMAIN uobj \ Dying(Us(c, K))
      /\ \A o \in DOMAIN uobj' :
           uobj'[o] = IF o \in Us(c, K) THEN [uobj[o] EXCEPT !.nchans = @ - 1] ELSE uobj[o]
  BY DEF Release
<1>3. \A o \in DOMAIN uobj : uobj[o] \in UserRec
  BY DEF UcTypeOK, IsMap
<1>4. \A o \in DOMAIN uobj' :
        /\ uobj'[o].nick = uobj[o].nick /\ uobj'[o].tag = uobj[o].tag
        /\ uobj'[o].nchans = IF o \in Us(c, K) THEN uobj[o].nchans - 1 ELSE uobj[o].nchans
  BY <1>2, <1>3 DEF UserRec
<1>5. ASSUME NEW o \in DOMAIN uobj' PROVE uobj'[o] \in UserRec
  <2>1. CASE o \in Us(c, K)
    <3>1. c \in RefChans(o)
      BY <1>1, <2>1 DEF RefChans
    <3>2. RefChans(o) # {} /\ IsFiniteSet(RefChans(o))
      BY <3>1, RefChansFinite
    <3>3. 1 <= Cardinality(RefChans(o))
      BY <3>2, FS_EmptySet, RefChansFinite
    <3>4. 1 <= uobj[o].nchans
      BY <3>3, <1>2, <1>3, RefChansFinite DEF MembInv, NchansEnough, UserRec
    <3> QED BY <2>1, <3>4, <1>2, <1>3 DEF UserRec
  <2> QED BY <2>1, <1>2, <1>3
<1>6. IsMap(uobj', Obj, UserRec)
  <2>1. uobj' = [o \in DOMAIN uobj' |-> uobj'[o]]
    BY DEF Release
  <2>2. DOMAIN uobj' \subseteq Obj
    BY <1>2 DEF UcTypeOK, IsMap
  <2> QED BY <1>5, <2>1, <2>2 DEF IsMap
<1> QED BY <1>1, <1>2, <1>4, <1>6

LEMMA ReleaseUsers ==
  ASSUME UcTypeOK, NEW O, Release(O)
  PROVE  /\ DOMAIN users' \subseteq DOMAIN users
         /\ \A k \in DOMAIN users' : users'[k] = users[k]
         /\ \A k \in DOMAIN users' : \A o \in Dying(O) : NickKey[uobj[o].nick] # k
         /\ IsMap(users', Nick, Obj)
<1>1. users' = Restrict(users, DOMAIN users \ {NickKey[uobj[o].nick] : o \in Dying(O)})
  BY DEF Release
<1> QED BY <1>1 DEF UcTypeOK, IsMap, Restrict

LEMMA ReleaseStep ==
  ASSUME UcTypeOK, MembInv, NEW c \in DOMAIN chans, NEW K \in SUBSET DOMAIN chans[c].memb,
         Release(Us(c, K)), Without(c, K), owned' \in Int
  PROVE  UcTypeOK' /\ MembInv' /\ (UsersInv => UsersInv')
<1> DEFINE O == Us(c, K)
<1>1. /\ O \subseteq DOMAIN uobj
      /\ DOMAIN uobj' = DOMAIN uobj \ Dying(O)
      /\ \A o \in DOMAIN uobj' :
           /\ uobj'[o].nick = uobj[o].nick /\ uobj'[o].tag = uobj[o].tag
           /\ uobj'[o].nchans = IF o \in O THEN uobj[o].nchans - 1 ELSE uobj[o].nchans
      /\ IsMap(uobj', Obj, UserRec)
  BY ReleaseObjs
<1>2. /\ DOMAIN users' \subseteq DOMAIN users
      /\ \A k \in DOMAIN users' : users'[k] = users[k]
      /\ \A k \in DOMAIN users' : \A o \in Dying(O) : NickKey[uobj[o].nick] # k
      /\ IsMap(users', Nick, Obj)
  BY ReleaseUsers
<1>3. \A d \in DOMAIN chans' :
        /\ DOMAIN chans'[d].memb \subseteq DOMAIN chans[d].memb
        /\ \A k \in DOMAIN chans'[d].memb : chans'[d].memb[k] = chans[d].memb[k]
        /\ IsMap(chans'[d].memb, Nick, Memb)
        /\ chans'[d] \in ChanRec(chans'[d].memb)
  BY WithoutMemb
<1>4. \A o : /\ o \in O => RefChans(o)' = RefChans(o) \ {c}
             /\ o \notin O => RefChans(o)' = RefChans(o)
  BY WithoutRefs
<1> HIDE DEF O
<1>5. DOMAIN chans' \subseteq DOMAIN chans
  BY DEF Without
<1>6. UcTypeOK'
  BY <1>1, <1>2, <1>3 DEF UcTypeOK, Without
<1>7. MembLive'
  <2> SUFFICES ASSUME NEW d \in DOMAIN chans', NEW o \in Refs(d)'
               PROVE  o \in DOMAIN uobj'
    BY DEF MembLive
  <2>1. d \in RefChans(o)'
    BY DEF RefChans
  <2>2. d \in RefChans(o)
    BY <1>4, <2>1
  <2>3. o \in DOMAIN uobj
    BY <2>2 DEF RefChans, MembInv, MembLive
  <2>4. CASE o \in Dying(O)
    <3>1. o \in Refs(c) /\ o \in O /\ uobj[o].nchans = 1
      BY <2>4 DEF Dying, O, Us, Refs
    <3>2. RefChans(o) = {c}
      BY <3>1, OnlyChan
    <3> QED BY <2>1, <3>1, <3>2, <1>4
  <2> QED BY <2>3, <2>4, <1>1
<1>8. OncePerChan'
  BY <1>3, <1>5 DEF MembInv, OncePerChan
<1>9. NchansEnough'
  <2> SUFFICES ASSUME NEW o \in DOMAIN uobj'
               PROVE  Cardinality(RefChans(o)') <= uobj'[o].nchans
    BY DEF NchansEnough
  <2>1. o \in DOMAIN uobj
    BY <1>1
  <2>2. Cardinality(RefChans(o)) <= uobj[o].nchans /\ uobj[o].nchans \in Nat
    BY <2>1 DEF MembInv, NchansEnough, UcTypeOK, IsMap, UserRec
  <2>3. CASE o \in O
    <3>1. c \in RefChans(o)
      BY <2>3 DEF O, Us, RefChans, Refs
    <3>2. /\ Cardinality(RefChans(o) \ {c}) = Cardinality(RefChans(o)) - 1
          /\ Cardinality(RefChans(o)) \in Nat
      BY <3>1, CardTake, RefChansFinite
    <3>3. RefChans(o)' = RefChans(o) \ {c} /\ uobj'[o].nchans = uobj[o].nchans - 1
      BY <2>3, <1>1, <1>4
    <3> QED BY <2>2, <3>2, <3>3
  <2>4. CASE o \notin O
    BY <2>2, <2>4, <1>1, <1>4
  <2> QED BY <2>3, <2>4
<1>10. ASSUME UsersInv PROVE UsersInv'
  <2>1. UsersLive'
    <3> SUFFICES ASSUME NEW k \in DOMAIN users'
                 PROVE  users'[k] \in DOMAIN uobj' /\ NickKey[uobj'[users'[k]].nick] = k
      BY DEF UsersLive
    <3>1. users'[k] = users[k] /\ users[k] \in DOMAIN uobj /\ NickKey[uobj[users[k]].nick] = k
      BY <1>2, <1>10 DEF UsersInv, UsersLive
    <3>2. users[k] \notin Dying(O)
      BY <3>1, <1>2
    <3> QED BY <3>1, <3>2, <1>1
  <2>2. KeysAgree'
    BY <1>2, <1>3, <1>5, <1>10 DEF UsersInv, KeysAgree
  <2> QED BY <2>1, <2>2 DEF UsersInv
<1> QED BY <1>6, <1>7, <1>8, <1>9, <1>10 DEF MembInv

(* What the operations below owe: Keeps is the conclusion of each.          *)
Keeps == UcTypeOK' /\ MembInv' /\ UsersInv'

LEMMA Stutter ==
  ASSUME UcTypeOK, MembInv, UNCHANGED ucvars
  PROVE  UcTypeOK' /\ MembInv' /\ (UsersInv => UsersInv')
<1>1. users' = users /\ uobj' = uobj /\ chans' = chans /\ owned' = owned
  BY DEF ucvars
<1>2. \A o : RefChans(o)' = RefChans(o)
  BY <1>1 DEF RefChans, Refs
<1>3. UcTypeOK'
  BY <1>1 DEF UcTypeOK
<1>4. MembInv'
  BY <1>1, <1>2 DEF MembInv, MembLive, OncePerChan, NchansEnough, Refs
<1>5. UsersInv => UsersInv'
  BY <1>1 DEF UsersInv, UsersLive, KeysAgree
<1> QED BY <1>3, <1>4, <1>5

(* Tags are counted by integers.                                            *)
LEMMA TagsInt ==
  ASSUME UcTypeOK, NEW O, O \subseteq DOMAIN uobj
  PROVE  UserTags(O) \in Int
<1>1. {o \in O : uobj[o].tag = "auto"} \in SUBSET Obj
  BY DEF UcTypeOK, IsMap
<1> QED BY <1>1, FiniteAssumption, FS_Subset, FS_CardinalityType DEF UserTags

LEMMA DyingTagsInt ==
  ASSUME UcTypeOK, MembInv, NEW c \in DOMAIN chans, NEW O \in SUBSET Refs(c)
  PROVE  UserTags(Dying(O)) \in Int
<1>1. Dying(O) \subseteq DOMAIN uobj
  BY DEF Dying, MembInv, MembLive
<1> QED BY <1>1, TagsInt

(* A channel that is gone, or has no members any more.                      *)
LEMMA EmptyChan ==
  ASSUME UcTypeOK, MembInv, NEW c \in DOMAIN chans,
         ClearMemb(c) \/ DropChan(c) \/ ClearChan(c)
  PROVE  UcTypeOK' /\ MembInv' /\ (UsersInv => UsersInv')
<1> DEFINE K == DOMAIN chans[c].memb
<1>1. Refs(c) = Us(c, K) /\ K \in SUBSET DOMAIN chans[c].memb
  BY DEF Refs, Us
<1>2. Release(Us(c, K))
  BY <1>1 DEF ClearMemb, DropChan, ClearChan
<1>3. owned' \in Int
  <2>1. UserTags(Dying(Refs(c))) \in Int /\ ChanTags(c) \in Int /\ owned \in Int
    BY DyingTagsInt DEF ChanTags, UcTypeOK
  <2> QED BY <2>1 DEF ClearMemb, DropChan, ClearChan
<1>4. Without(c, K)
  <2>1. CASE ClearMemb(c)
    <3>1. chans' = [chans EXCEPT ![c].memb = EmptyMap]
      BY <2>1 DEF ClearMemb
    <3>2. Restrict(chans[c].memb, K \ K) = EmptyMap
      BY DEF Restrict, EmptyMap
    <3>3. chans[c] \in ChanRec(chans[c].memb) /\ chans = [d \in DOMAIN chans |-> chans[d]]
      BY DEF UcTypeOK
    <3>4. chans'[c].memb = EmptyMap /\ chans'[c] \in ChanRec(EmptyMap)
      BY <3>1, <3>3 DEF ChanRec
    <3> QED BY <3>1, <3>2, <3>3, <3>4 DEF Without
  <2>2. CASE DropChan(c) \/ ClearChan(c)
    BY <2>2 DEF DropChan, ClearChan, Del, Restrict, Without
  <2> QED BY <2>1, <2>2
<1> HIDE DEF K
<1> QED BY <1>1, <1>2, <1>3, <1>4, ReleaseStep

(* lsi_ucb_drop_memb                                                        *)
LEMMA DropMembStep ==
  ASSUME UcTypeOK, MembInv, UsersInv, NEW c \in DOMAIN chans, NEW u, DropMemb(c, u)
  PROVE  Keeps
<1> DEFINE k == NickKey[uobj[u].nick]
           m == chans[c].memb
<1>1. CASE k \notin DOMAIN m
  <2>1. UNCHANGED ucvars
    BY <1>1 DEF DropMemb
  <2> QED BY <2>1, Stutter DEF Keeps
<1>2. CASE k \in DOMAIN m
  <2>1. /\ Release({m[k].u})
        /\ chans' = [chans EXCEPT ![c].memb = Del(m, k)]
        /\ owned' = owned - UserTags(Dying({m[k].u}))
    BY <1>2 DEF DropMemb
  <2>2. Us(c, {k}) = {m[k].u} /\ {m[k].u} \in SUBSET Refs(c)
    BY <1>2 DEF Us, Refs
  <2>3. owned' \in Int
    <3>1. UserTags(Dying({m[k].u})) \in Int
      BY <2>2, DyingTagsInt
    <3>2. owned \in Int
      BY DEF UcTypeOK
    <3>3. PICK x \in Int : x = UserTags(Dying({m[k].u}))
      BY <3>1
    <3>4. owned' = owned - x
      BY <2>1, <3>3
    <3> QED BY <3>2, <3>4
  <2>4. Without(c, {k})
    <3>1. Restrict(m, DOMAIN m \ {k}) = Del(m, k)
      BY DEF Del
    <3>2. chans[c] \in ChanRec(m) /\ chans = [d \in DOMAIN chans |-> chans[d]]
      BY DEF UcTypeOK
    <3>3. chans'[c].memb = Del(m, k) /\ chans'[c] \in ChanRec(Del(m, k))
      BY <2>1, <3>2 DEF ChanRec
    <3> QED BY <2>1, <3>1, <3>2, <3>3 DEF Without
  <2>5. {k} \in SUBSET DOMAIN m
    BY <1>2
  <2> HIDE DEF k, m
  <2>6. {k} \in SUBSET DOMAIN chans[c].memb
    BY <2>5 DEF m
  <2> QED BY <2>1, <2>2, <2>3, <2>4, <2>6, ReleaseStep DEF Keeps
<1> QED BY <1>1, <1>2

(* Key q goes from every channel, and the objects X, which channels point   *)
(* to under q only, are freed: part of lsi_ucb_drop_user.                   *)
LEMMA Unlink ==
  ASSUME UcTypeOK, MembInv, NEW q, NEW X,
         \A o \in X : RefChans(o) \subseteq RefsAt(q, o), UnlinkKey(q, X)
  PROVE  /\ DOMAIN chans' = DOMAIN chans
         /\ \A c \in DOMAIN chans :
              /\ DOMAIN chans'[c].memb = DOMAIN chans[c].memb \ {q}
              /\ \A j \in DOMAIN chans'[c].memb : chans'[c].memb[j] = chans[c].memb[j]
              /\ IsMap(chans'[c].memb, Nick, Memb) /\ chans'[c] \in ChanRec(chans'[c].memb)
         /\ chans' = [c \in DOMAIN chans' |-> chans'[c]]
         /\ DOMAIN uobj' = DOMAIN uobj \ X
         /\ \A o \in DOMAIN uobj' : uobj'[o].nick = uobj[o].nick
         /\ IsMap(uobj', Obj, UserRec)
         /\ MembInv'
<1>1. \A c \in DOMAIN chans :
        /\ DOMAIN chans'[c].memb = DOMAIN chans[c].memb \ {q}
        /\ \A j \in DOMAIN chans'[c].memb : chans'[c].memb[j] = chans[c].memb[j]
        /\ IsMap(chans'[c].memb, Nick, Memb) /\ chans'[c] \in ChanRec(chans'[c].memb)
  BY DEF UnlinkKey, UcTypeOK, IsMap, ChanRec, Del, Restrict
<1>2. /\ DOMAIN chans' = DOMAIN chans /\ chans' = [c \in DOMAIN chans' |-> chans'[c]]
      /\ DOMAIN uobj' = DOMAIN uobj \ X /\ uobj' = [o \in DOMAIN uobj' |-> uobj'[o]]
  BY DEF UnlinkKey
<1>3. \A o : RefChans(o)' = RefChans(o) \ RefsAt(q, o)
  <2> SUFFICES ASSUME NEW o, NEW c \in DOMAIN chans
               PROVE  o \in Refs(c)' <=> o \in Refs(c) /\ c \notin RefsAt(q, o)
    BY <1>2 DEF RefChans
  <2>1. \A i, j \in DOMAIN chans[c].memb : chans[c].memb[i].u = chans[c].memb[j].u => i = j
    BY DEF MembInv, OncePerChan
  <2> QED BY <1>1, <2>1 DEF Refs, RefsAt, ChansWith
<1>4. \A o : RefsAt(q, o) \in SUBSET RefChans(o)
  BY DEF RefsAt, ChansWith, RefChans, Refs
<1>5. \A o \in DOMAIN uobj' :
        /\ uobj'[o] \in UserRec /\ uobj'[o].nick = uobj[o].nick
        /\ Cardinality(RefChans(o)') <= uobj'[o].nchans
  <2> SUFFICES ASSUME NEW o \in DOMAIN uobj \ X
               PROVE  /\ uobj'[o] \in UserRec /\ uobj'[o].nick = uobj[o].nick
                      /\ Cardinality(RefChans(o)') <= uobj'[o].nchans
    BY <1>2
  <2>1. uobj[o] \in UserRec /\ Cardinality(RefChans(o)) <= uobj[o].nchans
    BY DEF UcTypeOK, IsMap, MembInv, NchansEnough
  <2>2. /\ IsFiniteSet(RefChans(o)) /\ Cardinality(RefChans(o)) \in Nat
        /\ Cardinality(RefsAt(q, o)) \in Nat /\ Cardinality(RefChans(o)') \in Nat
        /\ Cardinality(RefChans(o)') + Cardinality(RefsAt(q, o)) = Cardinality(RefChans(o))
    BY <1>3, <1>4, RefChansFinite, CardSplit
  <2>3. uobj'[o] = [uobj[o] EXCEPT !.nchans = @ - Cardinality(RefsAt(q, o))]
    BY DEF UnlinkKey
  <2> QED BY <2>1, <2>2, <2>3 DEF UserRec
<1>6. IsMap(uobj', Obj, UserRec)
  BY <1>2, <1>5 DEF UcTypeOK, IsMap
<1>7. MembLive'
  <2> SUFFICES ASSUME NEW c \in DOMAIN chans', NEW o \in Refs(c)'
               PROVE  o \in DOMAIN uobj'
    BY DEF MembLive
  <2>1. c \in RefChans(o)'
    BY DEF RefChans
  <2>2. o \in DOMAIN uobj /\ o \notin X
    BY <2>1, <1>3 DEF RefChans, MembInv, MembLive
  <2> QED BY <1>2, <2>2
<1>8. OncePerChan'
  BY <1>1, <1>2 DEF MembInv, OncePerChan
<1>9. NchansEnough'
  BY <1>5 DEF NchansEnough
<1> QED BY <1>1, <1>2, <1>5, <1>6, <1>7, <1>8, <1>9 DEF MembInv

(* lsi_ucb_drop_user: the channels that point to a user in the user map do  *)
(* so under its key.                                                        *)
LEMMA DropUserStep ==
  ASSUME UcTypeOK, MembInv, UsersInv, NEW q \in DOMAIN users, DropUser(users[q])
  PROVE  Keeps
<1> DEFINE X == {users[q]}
<1>1. users[q] \in DOMAIN uobj /\ NickKey[uobj[users[q]].nick] = q
  BY DEF UsersInv, UsersLive
<1>2. /\ users' = Del(users, q)
      /\ UnlinkKey(q, X)
      /\ owned' = owned - UserTags({users[q]})
  BY <1>1 DEF DropUser
<1>3. \A o \in X : RefChans(o) \subseteq RefsAt(q, o)
  BY DEF UsersInv, KeysAgree, RefChans, Refs, RefsAt, ChansWith
<1> HIDE DEF X
<1>4. /\ DOMAIN chans' = DOMAIN chans
      /\ \A c \in DOMAIN chans :
           /\ DOMAIN chans'[c].memb = DOMAIN chans[c].memb \ {q}
           /\ \A j \in DOMAIN chans'[c].memb : chans'[c].memb[j] = chans[c].memb[j]
           /\ IsMap(chans'[c].memb, Nick, Memb) /\ chans'[c] \in ChanRec(chans'[c].memb)
      /\ chans' = [c \in DOMAIN chans' |-> chans'[c]]
      /\ DOMAIN uobj' = DOMAIN uobj \ X
      /\ \A o \in DOMAIN uobj' : uobj'[o].nick = uobj[o].nick
      /\ IsMap(uobj', Obj, UserRec)
      /\ MembInv'
  BY <1>2, <1>3, Unlink
<1>5. UcTypeOK'
  <2>1. IsMap(users', Nick, Obj)
    BY <1>2 DEF UcTypeOK, IsMap, Del, Restrict
  <2>2. owned' \in Int
    BY <1>1, <1>2, TagsInt DEF UcTypeOK
  <2> QED BY <1>2, <1>4, <2>1, <2>2 DEF UcTypeOK
<1>6. DOMAIN users' = DOMAIN users \ {q} /\ \A k \in DOMAIN users' : users'[k] = users[k]
  BY <1>2 DEF Del, Restrict
<1>7. UsersLive'
  <2> SUFFICES ASSUME NEW k \in DOMAIN users'
               PROVE  users'[k] \in DOMAIN uobj' /\ NickKey[uobj'[users'[k]].nick] = k
    BY DEF UsersLive
  <2>1. users[k] \in DOMAIN uobj /\ NickKey[uobj[users[k]].nick] = k /\ k # q
    BY <1>6 DEF UsersInv, UsersLive
  <2>2. users[k] \in DOMAIN uobj'
    BY <2>1, <1>1, <1>4 DEF X
  <2> QED BY <2>1, <2>2, <1>4, <1>6
<1>8. KeysAgree'
  BY <1>4, <1>6 DEF UsersInv, KeysAgree
<1> QED BY <1>4, <1>5, <1>7, <1>8 DEF Keeps, UsersInv

-----------------------------------------------------------------------------
(* Adding channels and members *)

LEMMA AddChanStep ==
  ASSUME UcTypeOK, MembInv, UsersInv, NEW k \in Chan, k \notin DOMAIN chans, AddChan(k)
  PROVE  Keeps
<1>1. /\ chans' = Put(chans, k, [memb |-> EmptyMap, tag |-> "none"])
      /\ users' = users /\ uobj' = uobj /\ owned' = owned
  BY DEF AddChan
<1>2. /\ DOMAIN chans' = DOMAIN chans \cup {k}
      /\ \A d \in DOMAIN chans : chans'[d] = chans[d]
      /\ chans'[k] \in ChanRec(EmptyMap) /\ chans'[k].memb = EmptyMap
      /\ chans' = [d \in DOMAIN chans' |-> chans'[d]]
  BY <1>1 DEF Put, ChanRec, Tag
<1>3. DOMAIN EmptyMap = {} /\ IsMap(EmptyMap, Nick, Memb)
  BY DEF EmptyMap, IsMap
<1>4. \A o : RefChans(o)' = RefChans(o)
  BY <1>2, <1>3 DEF RefChans, Refs
<1>5. UcTypeOK'
  <2>1. \A d \in DOMAIN chans' :
          IsMap(chans'[d].memb, Nick, Memb) /\ chans'[d] \in ChanRec(chans'[d].memb)
    BY <1>2, <1>3 DEF UcTypeOK
  <2> QED BY <1>1, <1>2, <2>1 DEF UcTypeOK
<1>6. MembLive'
  BY <1>1, <1>2, <1>3 DEF MembInv, MembLive, Refs
<1>7. OncePerChan'
  BY <1>2, <1>3 DEF MembInv, OncePerChan
<1>8. NchansEnough'
  BY <1>1, <1>4 DEF MembInv, NchansEnough
<1>9. UsersInv'
  BY <1>1, <1>2, <1>3 DEF UsersInv, UsersLive, KeysAgree
<1> QED BY <1>5, <1>6, <1>7, <1>8, <1>9 DEF Keeps, MembInv

(* What LinkMemb makes of the members, and of the channels that point to o. *)
LEMMA Linked ==
  ASSUME UcTypeOK, NEW c, NEW k \in Nick, NEW u \in Obj, NEW p \in Seq(Sym),
         LinkMemb(c, k, u, p)
  PROVE  /\ chans' = [d \in DOMAIN chans |-> chans'[d]]
         /\ \A d \in DOMAIN chans :
              /\ IsMap(chans'[d].memb, Nick, Memb)
              /\ chans'[d] \in ChanRec(chans'[d].memb)
              /\ d # c => chans'[d] = chans[d]
              /\ d = c => /\ DOMAIN chans'[d].memb = DOMAIN chans[d].memb \cup {k}
                          /\ chans'[d].memb[k].u = u
                          /\ \A j \in DOMAIN chans[d].memb \ {k} :
                               chans'[d].memb[j] = chans[d].memb[j]
         /\ \A o : o # u => RefChans(o)' \in SUBSET RefChans(o)
         /\ RefChans(u)' \in SUBSET (RefChans(u) \cup {c})
<1> DEFINE r == [u |-> u, pfx |-> p]
           f == Put(chans[c].memb, k, r)
<1>1. chans' = [chans EXCEPT ![c].memb = f]
  BY DEF LinkMemb
<1>2. /\ chans' = [d \in DOMAIN chans |-> chans'[d]]
      /\ \A d \in DOMAIN chans : d # c => chans'[d] = chans[d]
  BY <1>1 DEF UcTypeOK
<1>3. ASSUME c \in DOMAIN chans
      PROVE  /\ chans'[c].memb = f
             /\ chans'[c] \in ChanRec(f)
             /\ IsMap(f, Nick, Memb)
             /\ DOMAIN f = DOMAIN chans[c].memb \cup {k}
             /\ f[k].u = u
             /\ \A j \in DOMAIN chans[c].memb \ {k} : f[j] = chans[c].memb[j]
  <2>1. chans[c] \in ChanRec(chans[c].memb) /\ IsMap(chans[c].memb, Nick, Memb)
    BY <1>3 DEF UcTypeOK
  <2>2. chans'[c].memb = f /\ chans'[c] \in ChanRec(f)
    BY <1>1, <1>3, <2>1 DEF ChanRec
  <2>3. r \in Memb
    BY DEF Memb
  <2>4. /\ DOMAIN f = DOMAIN chans[c].memb \cup {k}
        /\ f[k] = r
        /\ \A j \in DOMAIN chans[c].memb \ {k} : f[j] = chans[c].memb[j]
    BY DEF Put
  <2>5. IsMap(f, Nick, Memb)
    BY <2>1, <2>3 DEF IsMap, Put
  <2> QED BY <2>2, <2>4, <2>5
<1> HIDE DEF f
<1>4. \A d \in DOMAIN chans :
        /\ IsMap(chans'[d].memb, Nick, Memb)
        /\ chans'[d] \in ChanRec(chans'[d].memb)
        /\ d # c => chans'[d] = chans[d]
        /\ d = c => /\ DOMAIN chans'[d].memb = DOMAIN chans[d].memb \cup {k}
                    /\ chans'[d].memb[k].u = u
                    /\ \A j \in DOMAIN chans[d].memb \ {k} :
                         chans'[d].memb[j] = chans[d].memb[j]
  BY <1>2, <1>3 DEF UcTypeOK
<1>5. \A o : o # u => RefChans(o)' \in SUBSET RefChans(o)
  BY <1>2, <1>4 DEF RefChans, Refs
<1>6. RefChans(u)' \in SUBSET (RefChans(u) \cup {c})
  BY <1>2, <1>4 DEF RefChans, Refs
<1> QED BY <1>2, <1>4, <1>5, <1>6

(* A user already known joins a channel.                                    *)
LEMMA AddKnownStep ==
  ASSUME UcTypeOK, MembInv, UsersInv, NEW c, NEW k \in DOMAIN users, NEW p \in Seq(Sym),
         uobj' = [uobj EXCEPT ![users[k]].nchans = @ + 1],
         LinkMemb(c, k, users[k], p), users' = users, owned' = owned
  PROVE  Keeps
<1>1. PICK u \in Obj : u = users[k]
  BY DEF UcTypeOK, IsMap
<1>2. k \in Nick /\ u \in DOMAIN uobj /\ LinkMemb(c, k, u, p)
  BY <1>1 DEF UcTypeOK, IsMap, UsersInv, UsersLive
<1>3. /\ chans' = [d \in DOMAIN chans |-> chans'[d]]
      /\ \A d \in DOMAIN chans :
           /\ IsMap(chans'[d].memb, Nick, Memb)
           /\ chans'[d] \in ChanRec(chans'[d].memb)
           /\ d # c => chans'[d] = chans[d]
           /\ d = c => /\ DOMAIN chans'[d].memb = DOMAIN chans[d].memb \cup {k}
                       /\ chans'[d].memb[k].u = u
                       /\ \A j \in DOMAIN chans[d].memb \ {k} :
                            chans'[d].memb[j] = chans[d].memb[j]
      /\ \A o : o # u => RefChans(o)' \in SUBSET RefChans(o)
      /\ RefChans(u)' \in SUBSET (RefChans(u) \cup {c})
  BY <1>2, Linked
<1>4. /\ uobj' = [o \in DOMAIN uobj |-> uobj'[o]]
      /\ \A o \in DOMAIN uobj :
           /\ uobj'[o] \in UserRec /\ uobj[o] \in UserRec /\ uobj'[o].nick = uobj[o].nick
           /\ uobj'[o].nchans = IF o = u THEN uobj[o].nchans + 1 ELSE uobj[o].nchans
  <2>1. uobj' = [uobj EXCEPT ![u] = [uobj[u] EXCEPT !.nchans = uobj[u].nchans + 1]]
    BY <1>1
  <2>2. IsMap(uobj, Obj, UserRec)
    BY DEF UcTypeOK
  <2>3. \A o \in DOMAIN uobj : uobj[o] \in UserRec
    BY <2>2 DEF IsMap
  <2> DEFINE v == [uobj[u] EXCEPT !.nchans = uobj[u].nchans + 1]
  <2>4. v \in UserRec /\ v.nick = uobj[u].nick /\ v.nchans = uobj[u].nchans + 1
    BY <1>2, <2>3 DEF UserRec
  <2> HIDE DEF v
  <2>5. uobj' = [uobj EXCEPT ![u] = v]
    BY <2>1 DEF v
  <2>6. /\ uobj' = [o \in DOMAIN uobj |-> uobj'[o]]
        /\ \A o \in DOMAIN uobj : uobj'[o] = IF o = u THEN v ELSE uobj[o]
    BY <2>2, <2>5 DEF IsMap
  <2>7. ASSUME NEW o \in DOMAIN uobj
        PROVE  /\ uobj'[o] \in UserRec /\ uobj[o] \in UserRec /\ uobj'[o].nick = uobj[o].nick
               /\ uobj'[o].nchans = IF o = u THEN uobj[o].nchans + 1 ELSE uobj[o].nchans
    <3>1. CASE o = u
      BY <3>1, <2>3, <2>4, <2>6
    <3>2. CASE o # u
      <4>1. uobj'[o] = uobj[o]
        BY <3>2, <2>6
      <4> QED BY <4>1, <3>2, <2>3
    <3> QED BY <3>1, <3>2
  <2> QED BY <2>6, <2>7
<1>5. UcTypeOK'
  <2>1. IsMap(uobj', Obj, UserRec)
    BY <1>4 DEF UcTypeOK, IsMap
  <2> QED BY <1>3, <2>1 DEF UcTypeOK
<1>6. MembLive'
  <2> SUFFICES ASSUME NEW d \in DOMAIN chans', NEW o \in Refs(d)' PROVE o \in DOMAIN uobj'
    BY DEF MembLive
  <2>1. d \in RefChans(o)'
    BY DEF RefChans
  <2>2. CASE o # u
    BY <1>3, <1>4, <2>1, <2>2 DEF MembInv, MembLive, RefChans
  <2> QED BY <1>2, <1>4, <2>2
<1>7. OncePerChan'
  <2> SUFFICES ASSUME NEW d \in DOMAIN chans',
                      NEW i \in DOMAIN chans'[d].memb, NEW j \in DOMAIN chans'[d].memb,
                      chans'[d].memb[i].u = chans'[d].memb[j].u
               PROVE  i = j
    BY DEF OncePerChan
  <2>1. \A x \in DOMAIN chans[d].memb : chans[d].memb[x].u = u => x = k
    BY <1>1, <1>3 DEF UsersInv, KeysAgree
  <2> QED BY <1>3, <2>1 DEF MembInv, OncePerChan
<1>8. NchansEnough'
  <2> SUFFICES ASSUME NEW o \in DOMAIN uobj
               PROVE  Cardinality(RefChans(o)') <= uobj'[o].nchans
    BY <1>4 DEF NchansEnough
  <2>1. /\ IsFiniteSet(RefChans(o)) /\ Cardinality(RefChans(o)) \in Nat
        /\ Cardinality(RefChans(o)) <= uobj[o].nchans
    BY RefChansFinite DEF MembInv, NchansEnough
  <2>2. CASE o = u
    <3>1. Cardinality(RefChans(o)') <= Cardinality(RefChans(o)) + 1
      BY <1>3, <2>1, <2>2, CardGrow
    <3> QED BY <1>4, <2>1, <2>2, <3>1, <1>5, RefChansFinitePrime DEF UserRec
  <2>3. CASE o # u
    <3>1. Cardinality(RefChans(o)') <= Cardinality(RefChans(o))
      BY <1>3, <2>1, <2>3, FS_Subset
    <3> QED BY <1>4, <2>1, <2>3, <3>1, <1>5, RefChansFinitePrime DEF UserRec
  <2> QED BY <2>2, <2>3
<1>9. UsersInv'
  <2>1. UsersLive'
    BY <1>4 DEF UsersInv, UsersLive
  <2>2. KeysAgree'
    BY <1>1, <1>3 DEF UsersInv, UsersLive, KeysAgree
  <2> QED BY <2>1, <2>2 DEF UsersInv
<1> QED BY <1>5, <1>6, <1>7, <1>8, <1>9 DEF Keeps, MembInv

(* The address of a new user object.                                        *)
LEMMA FreshNew == ASSUME CanAllocUser PROVE Fresh \in Obj /\ Fresh \notin DOMAIN uobj
  BY DEF CanAllocUser, Fresh

(* A user not known so far joins a channel.                                 *)
LEMMA AddUnknownStep ==
  ASSUME UcTypeOK, MembInv, UsersInv, NEW c, NEW n \in Nick, ~KnownUser(n),
         NEW p \in Seq(Sym), NEW f \in Obj, f \notin DOMAIN uobj,
         AddUser(NickKey[n], n, f), LinkMemb(c, NickKey[n], f, p), owned' = owned
  PROVE  Keeps
<1>k. PICK k \in Nick : k = NickKey[n]
  BY KeyAssumption
<1>a. k \notin DOMAIN users /\ AddUser(k, n, f) /\ LinkMemb(c, k, f, p)
  BY <1>k DEF KnownUser
<1>1. /\ chans' = [d \in DOMAIN chans |-> chans'[d]]
      /\ \A d \in DOMAIN chans :
           /\ IsMap(chans'[d].memb, Nick, Memb)
           /\ chans'[d] \in ChanRec(chans'[d].memb)
           /\ d # c => chans'[d] = chans[d]
           /\ d = c => /\ DOMAIN chans'[d].memb = DOMAIN chans[d].memb \cup {k}
                       /\ chans'[d].memb[k].u = f
                       /\ \A j \in DOMAIN chans[d].memb \ {k} :
                            chans'[d].memb[j] = chans[d].memb[j]
      /\ \A o : o # f => RefChans(o)' \in SUBSET RefChans(o)
      /\ RefChans(f)' \in SUBSET (RefChans(f) \cup {c})
  BY <1>a, Linked
<1>2. \A d \in DOMAIN chans : f \notin Refs(d)
  BY DEF MembInv, MembLive
<1>3. /\ DOMAIN uobj' = DOMAIN uobj \cup {f}
      /\ \A o \in DOMAIN uobj : uobj'[o] = uobj[o]
      /\ uobj'[f] \in UserRec /\ uobj'[f].nick = n /\ uobj'[f].nchans = 1
      /\ uobj' = [o \in DOMAIN uobj' |-> uobj'[o]]
  BY <1>a DEF AddUser, Put, UserRec, Tag
<1>4. /\ DOMAIN users' = DOMAIN users \cup {k} /\ users'[k] = f
      /\ \A j \in DOMAIN users : users'[j] = users[j]
      /\ users' = [j \in DOMAIN users' |-> users'[j]]
  BY <1>a DEF AddUser, Put
<1>5. UcTypeOK'
  <2>1. IsMap(uobj', Obj, UserRec)
    BY <1>3 DEF UcTypeOK, IsMap
  <2>2. IsMap(users', Nick, Obj)
    BY <1>4 DEF UcTypeOK, IsMap
  <2> QED BY <1>1, <2>1, <2>2 DEF UcTypeOK
<1>6. MembLive'
  <2> SUFFICES ASSUME NEW d \in DOMAIN chans', NEW o \in Refs(d)' PROVE o \in DOMAIN uobj'
    BY DEF MembLive
  <2>1. d \in RefChans(o)'
    BY DEF RefChans
  <2>2. CASE o # f
    BY <1>1, <1>3, <2>1, <2>2 DEF MembInv, MembLive, RefChans
  <2> QED BY <1>3, <2>2
<1>7. OncePerChan'
  <2> SUFFICES ASSUME NEW d \in DOMAIN chans',
                      NEW i \in DOMAIN chans'[d].memb, NEW j \in DOMAIN chans'[d].memb,
                      chans'[d].memb[i].u = chans'[d].memb[j].u
               PROVE  i = j
    BY DEF OncePerChan
  <2>1. \A x \in DOMAIN chans[d].memb : chans[d].memb[x].u # f
    BY <1>1, <1>2 DEF Refs
  <2> QED BY <1>1, <2>1 DEF MembInv, OncePerChan
<1>8. NchansEnough'
  <2> SUFFICES ASSUME NEW o \in DOMAIN uobj'
               PROVE  Cardinality(RefChans(o)') <= uobj'[o].nchans
    BY DEF NchansEnough
  <2>1. CASE o = f
    <3>1. RefChans(o) = {}
      BY <1>2, <2>1 DEF RefChans
    <3>2. RefChans(o)' \in SUBSET ({} \cup {c})
      BY <1>1, <2>1, <3>1
    <3>3. Cardinality(RefChans(o)') <= 0 + 1
      BY <3>2, CardGrow, FS_EmptySet
    <3> QED BY <1>3, <2>1, <3>3
  <2>2. CASE o # f
    <3>1. o \in DOMAIN uobj /\ uobj'[o] = uobj[o] /\ uobj[o].nchans \in Nat
      BY <1>3, <2>2 DEF UcTypeOK, IsMap, UserRec
    <3>2. /\ IsFiniteSet(RefChans(o)) /\ Cardinality(RefChans(o)) \in Nat
          /\ Cardinality(RefChans(o)) <= uobj[o].nchans
      BY <3>1, RefChansFinite DEF MembInv, NchansEnough
    <3>3. Cardinality(RefChans(o)') <= Cardinality(RefChans(o))
      BY <1>1, <2>2, <3>2, FS_Subset
    <3>4. Cardinality(RefChans(o)') \in Nat
      BY <1>5, RefChansFinitePrime
    <3> QED BY <3>1, <3>2, <3>3, <3>4
  <2> QED BY <2>1, <2>2
<1>9. UsersInv'
  <2>1. UsersLive'
    BY <1>k, <1>3, <1>4 DEF UsersInv, UsersLive
  <2>2. KeysAgree'
    <3>1. \A j \in DOMAIN users : users[j] # f
      BY DEF UsersInv, UsersLive
    <3>2. \A d \in DOMAIN chans : \A x \in DOMAIN chans[d].memb : chans[d].memb[x].u # f
      BY <1>2 DEF Refs
    <3> QED BY <1>1, <1>4, <3>1, <3>2 DEF UsersInv, KeysAgree
  <2> QED BY <2>1, <2>2 DEF UsersInv
<1> QED BY <1>5, <1>6, <1>7, <1>8, <1>9 DEF Keeps, MembInv

LEMMA AddMemberStep ==
  ASSUME UcTypeOK, MembInv, UsersInv, NEW c, NEW n \in Nick, NEW p \in Seq(Sym),
         AddMember(c, n, p)
  PROVE  Keeps
<1> DEFINE k == NickKey[n]
<1>1. k \in Nick
  BY KeyAssumption
<1>2. CASE KnownUser(n)
  <2>1. k \in DOMAIN users
    BY <1>2 DEF KnownUser
  <2>2. /\ uobj' = [uobj EXCEPT ![users[k]].nchans = @ + 1]
        /\ LinkMemb(c, k, users[k], p) /\ users' = users /\ owned' = owned
    BY <1>2 DEF AddMember
  <2> HIDE DEF k
  <2> QED BY <2>1, <2>2, AddKnownStep
<1>3. CASE ~KnownUser(n)
  <2>2. PICK f \in Obj : f = Fresh /\ f \notin DOMAIN uobj
    BY <1>3, FreshNew DEF AddMember
  <2>3. AddUser(NickKey[n], n, f) /\ LinkMemb(c, NickKey[n], f, p) /\ owned' = owned
    BY <1>3, <2>2 DEF AddMember
  <2> QED BY <1>3, <2>2, <2>3, AddUnknownStep
<1> QED BY <1>2, <1>3

(* lsi_ucb_add_user or lsi_ucb_add_memb fails.                              *)
LEMMA AddMemberFailsStep ==
  ASSUME UcTypeOK, MembInv, UsersInv, NEW c, NEW n \in Nick, AddMemberFails(c, n)
  PROVE  Keeps
<1> DEFINE k == NickKey[n]
<1>1. CASE UNCHANGED ucvars
  BY <1>1, Stutter DEF Keeps
<1>2. CASE UnlinkKey(k, {}) /\ users' = users /\ owned' = owned
  <2> HIDE DEF k
  <2>1. \A o \in {} : RefChans(o) \subseteq RefsAt(k, o)
    OBVIOUS
  <2>2. /\ DOMAIN chans' = DOMAIN chans
        /\ \A d \in DOMAIN chans :
             /\ DOMAIN chans'[d].memb = DOMAIN chans[d].memb \ {k}
             /\ \A j \in DOMAIN chans'[d].memb : chans'[d].memb[j] = chans[d].memb[j]
             /\ IsMap(chans'[d].memb, Nick, Memb) /\ chans'[d] \in ChanRec(chans'[d].memb)
        /\ chans' = [d \in DOMAIN chans' |-> chans'[d]]
        /\ DOMAIN uobj' = DOMAIN uobj \ {}
        /\ \A o \in DOMAIN uobj' : uobj'[o].nick = uobj[o].nick
        /\ IsMap(uobj', Obj, UserRec)
        /\ MembInv'
    BY <1>2, <2>1, Unlink
  <2>3. DOMAIN uobj' = DOMAIN uobj
    BY <2>2
  <2>4. UsersInv'
    <3>1. UsersLive'
      BY <1>2, <2>2, <2>3 DEF UsersInv, UsersLive
    <3>2. KeysAgree'
      BY <1>2, <2>2 DEF UsersInv, KeysAgree
    <3> QED BY <3>1, <3>2 DEF UsersInv
  <2>5. UcTypeOK'
    BY <1>2, <2>2 DEF UcTypeOK
  <2> QED BY <2>2, <2>4, <2>5 DEF Keeps
<1> QED BY <1>1, <1>2 DEF AddMemberFails

-----------------------------------------------------------------------------
(* Prefixes and tags, which nothing depends on *)

SameShape ==
  /\ users' = users
  /\ DOMAIN uobj' = DOMAIN uobj
  /\ \A o \in DOMAIN uobj : uobj'[o].nick = uobj[o].nick /\ uobj'[o].nchans = uobj[o].nchans
  /\ DOMAIN chans' = DOMAIN chans
  /\ \A c \in DOMAIN chans :
       /\ DOMAIN chans'[c].memb = DOMAIN chans[c].memb
       /\ \A k \in DOMAIN chans[c].memb : chans'[c].memb[k].u = chans[c].memb[k].u

LEMMA ShapeStep ==
  ASSUME MembInv, SameShape
  PROVE  MembInv' /\ (UsersInv => UsersInv')
<1>1. \A c \in DOMAIN chans : Refs(c)' = Refs(c)
  BY DEF SameShape, Refs
<1>2. \A o : RefChans(o)' = RefChans(o)
  BY <1>1 DEF SameShape, RefChans
<1>3. MembLive'
  BY <1>1 DEF SameShape, MembInv, MembLive
<1>4. OncePerChan'
  BY DEF SameShape, MembInv, OncePerChan
<1>5. NchansEnough'
  BY <1>2 DEF SameShape, MembInv, NchansEnough
<1>6. UsersInv => UsersLive'
  BY DEF SameShape, UsersInv, UsersLive
<1>7. UsersInv => KeysAgree'
  BY DEF SameShape, UsersInv, KeysAgree
<1> QED BY <1>3, <1>4, <1>5, <1>6, <1>7 DEF MembInv, UsersInv

(* lsi_ucb_tag_user                                                         *)
LEMMA TagUserStep ==
  ASSUME UcTypeOK, MembInv, NEW n \in Nick, NEW t \in Tag, TagUser(n, t)
  PROVE  SameShape /\ UcTypeOK' /\ MembInv' /\ (UsersInv => UsersInv')
<1>1. PICK u : u = users[NickKey[n]]
  OBVIOUS
<1>2. /\ uobj' = [uobj EXCEPT ![u].tag = t]
      /\ users' = users /\ chans' = chans
      /\ Retag(uobj[u].tag, t)
  BY <1>1 DEF TagUser
<1>3. IsMap(uobj, Obj, UserRec) /\ owned \in Int
  BY DEF UcTypeOK
<1> DEFINE v == [uobj[u] EXCEPT !.tag = t]
<1>4. uobj' = [uobj EXCEPT ![u] = v]
  BY <1>2
<1>5. u \in DOMAIN uobj => v \in UserRec /\ v.nick = uobj[u].nick /\ v.nchans = uobj[u].nchans
  BY <1>3 DEF UserRec, IsMap
<1> HIDE DEF v
<1>6. IsMap(uobj', Obj, UserRec)
  BY <1>3, <1>4, <1>5 DEF IsMap
<1>7. owned' \in Int
  BY <1>2, <1>3 DEF Retag
<1>8. UcTypeOK'
  BY <1>2, <1>6, <1>7 DEF UcTypeOK
<1>9. SameShape
  <2>1. \A o \in DOMAIN uobj : uobj'[o].nick = uobj[o].nick /\ uobj'[o].nchans = uobj[o].nchans
    BY <1>4, <1>5
  <2>2. DOMAIN uobj' = DOMAIN uobj
    BY <1>4
  <2> QED BY <1>2, <2>1, <2>2 DEF SameShape
<1> QED BY <1>8, <1>9, ShapeStep

(* lsi_ucb_tag_chan                                                         *)
LEMMA TagChanStep ==
  ASSUME UcTypeOK, MembInv, NEW c \in Chan, NEW t \in Tag, TagChan(c, t)
  PROVE  SameShape /\ UcTypeOK' /\ MembInv' /\ (UsersInv => UsersInv')
<1>1. PICK d \in DOMAIN chans : d = ChanKey[c]
  BY DEF TagChan, KnownChan
<1>2. /\ chans' = [chans EXCEPT ![d].tag = t]
      /\ users' = users /\ uobj' = uobj
      /\ Retag(chans[d].tag, t)
  BY <1>1 DEF TagChan
<1>3. /\ chans[d] \in ChanRec(chans[d].memb) /\ chans = [x \in DOMAIN chans |-> chans[x]]
      /\ owned \in Int
  BY DEF UcTypeOK
<1> DEFINE v == [chans[d] EXCEPT !.tag = t]
<1>4. v \in ChanRec(chans[d].memb) /\ v.memb = chans[d].memb
  BY <1>3 DEF ChanRec
<1>5. chans' = [chans EXCEPT ![d] = v]
  BY <1>2
<1> HIDE DEF v
<1>6. /\ chans' = [x \in DOMAIN chans |-> chans'[x]]
      /\ \A x \in DOMAIN chans : /\ chans'[x].memb = chans[x].memb
                               /\ chans'[x] \in ChanRec(chans[x].memb)
  BY <1>3, <1>4, <1>5 DEF UcTypeOK
<1>7. owned' \in Int
  BY <1>2, <1>3 DEF Retag
<1>8. UcTypeOK'
  BY <1>2, <1>6, <1>7 DEF UcTypeOK
<1>9. SameShape
  BY <1>2, <1>6 DEF SameShape
<1> QED BY <1>8, <1>9, ShapeStep

(* Prefixes stay sequences of symbols.                                      *)
LEMMA InsertSymType ==
  ASSUME NEW p \in Seq(Sym), NEW s \in Sym
  PROVE  InsertSym(p, s) \in Seq(Sym)
<1> DEFINE I == {i \in 1..Len(p) : \A j \in 1..i : p[j] \in Stronger[s]}
           at == Cardinality(I)
<1>1. IsFiniteSet(1..Len(p)) /\ Cardinality(1..Len(p)) = Len(p)
  <2>1. Len(p) \in Nat /\ 1 \in Int /\ Len(p) \in Int
    OBVIOUS
  <2>2. /\ IsFiniteSet(1..Len(p))
        /\ Cardinality(1..Len(p)) = IF 1 > Len(p) THEN 0 ELSE Len(p) - 1 + 1
    BY <2>1, FS_Interval
  <2> QED BY <2>1, <2>2
<1>2. at \in Nat /\ at <= Len(p)
  <2>1. I \in SUBSET (1..Len(p))
    OBVIOUS
  <2> HIDE DEF I
  <2> QED BY <1>1, <2>1, FS_Subset, FS_CardinalityType
<1> HIDE DEF at
<1>3. SubSeq(p, 1, at) \in Seq(Sym) /\ SubSeq(p, at + 1, Len(p)) \in Seq(Sym)
  BY <1>2
<1>4. <<s>> \in Seq(Sym)
  OBVIOUS
<1> QED BY <1>3, <1>4 DEF InsertSym, at

LEMMA RemoveSymType ==
  ASSUME NEW p \in Seq(Sym), NEW s \in Range(p)
  PROVE  RemoveSym(p, s) \in Seq(Sym)
<1> DEFINE at == CHOOSE i \in 1..Len(p) : p[i] = s
<1>1. at \in 1..Len(p)
  BY DEF Range
<1> HIDE DEF at
<1>2. SubSeq(p, 1, at - 1) \in Seq(Sym) /\ SubSeq(p, at + 1, Len(p)) \in Seq(Sym)
  BY <1>1
<1> QED BY <1>2 DEF RemoveSym, at

(* lsi_ucb_update_modepfx                                                   *)
LEMMA UpdateModePfxStep ==
  ASSUME UcTypeOK, MembInv, NEW c \in DOMAIN chans, NEW n \in Nick, NEW s \in Sym,
         NEW enab \in BOOLEAN, UpdateModePfx(c, n, s, enab)
  PROVE  SameShape /\ UcTypeOK' /\ MembInv' /\ (UsersInv => UsersInv')
<1> DEFINE k == NickKey[n]
           p == chans[c].memb[k].pfx
           q == IF enab THEN InsertSym(p, s) ELSE RemoveSym(p, s)
<1>1. CASE UNCHANGED ucvars
  BY <1>1, Stutter DEF SameShape, ucvars
<1>2. CASE /\ k \in DOMAIN chans[c].memb
           /\ enab # (s \in Range(p))
           /\ chans' = [chans EXCEPT ![c].memb[k].pfx = q]
           /\ users' = users /\ uobj' = uobj /\ owned' = owned
  <2> DEFINE m == chans[c].memb
             r == [m[k] EXCEPT !.pfx = q]
             f == [m EXCEPT ![k] = r]
             v == [chans[c] EXCEPT !.memb = f]
  <2>1. /\ m[k] \in Memb /\ IsMap(m, Nick, Memb)
        /\ chans[c] \in ChanRec(m) /\ chans = [x \in DOMAIN chans |-> chans[x]]
    BY <1>2 DEF UcTypeOK, IsMap
  <2>2. p \in Seq(Sym)
    BY <2>1 DEF Memb
  <2>3. q \in Seq(Sym)
    BY <1>2, <2>2, InsertSymType, RemoveSymType
  <2> HIDE DEF q
  <2>4. r \in Memb /\ r.u = m[k].u
    BY <2>1, <2>3 DEF Memb
  <2>5. IsMap(f, Nick, Memb) /\ DOMAIN f = DOMAIN m /\ \A j \in DOMAIN m : f[j].u = m[j].u
    <3> HIDE DEF r, m
    <3> QED BY <1>2, <2>1, <2>4 DEF IsMap
  <2>6. v \in ChanRec(f) /\ v.memb = f
    <3> HIDE DEF f
    <3> QED BY <2>1 DEF ChanRec
  <2>7. chans' = [chans EXCEPT ![c] = v]
    BY <1>2
  <2> HIDE DEF f, v
  <2>8. /\ chans' = [x \in DOMAIN chans |-> chans'[x]]
        /\ \A x \in DOMAIN chans : x # c => chans'[x] = chans[x]
        /\ chans'[c] = v
    BY <2>1, <2>7
  <2>9. UcTypeOK'
    BY <1>2, <2>5, <2>6, <2>8 DEF UcTypeOK
  <2>10. SameShape
    BY <1>2, <2>5, <2>6, <2>8 DEF SameShape
  <2> QED BY <2>9, <2>10, ShapeStep
<1> QED BY <1>1, <1>2 DEF UpdateModePfx

-----------------------------------------------------------------------------
(* Renaming *)

(* Keys of the channels move from k to l; what they point to stays, unless  *)
(* it was under l and k moved over it.                                      *)
LEMMA RekeyRefs ==
  ASSUME UcTypeOK, MembInv, NEW k \in Nick, NEW l \in Nick, k # l,
         NEW D, D \subseteq ChansWith(k), Rekey(k, l, D)
  PROVE  /\ chans' = [c \in DOMAIN chans |-> chans'[c]]
         /\ \A c \in DOMAIN chans :
              /\ IsMap(chans'[c].memb, Nick, Memb) /\ chans'[c] \in ChanRec(chans'[c].memb)
              /\ c \notin D => chans'[c] = chans[c]
              /\ c \in D => /\ DOMAIN chans'[c].memb = (DOMAIN chans[c].memb \cup {l}) \ {k}
                          /\ k \in DOMAIN chans[c].memb
                          /\ chans'[c].memb[l] = chans[c].memb[k]
                          /\ \A j \in DOMAIN chans[c].memb \ {k, l} :
                               chans'[c].memb[j] = chans[c].memb[j]
         /\ \A c \in DOMAIN chans : Refs(c)' \subseteq Refs(c)
         /\ \A o : RefChans(o)' \in SUBSET RefChans(o)
         /\ OncePerChan'
<1>1. /\ DOMAIN chans' = DOMAIN chans /\ chans' = [c \in DOMAIN chans |-> chans'[c]]
      /\ \A c \in DOMAIN chans : c \notin D => chans'[c] = chans[c]
  BY DEF Rekey
<1>2. ASSUME NEW c \in DOMAIN chans, c \in D
      PROVE  /\ k \in DOMAIN chans[c].memb
             /\ IsMap(chans'[c].memb, Nick, Memb) /\ chans'[c] \in ChanRec(chans'[c].memb)
             /\ DOMAIN chans'[c].memb = (DOMAIN chans[c].memb \cup {l}) \ {k}
             /\ chans'[c].memb[l] = chans[c].memb[k]
             /\ \A j \in DOMAIN chans[c].memb \ {k, l} :
                  chans'[c].memb[j] = chans[c].memb[j]
  <2> DEFINE m == chans[c].memb
             f == Del(Put(m, l, m[k]), k)
  <2>1. k \in DOMAIN m /\ m[k] \in Memb /\ IsMap(m, Nick, Memb) /\ chans[c] \in ChanRec(m)
    BY <1>2 DEF ChansWith, UcTypeOK, IsMap
  <2>2. chans'[c] = [chans[c] EXCEPT !.memb = f]
    BY <1>2 DEF Rekey
  <2>3. /\ DOMAIN f = (DOMAIN m \cup {l}) \ {k} /\ f[l] = m[k]
        /\ \A j \in DOMAIN m \ {k, l} : f[j] = m[j]
        /\ f = [j \in DOMAIN f |-> f[j]]
    <3> HIDE DEF m
    <3> QED BY DEF Del, Put, Restrict
  <2> HIDE DEF f
  <2>4. IsMap(f, Nick, Memb)
    <3> HIDE DEF m
    <3> QED BY <2>1, <2>3 DEF IsMap
  <2>5. chans'[c].memb = f /\ chans'[c] \in ChanRec(f)
    BY <2>1, <2>2 DEF ChanRec
  <2> QED BY <2>1, <2>3, <2>4, <2>5
<1>3. \A c \in DOMAIN chans : Refs(c)' \subseteq Refs(c)
  <2> SUFFICES ASSUME NEW c \in DOMAIN chans, NEW j \in DOMAIN chans'[c].memb
               PROVE  \E i \in DOMAIN chans[c].memb : chans[c].memb[i].u = chans'[c].memb[j].u
    BY DEF Refs
  <2>1. CASE c \notin D
    BY <1>1, <2>1
  <2>2. CASE c \in D /\ j = l
    BY <1>2, <2>2
  <2>3. CASE c \in D /\ j # l
    BY <1>2, <2>3
  <2> QED BY <2>1, <2>2, <2>3
<1>4. \A o : RefChans(o)' \in SUBSET RefChans(o)
  BY <1>1, <1>3 DEF RefChans
<1>5. OncePerChan'
  <2> SUFFICES ASSUME NEW c \in DOMAIN chans,
                      NEW i \in DOMAIN chans'[c].memb, NEW j \in DOMAIN chans'[c].memb,
                      chans'[c].memb[i].u = chans'[c].memb[j].u
               PROVE  i = j
    BY <1>1 DEF OncePerChan
  <2>1. \A x, y \in DOMAIN chans[c].memb : chans[c].memb[x].u = chans[c].memb[y].u => x = y
    BY DEF MembInv, OncePerChan
  <2>2. CASE c \notin D
    BY <1>1, <2>1, <2>2
  <2>3. CASE c \in D
    <3>1. CASE i = l /\ j = l
      BY <3>1
    <3>2. CASE i = l /\ j # l
      BY <1>2, <2>1, <2>3, <3>2
    <3>3. CASE i # l /\ j = l
      BY <1>2, <2>1, <2>3, <3>3
    <3>4. CASE i # l /\ j # l
      BY <1>2, <2>1, <2>3, <3>4
    <3> QED BY <3>1, <3>2, <3>3, <3>4
  <2> QED BY <2>2, <2>3
<1>6. \A c \in DOMAIN chans : c \notin D =>
        IsMap(chans'[c].memb, Nick, Memb) /\ chans'[c] \in ChanRec(chans'[c].memb)
  BY <1>1 DEF UcTypeOK
<1> QED BY <1>1, <1>2, <1>3, <1>4, <1>5, <1>6

(* The user object gets its new nickname.                                   *)
LEMMA SetNickStep ==
  ASSUME UcTypeOK, NEW u \in DOMAIN uobj, NEW m \in Nick, SetNick(u, m)
  PROVE  /\ IsMap(uobj', Obj, UserRec) /\ DOMAIN uobj' = DOMAIN uobj
         /\ \A o \in DOMAIN uobj :
              /\ uobj'[o].nchans = uobj[o].nchans
              /\ o # u => uobj'[o].nick = uobj[o].nick
         /\ uobj'[u].nick = m
<1>1. uobj[u] \in UserRec /\ IsMap(uobj, Obj, UserRec)
  BY DEF UcTypeOK, IsMap
<1> DEFINE v == [uobj[u] EXCEPT !.nick = m]
<1>2. v \in UserRec /\ v.nick = m /\ v.nchans = uobj[u].nchans
  BY <1>1 DEF UserRec
<1>3. uobj' = [uobj EXCEPT ![u] = v]
  BY DEF SetNick
<1> HIDE DEF v
<1> QED BY <1>1, <1>2, <1>3 DEF IsMap

(* MembInv survives when no channel points to more than before.             *)
LEMMA FewerRefs ==
  ASSUME UcTypeOK, MembInv, DOMAIN chans' = DOMAIN chans, DOMAIN uobj' = DOMAIN uobj,
         \A o \in DOMAIN uobj : uobj'[o].nchans = uobj[o].nchans,
         \A c \in DOMAIN chans : Refs(c)' \subseteq Refs(c), OncePerChan', UcTypeOK'
  PROVE  MembInv'
<1>1. \A o : RefChans(o)' \in SUBSET RefChans(o)
  BY DEF RefChans
<1>2. MembLive'
  BY DEF MembInv, MembLive
<1>3. NchansEnough'
  <2> SUFFICES ASSUME NEW o \in DOMAIN uobj
               PROVE  Cardinality(RefChans(o)') <= uobj'[o].nchans
    BY DEF NchansEnough
  <2>1. /\ Cardinality(RefChans(o)') <= Cardinality(RefChans(o))
        /\ Cardinality(RefChans(o)) \in Nat
    BY <1>1, RefChansFinite, FS_Subset
  <2>2. Cardinality(RefChans(o)') \in Nat
    BY RefChansFinitePrime
  <2>3. /\ Cardinality(RefChans(o)) <= uobj[o].nchans /\ uobj[o].nchans \in Nat
        /\ uobj'[o].nchans = uobj[o].nchans
    BY DEF MembInv, NchansEnough, UcTypeOK, IsMap, UserRec
  <2> QED BY <2>1, <2>2, <2>3
<1> QED BY <1>2, <1>3 DEF MembInv

(* The user map moves users[k] to key l.                                    *)
LEMMA RekeyUser ==
  ASSUME UcTypeOK, NEW k \in DOMAIN users, NEW l \in Nick, k # l,
         users' = Del(Put(users, l, users[k]), k)
  PROVE  /\ IsMap(users', Nick, Obj)
         /\ DOMAIN users' = (DOMAIN users \cup {l}) \ {k}
         /\ users'[l] = users[k]
         /\ \A j \in DOMAIN users \ {k, l} : users'[j] = users[j]
  BY DEF UcTypeOK, IsMap, Del, Put, Restrict

(* lsi_ucb_rename_user                                                      *)
LEMMA RenameUserStep ==
  ASSUME UcTypeOK, MembInv, UsersInv, NEW n \in Nick, NEW m \in Nick, RenameUser(n, m)
  PROVE  Keeps
<1>1. CASE UNCHANGED ucvars
  BY <1>1, Stutter DEF Keeps
<1>2. PICK k \in Nick, l \in Nick : k = NickKey[n] /\ l = NickKey[m]
  BY KeyAssumption
<1>3. ASSUME KnownUser(n)
      PROVE  /\ k \in DOMAIN users /\ users[k] \in DOMAIN uobj
             /\ NickKey[uobj[users[k]].nick] = k
  BY <1>2, <1>3 DEF KnownUser, UsersInv, UsersLive
<1>4. CASE /\ KnownUser(n) /\ k = l /\ SetNick(users[k], m)
           /\ users' = users /\ chans' = chans /\ owned' = owned
  <2>1. PICK u \in DOMAIN uobj : u = users[k]
    BY <1>3, <1>4
  <2>2. /\ IsMap(uobj', Obj, UserRec) /\ DOMAIN uobj' = DOMAIN uobj
        /\ \A o \in DOMAIN uobj :
             /\ uobj'[o].nchans = uobj[o].nchans
             /\ o # u => uobj'[o].nick = uobj[o].nick
        /\ uobj'[u].nick = m
    BY <1>4, <2>1, SetNickStep
  <2>3. UcTypeOK'
    BY <1>4, <2>2 DEF UcTypeOK
  <2>4. MembInv'
    <3>1. \A c \in DOMAIN chans : Refs(c)' = Refs(c)
      BY <1>4 DEF Refs
    <3>2. OncePerChan'
      BY <1>4 DEF MembInv, OncePerChan
    <3> QED BY <1>4, <2>2, <2>3, <3>1, <3>2, FewerRefs
  <2>5. UsersLive'
    <3> SUFFICES ASSUME NEW j \in DOMAIN users
                 PROVE  users[j] \in DOMAIN uobj' /\ NickKey[uobj'[users[j]].nick] = j
      BY <1>4 DEF UsersLive
    <3>1. users[j] \in DOMAIN uobj /\ NickKey[uobj[users[j]].nick] = j
      BY DEF UsersInv, UsersLive
    <3>2. CASE users[j] = u
      BY <1>2, <1>3, <1>4, <2>1, <2>2, <3>1, <3>2
    <3>3. CASE users[j] # u
      BY <2>2, <3>1, <3>3
    <3> QED BY <3>2, <3>3
  <2>6. KeysAgree'
    BY <1>4 DEF UsersInv, KeysAgree
  <2> QED BY <2>3, <2>4, <2>5, <2>6 DEF Keeps, UsersInv
<1>5. CASE /\ KnownUser(n) /\ k # l /\ SetNick(users[k], m)
           /\ users' = Del(Put(users, l, users[k]), k)
           /\ Rekey(k, l, ChansWith(k)) /\ owned' = owned
  <2>1. PICK u \in DOMAIN uobj : u = users[k]
    BY <1>3, <1>5
  <2>2. /\ IsMap(uobj', Obj, UserRec) /\ DOMAIN uobj' = DOMAIN uobj
        /\ \A o \in DOMAIN uobj :
             /\ uobj'[o].nchans = uobj[o].nchans
             /\ o # u => uobj'[o].nick = uobj[o].nick
        /\ uobj'[u].nick = m
    BY <1>5, <2>1, SetNickStep
  <2>3. /\ chans' = [c \in DOMAIN chans |-> chans'[c]]
        /\ \A c \in DOMAIN chans :
             /\ IsMap(chans'[c].memb, Nick, Memb) /\ chans'[c] \in ChanRec(chans'[c].memb)
             /\ c \notin ChansWith(k) => chans'[c] = chans[c]
             /\ c \in ChansWith(k) =>
                  /\ DOMAIN chans'[c].memb = (DOMAIN chans[c].memb \cup {l}) \ {k}
                  /\ k \in DOMAIN chans[c].memb
                  /\ chans'[c].memb[l] = chans[c].memb[k]
                  /\ \A j \in DOMAIN chans[c].memb \ {k, l} :
                       chans'[c].memb[j] = chans[c].memb[j]
        /\ \A c \in DOMAIN chans : Refs(c)' \subseteq Refs(c)
        /\ OncePerChan'
    BY <1>5, RekeyRefs
  <2>4. /\ IsMap(users', Nick, Obj)
        /\ DOMAIN users' = (DOMAIN users \cup {l}) \ {k}
        /\ users'[l] = users[k]
        /\ \A j \in DOMAIN users \ {k, l} : users'[j] = users[j]
    BY <1>3, <1>5, RekeyUser
  <2>5. UcTypeOK'
    BY <1>5, <2>2, <2>3, <2>4 DEF UcTypeOK
  <2>6. MembInv'
    BY <2>2, <2>3, <2>5, FewerRefs
  <2>7. UsersLive'
    <3> SUFFICES ASSUME NEW j \in DOMAIN users'
                 PROVE  users'[j] \in DOMAIN uobj' /\ NickKey[uobj'[users'[j]].nick] = j
      BY DEF UsersLive
    <3>1. CASE j = l
      BY <1>2, <2>1, <2>2, <2>4, <3>1
    <3>2. CASE j # l
      <4>1. /\ users'[j] = users[j] /\ users[j] \in DOMAIN uobj /\ j # k
            /\ NickKey[uobj[users[j]].nick] = j
        BY <2>4, <3>2 DEF UsersInv, UsersLive
      <4>2. users[j] # u
        BY <1>3, <1>5, <2>1, <4>1
      <4> QED BY <2>2, <4>1, <4>2
    <3> QED BY <3>1, <3>2
  <2>8. KeysAgree'
    <3> SUFFICES ASSUME NEW j \in DOMAIN users', NEW c \in DOMAIN chans,
                        NEW x \in DOMAIN chans'[c].memb, chans'[c].memb[x].u = users'[j]
                 PROVE  x = j
      BY <2>3 DEF KeysAgree
    <3>0. /\ j # k /\ k \in DOMAIN users
          /\ \A i \in DOMAIN users : \A y \in DOMAIN chans[c].memb :
               chans[c].memb[y].u = users[i] => y = i
      BY <1>3, <1>5, <2>4 DEF UsersInv, KeysAgree
    <3>1. CASE c \in ChansWith(k) /\ x = l
      BY <2>3, <2>4, <3>0, <3>1
    <3>2. CASE c \in ChansWith(k) /\ x # l
      BY <2>3, <2>4, <3>0, <3>2
    <3>3. CASE c \notin ChansWith(k)
      <4>1. chans'[c] = chans[c] /\ k \notin DOMAIN chans[c].memb
        BY <2>3, <3>3 DEF ChansWith
      <4> QED BY <2>4, <3>0, <4>1
    <3> QED BY <3>1, <3>2, <3>3
  <2> QED BY <2>5, <2>6, <2>7, <2>8 DEF Keeps, UsersInv
<1> QED BY <1>1, <1>2, <1>4, <1>5 DEF RenameUser

(* It runs out of memory, and leaves the user map wrong.                    *)
LEMMA RenameUserFailsStep ==
  ASSUME UcTypeOK, MembInv, UsersInv, NEW n \in Nick, NEW m \in Nick, RenameUserFails(n, m)
  PROVE  UcTypeOK' /\ MembInv'
<1>1. PICK k \in Nick, l \in Nick : k = NickKey[n] /\ l = NickKey[m]
  BY KeyAssumption
<1>2. PICK u \in DOMAIN uobj : u = users[k]
  BY <1>1 DEF RenameUserFails, KnownUser, UsersInv, UsersLive
<1>3. /\ k \in DOMAIN users /\ k # l /\ SetNick(u, m) /\ owned' = owned
  BY <1>1, <1>2 DEF RenameUserFails, KnownUser
<1>4. /\ IsMap(uobj', Obj, UserRec) /\ DOMAIN uobj' = DOMAIN uobj
      /\ \A o \in DOMAIN uobj :
           /\ uobj'[o].nchans = uobj[o].nchans
           /\ o # u => uobj'[o].nick = uobj[o].nick
      /\ uobj'[u].nick = m
  BY <1>3, SetNickStep
<1>5. CASE users' = users /\ chans' = chans
  <2>1. UcTypeOK'
    BY <1>3, <1>4, <1>5 DEF UcTypeOK
  <2>2. \A c \in DOMAIN chans : Refs(c)' = Refs(c)
    BY <1>5 DEF Refs
  <2>3. OncePerChan'
    BY <1>5 DEF MembInv, OncePerChan
  <2> QED BY <1>4, <1>5, <2>1, <2>2, <2>3, FewerRefs
<1>6. ASSUME NEW D \in SUBSET ChansWith(k),
             users' = Del(Put(users, l, users[k]), k), Rekey(k, l, D)
      PROVE  UcTypeOK' /\ MembInv'
  <2>1. /\ chans' = [c \in DOMAIN chans |-> chans'[c]]
        /\ \A c \in DOMAIN chans :
             IsMap(chans'[c].memb, Nick, Memb) /\ chans'[c] \in ChanRec(chans'[c].memb)
        /\ \A c \in DOMAIN chans : Refs(c)' \subseteq Refs(c)
        /\ OncePerChan'
    <3>1. D \subseteq ChansWith(k)
      OBVIOUS
    <3> QED BY <1>3, <1>6, <3>1, RekeyRefs
  <2>2. IsMap(users', Nick, Obj)
    BY <1>3, <1>6, RekeyUser
  <2>3. UcTypeOK'
    BY <1>3, <1>4, <2>1, <2>2 DEF UcTypeOK
  <2> QED BY <1>4, <2>1, <2>3, FewerRefs
<1> QED BY <1>1, <1>5, <1>6 DEF RenameUserFails

-----------------------------------------------------------------------------
(* The inductive invariant *)

(* The rest of TypeOK.                                                      *)
CtlOK ==
  /\ online \in BOOLEAN /\ tracking \in BOOLEAN /\ dangling \in BOOLEAN
  /\ endofnames \in BOOLEAN
  /\ mynick \in Nick \cup {NoNick}
  /\ names \in Seq(NameIn)
  /\ phase \in Phase

(* h_353 is at work only within irc_read, on a connection that is up.       *)
NamesOnline == names # <<>> => online /\ phase = "run"

Inv == UcTypeOK /\ CtlOK /\ RefInv /\ NamesOnline

LEMMA Up ==
  ASSUME Inv, online
  PROVE  UcTypeOK /\ CtlOK /\ MembInv /\ UsersInv
  BY DEF Inv, RefInv

LEMMA KeepsInv ==
  ASSUME Keeps, CtlOK', NamesOnline'
  PROVE  Inv'
  BY DEF Keeps, Inv, RefInv

(* A step that can happen offline, and leaves us as we are.                 *)
LEMMA AnywhereInv ==
  ASSUME Inv, UcTypeOK', MembInv', UsersInv => UsersInv', CtlOK', NamesOnline', online' => online
  PROVE  Inv'
  BY DEF Inv, RefInv, CtlOK

(* Without channels and without users there is nothing to go wrong.         *)
LEMMA EmptyStep ==
  ASSUME UcTypeOK', users' = EmptyMap, chans' = EmptyMap
  PROVE  Keeps
<1>1. DOMAIN users' = {} /\ DOMAIN chans' = {}
  BY DEF EmptyMap
<1>2. MembLive' /\ OncePerChan'
  BY <1>1 DEF MembLive, OncePerChan
<1>3. NchansEnough'
  <2> SUFFICES ASSUME NEW o \in DOMAIN uobj'
               PROVE  Cardinality(RefChans(o)') <= uobj'[o].nchans
    BY DEF NchansEnough
  <2>1. RefChans(o)' = {}
    BY <1>1 DEF RefChans
  <2>2. uobj'[o].nchans \in Nat
    BY DEF UcTypeOK, IsMap, UserRec
  <2> QED BY <2>1, <2>2, FS_EmptySet
<1>4. UsersInv'
  BY <1>1 DEF UsersInv, UsersLive, KeysAgree
<1> QED BY <1>2, <1>3, <1>4 DEF Keeps, MembInv

LEMMA EmptyMapType == IsMap(EmptyMap, Nick, Obj)
  BY DEF EmptyMap, IsMap

LEMMA InitInv == Init => Inv
<1> SUFFICES ASSUME Init PROVE Inv
  OBVIOUS
<1>1. DOMAIN users = {} /\ DOMAIN chans = {} /\ DOMAIN uobj = {}
  BY DEF Init, EmptyMap
<1>2. UcTypeOK
  BY <1>1 DEF Init, UcTypeOK, IsMap, EmptyMap
<1>3. RefInv
  BY <1>1 DEF RefInv, MembInv, UsersInv, MembLive, OncePerChan, NchansEnough, UsersLive, KeysAgree
<1>4. CtlOK /\ NamesOnline
  <2>1. <<>> \in Seq(NameIn)
    OBVIOUS
  <2>2. /\ online \in BOOLEAN /\ tracking \in BOOLEAN /\ dangling \in BOOLEAN
        /\ endofnames \in BOOLEAN
    BY DEF Init
  <2>3. mynick \in Nick \cup {NoNick} /\ names = <<>> /\ phase \in Phase
    BY DEF Init, Phase
  <2> QED BY <2>1, <2>2, <2>3 DEF CtlOK, NamesOnline
<1> QED BY <1>2, <1>3, <1>4 DEF Inv

LEMMA GiveUpOK ==
  ASSUME CtlOK, GiveUp
  PROVE  CtlOK' /\ NamesOnline'
<1>1. /\ online' = FALSE /\ names' = <<>> /\ <<>> \in Seq(NameIn)
      /\ mynick' = mynick /\ tracking' = tracking /\ dangling' = dangling
      /\ endofnames' = endofnames /\ phase' = phase
  BY DEF GiveUp
<1> QED BY <1>1 DEF CtlOK, NamesOnline

LEMMA CarryOnOK ==
  ASSUME CtlOK, names = <<>>, CarryOn
  PROVE  CtlOK' /\ NamesOnline'
  BY DEF CarryOn, conn, CtlOK, NamesOnline

LEMMA JoinInv ==
  ASSUME Inv, NEW n \in Nick, NEW c \in Chan, h_JOIN(n, c)
  PROVE  Inv'
<1>1. UcTypeOK /\ CtlOK /\ MembInv /\ UsersInv /\ ChanKey[c] \in Chan
  BY Up, KeyAssumption DEF h_JOIN, Tracking
<1>2. CtlOK' /\ NamesOnline'
  BY <1>1, GiveUpOK, CarryOnOK DEF h_JOIN, Tracking, Idle
<1>3. CASE UNCHANGED ucvars
  BY <1>1, <1>2, <1>3, Stutter, KeepsInv DEF Keeps
<1>4. CASE AddChan(ChanKey[c]) /\ ~KnownChan(c)
  <2>1. PICK k \in Chan : k = ChanKey[c]
    BY <1>1
  <2>2. k \notin DOMAIN chans /\ AddChan(k)
    BY <1>4, <2>1 DEF KnownChan
  <2>3. Keeps
    BY <1>1, <2>2, AddChanStep
  <2> QED BY <1>2, <2>3, KeepsInv
<1>5. CASE AddMember(ChanKey[c], n, <<>>)
  <2>1. <<>> \in Seq(Sym)
    OBVIOUS
  <2>2. Keeps
    BY <1>1, <1>5, <2>1, AddMemberStep
  <2> QED BY <1>2, <2>2, KeepsInv
<1>6. CASE AddMemberFails(ChanKey[c], n)
  BY <1>1, <1>2, <1>6, AddMemberFailsStep, KeepsInv
<1> QED BY <1>3, <1>4, <1>5, <1>6 DEF h_JOIN

LEMMA NamesInv ==
  ASSUME Inv, NEW c \in Chan, NEW list \in Seq(Entry), h_353(c, list)
  PROVE  Inv'
<1>1. UcTypeOK /\ CtlOK /\ MembInv /\ UsersInv /\ ChanKey[c] \in Chan /\ online
  BY Up, KeyAssumption DEF h_353, Tracking
<1>2. names' \in Seq(NameIn)
  <2>1. list \in Seq(Entry)
    OBVIOUS
  <2>2. \A i \in 1..Len(list) : In(ChanKey[c], list[i]) \in NameIn
    <3> SUFFICES ASSUME NEW i \in 1..Len(list) PROVE In(ChanKey[c], list[i]) \in NameIn
      OBVIOUS
    <3>1. list[i] \in Entry
      BY <2>1
    <3>2. list[i].nick \in Nick /\ list[i].pfx \in Pfx1
      BY <3>1 DEF Entry
    <3> QED BY <1>1, <3>2 DEF In, NameIn
  <2>3. CASE names' = [i \in 1..Len(list) |-> In(ChanKey[c], list[i])]
    BY <2>1, <2>2, <2>3, IsASeq
  <2>4. CASE names' = names
    BY <1>1, <2>4 DEF CtlOK
  <2> QED BY <2>3, <2>4 DEF h_353, CarryOn
<1>3. CtlOK' /\ NamesOnline'
  BY <1>1, <1>2 DEF h_353, Tracking, Idle, CarryOn, conn, CtlOK, NamesOnline
<1>4. CASE UNCHANGED ucvars
  BY <1>1, <1>3, <1>4, Stutter, KeepsInv DEF Keeps
<1>5. CASE ClearMemb(ChanKey[c]) /\ KnownChan(c)
  BY <1>1, <1>3, <1>5, EmptyChan, KeepsInv DEF Keeps, KnownChan
<1> QED BY <1>4, <1>5 DEF h_353

LEMMA NextNameInv ==
  ASSUME Inv, NextName
  PROVE  Inv'
<1>1. UcTypeOK /\ CtlOK /\ MembInv /\ UsersInv /\ online /\ phase = "run"
  BY Up DEF NextName, Inv, NamesOnline
<1>2. Head(names) \in NameIn /\ Tail(names) \in Seq(NameIn)
  BY <1>1 DEF CtlOK, NextName
<1>3. PICK c \in Chan, n \in Nick, p \in Seq(Sym) :
        c = Head(names).chan /\ n = Head(names).nick /\ p = Head(names).pfx
  <2>1. Pfx1 \subseteq Seq(Sym)
    <3>1. <<>> \in Seq(Sym) /\ \A x \in Sym : <<x>> \in Seq(Sym)
      OBVIOUS
    <3> QED BY <3>1 DEF Pfx1
  <2>2. /\ Head(names).chan \in Chan /\ Head(names).nick \in Nick
        /\ Head(names).pfx \in Pfx1
    BY <1>2 DEF NameIn
  <2> QED BY <2>1, <2>2
<1>4. CtlOK' /\ NamesOnline'
  <2>1. CASE /\ names' = Tail(names)
             /\ UNCHANGED <<conn, endofnames, phase>>
    BY <1>1, <1>2, <2>1 DEF conn, CtlOK, NamesOnline
  <2> QED BY <1>1, <2>1, GiveUpOK DEF NextName
<1>5. CASE AddMember(c, n, p)
  BY <1>1, <1>4, <1>5, AddMemberStep, KeepsInv
<1>6. CASE AddMemberFails(c, n)
  BY <1>1, <1>4, <1>6, AddMemberFailsStep, KeepsInv
<1> QED BY <1>3, <1>5, <1>6 DEF NextName

LEMMA PartInv ==
  ASSUME Inv, NEW n \in Nick, NEW c \in Chan, h_PART(n, c)
  PROVE  Inv'
<1>1. UcTypeOK /\ CtlOK /\ MembInv /\ UsersInv
  BY Up DEF h_PART, Tracking
<1>2. CtlOK' /\ NamesOnline'
  BY <1>1 DEF h_PART, Tracking, Idle, CarryOn, conn, CtlOK, NamesOnline
<1>3. PICK u : u = users[NickKey[n]]
  OBVIOUS
<1>4. CASE UNCHANGED ucvars
  BY <1>1, <1>2, <1>4, Stutter, KeepsInv DEF Keeps
<1>5. CASE DropChan(ChanKey[c]) /\ KnownChan(c)
  BY <1>1, <1>2, <1>5, EmptyChan, KeepsInv DEF Keeps, KnownChan
<1>6. CASE DropMemb(ChanKey[c], u) /\ KnownChan(c)
  BY <1>1, <1>2, <1>6, DropMembStep, KeepsInv DEF KnownChan
<1> QED BY <1>3, <1>4, <1>5, <1>6 DEF h_PART

LEMMA QuitInv ==
  ASSUME Inv, NEW n \in Nick, h_QUIT(n)
  PROVE  Inv'
<1>1. UcTypeOK /\ CtlOK /\ MembInv /\ UsersInv
  BY Up DEF h_QUIT, Tracking
<1>2. CtlOK' /\ NamesOnline'
  BY <1>1 DEF h_QUIT, Tracking, Idle, CarryOn, conn, CtlOK, NamesOnline
<1>3. CASE UNCHANGED ucvars
  BY <1>1, <1>2, <1>3, Stutter, KeepsInv DEF Keeps
<1>4. CASE DropUser(users[NickKey[n]]) /\ KnownUser(n)
  BY <1>1, <1>2, <1>4, DropUserStep, KeepsInv DEF KnownUser
<1> QED BY <1>3, <1>4 DEF h_QUIT

LEMMA NickInv ==
  ASSUME Inv, NEW n \in Nick, NEW m \in Nick, h_NICK(n, m)
  PROVE  Inv'
<1>1. UcTypeOK /\ CtlOK /\ MembInv /\ UsersInv /\ names = <<>>
  BY Up DEF h_NICK, Idle
<1>2. CtlOK' /\ NamesOnline'
  <2>1. mynick' \in Nick \cup {NoNick} /\ names' = <<>> /\ online' \in BOOLEAN
    BY <1>1 DEF h_NICK, handle_NICK, CtlOK
  <2> QED BY <1>1, <2>1 DEF h_NICK, CtlOK, NamesOnline
<1>3. CASE UNCHANGED ucvars
  BY <1>1, <1>2, <1>3, Stutter, KeepsInv DEF Keeps
<1>4. CASE RenameUser(n, m)
  BY <1>1, <1>2, <1>4, RenameUserStep, KeepsInv
<1>5. CASE RenameUserGivesUp(n, m)
  BY <1>3, <1>5 DEF RenameUserGivesUp
<1>6. CASE RenameUserFails(n, m) /\ online' = FALSE
  <2>1. UcTypeOK' /\ MembInv'
    BY <1>1, <1>6, RenameUserFailsStep
  <2>2. "rename" \in FailSites
    BY <1>6 DEF RenameUserFails
  <2> QED BY <1>2, <1>6, <2>1, <2>2 DEF Inv, RefInv
<1> QED BY <1>3, <1>4, <1>5, <1>6 DEF h_NICK

LEMMA ModeInv ==
  ASSUME Inv, NEW c \in Chan, NEW n \in Nick, NEW s \in Sym, NEW enab \in BOOLEAN,
         h_MODE(c, n, s, enab)
  PROVE  Inv'
<1>1. UcTypeOK /\ CtlOK /\ MembInv /\ UsersInv /\ names = <<>>
  BY Up DEF h_MODE, Tracking, Idle
<1>2. CtlOK' /\ NamesOnline'
  BY <1>1, CarryOnOK DEF h_MODE
<1>3. CASE UNCHANGED ucvars
  BY <1>1, <1>2, <1>3, Stutter, KeepsInv DEF Keeps
<1>4. CASE UpdateModePfx(ChanKey[c], n, s, enab) /\ KnownChan(c)
  BY <1>1, <1>2, <1>4, UpdateModePfxStep, KeepsInv DEF KnownChan, Keeps
<1> QED BY <1>3, <1>4 DEF h_MODE

LEMMA SupportInv ==
  ASSUME Inv, handle_005
  PROVE  Inv'
<1>1. UcTypeOK /\ CtlOK /\ MembInv /\ UsersInv
  BY Up DEF handle_005
<1>2. CASE handle_005_Fails
  <2>1. /\ UNCHANGED <<users, chans, tracking, endofnames>> /\ dangling' \in BOOLEAN
        /\ UNCHANGED <<uobj, owned, online, mynick, names, phase>>
    BY <1>1, <1>2 DEF handle_005, handle_005_Fails, CtlOK
  <2>2. UNCHANGED ucvars /\ CtlOK' /\ NamesOnline'
    BY <1>1, <2>1 DEF ucvars, CtlOK, NamesOnline, handle_005, Idle
  <2> QED BY <1>1, <2>2, Stutter, KeepsInv DEF Keeps
<1>3. CASE /\ tracking' = TRUE /\ endofnames' = TRUE /\ dangling' = FALSE
           /\ users' = EmptyMap /\ chans' = EmptyMap
           /\ UNCHANGED <<uobj, owned, online, mynick, names, phase>>
  <2>1. UcTypeOK'
    BY <1>1, <1>3, EmptyMapType DEF UcTypeOK, EmptyMap
  <2>2. CtlOK' /\ NamesOnline'
    BY <1>1, <1>3 DEF CtlOK, NamesOnline, handle_005, Idle
  <2> QED BY <1>3, <2>1, <2>2, EmptyStep, KeepsInv
<1> QED BY <1>2, <1>3 DEF handle_005

LEMMA TagInv ==
  ASSUME Inv, NEW t \in TagKinds,
         \/ \E n \in Nick : irc_tag_user(n, t)
         \/ \E c \in Chan : irc_tag_chan(c, t)
  PROVE  Inv'
<1>1. UcTypeOK /\ CtlOK /\ MembInv /\ t \in Tag
  BY TrackAssumption DEF Inv, RefInv
<1>2. CtlOK' /\ NamesOnline' /\ online' = online
  BY <1>1, CarryOnOK DEF irc_tag_user, irc_tag_chan, Idle, CarryOn, conn
<1>3. UcTypeOK' /\ MembInv' /\ (UsersInv => UsersInv')
  BY <1>1, TagUserStep, TagChanStep DEF irc_tag_user, irc_tag_chan
<1> QED BY <1>2, <1>3, AnywhereInv

LEMMA LostInv ==
  ASSUME Inv, Lost \/ UNCHANGED vars
  PROVE  Inv'
<1>1. UcTypeOK /\ CtlOK /\ MembInv
  BY DEF Inv, RefInv
<1>2. UNCHANGED ucvars /\ CtlOK' /\ NamesOnline' /\ (online' => online)
  <2>1. CASE Lost
    BY <1>1, <2>1 DEF Lost, Idle, CtlOK, NamesOnline
  <2>2. CASE UNCHANGED vars
    BY <1>1, <2>2 DEF Inv, vars, conn, CtlOK, NamesOnline
  <2> QED BY <2>1, <2>2
<1> QED BY <1>1, <1>2, Stutter, AnywhereInv

LEMMA DeinitInv ==
  ASSUME Inv, NEW p \in {"connect", "dispose"}, lsi_trk_deinit(p)
  PROVE  Inv'
<1>1. UcTypeOK /\ CtlOK /\ MembInv
  BY DEF Inv, RefInv
<1>2. /\ uobj' = uobj /\ chans' = chans /\ owned' = owned /\ online' = online
      /\ users' = EmptyMap \/ users' = users
  BY DEF lsi_trk_deinit, conn
<1>3. CtlOK' /\ NamesOnline'
  BY <1>1 DEF lsi_trk_deinit, Idle, conn, CtlOK, NamesOnline, Phase
<1>4. CASE users' = users
  BY <1>1, <1>2, <1>3, <1>4, Stutter, AnywhereInv DEF ucvars
<1>5. CASE users' = EmptyMap
  <2>1. UcTypeOK'
    BY <1>1, <1>2, <1>5, EmptyMapType DEF UcTypeOK
  <2>2. MembInv'
    <3>1. \A o : RefChans(o)' = RefChans(o)
      BY <1>2 DEF RefChans, Refs
    <3> QED BY <1>1, <1>2, <3>1 DEF MembInv, MembLive, OncePerChan, NchansEnough, Refs
  <2>3. UsersInv'
    BY <1>5 DEF UsersInv, UsersLive, KeysAgree, EmptyMap
  <2> QED BY <1>3, <2>1, <2>2, <2>3, KeepsInv DEF Keeps
<1> QED BY <1>2, <1>4, <1>5

LEMMA ClearInv ==
  ASSUME Inv, ClearNext
  PROVE  Inv'
<1>1. UcTypeOK /\ CtlOK /\ MembInv
  BY DEF Inv, RefInv
<1>2. CtlOK' /\ NamesOnline' /\ online' = online
  BY <1>1 DEF Inv, ClearNext, CarryOn, conn, CtlOK, NamesOnline
<1>3. UcTypeOK' /\ MembInv' /\ (UsersInv => UsersInv')
  BY <1>1, EmptyChan DEF ClearNext
<1> QED BY <1>2, <1>3, AnywhereInv

LEMMA ClearedInv ==
  ASSUME Inv, NamesOnline', CtlOK', Cleared
  PROVE  Inv'
<1>1. UcTypeOK
  BY DEF Inv
<1>2. users' = EmptyMap /\ chans' = EmptyMap /\ owned' = owned /\ chans' = chans
  BY DEF Cleared, ClearUsers
<1>3. uobj' = Restrict(uobj, DOMAIN uobj \ Range(users))
  BY DEF Cleared, ClearUsers
<1>4. IsMap(uobj', Obj, UserRec)
  BY <1>1, <1>3 DEF UcTypeOK, IsMap, Restrict
<1>5. UcTypeOK'
  BY <1>1, <1>2, <1>4, EmptyMapType DEF UcTypeOK
<1> QED BY <1>2, <1>5, EmptyStep, KeepsInv

LEMMA EndInv ==
  ASSUME Inv, h_366
  PROVE  Inv'
<1>1. UcTypeOK /\ CtlOK /\ MembInv /\ UsersInv
  BY Up DEF h_366, Tracking
<1>2. UNCHANGED ucvars /\ CtlOK' /\ NamesOnline'
  BY <1>1 DEF h_366, Tracking, Idle, conn, CtlOK, NamesOnline
<1> QED BY <1>1, <1>2, Stutter, KeepsInv DEF Keeps

LEMMA ConnectInv ==
  ASSUME Inv, irc_connect
  PROVE  Inv'
<1>1. CtlOK
  BY DEF Inv
<1>2. CtlOK'
  BY <1>1 DEF irc_connect, CtlOK, Phase
<1>3. names' = <<>>
  BY DEF irc_connect, Inv, NamesOnline
<1> QED BY <1>2, <1>3, ClearedInv DEF irc_connect, NamesOnline

LEMMA DisposeInv ==
  ASSUME Inv, irc_dispose
  PROVE  Inv'
<1>1. CtlOK /\ names' = <<>>
  BY DEF Inv, irc_dispose, NamesOnline
<1>2. CtlOK'
  BY <1>1 DEF irc_dispose, CtlOK, Phase
<1> QED BY <1>1, <1>2, ClearedInv DEF irc_dispose, NamesOnline

LEMMA UseFreedInv ==
  ASSUME Inv, UseFreed
  PROVE  Inv'
<1>1. UcTypeOK /\ CtlOK /\ MembInv /\ UNCHANGED <<ucvars, conn, endofnames, names>>
  BY DEF Inv, RefInv, UseFreed
<1>2. names = <<>>
  BY DEF Inv, NamesOnline, UseFreed, Idle
<1>3. CtlOK' /\ NamesOnline' /\ online' = online
  BY <1>1, <1>2 DEF UseFreed, conn, CtlOK, NamesOnline, Phase
<1> QED BY <1>1, <1>3, Stutter, AnywhereInv

LEMMA NextInv == Inv /\ [Next]_vars => Inv'
<1> SUFFICES ASSUME Inv, [Next]_vars PROVE Inv'
  OBVIOUS
<1>1. ASSUME NEW n \in Nick, NEW c \in Chan, h_JOIN(n, c) PROVE Inv'
  BY <1>1, JoinInv
<1>2. ASSUME NEW n \in Nick, NEW c \in Chan, h_PART(n, c) \/ h_KICK(n, c) PROVE Inv'
  BY <1>2, PartInv DEF h_KICK
<1>3. ASSUME NEW c \in Chan, NEW list \in NameLists, h_353(c, list) PROVE Inv'
  BY <1>3, NamesInv, TrackAssumption
<1>4. ASSUME h_366 PROVE Inv'
  BY <1>4, EndInv
<1>5. ASSUME NEW n \in Nick, h_QUIT(n) PROVE Inv'
  BY <1>5, QuitInv
<1>6. ASSUME NEW n \in Nick, NEW m \in Nick, h_NICK(n, m) PROVE Inv'
  BY <1>6, NickInv
<1>7. ASSUME NEW c \in Chan, NEW n \in Nick, NEW s \in Sym, NEW enab \in BOOLEAN,
             h_MODE(c, n, s, enab)
      PROVE  Inv'
  BY <1>7, ModeInv
<1>8. CASE handle_005
  BY <1>8, SupportInv
<1>9. CASE NextName
  BY <1>9, NextNameInv
<1>10. ASSUME NEW n \in Nick, NEW t \in TagKinds, irc_tag_user(n, t) PROVE Inv'
  BY <1>10, TagInv
<1>11. ASSUME NEW c \in Chan, NEW t \in TagKinds, irc_tag_chan(c, t) PROVE Inv'
  BY <1>11, TagInv
<1>12. ASSUME NEW p \in {"connect", "dispose"}, lsi_trk_deinit(p) PROVE Inv'
  BY <1>12, DeinitInv
<1>13. CASE ClearNext
  BY <1>13, ClearInv
<1>14. CASE irc_connect
  BY <1>14, ConnectInv
<1>15. CASE irc_dispose
  BY <1>15, DisposeInv
<1>16. CASE Lost \/ UNCHANGED vars
  BY <1>16, LostInv
<1>17. CASE UseFreed
  BY <1>17, UseFreedInv
<1> QED BY <1>1, <1>2, <1>3, <1>4, <1>5, <1>6, <1>7, <1>8, <1>9, <1>10, <1>11, <1>12,
           <1>13, <1>14, <1>15, <1>16, <1>17 DEF Next, Message, Application

-----------------------------------------------------------------------------
(* The state of the tracker is well-formed, whatever the server sends.      *)
THEOREM TypeCorrect == Spec => []TypeOK
<1>1. Inv => TypeOK
  BY DEF Inv, CtlOK, TypeOK
<1> QED BY <1>1, InitInv, NextInv, PTL DEF Spec

(* The references between the user map, the channels and the user objects   *)
(* are right, and nchans never too low, whatever the server sends, in any   *)
(* order, and whichever allocations fail; but for the user map after a      *)
(* rename that ran out of memory and ended the connection.                  *)
THEOREM RefCorrect == Spec => []RefInv
<1>1. Inv => RefInv
  BY DEF Inv
<1> QED BY <1>1, InitInv, NextInv, PTL DEF Spec

(* Even then no channel points to a user object that has been freed, or to  *)
(* one twice, and each object is counted by at least its channels.          *)
THEOREM MembersCorrect == Spec => []MembInv
<1>1. Inv => MembInv
  BY DEF Inv, RefInv
<1> QED BY <1>1, InitInv, NextInv, PTL DEF Spec

(* If something freed has been used, it is the channel map.                 *)
Sound == Inv /\ FreedOnce

(* That is kept by every step of the tracker, unless a rename runs out of   *)
(* memory: the users that are left in the user map are live.                *)
LEMMA StepSound ==
  "rename" \notin FailSites /\ Sound /\ [Next]_vars => Sound'
<1> SUFFICES ASSUME "rename" \notin FailSites, Sound, [Next]_vars PROVE Sound'
  OBVIOUS
<1>1. Inv /\ Inv' /\ FreedOnce
  BY NextInv DEF Sound
<1>2. CASE UseFreed
  <2>1. UsersLive
    BY <1>1 DEF Inv, RefInv, UsersInv
  <2>2. LeftLive
    BY <2>1 DEF UsersLive, LeftLive, Range
  <2>3. dangling /\ dangling' = dangling
    BY <1>2, <2>2 DEF UseFreed, conn
  <2> QED BY <1>1, <2>3 DEF Sound, FreedOnce
<1>3. ASSUME dangling' = dangling, phase' = phase PROVE Sound'
  BY <1>1, <1>3 DEF Sound, FreedOnce
<1>4. CarryOn \/ GiveUp \/ UNCHANGED vars => dangling' = dangling /\ phase' = phase
  BY DEF CarryOn, GiveUp, conn, vars
<1>5. CASE NextName \/ Lost \/ UNCHANGED vars
  <2>1. dangling' = dangling /\ phase' = phase
    BY <1>4, <1>5 DEF NextName, Lost, conn
  <2> QED BY <1>3, <2>1
<1>6. CASE irc_connect \/ irc_dispose \/ ClearNext
  <2>1. dangling' = dangling /\ (phase' = phase \/ phase' # "broken")
    BY <1>4, <1>6 DEF irc_connect, irc_dispose, ClearNext, conn
  <2> QED BY <1>1, <2>1 DEF Sound, FreedOnce
<1>7. ASSUME NEW p \in {"connect", "dispose"}, lsi_trk_deinit(p) PROVE Sound'
  BY <1>1, <1>7 DEF lsi_trk_deinit, Sound, FreedOnce
<1>8. CASE \/ \E n \in Nick, t \in TagKinds : irc_tag_user(n, t)
           \/ \E c \in Chan, t \in TagKinds : irc_tag_chan(c, t)
  BY <1>3, <1>4, <1>8 DEF irc_tag_user, irc_tag_chan
<1>9. CASE Message
  <2>1. ASSUME NEW n, NEW c, h_JOIN(n, c) \/ h_PART(n, c) \/ h_KICK(n, c) PROVE Sound'
    <3>1. CarryOn \/ GiveUp
      BY <2>1 DEF h_JOIN, h_PART, h_KICK
    <3> QED BY <1>3, <1>4, <3>1
  <2>2. ASSUME NEW c, NEW list, h_353(c, list) PROVE Sound'
    <3>1. dangling' = dangling /\ phase' = phase
      BY <1>4, <2>2 DEF h_353, conn
    <3> QED BY <1>3, <3>1
  <2>3. CASE h_366
    BY <1>3, <2>3 DEF h_366, conn
  <2>4. ASSUME NEW n, h_QUIT(n) PROVE Sound'
    BY <1>3, <1>4, <2>4 DEF h_QUIT
  <2>5. ASSUME NEW n, NEW m, h_NICK(n, m) PROVE Sound'
    BY <1>3, <2>5 DEF h_NICK
  <2>6. ASSUME NEW c, NEW n, NEW s, NEW enab, h_MODE(c, n, s, enab) PROVE Sound'
    BY <1>3, <1>4, <2>6 DEF h_MODE
  <2>7. CASE handle_005
    <3>1. phase' = phase /\ phase # "broken"
      BY <2>7 DEF handle_005, Idle
    <3> QED BY <1>1, <3>1 DEF Sound, FreedOnce
  <2> QED BY <1>9, <2>1, <2>2, <2>3, <2>4, <2>5, <2>6, <2>7 DEF Message
<1> QED BY <1>2, <1>5, <1>6, <1>7, <1>8, <1>9 DEF Next, Application

(* Whichever allocation fails but that of a rename, and whatever the server *)
(* says, irc_connect and irc_dispose free no user twice and come by nothing *)
(* that has been freed but the channel map that lsi_ucb_init may leave      *)
(* behind ("deallocate all resources", irc.h).                              *)
THEOREM FreeCorrect == "rename" \notin FailSites => (Spec => []FreedOnce)
<1> SUFFICES ASSUME "rename" \notin FailSites PROVE Spec => []FreedOnce
  OBVIOUS
<1>1. Init => Sound
  BY InitInv DEF Init, Sound, FreedOnce
<1>2. Sound => FreedOnce
  BY DEF Sound
<1> QED BY <1>1, <1>2, StepSound, PTL DEF Spec

-----------------------------------------------------------------------------
(* Autofree tags *)

Tagged(f) == {x \in DOMAIN f : f[x].tag = "auto"}

LEMMA AutoFinite ==
  ASSUME UcTypeOK
  PROVE  IsFiniteSet(Tagged(uobj)) /\ IsFiniteSet(Tagged(chans))
<1>1. Tagged(uobj) \in SUBSET Obj /\ Tagged(chans) \in SUBSET Chan
  BY DEF Tagged, UcTypeOK, IsMap
<1> QED BY <1>1, FiniteAssumption, FS_Subset

(* What is freed with users X and channels Y is subtracted.                 *)
LEMMA FewerTags ==
  ASSUME UcTypeOK, TagsAlive, NEW X \in SUBSET Tagged(uobj), NEW Y \in SUBSET Tagged(chans),
         Tagged(uobj)' \subseteq Tagged(uobj) \ X, Tagged(chans)' \subseteq Tagged(chans) \ Y,
         owned' = owned - Cardinality(X) - Cardinality(Y)
  PROVE  TagsAlive'
<1> DEFINE U == Tagged(uobj)
           C == Tagged(chans)
<1>1. IsFiniteSet(U) /\ IsFiniteSet(C)
  BY AutoFinite
<1>2. /\ Cardinality(X) \in Nat /\ Cardinality(U \ X) \in Nat
      /\ Cardinality(U \ X) + Cardinality(X) = Cardinality(U)
  BY <1>1, CardSplit
<1>3. /\ Cardinality(Y) \in Nat /\ Cardinality(C \ Y) \in Nat
      /\ Cardinality(C \ Y) + Cardinality(Y) = Cardinality(C)
  BY <1>1, CardSplit
<1>4. IsFiniteSet(U \ X) /\ IsFiniteSet(C \ Y)
  BY <1>1, FS_Subset
<1>5. /\ Cardinality(U') <= Cardinality(U \ X) /\ Cardinality(C') <= Cardinality(C \ Y)
      /\ Cardinality(U') \in Nat /\ Cardinality(C') \in Nat
  BY <1>4, FS_Subset, FS_CardinalityType
<1>6. Cardinality(U) + Cardinality(C) <= owned /\ owned \in Int
  BY DEF TagsAlive, UcTypeOK, Tagged
<1>7. Cardinality(U') + Cardinality(C') <= owned'
  <2> HIDE DEF U, C
  <2> QED BY <1>2, <1>3, <1>5, <1>6
<1> QED BY <1>7 DEF TagsAlive, Tagged

(* Nothing is freed and nothing new has a tag.                              *)
LEMMA NoMoreTags ==
  ASSUME UcTypeOK, TagsAlive, owned' = owned,
         Tagged(uobj)' \subseteq Tagged(uobj), Tagged(chans)' \subseteq Tagged(chans)
  PROVE  TagsAlive'
<1>1. Cardinality({}) = 0
  BY FS_EmptySet
<1>2. owned' = owned - Cardinality({}) - Cardinality({})
  BY <1>1 DEF UcTypeOK
<1>3. {} \in SUBSET Tagged(uobj) /\ {} \in SUBSET Tagged(chans)
  OBVIOUS
<1>4. Tagged(uobj)' \subseteq Tagged(uobj) \ {} /\ Tagged(chans)' \subseteq Tagged(chans) \ {}
  OBVIOUS
<1> QED BY <1>2, <1>3, <1>4, FewerTags

LEMMA ReleaseTags ==
  ASSUME UcTypeOK, NEW O, O \subseteq DOMAIN uobj, Release(O)
  PROVE  /\ Tagged(uobj)' \subseteq Tagged(uobj) \ {o \in Dying(O) : uobj[o].tag = "auto"}
         /\ {o \in Dying(O) : uobj[o].tag = "auto"} \in SUBSET Tagged(uobj)
<1>1. Dying(O) \subseteq DOMAIN uobj
  BY DEF Dying
<1>2. \A o \in DOMAIN uobj : uobj[o] \in UserRec
  BY DEF UcTypeOK, IsMap
<1>3. /\ DOMAIN uobj' = DOMAIN uobj \ Dying(O)
      /\ \A o \in DOMAIN uobj' :
           uobj'[o] = IF o \in O THEN [uobj[o] EXCEPT !.nchans = @ - 1] ELSE uobj[o]
  BY DEF Release
<1>4. \A o \in DOMAIN uobj' : uobj'[o].tag = uobj[o].tag
  BY <1>2, <1>3 DEF UserRec
<1> QED BY <1>1, <1>3, <1>4 DEF Tagged

(* The members of a channel go.                                             *)
LEMMA EmptyChanTags ==
  ASSUME UcTypeOK, MembInv, TagsAlive, NEW c \in DOMAIN chans,
         ClearMemb(c) \/ DropChan(c) \/ ClearChan(c)
  PROVE  TagsAlive'
<1> DEFINE X == {o \in Dying(Refs(c)) : uobj[o].tag = "auto"}
<1>1. /\ Tagged(uobj)' \subseteq Tagged(uobj) \ X /\ X \in SUBSET Tagged(uobj)
  <2>1. Refs(c) \subseteq DOMAIN uobj
    BY DEF MembInv, MembLive
  <2> QED BY <2>1, ReleaseTags DEF ClearMemb, DropChan, ClearChan
<1>2. UserTags(Dying(Refs(c))) = Cardinality(X) /\ UserTags(Dying(Refs(c))) \in Int
  <2>1. Dying(Refs(c)) \subseteq DOMAIN uobj
    BY DEF Dying, MembInv, MembLive
  <2> QED BY <2>1, TagsInt DEF UserTags
<1>3. Cardinality({}) = 0 /\ Cardinality({c}) = 1
  BY FS_EmptySet, FS_Singleton
<1>4. chans[c] \in ChanRec(chans[c].memb) /\ owned \in Int
  BY DEF UcTypeOK
<1> HIDE DEF X
<1>5. CASE ClearMemb(c) \/ ClearChan(c)
  <2>1. Tagged(chans)' \subseteq Tagged(chans) \ {}
    <3>1. CASE ClearMemb(c)
      <4>1. \A d \in DOMAIN chans : chans'[d].tag = chans[d].tag /\ DOMAIN chans' = DOMAIN chans
        BY <1>4, <3>1 DEF ClearMemb, ChanRec
      <4> QED BY <4>1, <3>1 DEF ClearMemb, Tagged
    <3>2. CASE ClearChan(c)
      BY <3>2 DEF ClearChan, Del, Restrict, Tagged
    <3> QED BY <1>5, <3>1, <3>2
  <2>2. owned' = owned - Cardinality(X) - Cardinality({})
    <3>1. owned' = owned - UserTags(Dying(Refs(c)))
      BY <1>5 DEF ClearMemb, ClearChan
    <3> QED BY <3>1, <1>2, <1>3, <1>4
  <2> QED BY <1>1, <2>1, <2>2, FewerTags
<1>6. CASE DropChan(c)
  <2>1. chans' = Del(chans, c) /\ owned' = owned - UserTags(Dying(Refs(c))) - ChanTags(c)
    BY <1>6 DEF DropChan
  <2>2. PICK Y \in SUBSET Tagged(chans) : Y = {c} \cap Tagged(chans)
    OBVIOUS
  <2>3. Tagged(chans)' \subseteq Tagged(chans) \ Y
    BY <2>1, <2>2 DEF Del, Restrict, Tagged
  <2>4. ChanTags(c) = Cardinality(Y)
    <3>1. CASE c \in Tagged(chans)
      <4>1. Y = {c} /\ ChanTags(c) = 1
        BY <2>2, <3>1 DEF ChanTags, Tagged
      <4> QED BY <4>1, <1>3
    <3>2. CASE c \notin Tagged(chans)
      <4>1. Y = {} /\ ChanTags(c) = 0
        BY <2>2, <3>2 DEF ChanTags, Tagged
      <4> QED BY <4>1, <1>3
    <3> QED BY <3>1, <3>2
  <2>5. owned' = owned - Cardinality(X) - Cardinality(Y)
    BY <1>2, <2>1, <2>4
  <2> QED BY <1>1, <2>2, <2>3, <2>5, FewerTags
<1> QED BY <1>5, <1>6

(* One member goes.                                                         *)
LEMMA DropMembTags ==
  ASSUME UcTypeOK, MembInv, TagsAlive, NEW c \in DOMAIN chans, NEW u, DropMemb(c, u)
  PROVE  TagsAlive'
<1> DEFINE k == NickKey[uobj[u].nick]
           O == {chans[c].memb[k].u}
           X == {o \in Dying(O) : uobj[o].tag = "auto"}
<1>1. CASE UNCHANGED ucvars
  BY <1>1, NoMoreTags DEF ucvars, Tagged
<1>2. CASE /\ k \in DOMAIN chans[c].memb
           /\ Release(O) /\ chans' = [chans EXCEPT ![c].memb = Del(@, k)]
           /\ owned' = owned - UserTags(Dying(O))
  <2>1. O \subseteq DOMAIN uobj
    BY <1>2 DEF MembInv, MembLive, Refs
  <2>2. Tagged(uobj)' \subseteq Tagged(uobj) \ X /\ X \in SUBSET Tagged(uobj)
    BY <1>2, <2>1, ReleaseTags
  <2>3. UserTags(Dying(O)) = Cardinality(X) /\ UserTags(Dying(O)) \in Int
    <3>1. Dying(O) \subseteq DOMAIN uobj
      BY <2>1 DEF Dying
    <3> QED BY <3>1, TagsInt DEF UserTags
  <2>4. chans[c] \in ChanRec(chans[c].memb) /\ owned \in Int
    BY DEF UcTypeOK
  <2>5. Tagged(chans)' \subseteq Tagged(chans) \ {}
    <3>1. DOMAIN chans' = DOMAIN chans /\ \A d \in DOMAIN chans : chans'[d].tag = chans[d].tag
      BY <1>2, <2>4 DEF ChanRec
    <3> QED BY <3>1 DEF Tagged
  <2> HIDE DEF X
  <2>6. owned' = owned - Cardinality(X) - Cardinality({})
    <3>1. Cardinality({}) = 0
      BY FS_EmptySet
    <3>2. PICK x \in Int : x = Cardinality(X) /\ x = UserTags(Dying(O))
      BY <2>3
    <3>3. owned' = owned - x
      BY <1>2, <3>2
    <3>4. owned - x = owned - x - 0
      BY <2>4
    <3> QED BY <3>1, <3>2, <3>3, <3>4
  <2> QED BY <2>2, <2>5, <2>6, FewerTags
<1> QED BY <1>1, <1>2 DEF DropMemb

(* A key goes from every channel, and the objects X with it.                *)
LEMMA UnlinkTags ==
  ASSUME UcTypeOK, NEW k, NEW X, UnlinkKey(k, X)
  PROVE  /\ Tagged(uobj)' \subseteq Tagged(uobj) \ X
         /\ Tagged(chans)' \subseteq Tagged(chans)
<1>1. \A o \in DOMAIN uobj : uobj[o] \in UserRec
  BY DEF UcTypeOK, IsMap
<1>2. \A c \in DOMAIN chans : chans[c] \in ChanRec(chans[c].memb)
  BY DEF UcTypeOK
<1>3. DOMAIN uobj' = DOMAIN uobj \ X /\ \A o \in DOMAIN uobj' : uobj'[o].tag = uobj[o].tag
  BY <1>1 DEF UnlinkKey, UserRec
<1>4. DOMAIN chans' = DOMAIN chans /\ \A c \in DOMAIN chans : chans'[c].tag = chans[c].tag
  BY <1>2 DEF UnlinkKey, ChanRec
<1> QED BY <1>3, <1>4 DEF Tagged

(* A user goes.                                                             *)
LEMMA DropUserTags ==
  ASSUME UcTypeOK, TagsAlive, NEW u \in DOMAIN uobj, DropUser(u)
  PROVE  TagsAlive'
<1>1. PICK X \in SUBSET Tagged(uobj) : X = {u} \cap Tagged(uobj)
  OBVIOUS
<1>2. UnlinkKey(NickKey[uobj[u].nick], {u}) /\ owned' = owned - UserTags({u})
  BY DEF DropUser
<1>3. Tagged(uobj)' \subseteq Tagged(uobj) \ X /\ Tagged(chans)' \subseteq Tagged(chans) \ {}
  BY <1>1, <1>2, UnlinkTags
<1>4. X = {o \in {u} : uobj[o].tag = "auto"}
  BY <1>1 DEF Tagged
<1>5. UserTags({u}) = Cardinality(X) /\ UserTags({u}) \in Int /\ owned \in Int
  BY <1>4, TagsInt DEF UserTags, UcTypeOK
<1>6. owned' = owned - Cardinality(X) - Cardinality({})
  BY <1>2, <1>5, FS_EmptySet
<1> QED BY <1>3, <1>6, FewerTags

(* A channel or a member is new, or could not be added.                     *)
LEMMA AddChanTags ==
  ASSUME UcTypeOK, TagsAlive, NEW c, AddChan(c)
  PROVE  TagsAlive'
<1>1. uobj' = uobj /\ owned' = owned /\ chans' = Put(chans, c, [memb |-> EmptyMap, tag |-> "none"])
  BY DEF AddChan
<1>2. Tagged(chans)' \subseteq Tagged(chans)
  BY <1>1 DEF Put, Tagged
<1>3. Tagged(uobj)' \subseteq Tagged(uobj)
  BY <1>1 DEF Tagged
<1> QED BY <1>1, <1>2, <1>3, NoMoreTags

LEMMA LinkTags ==
  ASSUME UcTypeOK, NEW c, NEW k, NEW u, NEW p, LinkMemb(c, k, u, p)
  PROVE  Tagged(chans)' \subseteq Tagged(chans)
<1>1. \A d \in DOMAIN chans : chans[d] \in ChanRec(chans[d].memb)
  BY DEF UcTypeOK
<1>2. DOMAIN chans' = DOMAIN chans /\ \A d \in DOMAIN chans : chans'[d].tag = chans[d].tag
  BY <1>1 DEF LinkMemb, ChanRec
<1> QED BY <1>2 DEF Tagged

LEMMA AddMemberTags ==
  ASSUME UcTypeOK, TagsAlive, NEW c, NEW n, NEW p, AddMember(c, n, p)
  PROVE  TagsAlive'
<1>1. owned' = owned /\ Tagged(chans)' \subseteq Tagged(chans)
  BY LinkTags DEF AddMember
<1>2. \A o \in DOMAIN uobj : uobj[o] \in UserRec
  BY DEF UcTypeOK, IsMap
<1>3. CASE uobj' = [uobj EXCEPT ![users[NickKey[n]]].nchans = @ + 1]
  <2>1. DOMAIN uobj' = DOMAIN uobj /\ \A o \in DOMAIN uobj : uobj'[o].tag = uobj[o].tag
    BY <1>2, <1>3 DEF UserRec
  <2> QED BY <1>1, <2>1, NoMoreTags DEF Tagged
<1>4. CASE uobj' = Put(uobj, Fresh, [nick |-> n, nchans |-> 1, tag |-> "none"])
  <2>1. Tagged(uobj)' \subseteq Tagged(uobj)
    BY <1>4 DEF Put, Tagged
  <2> QED BY <1>1, <2>1, NoMoreTags
<1> QED BY <1>3, <1>4 DEF AddMember, AddUser

LEMMA AddMemberFailsTags ==
  ASSUME UcTypeOK, TagsAlive, NEW c, NEW n, AddMemberFails(c, n)
  PROVE  TagsAlive'
<1>1. CASE UNCHANGED ucvars
  BY <1>1, NoMoreTags DEF ucvars, Tagged
<1>2. CASE UnlinkKey(NickKey[n], {}) /\ owned' = owned
  BY <1>2, UnlinkTags, NoMoreTags
<1> QED BY <1>1, <1>2 DEF AddMemberFails

(* A user is renamed, or half so.                                           *)
LEMMA RekeyTags ==
  ASSUME UcTypeOK, NEW k, NEW l, NEW D, Rekey(k, l, D)
  PROVE  Tagged(chans)' \subseteq Tagged(chans)
<1>1. \A d \in DOMAIN chans : chans[d] \in ChanRec(chans[d].memb)
  BY DEF UcTypeOK
<1>2. DOMAIN chans' = DOMAIN chans /\ \A d \in DOMAIN chans : chans'[d].tag = chans[d].tag
  BY <1>1 DEF Rekey, ChanRec
<1> QED BY <1>2 DEF Tagged

LEMMA SetNickTags ==
  ASSUME UcTypeOK, NEW u, NEW m, SetNick(u, m)
  PROVE  Tagged(uobj)' \subseteq Tagged(uobj)
<1>1. \A o \in DOMAIN uobj : uobj[o] \in UserRec
  BY DEF UcTypeOK, IsMap
<1>2. DOMAIN uobj' = DOMAIN uobj /\ \A o \in DOMAIN uobj : uobj'[o].tag = uobj[o].tag
  BY <1>1 DEF SetNick, UserRec
<1> QED BY <1>2 DEF Tagged

LEMMA RenameTags ==
  ASSUME UcTypeOK, TagsAlive, NEW n, NEW m, RenameUser(n, m) \/ RenameUserFails(n, m)
  PROVE  TagsAlive'
<1>1. CASE UNCHANGED ucvars
  BY <1>1, NoMoreTags DEF ucvars, Tagged
<1>2. CASE /\ SetNick(users[NickKey[n]], m) /\ owned' = owned
           /\ chans' = chans \/ \E D : Rekey(NickKey[n], NickKey[m], D)
  <2>1. Tagged(uobj)' \subseteq Tagged(uobj)
    BY <1>2, SetNickTags
  <2>2. Tagged(chans)' \subseteq Tagged(chans)
    BY <1>2, RekeyTags DEF Tagged
  <2> QED BY <1>2, <2>1, <2>2, NoMoreTags
<1> QED BY <1>1, <1>2 DEF RenameUser, RenameUserFails

(* Prefixes have nothing to do with it.                                     *)
LEMMA ModeTags ==
  ASSUME UcTypeOK, TagsAlive, NEW c \in DOMAIN chans, NEW n, NEW s, NEW enab,
         UpdateModePfx(c, n, s, enab)
  PROVE  TagsAlive'
<1>1. \A d \in DOMAIN chans : chans[d] \in ChanRec(chans[d].memb)
  BY DEF UcTypeOK
<1>2. CASE UNCHANGED ucvars
  BY <1>2, NoMoreTags DEF ucvars, Tagged
<1>3. CASE ~UNCHANGED ucvars
  <2>1. /\ uobj' = uobj /\ owned' = owned
        /\ \E p : chans' = [chans EXCEPT ![c].memb[NickKey[n]].pfx = p]
    BY <1>3 DEF UpdateModePfx
  <2>2. DOMAIN chans' = DOMAIN chans /\ \A d \in DOMAIN chans : chans'[d].tag = chans[d].tag
    BY <1>1, <2>1 DEF ChanRec
  <2> QED BY <2>1, <2>2, NoMoreTags DEF Tagged
<1> QED BY <1>2, <1>3

(* The tag of x, a user or a channel, becomes t: the old one is freed.      *)
LEMMA Retagged ==
  ASSUME UcTypeOK, TagsAlive, NEW S, NEW T, NEW V, NEW x, NEW old, NEW t \in Tag,
         Retag(old, t), x \in S <=> old = "auto", IsFiniteSet(S), IsFiniteSet(T),
         V = (IF t = "auto" THEN S \cup {x} ELSE S \ {x}),
         Cardinality(S) + Cardinality(T) <= owned
  PROVE  Cardinality(V) + Cardinality(T) <= owned'
<1>1. /\ owned \in Int /\ Cardinality(S) \in Nat /\ Cardinality(T) \in Nat
      /\ owned' = owned + (IF t = "auto" THEN 1 ELSE 0) - (IF old = "auto" THEN 1 ELSE 0)
  BY FS_CardinalityType DEF UcTypeOK, Retag
<1>2. /\ t = "auto" => Cardinality(V) = IF x \in S THEN Cardinality(S) ELSE Cardinality(S) + 1
      /\ t # "auto" => Cardinality(V) = IF x \in S THEN Cardinality(S) - 1 ELSE Cardinality(S)
  BY FS_AddElement, FS_RemoveElement
<1> QED BY <1>1, <1>2

(* The application gives a tag: one that was there is freed.                *)
LEMMA RetagUser ==
  ASSUME UcTypeOK, UsersLive, TagsAlive, NEW n \in Nick, NEW t \in Tag, TagUser(n, t)
  PROVE  TagsAlive'
<1>1. PICK o \in DOMAIN uobj : o = users[NickKey[n]]
  BY DEF TagUser, KnownUser, UsersLive
<1>2. \A x \in DOMAIN uobj : uobj[x] \in UserRec
  BY DEF UcTypeOK, IsMap
<1>3. uobj' = [uobj EXCEPT ![o].tag = t] /\ chans' = chans /\ Retag(uobj[o].tag, t)
  BY <1>1 DEF TagUser
<1>4. /\ DOMAIN uobj' = DOMAIN uobj /\ uobj'[o].tag = t
      /\ \A x \in DOMAIN uobj \ {o} : uobj'[x] = uobj[x]
  BY <1>2, <1>3 DEF UserRec
<1>5. Tagged(chans)' = Tagged(chans)
  BY <1>3 DEF Tagged
<1>6. Tagged(uobj)' = IF t = "auto" THEN Tagged(uobj) \cup {o} ELSE Tagged(uobj) \ {o}
  BY <1>4 DEF Tagged
<1>7. o \in Tagged(uobj) <=> uobj[o].tag = "auto"
  BY DEF Tagged
<1>8. IsFiniteSet(Tagged(uobj)) /\ IsFiniteSet(Tagged(chans))
  BY AutoFinite
<1>9. Cardinality(Tagged(uobj)) + Cardinality(Tagged(chans)) <= owned
  BY DEF TagsAlive, Tagged
<1>10. Cardinality(Tagged(uobj)') + Cardinality(Tagged(chans)) <= owned'
  BY <1>3, <1>6, <1>7, <1>8, <1>9, Retagged
<1> QED BY <1>5, <1>10 DEF TagsAlive, Tagged

LEMMA RetagChan ==
  ASSUME UcTypeOK, TagsAlive, NEW c \in Chan, NEW t \in Tag, TagChan(c, t)
  PROVE  TagsAlive'
<1>1. PICK d \in DOMAIN chans : d = ChanKey[c]
  BY DEF TagChan, KnownChan
<1>2. \A x \in DOMAIN chans : chans[x] \in ChanRec(chans[x].memb)
  BY DEF UcTypeOK
<1>3. chans' = [chans EXCEPT ![d].tag = t] /\ uobj' = uobj /\ Retag(chans[d].tag, t)
  BY <1>1 DEF TagChan
<1>4. /\ DOMAIN chans' = DOMAIN chans /\ chans'[d].tag = t
      /\ \A x \in DOMAIN chans \ {d} : chans'[x] = chans[x]
  BY <1>2, <1>3 DEF ChanRec
<1>5. Tagged(uobj)' = Tagged(uobj)
  BY <1>3 DEF Tagged
<1>6. Tagged(chans)' = IF t = "auto" THEN Tagged(chans) \cup {d} ELSE Tagged(chans) \ {d}
  BY <1>4 DEF Tagged
<1>7. d \in Tagged(chans) <=> chans[d].tag = "auto"
  BY DEF Tagged
<1>8. IsFiniteSet(Tagged(uobj)) /\ IsFiniteSet(Tagged(chans))
  BY AutoFinite
<1>9. /\ Cardinality(Tagged(chans)) + Cardinality(Tagged(uobj)) <= owned
      /\ Cardinality(Tagged(uobj)) \in Nat /\ Cardinality(Tagged(chans)') \in Nat
  <2>1. Cardinality(Tagged(uobj)) + Cardinality(Tagged(chans)) <= owned
    BY DEF TagsAlive, Tagged
  <2>2. IsFiniteSet(Tagged(chans)')
    BY <1>6, <1>8, FS_AddElement, FS_RemoveElement
  <2> QED BY <1>8, <2>1, <2>2, FS_CardinalityType DEF UcTypeOK
<1>10. Cardinality(Tagged(chans)') + Cardinality(Tagged(uobj)) <= owned'
  BY <1>3, <1>6, <1>7, <1>8, <1>9, Retagged
<1>11. Cardinality(Tagged(uobj)') + Cardinality(Tagged(chans)') <= owned'
  BY <1>5, <1>9, <1>10 DEF Retag, UcTypeOK
<1> QED BY <1>11 DEF TagsAlive, Tagged

-----------------------------------------------------------------------------
(* A step of the tracker, with any 353.                                     *)
AnyStep == [Next]_vars \/ \E c \in Chan, list \in Seq(Entry) : h_353(c, list)

LEMMA StepTags ==
  "rename" \notin FailSites /\ Inv /\ TagsAlive /\ AnyStep => TagsAlive'
<1> SUFFICES ASSUME "rename" \notin FailSites, Inv, TagsAlive, AnyStep PROVE TagsAlive'
  OBVIOUS
<1>1. /\ UcTypeOK /\ MembInv /\ UsersLive /\ \A c \in Chan : ChanKey[c] \in Chan
  BY KeyAssumption DEF Inv, RefInv, UsersInv
<1>2. CASE UNCHANGED ucvars
  BY <1>1, <1>2, NoMoreTags DEF ucvars, Tagged
<1>3. ASSUME NEW n \in Nick, NEW c \in Chan, h_JOIN(n, c) PROVE TagsAlive'
  BY <1>1, <1>2, <1>3, AddChanTags, AddMemberTags, AddMemberFailsTags DEF h_JOIN
<1>4. ASSUME NEW n \in Nick, NEW c \in Chan, h_PART(n, c) \/ h_KICK(n, c) PROVE TagsAlive'
  BY <1>1, <1>2, <1>4, EmptyChanTags, DropMembTags DEF h_PART, h_KICK, KnownChan
<1>5. ASSUME NEW c \in Chan, NEW list, h_353(c, list) PROVE TagsAlive'
  BY <1>1, <1>2, <1>5, EmptyChanTags DEF h_353, KnownChan
<1>6. CASE h_366
  BY <1>2, <1>6 DEF h_366
<1>7. ASSUME NEW n \in Nick, h_QUIT(n) PROVE TagsAlive'
  <2>1. KnownUser(n) => users[NickKey[n]] \in DOMAIN uobj
    BY <1>1 DEF KnownUser, UsersLive
  <2> QED BY <1>1, <1>2, <1>7, <2>1, DropUserTags DEF h_QUIT
<1>8. ASSUME NEW n \in Nick, NEW m \in Nick, h_NICK(n, m) PROVE TagsAlive'
  BY <1>1, <1>2, <1>8, RenameTags DEF h_NICK, RenameUserGivesUp
<1>9. ASSUME NEW c \in Chan, NEW n \in Nick, NEW s \in Sym, NEW enab \in BOOLEAN,
             h_MODE(c, n, s, enab)
      PROVE  TagsAlive'
  BY <1>1, <1>2, <1>9, ModeTags DEF h_MODE, KnownChan
<1>10. CASE handle_005
  <2>1. CASE handle_005_Fails
    <3>1. UNCHANGED ucvars
      BY <1>10, <2>1 DEF handle_005, handle_005_Fails, ucvars
    <3> QED BY <1>2, <3>1
  <2>2. CASE chans' = EmptyMap /\ uobj' = uobj /\ owned' = owned
    <3>1. Tagged(chans)' = {} /\ Tagged(uobj)' = Tagged(uobj)
      BY <2>2 DEF Tagged, EmptyMap
    <3> QED BY <1>1, <2>2, <3>1, NoMoreTags
  <2> QED BY <1>10, <2>1, <2>2 DEF handle_005
<1>11. CASE NextName
  BY <1>1, <1>11, AddMemberTags, AddMemberFailsTags DEF NextName
<1>12. ASSUME NEW n \in Nick, NEW t \in TagKinds, irc_tag_user(n, t) PROVE TagsAlive'
  BY <1>1, <1>12, RetagUser, TrackAssumption DEF irc_tag_user
<1>13. ASSUME NEW c \in Chan, NEW t \in TagKinds, irc_tag_chan(c, t) PROVE TagsAlive'
  BY <1>1, <1>13, RetagChan, TrackAssumption DEF irc_tag_chan
<1>14. ASSUME NEW p, lsi_trk_deinit(p) PROVE TagsAlive'
  BY <1>1, <1>14, NoMoreTags DEF lsi_trk_deinit, Tagged
<1>15. CASE ClearNext
  BY <1>1, <1>15, EmptyChanTags DEF ClearNext
<1>16. CASE Cleared
  <2>1. Tagged(uobj)' \subseteq Tagged(uobj) /\ Tagged(chans)' = Tagged(chans) /\ owned' = owned
    BY <1>16 DEF Cleared, ClearUsers, Restrict, Tagged
  <2> QED BY <1>1, <2>1, NoMoreTags
<1>17. CASE irc_connect \/ irc_dispose
  BY <1>16, <1>17 DEF irc_connect, irc_dispose
<1>18. CASE Lost \/ UseFreed \/ UNCHANGED vars
  BY <1>2, <1>18 DEF Lost, UseFreed, vars
<1> QED BY <1>3, <1>4, <1>5, <1>6, <1>7, <1>8, <1>9, <1>10, <1>11, <1>12, <1>13, <1>14, <1>15,
           <1>17, <1>18 DEF AnyStep, Next, Message, Application

LEMMA InitTags == Init => TagsAlive
<1> SUFFICES ASSUME Init PROVE TagsAlive
  OBVIOUS
<1>1. Tagged(uobj) = {} /\ Tagged(chans) = {} /\ owned = 0
  BY DEF Init, EmptyMap, Tagged
<1>2. Cardinality(Tagged(uobj)) = 0 /\ Cardinality(Tagged(chans)) = 0
  BY <1>1, FS_EmptySet
<1>3. Cardinality(Tagged(uobj)) + Cardinality(Tagged(chans)) <= owned
  BY <1>1, <1>2
<1> QED BY <1>3 DEF TagsAlive, Tagged

(* An autofree tag is freed when it is replaced or its owner goes, in        *)
(* lsi_ucb_tag_user and _tag_chan and in each function of ucbase.c that      *)
(* frees users, and not before: whatever the server says and whomever the    *)
(* application tags, unless a rename runs out of memory.                     *)
THEOREM TagsCorrect == "rename" \notin FailSites => (Spec => []TagsAlive)
<1> SUFFICES ASSUME "rename" \notin FailSites PROVE Spec => []TagsAlive
  OBVIOUS
<1>1. Inv /\ TagsAlive /\ [Next]_vars => TagsAlive'
  BY StepTags DEF AnyStep
<1> QED BY <1>1, InitTags, InitInv, NextInv, PTL DEF Spec

-----------------------------------------------------------------------------
(* Rosters                                                                  *)
(*                                                                          *)
(* What the operations of ucbase.c do to the rosters of the channels, for a *)
(* tracker that is tidy: each membership object is of the user in the user  *)
(* map under the same key, each user is in the user map and in a channel,   *)
(* and is counted once for each of its channels.                            *)

KeysIn(c) == DOMAIN chans[c].memb

(* The nickname of the user under key k.                                    *)
Name(k) == uobj[users[k]].nick

Mapped == \A c \in DOMAIN chans : \A k \in KeysIn(c) :
            k \in DOMAIN users /\ chans[c].memb[k].u = users[k]

AllMapped == \A o \in DOMAIN uobj : \E k \in DOMAIN users : users[k] = o

CountedOnce == \A k \in DOMAIN users :
                 ChansWith(k) # {} /\ uobj[users[k]].nchans = Cardinality(ChansWith(k))

Tidy == UcTypeOK /\ UsersLive /\ Mapped /\ AllMapped /\ CountedOnce

LEMMA Users ==
  ASSUME Tidy
  PROVE  /\ \A k \in DOMAIN users : /\ users[k] \in DOMAIN uobj /\ users[k] \in Obj
                                    /\ uobj[users[k]] \in UserRec
                                    /\ Name(k) \in Nick /\ NickKey[Name(k)] = k
                                    /\ ChansWith(k) \subseteq DOMAIN chans
                                    /\ IsFiniteSet(ChansWith(k))
                                    /\ Cardinality(ChansWith(k)) \in Nat
         /\ \A j, k \in DOMAIN users : users[j] = users[k] => j = k
<1>1. UcTypeOK /\ UsersLive
  BY DEF Tidy
<1>2. ASSUME NEW k \in DOMAIN users
      PROVE  /\ users[k] \in DOMAIN uobj /\ users[k] \in Obj
             /\ uobj[users[k]] \in UserRec
             /\ Name(k) \in Nick /\ NickKey[Name(k)] = k
  <2>1. users[k] \in DOMAIN uobj /\ users[k] \in Obj /\ uobj[users[k]] \in UserRec
    BY <1>1 DEF UcTypeOK, IsMap, UsersLive
  <2> QED BY <1>1, <2>1 DEF UsersLive, Name, UserRec
<1>3. ASSUME NEW k
      PROVE  /\ ChansWith(k) \subseteq DOMAIN chans /\ IsFiniteSet(ChansWith(k))
             /\ Cardinality(ChansWith(k)) \in Nat
  <2>1. ChansWith(k) \subseteq DOMAIN chans /\ ChansWith(k) \subseteq Chan
    BY <1>1 DEF ChansWith, UcTypeOK
  <2>2. IsFiniteSet(ChansWith(k))
    BY <2>1, FiniteAssumption, FS_Subset
  <2> QED BY <2>1, <2>2, FS_CardinalityType
<1>4. \A j, k \in DOMAIN users : users[j] = users[k] => j = k
  BY <1>2 DEF Name
<1> QED BY <1>2, <1>3, <1>4

LEMMA TidyRefs ==
  ASSUME Tidy
  PROVE  /\ \A k \in DOMAIN users : RefChans(users[k]) = ChansWith(k)
         /\ MembInv /\ UsersInv
<1>1. /\ UcTypeOK /\ UsersLive /\ Mapped /\ AllMapped /\ CountedOnce
      /\ \A j, k \in DOMAIN users : users[j] = users[k] => j = k
  BY Users DEF Tidy
<1>2. ASSUME NEW k \in DOMAIN users PROVE RefChans(users[k]) = ChansWith(k)
  <2>1. \A c \in DOMAIN chans : users[k] \in Refs(c) <=> k \in DOMAIN chans[c].memb
    BY <1>1 DEF Refs, Mapped, KeysIn
  <2> QED BY <2>1 DEF RefChans, ChansWith
<1>3. MembLive
  BY <1>1, Users DEF MembLive, Refs, Mapped, KeysIn
<1>4. OncePerChan
  BY <1>1 DEF OncePerChan, Mapped, KeysIn
<1>5. NchansEnough
  <2> SUFFICES ASSUME NEW o \in DOMAIN uobj PROVE Cardinality(RefChans(o)) <= uobj[o].nchans
    BY DEF NchansEnough
  <2>1. PICK k \in DOMAIN users : users[k] = o
    BY <1>1 DEF AllMapped
  <2>2. Cardinality(RefChans(o)) = uobj[o].nchans /\ Cardinality(ChansWith(k)) \in Nat
    BY <1>1, <1>2, <2>1, Users DEF CountedOnce
  <2> QED BY <1>2, <2>1, <2>2
<1>6. KeysAgree
  BY <1>1 DEF KeysAgree, Mapped, KeysIn
<1> QED BY <1>1, <1>2, <1>3, <1>4, <1>5, <1>6 DEF MembInv, UsersInv

(* What changes no more than tags and prefixes.                             *)
LEMMA TidyShape ==
  ASSUME Tidy, SameShape, UcTypeOK'
  PROVE  /\ Tidy'
         /\ DOMAIN chans' = DOMAIN chans /\ DOMAIN users' = DOMAIN users
         /\ \A d \in DOMAIN chans : KeysIn(d)' = KeysIn(d)
         /\ \A k \in DOMAIN users : Name(k)' = Name(k)
<1>1. \A d \in DOMAIN chans : KeysIn(d)' = KeysIn(d)
  BY DEF SameShape, KeysIn
<1>2. \A k : ChansWith(k)' = ChansWith(k)
  BY DEF SameShape, ChansWith
<1>3. \A k \in DOMAIN users : users[k] \in DOMAIN uobj
  BY DEF Tidy, UsersLive
<1>4. \A k \in DOMAIN users : Name(k)' = Name(k)
  BY <1>3 DEF SameShape, Name
<1>5. UsersLive'
  BY DEF SameShape, Tidy, UsersLive
<1>6. Mapped'
  BY DEF SameShape, Tidy, Mapped, KeysIn
<1>7. AllMapped'
  BY DEF SameShape, Tidy, AllMapped
<1>8. CountedOnce'
  BY <1>2, <1>3 DEF SameShape, Tidy, CountedOnce
<1> QED BY <1>1, <1>4, <1>5, <1>6, <1>7, <1>8 DEF SameShape, Tidy

(* lsi_ucb_clear_memb, drop_chan, clear and drop_memb: members leave c, or  *)
(* c goes with all of them.                                                 *)
LEMMA TidyWithout ==
  ASSUME Tidy, NEW c \in DOMAIN chans, NEW K \in SUBSET KeysIn(c),
         Release(Us(c, K)), Without(c, K), owned' \in Int
  PROVE  /\ Tidy'
         /\ \A d \in DOMAIN chans' :
              d \in DOMAIN chans /\ KeysIn(d)' = IF d = c THEN KeysIn(c) \ K ELSE KeysIn(d)
         /\ \A k \in DOMAIN users' : k \in DOMAIN users /\ Name(k)' = Name(k)
<1> DEFINE O == Us(c, K)
<1>1. /\ UcTypeOK /\ UsersLive /\ Mapped /\ AllMapped /\ CountedOnce
      /\ \A j, k \in DOMAIN users : users[j] = users[k] => j = k
      /\ MembInv /\ K \in SUBSET DOMAIN chans[c].memb
  BY Users, TidyRefs DEF Tidy, KeysIn
<1>2. /\ O = {users[k] : k \in K} /\ K \subseteq DOMAIN users
      /\ \A k \in K : c \in ChansWith(k)
  BY <1>1 DEF Us, Mapped, KeysIn, ChansWith
<1>3. /\ DOMAIN uobj' = DOMAIN uobj \ Dying(O)
      /\ \A o \in DOMAIN uobj' :
           /\ uobj'[o].nick = uobj[o].nick
           /\ uobj'[o].nchans = IF o \in O THEN uobj[o].nchans - 1 ELSE uobj[o].nchans
  BY <1>1, ReleaseObjs
<1>4. UcTypeOK'
  BY <1>1, ReleaseStep
<1>5. PICK Dead : Dead = {k \in K : ChansWith(k) = {c}}
  OBVIOUS
<1>6. \A k \in K : uobj[users[k]].nchans = 1 <=> k \in Dead
  <2> SUFFICES ASSUME NEW k \in K PROVE uobj[users[k]].nchans = 1 <=> ChansWith(k) = {c}
    BY <1>5
  <2>1. c \in ChansWith(k) /\ IsFiniteSet(ChansWith(k))
        /\ uobj[users[k]].nchans = Cardinality(ChansWith(k))
    BY <1>1, <1>2, Users DEF CountedOnce
  <2>2. Cardinality(ChansWith(k)) = 1 => ChansWith(k) = {c}
    BY <2>1, CardOne
  <2>3. Cardinality({c}) = 1
    BY FS_Singleton
  <2> QED BY <2>1, <2>2, <2>3
<1>7. Dying(O) = {users[k] : k \in Dead}
  <2>1. \A o \in O : o \in Dying(O) <=> \E k \in Dead : o = users[k]
    BY <1>1, <1>2, <1>5, <1>6 DEF Dying
  <2> QED BY <1>2, <1>5, <2>1 DEF Dying
<1>8. /\ DOMAIN users' = DOMAIN users \ Dead
      /\ \A k \in DOMAIN users' : users'[k] = users[k]
  <2>1. {NickKey[uobj[o].nick] : o \in Dying(O)} = Dead
    <3>1. \A k \in Dead : NickKey[uobj[users[k]].nick] = k
      BY <1>2, <1>5, Users DEF Name
    <3> QED BY <1>7, <3>1
  <2>2. users' = Restrict(users, DOMAIN users \ Dead)
    BY <2>1 DEF Release
  <2> QED BY <2>2 DEF Restrict
<1>9. /\ \A k \in K : ChansWith(k)' = ChansWith(k) \ {c}
      /\ \A k : k \notin K => ChansWith(k)' = ChansWith(k)
  <2>1. DOMAIN chans \ {c} \subseteq DOMAIN chans' /\ DOMAIN chans' \subseteq DOMAIN chans
    BY DEF Without
  <2>2. \A d \in DOMAIN chans' : d # c => DOMAIN chans'[d].memb = DOMAIN chans[d].memb
    BY <1>1, WithoutMemb
  <2>3. c \in DOMAIN chans' => DOMAIN chans'[c].memb = DOMAIN chans[c].memb \ K
    BY <1>1, WithoutMemb
  <2>4. c \notin DOMAIN chans' => K = DOMAIN chans[c].memb
    BY DEF Without
  <2> QED BY <2>1, <2>2, <2>3, <2>4 DEF ChansWith, KeysIn
<1>10. \A k \in DOMAIN users' :
         /\ k \in DOMAIN users /\ users'[k] \in DOMAIN uobj' /\ Name(k)' = Name(k)
         /\ NickKey[uobj'[users'[k]].nick] = k
  <2> SUFFICES ASSUME NEW k \in DOMAIN users'
               PROVE  /\ k \in DOMAIN users /\ users'[k] \in DOMAIN uobj'
                      /\ uobj'[users'[k]].nick = uobj[users[k]].nick
                      /\ NickKey[uobj'[users'[k]].nick] = k
    BY DEF Name
  <2>1. k \in DOMAIN users /\ k \notin Dead /\ users'[k] = users[k]
    BY <1>8
  <2>2. users[k] \notin Dying(O)
    BY <1>1, <1>2, <1>5, <1>7, <2>1
  <2>3. users[k] \in DOMAIN uobj'
    BY <1>3, <2>1, <2>2, Users
  <2>4. uobj'[users[k]].nick = uobj[users[k]].nick
    BY <1>3, <2>3
  <2> QED BY <1>1, <2>1, <2>3, <2>4 DEF UsersLive
<1>11. UsersLive'
  BY <1>10 DEF UsersLive
<1>12. AllMapped'
  <2> SUFFICES ASSUME NEW o \in DOMAIN uobj' PROVE \E k \in DOMAIN users' : users'[k] = o
    BY DEF AllMapped
  <2>1. o \in DOMAIN uobj /\ o \notin Dying(O)
    BY <1>3
  <2>2. PICK k \in DOMAIN users : users[k] = o
    BY <1>1, <2>1 DEF AllMapped
  <2>3. k \notin Dead
    BY <1>7, <2>1, <2>2
  <2> QED BY <1>8, <2>2, <2>3
<1>13. Mapped'
  <2> SUFFICES ASSUME NEW d \in DOMAIN chans', NEW k \in DOMAIN chans'[d].memb
               PROVE  k \in DOMAIN users' /\ chans'[d].memb[k].u = users'[k]
    BY DEF Mapped, KeysIn
  <2>0. d \in DOMAIN chans /\ d \in DOMAIN chans'
    BY DEF Without
  <2>1. k \in DOMAIN chans[d].memb /\ chans'[d].memb[k] = chans[d].memb[k]
    BY <1>1, <2>0, WithoutMemb
  <2>2. k \in DOMAIN users /\ chans[d].memb[k].u = users[k]
    BY <1>1, <2>0, <2>1 DEF Mapped, KeysIn
  <2>3. d \in ChansWith(k)'
    BY DEF ChansWith
  <2>4. k \notin Dead
    BY <1>5, <1>9, <2>3
  <2> QED BY <1>8, <2>1, <2>2, <2>4
<1>14. CountedOnce'
  <2> SUFFICES ASSUME NEW k \in DOMAIN users'
               PROVE  /\ ChansWith(k)' # {}
                      /\ uobj'[users'[k]].nchans = Cardinality(ChansWith(k)')
    BY DEF CountedOnce
  <2>1. /\ k \in DOMAIN users /\ k \notin Dead /\ users'[k] = users[k]
        /\ users[k] \in DOMAIN uobj'
        /\ ChansWith(k) # {} /\ uobj[users[k]].nchans = Cardinality(ChansWith(k))
    BY <1>1, <1>8, <1>10 DEF CountedOnce
  <2>2. CASE k \in K
    <3>1. ChansWith(k)' = ChansWith(k) \ {c} /\ c \in ChansWith(k) /\ ChansWith(k) # {c}
      BY <1>2, <1>5, <1>9, <2>1, <2>2
    <3>2. Cardinality(ChansWith(k) \ {c}) = Cardinality(ChansWith(k)) - 1
      BY <2>1, <3>1, Users, CardTake
    <3>3. users[k] \in O
      BY <1>2, <2>2
    <3>4. uobj'[users[k]].nchans = uobj[users[k]].nchans - 1
      BY <1>3, <2>1, <3>3
    <3> QED BY <2>1, <3>1, <3>2, <3>4
  <2>3. CASE k \notin K
    <3>1. users[k] \notin O
      BY <1>1, <1>2, <2>1, <2>3
    <3> QED BY <1>3, <1>9, <2>1, <2>3, <3>1
  <2> QED BY <2>2, <2>3
<1>15. ASSUME NEW d \in DOMAIN chans'
       PROVE  d \in DOMAIN chans /\ KeysIn(d)' = IF d = c THEN KeysIn(c) \ K ELSE KeysIn(d)
  <2>1. d \in DOMAIN chans
    BY DEF Without
  <2>2. /\ d = c => DOMAIN chans'[d].memb = DOMAIN chans[d].memb \ K
        /\ d # c => DOMAIN chans'[d].memb = DOMAIN chans[d].memb
    BY <1>1, WithoutMemb
  <2>3. KeysIn(d)' = DOMAIN chans'[d].memb
    BY DEF KeysIn
  <2> QED BY <2>1, <2>2, <2>3 DEF KeysIn
<1>16. Tidy'
  BY <1>4, <1>11, <1>12, <1>13, <1>14 DEF Tidy
<1> QED BY <1>10, <1>15, <1>16

(* lsi_ucb_clear_memb, lsi_ucb_drop_chan and lsi_ucb_clear                  *)
LEMMA TidyEmptied ==
  ASSUME Tidy, NEW c \in DOMAIN chans, ClearMemb(c) \/ DropChan(c) \/ ClearChan(c)
  PROVE  /\ Tidy'
         /\ DOMAIN chans' = IF ClearMemb(c) THEN DOMAIN chans ELSE DOMAIN chans \ {c}
         /\ \A d \in DOMAIN chans' :
              d \in DOMAIN chans /\ KeysIn(d)' = IF d = c THEN {} ELSE KeysIn(d)
         /\ \A k \in DOMAIN users' : k \in DOMAIN users /\ Name(k)' = Name(k)
<1>1. UcTypeOK /\ MembInv
  BY TidyRefs DEF Tidy
<1>2. PICK K : K = DOMAIN chans[c].memb
  OBVIOUS
<1>3. Refs(c) = Us(c, K) /\ K \in SUBSET KeysIn(c) /\ K = KeysIn(c)
  BY <1>2 DEF Refs, Us, KeysIn
<1>4. Release(Us(c, K))
  BY <1>3 DEF ClearMemb, DropChan, ClearChan
<1>5. owned' \in Int
  BY <1>1, EmptyChan DEF UcTypeOK
<1>6. /\ Without(c, K)
      /\ DOMAIN chans' = IF ClearMemb(c) THEN DOMAIN chans ELSE DOMAIN chans \ {c}
  <2>1. CASE ClearMemb(c)
    <3>1. chans' = [chans EXCEPT ![c].memb = EmptyMap]
      BY <2>1 DEF ClearMemb
    <3>2. Restrict(chans[c].memb, K \ K) = EmptyMap
      BY DEF Restrict, EmptyMap
    <3>3. chans[c] \in ChanRec(chans[c].memb) /\ chans = [d \in DOMAIN chans |-> chans[d]]
      BY <1>1 DEF UcTypeOK
    <3>4. chans'[c].memb = EmptyMap /\ chans'[c] \in ChanRec(EmptyMap)
      BY <3>1, <3>3 DEF ChanRec
    <3> QED BY <1>2, <2>1, <3>1, <3>2, <3>3, <3>4 DEF Without
  <2>2. CASE ~ClearMemb(c)
    <3>1. chans' = Del(chans, c)
      BY <2>2 DEF DropChan, ClearChan
    <3> QED BY <1>2, <2>2, <3>1 DEF Del, Restrict, Without
  <2> QED BY <2>1, <2>2
<1>7. /\ Tidy'
      /\ \A d \in DOMAIN chans' :
           d \in DOMAIN chans /\ KeysIn(d)' = IF d = c THEN KeysIn(c) \ K ELSE KeysIn(d)
      /\ \A k \in DOMAIN users' : k \in DOMAIN users /\ Name(k)' = Name(k)
  BY <1>3, <1>4, <1>5, <1>6, TidyWithout
<1> QED BY <1>3, <1>6, <1>7

(* lsi_ucb_drop_memb, for the user under key q.                             *)
LEMMA TidyLeft ==
  ASSUME Tidy, NEW c \in DOMAIN chans, NEW q \in DOMAIN users, DropMemb(c, users[q])
  PROVE  /\ Tidy'
         /\ DOMAIN chans' = DOMAIN chans
         /\ \A d \in DOMAIN chans :
              KeysIn(d)' = IF d = c THEN KeysIn(c) \ {q} ELSE KeysIn(d)
         /\ \A k \in DOMAIN users' : k \in DOMAIN users /\ Name(k)' = Name(k)
<1>1. UcTypeOK /\ MembInv /\ UsersInv /\ Mapped
  BY TidyRefs DEF Tidy
<1>2. NickKey[uobj[users[q]].nick] = q
  BY Users DEF Name
<1>3. PICK m : m = chans[c].memb
  OBVIOUS
<1>4. CASE q \notin DOMAIN m
  <2>1. users' = users /\ uobj' = uobj /\ chans' = chans /\ owned' = owned
    BY <1>2, <1>3, <1>4 DEF DropMemb, ucvars
  <2>2. SameShape /\ UcTypeOK'
    BY <1>1, <2>1 DEF SameShape, UcTypeOK
  <2> QED BY <1>3, <1>4, <2>1, <2>2, TidyShape DEF KeysIn
<1>5. CASE q \in DOMAIN m
  <2>1. /\ Release({m[q].u})
        /\ chans' = [chans EXCEPT ![c].memb = Del(m, q)]
        /\ owned' = owned - UserTags(Dying({m[q].u}))
    BY <1>2, <1>3, <1>5 DEF DropMemb
  <2>2. Us(c, {q}) = {m[q].u} /\ {q} \in SUBSET KeysIn(c)
    BY <1>3, <1>5 DEF Us, KeysIn
  <2>3. owned' \in Int
    BY <1>1, DropMembStep DEF Keeps, UcTypeOK
  <2>4. Without(c, {q}) /\ DOMAIN chans' = DOMAIN chans
    <3>1. Restrict(m, DOMAIN m \ {q}) = Del(m, q)
      BY DEF Del
    <3>2. chans[c] \in ChanRec(m) /\ chans = [d \in DOMAIN chans |-> chans[d]]
      BY <1>1, <1>3 DEF UcTypeOK
    <3>3. chans'[c].memb = Del(m, q) /\ chans'[c] \in ChanRec(Del(m, q))
      BY <2>1, <3>2 DEF ChanRec
    <3> QED BY <1>3, <2>1, <3>1, <3>2, <3>3 DEF Without
  <2>5. /\ Tidy'
        /\ \A d \in DOMAIN chans' :
             d \in DOMAIN chans /\ KeysIn(d)' = IF d = c THEN KeysIn(c) \ {q} ELSE KeysIn(d)
        /\ \A k \in DOMAIN users' : k \in DOMAIN users /\ Name(k)' = Name(k)
    BY <2>1, <2>2, <2>3, <2>4, TidyWithout
  <2> QED BY <2>4, <2>5
<1> QED BY <1>4, <1>5

(* lsi_ucb_add_chan                                                         *)
LEMMA TidyChan ==
  ASSUME Tidy, NEW c \in Chan, c \notin DOMAIN chans, AddChan(c)
  PROVE  /\ Tidy'
         /\ DOMAIN chans' = DOMAIN chans \cup {c} /\ DOMAIN users' = DOMAIN users
         /\ \A d \in DOMAIN chans' : KeysIn(d)' = IF d = c THEN {} ELSE KeysIn(d)
         /\ \A k \in DOMAIN users : Name(k)' = Name(k)
<1>1. UcTypeOK /\ MembInv /\ UsersInv
  BY TidyRefs DEF Tidy
<1>2. UcTypeOK' /\ UsersLive'
  BY <1>1, AddChanStep DEF Keeps, UsersInv
<1>3. /\ DOMAIN chans' = DOMAIN chans \cup {c}
      /\ \A d \in DOMAIN chans : chans'[d] = chans[d]
      /\ chans'[c].memb = EmptyMap /\ DOMAIN EmptyMap = {}
      /\ users' = users /\ uobj' = uobj
  BY DEF AddChan, Put, EmptyMap
<1>4. \A d \in DOMAIN chans' : KeysIn(d)' = IF d = c THEN {} ELSE KeysIn(d)
  BY <1>3 DEF KeysIn
<1>5. \A k : ChansWith(k)' = ChansWith(k)
  BY <1>3 DEF ChansWith
<1>6. Mapped'
  BY <1>3 DEF Tidy, Mapped, KeysIn
<1>7. AllMapped'
  BY <1>3 DEF Tidy, AllMapped
<1>8. CountedOnce'
  BY <1>3, <1>5 DEF Tidy, CountedOnce
<1> QED BY <1>2, <1>3, <1>4, <1>6, <1>7, <1>8 DEF Tidy, Name

(* What LinkMemb makes of the channels that hold a key.                     *)
LEMMA LinkedKeys ==
  ASSUME Tidy, NEW c \in DOMAIN chans, NEW k \in Nick, k \notin KeysIn(c),
         NEW u \in Obj, NEW p \in Seq(Sym), LinkMemb(c, k, u, p)
  PROVE  /\ DOMAIN chans' = DOMAIN chans
         /\ \A d \in DOMAIN chans :
              /\ KeysIn(d)' = IF d = c THEN KeysIn(c) \cup {k} ELSE KeysIn(d)
              /\ \A j \in DOMAIN chans[d].memb : chans'[d].memb[j] = chans[d].memb[j]
         /\ chans'[c].memb[k].u = u
         /\ ChansWith(k)' = ChansWith(k) \cup {c} /\ c \notin ChansWith(k)
         /\ \A j : j # k => ChansWith(j)' = ChansWith(j)
<1>1. /\ chans' = [d \in DOMAIN chans |-> chans'[d]]
      /\ \A d \in DOMAIN chans :
           /\ d # c => chans'[d] = chans[d]
           /\ d = c => /\ DOMAIN chans'[d].memb = DOMAIN chans[d].memb \cup {k}
                       /\ chans'[d].memb[k].u = u
                       /\ \A j \in DOMAIN chans[d].memb \ {k} :
                            chans'[d].memb[j] = chans[d].memb[j]
  <2>1. UcTypeOK
    BY DEF Tidy
  <2>2. /\ chans' = [d \in DOMAIN chans |-> chans'[d]]
        /\ \A d \in DOMAIN chans :
             /\ IsMap(chans'[d].memb, Nick, Memb)
             /\ chans'[d] \in ChanRec(chans'[d].memb)
             /\ d # c => chans'[d] = chans[d]
             /\ d = c => /\ DOMAIN chans'[d].memb = DOMAIN chans[d].memb \cup {k}
                         /\ chans'[d].memb[k].u = u
                         /\ \A j \in DOMAIN chans[d].memb \ {k} :
                              chans'[d].memb[j] = chans[d].memb[j]
        /\ \A o : o # u => RefChans(o)' \in SUBSET RefChans(o)
        /\ RefChans(u)' \in SUBSET (RefChans(u) \cup {c})
    BY <2>1, Linked
  <2> QED BY <2>2
<1>2. DOMAIN chans' = DOMAIN chans
  BY <1>1
<1>3. \A d \in DOMAIN chans : KeysIn(d)' = IF d = c THEN KeysIn(c) \cup {k} ELSE KeysIn(d)
  BY <1>1, <1>2 DEF KeysIn
<1>4. k \notin DOMAIN chans[c].memb
  BY DEF KeysIn
<1>5. ASSUME NEW d \in DOMAIN chans, NEW j \in DOMAIN chans[d].memb
      PROVE  chans'[d].memb[j] = chans[d].memb[j]
  <2>1. CASE d = c
    BY <1>1, <1>4, <2>1
  <2>2. CASE d # c
    BY <1>1, <2>2
  <2> QED BY <2>1, <2>2
<1>6. /\ ChansWith(k)' = ChansWith(k) \cup {c} /\ c \notin ChansWith(k)
      /\ \A j : j # k => ChansWith(j)' = ChansWith(j)
  BY <1>1, <1>2, <1>4 DEF ChansWith
<1> QED BY <1>1, <1>2, <1>3, <1>5, <1>6

(* lsi_ucb_add_memb for a user who is known, and for one who is new.        *)
LEMMA TidyKnown ==
  ASSUME Tidy, NEW c \in DOMAIN chans, NEW k \in DOMAIN users, k \notin KeysIn(c),
         NEW p \in Seq(Sym), uobj' = [uobj EXCEPT ![users[k]].nchans = @ + 1],
         LinkMemb(c, k, users[k], p), users' = users, owned' = owned
  PROVE  /\ Tidy'
         /\ DOMAIN chans' = DOMAIN chans /\ DOMAIN users' = DOMAIN users
         /\ \A d \in DOMAIN chans :
              KeysIn(d)' = IF d = c THEN KeysIn(c) \cup {k} ELSE KeysIn(d)
         /\ \A j \in DOMAIN users : Name(j)' = Name(j)
<1>1. UcTypeOK /\ MembInv /\ UsersInv /\ Mapped
  BY TidyRefs DEF Tidy
<1>2. UcTypeOK' /\ UsersLive'
  BY <1>1, AddKnownStep DEF Keeps, UsersInv
<1>3. PICK u \in Obj : u = users[k] /\ u \in DOMAIN uobj
  BY Users
<1>4. k \in Nick
  BY <1>1 DEF UcTypeOK, IsMap
<1>5. /\ DOMAIN chans' = DOMAIN chans
      /\ \A d \in DOMAIN chans :
           /\ KeysIn(d)' = IF d = c THEN KeysIn(c) \cup {k} ELSE KeysIn(d)
           /\ \A j \in DOMAIN chans[d].memb : chans'[d].memb[j] = chans[d].memb[j]
      /\ chans'[c].memb[k].u = u
      /\ ChansWith(k)' = ChansWith(k) \cup {c} /\ c \notin ChansWith(k)
      /\ \A j : j # k => ChansWith(j)' = ChansWith(j)
  BY <1>3, <1>4, LinkedKeys
<1>6. /\ DOMAIN uobj' = DOMAIN uobj
      /\ \A o \in DOMAIN uobj : /\ uobj'[o].nick = uobj[o].nick
                                /\ o # u => uobj'[o] = uobj[o]
      /\ uobj'[u].nchans = uobj[u].nchans + 1
  <2>1. uobj' = [uobj EXCEPT ![u].nchans = @ + 1] /\ uobj[u] \in UserRec
    BY <1>3, Users
  <2> QED BY <1>3, <2>1 DEF UserRec
<1>7. \A j \in DOMAIN users : users[j] \in DOMAIN uobj /\ (j # k => users[j] # u)
  BY <1>3, Users
<1>8. \A j \in DOMAIN users : Name(j)' = Name(j)
  BY <1>6, <1>7 DEF Name
<1>9. Mapped'
  <2> SUFFICES ASSUME NEW d \in DOMAIN chans, NEW j \in KeysIn(d)'
               PROVE  j \in DOMAIN users' /\ chans'[d].memb[j].u = users'[j]
    BY <1>5 DEF Mapped
  <2>1. CASE j \in KeysIn(d)
    BY <1>1, <1>5, <2>1 DEF Mapped, KeysIn
  <2>2. CASE j \notin KeysIn(d)
    <3>1. d = c /\ j = k
      BY <1>5, <2>2
    <3> QED BY <1>3, <1>5, <3>1
  <2> QED BY <2>1, <2>2
<1>10. AllMapped'
  BY <1>6 DEF Tidy, AllMapped
<1>11. CountedOnce'
  <2> SUFFICES ASSUME NEW j \in DOMAIN users
               PROVE  /\ ChansWith(j)' # {}
                      /\ uobj'[users[j]].nchans = Cardinality(ChansWith(j)')
    BY DEF CountedOnce
  <2>1. ChansWith(j) # {} /\ uobj[users[j]].nchans = Cardinality(ChansWith(j))
        /\ IsFiniteSet(ChansWith(j))
    BY Users DEF Tidy, CountedOnce
  <2>2. CASE j = k
    <3>1. Cardinality(ChansWith(j) \cup {c}) = Cardinality(ChansWith(j)) + 1
      BY <1>5, <2>1, <2>2, FS_AddElement
    <3> QED BY <1>3, <1>5, <1>6, <2>1, <2>2, <3>1, ZenonT(30)
  <2>3. CASE j # k
    BY <1>5, <1>6, <1>7, <2>1, <2>3
  <2> QED BY <2>2, <2>3
<1> QED BY <1>2, <1>5, <1>8, <1>9, <1>10, <1>11 DEF Tidy

LEMMA TidyUnknown ==
  ASSUME Tidy, NEW c \in DOMAIN chans, NEW n \in Nick, ~KnownUser(n),
         NEW k \in Nick, k = NickKey[n], NEW p \in Seq(Sym),
         NEW f \in Obj, f \notin DOMAIN uobj, AddUser(k, n, f),
         LinkMemb(c, k, f, p), owned' = owned
  PROVE  /\ Tidy'
         /\ DOMAIN chans' = DOMAIN chans /\ DOMAIN users' = DOMAIN users \cup {k}
         /\ k \notin KeysIn(c)
         /\ \A d \in DOMAIN chans :
              KeysIn(d)' = IF d = c THEN KeysIn(c) \cup {k} ELSE KeysIn(d)
         /\ \A j \in DOMAIN users' : Name(j)' = IF j \in DOMAIN users THEN Name(j) ELSE n
<1>1. UcTypeOK /\ MembInv /\ UsersInv /\ Mapped /\ k \notin DOMAIN users
  BY TidyRefs DEF Tidy, KnownUser
<1>2. UcTypeOK' /\ UsersLive'
  BY <1>1, AddUnknownStep DEF Keeps, UsersInv
<1>3. ChansWith(k) = {} /\ k \notin KeysIn(c)
  BY <1>1 DEF ChansWith, Mapped, KeysIn
<1>5. /\ DOMAIN chans' = DOMAIN chans
      /\ \A d \in DOMAIN chans :
           /\ KeysIn(d)' = IF d = c THEN KeysIn(c) \cup {k} ELSE KeysIn(d)
           /\ \A j \in DOMAIN chans[d].memb : chans'[d].memb[j] = chans[d].memb[j]
      /\ chans'[c].memb[k].u = f
      /\ ChansWith(k)' = ChansWith(k) \cup {c} /\ c \notin ChansWith(k)
      /\ \A j : j # k => ChansWith(j)' = ChansWith(j)
  BY <1>3, LinkedKeys
<1>6. /\ DOMAIN uobj' = DOMAIN uobj \cup {f}
      /\ \A o \in DOMAIN uobj : uobj'[o] = uobj[o]
      /\ uobj'[f].nick = n /\ uobj'[f].nchans = 1
      /\ DOMAIN users' = DOMAIN users \cup {k}
      /\ \A j \in DOMAIN users : users'[j] = users[j]
      /\ users'[k] = f
  BY <1>1 DEF AddUser, Put
<1>7. \A j \in DOMAIN users : users[j] \in DOMAIN uobj
  BY Users
<1>8. \A j \in DOMAIN users' : Name(j)' = IF j \in DOMAIN users THEN Name(j) ELSE n
  BY <1>1, <1>6, <1>7 DEF Name
<1>9. Mapped'
  <2> SUFFICES ASSUME NEW d \in DOMAIN chans, NEW j \in KeysIn(d)'
               PROVE  j \in DOMAIN users' /\ chans'[d].memb[j].u = users'[j]
    BY <1>5 DEF Mapped
  <2>1. CASE j \in KeysIn(d)
    BY <1>1, <1>5, <1>6, <2>1 DEF Mapped, KeysIn
  <2>2. CASE j \notin KeysIn(d)
    <3>1. d = c /\ j = k
      BY <1>5, <2>2
    <3> QED BY <1>5, <1>6, <3>1
  <2> QED BY <2>1, <2>2
<1>10. AllMapped'
  BY <1>6 DEF Tidy, AllMapped
<1>11. CountedOnce'
  <2> SUFFICES ASSUME NEW j \in DOMAIN users'
               PROVE  /\ ChansWith(j)' # {}
                      /\ uobj'[users'[j]].nchans = Cardinality(ChansWith(j)')
    BY DEF CountedOnce
  <2>1. CASE j = k
    <3>1. ChansWith(j)' = {c} /\ uobj'[users'[j]].nchans = 1
      BY <1>3, <1>5, <1>6, <2>1
    <3> QED BY <3>1, FS_Singleton
  <2>2. CASE j # k
    <3>1. /\ j \in DOMAIN users
          /\ ChansWith(j) # {} /\ uobj[users[j]].nchans = Cardinality(ChansWith(j))
      BY <1>6, <2>2 DEF Tidy, CountedOnce
    <3> QED BY <1>5, <1>6, <1>7, <2>2, <3>1
  <2> QED BY <2>1, <2>2
<1> QED BY <1>2, <1>3, <1>5, <1>6, <1>8, <1>9, <1>10, <1>11 DEF Tidy

(* The sequence of h_JOIN and of h_353, for someone not in the channel.     *)
LEMMA TidyMember ==
  ASSUME Tidy, NEW c \in DOMAIN chans, NEW n \in Nick, NEW k, k = NickKey[n],
         k \notin KeysIn(c), NEW p \in Seq(Sym), AddMember(c, n, p)
  PROVE  /\ Tidy'
         /\ DOMAIN chans' = DOMAIN chans /\ DOMAIN users' = DOMAIN users \cup {k}
         /\ \A d \in DOMAIN chans :
              KeysIn(d)' = IF d = c THEN KeysIn(c) \cup {k} ELSE KeysIn(d)
         /\ \A j \in DOMAIN users' : Name(j)' = IF j \in DOMAIN users THEN Name(j) ELSE n
<1>1. k \in Nick
  BY KeyAssumption
<1>2. CASE KnownUser(n)
  <2>1. k \in DOMAIN users
    BY <1>2 DEF KnownUser
  <2>2. /\ uobj' = [uobj EXCEPT ![users[k]].nchans = @ + 1]
        /\ LinkMemb(c, k, users[k], p) /\ users' = users /\ owned' = owned
    BY <1>2 DEF AddMember
  <2>3. /\ Tidy'
        /\ DOMAIN chans' = DOMAIN chans /\ DOMAIN users' = DOMAIN users
        /\ \A d \in DOMAIN chans :
             KeysIn(d)' = IF d = c THEN KeysIn(c) \cup {k} ELSE KeysIn(d)
        /\ \A j \in DOMAIN users : Name(j)' = Name(j)
    BY <2>1, <2>2, TidyKnown
  <2> QED BY <2>1, <2>3
<1>3. CASE ~KnownUser(n)
  <2>1. PICK f \in Obj : f = Fresh /\ f \notin DOMAIN uobj
    BY <1>3, FreshNew DEF AddMember
  <2>2. AddUser(k, n, f) /\ LinkMemb(c, k, f, p) /\ owned' = owned
    BY <1>3, <2>1 DEF AddMember
  <2> QED BY <1>1, <1>3, <2>1, <2>2, TidyUnknown
<1> QED BY <1>2, <1>3

(* The same when an allocation fails.                                       *)
LEMMA TidyMemberFails ==
  ASSUME Tidy, NEW c, NEW n \in Nick, AddMemberFails(c, n)
  PROVE  /\ Tidy'
         /\ DOMAIN chans' = DOMAIN chans /\ DOMAIN users' = DOMAIN users
         /\ \A d \in DOMAIN chans : KeysIn(d)' = KeysIn(d)
         /\ \A k \in DOMAIN users : Name(k)' = Name(k)
<1>1. UcTypeOK /\ MembInv /\ UsersInv /\ Mapped
  BY TidyRefs DEF Tidy
<1>2. UcTypeOK'
  BY <1>1, AddMemberFailsStep DEF Keeps
<1>3. PICK k : k = NickKey[n]
  OBVIOUS
<1>4. CASE UNCHANGED ucvars
  <2>1. SameShape
    BY <1>4 DEF ucvars, SameShape
  <2> QED BY <1>2, <2>1, TidyShape
<1>5. CASE k \notin DOMAIN users /\ UnlinkKey(k, {}) /\ users' = users
  <2>1. \A o \in {} : RefChans(o) \subseteq RefsAt(k, o)
    OBVIOUS
  <2>2. /\ DOMAIN chans' = DOMAIN chans
        /\ \A d \in DOMAIN chans :
             /\ DOMAIN chans'[d].memb = DOMAIN chans[d].memb \ {k}
             /\ \A j \in DOMAIN chans'[d].memb : chans'[d].memb[j] = chans[d].memb[j]
        /\ DOMAIN uobj' = DOMAIN uobj \ {}
        /\ \A o \in DOMAIN uobj' : uobj'[o].nick = uobj[o].nick
    BY <1>1, <1>5, <2>1, Unlink
  <2>3. \A d \in DOMAIN chans : k \notin DOMAIN chans[d].memb
    BY <1>1, <1>5 DEF Mapped, KeysIn
  <2>4. \A o : RefsAt(k, o) = {}
    BY <2>3 DEF RefsAt, ChansWith
  <2>5. \A o \in DOMAIN uobj : uobj'[o].nchans = uobj[o].nchans
    <3> SUFFICES ASSUME NEW o \in DOMAIN uobj PROVE uobj'[o].nchans = uobj[o].nchans
      OBVIOUS
    <3>1. uobj'[o] = [uobj[o] EXCEPT !.nchans = @ - Cardinality({})]
      BY <1>5, <2>4 DEF UnlinkKey
    <3>2. uobj[o] \in UserRec
      BY <1>1 DEF UcTypeOK, IsMap
    <3> QED BY <3>1, <3>2, FS_EmptySet DEF UserRec
  <2>6. SameShape
    BY <1>5, <2>2, <2>3, <2>5 DEF SameShape
  <2> QED BY <1>2, <2>6, TidyShape
<1> QED BY <1>3, <1>4, <1>5 DEF AddMemberFails, KnownUser

(* lsi_ucb_drop_user, for the user under key q.                             *)
LEMMA TidyGone ==
  ASSUME Tidy, NEW q \in DOMAIN users, DropUser(users[q])
  PROVE  /\ Tidy'
         /\ DOMAIN chans' = DOMAIN chans /\ DOMAIN users' = DOMAIN users \ {q}
         /\ \A d \in DOMAIN chans : KeysIn(d)' = KeysIn(d) \ {q}
         /\ \A k \in DOMAIN users' : Name(k)' = Name(k)
<1>1. UcTypeOK /\ MembInv /\ UsersInv /\ Mapped
  BY TidyRefs DEF Tidy
<1>2. UcTypeOK' /\ UsersLive'
  BY <1>1, DropUserStep DEF Keeps, UsersInv
<1>3. PICK u \in DOMAIN uobj : u = users[q] /\ NickKey[uobj[u].nick] = q
  BY Users DEF Name
<1>4. users' = Del(users, q) /\ UnlinkKey(q, {u})
  BY <1>3 DEF DropUser
<1>5. \A o \in {u} : RefChans(o) \subseteq RefsAt(q, o)
  BY <1>1, <1>3 DEF UsersInv, KeysAgree, RefChans, Refs, RefsAt, ChansWith
<1>6. /\ DOMAIN chans' = DOMAIN chans
      /\ \A d \in DOMAIN chans :
           /\ DOMAIN chans'[d].memb = DOMAIN chans[d].memb \ {q}
           /\ \A j \in DOMAIN chans'[d].memb : chans'[d].memb[j] = chans[d].memb[j]
      /\ DOMAIN uobj' = DOMAIN uobj \ {u}
      /\ \A o \in DOMAIN uobj' : uobj'[o].nick = uobj[o].nick
  BY <1>1, <1>4, <1>5, Unlink
<1>7. DOMAIN users' = DOMAIN users \ {q} /\ \A k \in DOMAIN users' : users'[k] = users[k]
  BY <1>4 DEF Del, Restrict
<1>8. \A k \in DOMAIN users' : users[k] \in DOMAIN uobj' /\ users[k] # u
  BY <1>3, <1>6, <1>7, Users
<1>9. \A k \in DOMAIN users' : Name(k)' = Name(k)
  BY <1>6, <1>7, <1>8 DEF Name
<1>10. \A d \in DOMAIN chans : KeysIn(d)' = KeysIn(d) \ {q}
  BY <1>6 DEF KeysIn
<1>11. \A k : k # q => ChansWith(k)' = ChansWith(k)
  BY <1>6 DEF ChansWith
<1>12. Mapped'
  <2> SUFFICES ASSUME NEW d \in DOMAIN chans, NEW j \in DOMAIN chans'[d].memb
               PROVE  j \in DOMAIN users' /\ chans'[d].memb[j].u = users'[j]
    BY <1>6 DEF Mapped, KeysIn
  <2>1. j \in DOMAIN users /\ chans[d].memb[j].u = users[j] /\ j # q
    BY <1>1, <1>6 DEF Mapped, KeysIn
  <2> QED BY <1>6, <1>7, <2>1
<1>13. AllMapped'
  <2> SUFFICES ASSUME NEW o \in DOMAIN uobj' PROVE \E k \in DOMAIN users' : users'[k] = o
    BY DEF AllMapped
  <2>1. o \in DOMAIN uobj /\ o # u
    BY <1>6
  <2>2. PICK k \in DOMAIN users : users[k] = o
    BY <2>1 DEF Tidy, AllMapped
  <2> QED BY <1>3, <1>7, <2>1, <2>2
<1>14. CountedOnce'
  <2> SUFFICES ASSUME NEW j \in DOMAIN users'
               PROVE  /\ ChansWith(j)' # {}
                      /\ uobj'[users'[j]].nchans = Cardinality(ChansWith(j)')
    BY DEF CountedOnce
  <2>1. PICK o \in DOMAIN uobj' : o = users[j] /\ o = users'[j]
    BY <1>7, <1>8
  <2>2. /\ ChansWith(j)' = ChansWith(j) /\ ChansWith(j) # {} /\ j \in DOMAIN users
        /\ uobj[o].nchans = Cardinality(ChansWith(j))
    BY <1>7, <1>11, <2>1 DEF Tidy, CountedOnce
  <2>3. RefsAt(q, o) = {}
    BY <1>1, <1>3, <1>8, <2>1 DEF RefsAt, ChansWith, Mapped, KeysIn
  <2>4. uobj'[o] = [uobj[o] EXCEPT !.nchans = @ - Cardinality({})] /\ uobj[o] \in UserRec
    BY <1>1, <1>4, <1>6, <2>1, <2>3 DEF UnlinkKey, UcTypeOK, IsMap
  <2>5. uobj'[o].nchans = uobj[o].nchans
    BY <2>4, FS_EmptySet DEF UserRec
  <2> QED BY <2>1, <2>2, <2>5
<1> QED BY <1>2, <1>6, <1>7, <1>9, <1>10, <1>12, <1>13, <1>14 DEF Tidy

(* lsi_ucb_rename_user of the user under key k to m, whose key l no other   *)
(* user has.                                                                *)
LEMMA TidyRenamed ==
  ASSUME Tidy, NEW n \in Nick, NEW m \in Nick, NEW k \in DOMAIN users, k = NickKey[n],
         NEW l, l = NickKey[m], k = l \/ l \notin DOMAIN users, RenameUser(n, m)
  PROVE  /\ Tidy'
         /\ DOMAIN chans' = DOMAIN chans /\ DOMAIN users' = (DOMAIN users \ {k}) \cup {l}
         /\ \A d \in DOMAIN chans :
              KeysIn(d)' = IF k \in KeysIn(d) THEN (KeysIn(d) \ {k}) \cup {l} ELSE KeysIn(d)
         /\ \A j \in DOMAIN users' : Name(j)' = IF j = l THEN m ELSE Name(j)
<1>1. UcTypeOK /\ MembInv /\ UsersInv /\ Mapped /\ KnownUser(n) /\ l \in Nick
  BY TidyRefs, KeyAssumption DEF Tidy, KnownUser
<1>2. UcTypeOK' /\ UsersLive'
  BY <1>1, RenameUserStep DEF Keeps, UsersInv
<1>3. PICK u \in DOMAIN uobj : u = users[k]
  BY Users
<1>4. SetNick(u, m)
  BY <1>1, <1>3 DEF RenameUser
<1>5. /\ DOMAIN uobj' = DOMAIN uobj
      /\ \A o \in DOMAIN uobj : /\ uobj'[o].nchans = uobj[o].nchans
                                /\ o # u => uobj'[o].nick = uobj[o].nick
      /\ uobj'[u].nick = m
  BY <1>1, <1>4, SetNickStep
<1>6. \A j \in DOMAIN users : /\ users[j] \in DOMAIN uobj
                              /\ j # k => users[j] # u
                              /\ ChansWith(j) # {}
                              /\ uobj[users[j]].nchans = Cardinality(ChansWith(j))
  BY <1>3, Users DEF Tidy, CountedOnce
<1>7. CASE k = l
  <2>1. users' = users /\ chans' = chans
    BY <1>1, <1>7 DEF RenameUser
  <2>2. \A j \in DOMAIN users' : Name(j)' = IF j = l THEN m ELSE Name(j)
    BY <1>3, <1>5, <1>6, <1>7, <2>1 DEF Name
  <2>3. \A d \in DOMAIN chans : KeysIn(d)' = KeysIn(d)
    BY <2>1 DEF KeysIn
  <2>4. Mapped' /\ AllMapped'
    BY <1>1, <1>5, <2>1 DEF Tidy, Mapped, AllMapped, KeysIn
  <2>5. \A j : ChansWith(j)' = ChansWith(j)
    BY <2>1 DEF ChansWith
  <2>6. CountedOnce'
    BY <1>5, <1>6, <2>1, <2>5 DEF CountedOnce
  <2> QED BY <1>2, <1>7, <2>1, <2>2, <2>3, <2>4, <2>6 DEF Tidy
<1>8. CASE k # l
  <2>1. /\ users' = Del(Put(users, l, users[k]), k)
        /\ Rekey(k, l, ChansWith(k))
    BY <1>1, <1>8 DEF RenameUser
  <2>2. k \in Nick /\ ChansWith(k) \subseteq ChansWith(k)
    BY <1>1 DEF UcTypeOK, IsMap
  <2>3. /\ DOMAIN chans' = DOMAIN chans
        /\ \A d \in DOMAIN chans :
             /\ d \notin ChansWith(k) => chans'[d] = chans[d]
             /\ d \in ChansWith(k) =>
                  /\ DOMAIN chans'[d].memb = (DOMAIN chans[d].memb \cup {l}) \ {k}
                  /\ k \in DOMAIN chans[d].memb
                  /\ chans'[d].memb[l] = chans[d].memb[k]
                  /\ \A j \in DOMAIN chans[d].memb \ {k, l} :
                       chans'[d].memb[j] = chans[d].memb[j]
    <3>1. chans' = [c \in DOMAIN chans |-> chans'[c]]
      BY <1>1, <1>8, <2>1, <2>2, RekeyRefs
    <3>2. DOMAIN chans' = DOMAIN chans
      BY <3>1
    <3> QED BY <1>1, <1>8, <2>1, <2>2, <3>2, RekeyRefs
  <2>4. /\ DOMAIN users' = (DOMAIN users \cup {l}) \ {k}
        /\ users'[l] = users[k]
        /\ \A j \in DOMAIN users \ {k, l} : users'[j] = users[j]
    BY <1>1, <1>8, <2>1, RekeyUser
  <2>5. l \notin DOMAIN users /\ \A d \in DOMAIN chans : l \notin DOMAIN chans[d].memb
    BY <1>1, <1>8 DEF Mapped, KeysIn
  <2>6. \A d \in DOMAIN chans : d \in ChansWith(k) <=> k \in DOMAIN chans[d].memb
    BY DEF ChansWith
  <2>7. \A d \in DOMAIN chans :
          KeysIn(d)' = IF k \in KeysIn(d) THEN (KeysIn(d) \ {k}) \cup {l} ELSE KeysIn(d)
    BY <1>8, <2>3, <2>6, ZenonT(30) DEF KeysIn
  <2>8. \A j \in DOMAIN users' : Name(j)' = IF j = l THEN m ELSE Name(j)
    BY <1>3, <1>5, <1>6, <2>4 DEF Name
  <2>9. Mapped'
    <3> SUFFICES ASSUME NEW d \in DOMAIN chans, NEW j \in DOMAIN chans'[d].memb
                 PROVE  j \in DOMAIN users' /\ chans'[d].memb[j].u = users'[j]
      BY <2>3 DEF Mapped, KeysIn
    <3>0. \A i \in DOMAIN chans[d].memb : i \in DOMAIN users /\ chans[d].memb[i].u = users[i]
      BY <1>1 DEF Mapped, KeysIn
    <3>1. CASE d \in ChansWith(k) /\ j = l
      BY <1>8, <2>3, <2>4, <3>0, <3>1
    <3>2. CASE d \in ChansWith(k) /\ j # l
      <4>1. j \in DOMAIN chans[d].memb \ {k, l} /\ chans'[d].memb[j] = chans[d].memb[j]
        BY <2>3, <3>2
      <4> QED BY <2>4, <3>0, <4>1
    <3>3. CASE d \notin ChansWith(k)
      <4>1. chans'[d] = chans[d] /\ j \in DOMAIN chans[d].memb \ {k, l}
        BY <2>3, <2>5, <2>6, <3>3
      <4> QED BY <2>4, <3>0, <4>1
    <3> QED BY <3>1, <3>2, <3>3
  <2>10. AllMapped'
    <3> SUFFICES ASSUME NEW o \in DOMAIN uobj PROVE \E j \in DOMAIN users' : users'[j] = o
      BY <1>5 DEF AllMapped
    <3>1. PICK i \in DOMAIN users : users[i] = o
      BY DEF Tidy, AllMapped
    <3>2. CASE i = k
      BY <1>8, <2>4, <3>1, <3>2
    <3>3. CASE i # k
      BY <2>4, <2>5, <3>1, <3>3
    <3> QED BY <3>2, <3>3
  <2>11. /\ ChansWith(l)' = ChansWith(k)
         /\ \A j : j \notin {k, l} => ChansWith(j)' = ChansWith(j)
    <3>1. \A d \in DOMAIN chans : l \in DOMAIN chans'[d].memb <=> k \in DOMAIN chans[d].memb
      BY <1>8, <2>3, <2>5, <2>6
    <3>2. \A j : j \notin {k, l} => \A d \in DOMAIN chans :
            j \in DOMAIN chans'[d].memb <=> j \in DOMAIN chans[d].memb
      BY <2>3
    <3> QED BY <2>3, <3>1, <3>2 DEF ChansWith
  <2>12. CountedOnce'
    <3> SUFFICES ASSUME NEW j \in DOMAIN users'
                 PROVE  /\ ChansWith(j)' # {}
                        /\ uobj'[users'[j]].nchans = Cardinality(ChansWith(j)')
      BY DEF CountedOnce
    <3>1. CASE j = l
      BY <1>5, <1>6, <2>4, <2>11, <3>1
    <3>2. CASE j # l
      BY <1>5, <1>6, <2>4, <2>11, <3>2
    <3> QED BY <3>1, <3>2
  <2>13. DOMAIN users' = (DOMAIN users \ {k}) \cup {l}
    BY <1>8, <2>4
  <2> QED BY <1>2, <2>3, <2>7, <2>8, <2>9, <2>10, <2>12, <2>13 DEF Tidy
<1> QED BY <1>7, <1>8

(* Without channels there are no users: what lsi_trk_init and lsi_ucb_clear *)
(* find then is empty.                                                      *)
LEMMA TidyEmpty ==
  ASSUME Tidy, DOMAIN chans = {}
  PROVE  users = EmptyMap /\ uobj = EmptyMap /\ chans = EmptyMap
<1>1. UcTypeOK /\ AllMapped /\ CountedOnce
  BY DEF Tidy
<1>2. DOMAIN users = {}
  BY <1>1 DEF CountedOnce, ChansWith
<1>3. DOMAIN uobj = {}
  BY <1>1, <1>2 DEF AllMapped
<1> QED BY <1>1, <1>2, <1>3 DEF UcTypeOK, IsMap, EmptyMap
=============================================================================
