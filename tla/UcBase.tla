------------------------------- MODULE UcBase -------------------------------
(***************************************************************************)
(* The user and channel base of libsrsirc (libsrsirc/ucbase.c): two string  *)
(* maps, ctx->users and ctx->chans, whose values point to heap objects.  A  *)
(* user object is shared: the user map points to it, and so does one        *)
(* membership object per channel the user is in.  The object counts those   *)
(* memberships in nchans and is freed when the count drops to zero.         *)
(*                                                                          *)
(* The operations below are the operations of ucbase.c, each an action      *)
(* fragment over the three variables; irc_track.c calls them (module        *)
(* Track).  Names are compared through the case mapping tables of cmap.c,   *)
(* which also end a key at '!' or '@': NickKey and ChanKey send a name to    *)
(* the representative of all the names the maps take for the same.          *)
(***************************************************************************)
EXTENDS Integers, FiniteSets, Sequences, Functions

CONSTANTS
  Nick,       \* the nicknames that occur, differing in case or otherwise
  NickKey,    \* [Nick -> Nick], equal for nicknames the maps identify
  Chan,       \* the channel names that occur
  ChanKey,    \* [Chan -> Chan], equal for channel names the maps identify
  Sym,        \* the member prefix symbols of the 005 PREFIX attribute
  Stronger,   \* [Sym -> SUBSET Sym], the symbols listed before a symbol
  MaxPfx,     \* the number of symbols memb.modepfx has room for
  Obj,        \* addresses malloc can return for a user object
  FailSites   \* the allocations that may fail

ASSUME KeyAssumption ==
  /\ NickKey \in [Nick -> Nick] /\ \A n \in Nick : NickKey[NickKey[n]] = NickKey[n]
  /\ ChanKey \in [Chan -> Chan] /\ \A c \in Chan : ChanKey[ChanKey[c]] = ChanKey[c]

ASSUME PrefixAssumption ==
  /\ Stronger \in [Sym -> SUBSET Sym] /\ MaxPfx \in Nat
  /\ \A s, t \in Sym : s \in Stronger[t] => t \notin Stronger[s]

ASSUME FailAssumption ==
  FailSites \subseteq {"chan", "user", "memb", "strdup", "rename", "init", "usermap"}

ASSUME FiniteAssumption == IsFiniteSet(Chan) /\ IsFiniteSet(Obj)

VARIABLES
  users,   \* ctx->users: from the keys in the map to user objects
  uobj,    \* the heap: from the live user objects to their fields
  chans,   \* ctx->chans: from the keys in the map to the channels' fields
  owned    \* the number of autofree tags accepted and not yet freed

ucvars == <<users, uobj, chans, owned>>

(* The two kinds of tag an application can leave on a user or a channel:   *)
(* "auto" is freed by the library together with its owner.                  *)
Tag == {"none", "plain", "auto"}

Memb    == [u : Obj, pfx : Seq(Sym)]
UserRec == [nick : Nick, nchans : Nat, tag : Tag]
ChanRec(memb) == [memb : {memb}, tag : Tag]

(* f is a map from some keys in K to elements of V.                         *)
IsMap(f, K, V) == DOMAIN f \subseteq K /\ f \in [DOMAIN f -> V]

UcTypeOK ==
  /\ IsMap(users, Nick, Obj)
  /\ IsMap(uobj, Obj, UserRec)
  /\ chans = [c \in DOMAIN chans |-> chans[c]] /\ DOMAIN chans \subseteq Chan
  /\ \A c \in DOMAIN chans :
       IsMap(chans[c].memb, Nick, Memb) /\ chans[c] \in ChanRec(chans[c].memb)
  /\ owned \in Int

EmptyMap == [x \in {} |-> x]

(* lsi_skmap_put: insert, or replace the value under an existing key.       *)
Put(f, k, v) == [x \in DOMAIN f \cup {k} |-> IF x = k THEN v ELSE f[x]]

(* lsi_skmap_del *)
Del(f, k) == Restrict(f, DOMAIN f \ {k})

-----------------------------------------------------------------------------
(* Lookups *)

(* lsi_ucb_get_user: by nickname or by nick!user@host, which is one key.    *)
KnownUser(n) == NickKey[n] \in DOMAIN users

(* lsi_ucb_get_chan *)
KnownChan(c) == ChanKey[c] \in DOMAIN chans

(* The channels holding a membership object under key k.                    *)
ChansWith(k) == {c \in DOMAIN chans : k \in DOMAIN chans[c].memb}

(* Those of them whose membership object points to the user object o.       *)
RefsAt(k, o) == {c \in ChansWith(k) : chans[c].memb[k].u = o}

(* The objects channel c points to, one membership object or more each.     *)
Refs(c) == {chans[c].memb[k].u : k \in DOMAIN chans[c].memb}

-----------------------------------------------------------------------------
(* Reference counting.  ucbase.c repeats the same sequence for every        *)
(* membership object it removes: decrement nchans; at zero delete the user  *)
(* from the user map by its nickname, free its strings, its autofree tag    *)
(* and the object.  Release(O) does it for one membership of each object in *)
(* O; the order within O is immaterial.                                     *)
Dying(O) == {o \in O : uobj[o].nchans = 1}

(* The autofree tags among those of the user objects O, of channel key c.   *)
UserTags(O) == Cardinality({o \in O : uobj[o].tag = "auto"})

ChanTags(c) == IF chans[c].tag = "auto" THEN 1 ELSE 0

Release(O) ==
  /\ users' = Restrict(users, DOMAIN users \ {NickKey[uobj[o].nick] : o \in Dying(O)})
  /\ uobj' = [o \in DOMAIN uobj \ Dying(O) |->
                IF o \in O THEN [uobj[o] EXCEPT !.nchans = @ - 1] ELSE uobj[o]]

(* lsi_ucb_clear_memb: forget all the members of channel key c.             *)
ClearMemb(c) ==
  /\ Release(Refs(c))
  /\ chans' = [chans EXCEPT ![c].memb = EmptyMap]
  /\ owned' = owned - UserTags(Dying(Refs(c)))

(* lsi_ucb_drop_chan: the members as above, then the channel itself.        *)
DropChan(c) ==
  /\ Release(Refs(c))
  /\ chans' = Del(chans, c)
  /\ owned' = owned - UserTags(Dying(Refs(c))) - ChanTags(c)

(* lsi_ucb_clear, one channel: as above, but for the tag of the channel.    *)
ClearChan_Unmaps(c) ==   \* faulty: the users are taken out of the map, not freed
  /\ users' = Restrict(users, DOMAIN users \ {NickKey[uobj[o].nick] : o \in Dying(Refs(c))})
  /\ chans' = Del(chans, c)
  /\ UNCHANGED <<uobj, owned>>

ClearChan_Frees(c) ==   \* faulty: the users are freed, and stay in the map
  /\ uobj' = Restrict(uobj, DOMAIN uobj \ Refs(c))
  /\ chans' = Del(chans, c)
  /\ UNCHANGED <<users, owned>>

ClearChan(c) ==
  /\ Release(Refs(c))
  /\ chans' = Del(chans, c)
  /\ owned' = owned - UserTags(Dying(Refs(c)))

(* lsi_ucb_clear, the users that are left: freed without their tags.        *)
ClearUsers ==
  /\ uobj' = Restrict(uobj, DOMAIN uobj \ Range(users))
  /\ users' = EmptyMap
  /\ UNCHANGED <<chans, owned>>

(* lsi_ucb_drop_user takes key k out of every channel, decrementing nchans  *)
(* (drop_memb without purge: the objects pointed to are not freed), and     *)
(* frees the objects X.                                                     *)
UnlinkKey(k, X) ==
  /\ uobj' = [o \in DOMAIN uobj \ X |->
                [uobj[o] EXCEPT !.nchans = @ - Cardinality(RefsAt(k, o))]]
  /\ chans' = [c \in DOMAIN chans |-> [chans[c] EXCEPT !.memb = Del(@, k)]]

(* lsi_ucb_drop_user: unlink u from the user map, then from every channel   *)
(* by its nickname, then free it whatever its count says.                   *)
DropUser_Linked(u) ==   \* faulty: the channels still point to the user
  /\ users' = Del(users, NickKey[uobj[u].nick])
  /\ uobj' = Restrict(uobj, DOMAIN uobj \ {u})
  /\ owned' = owned - UserTags({u})
  /\ UNCHANGED chans

DropUser(u) ==
  LET k == NickKey[uobj[u].nick] IN
  /\ users' = Del(users, k)
  /\ UnlinkKey(k, {u})
  /\ owned' = owned - UserTags({u})

(* lsi_ucb_drop_memb with purge: take user object u out of channel key c.   *)
DropMemb_DropsUser(c, u) ==   \* faulty: the user goes from the other channels too
  DropUser(u)

DropMemb_FreesTag(c, u) ==   \* faulty: the tag is freed though the user is not
  LET k == NickKey[uobj[u].nick] IN
  IF k \in DOMAIN chans[c].memb
  THEN /\ Release({chans[c].memb[k].u})
       /\ chans' = [chans EXCEPT ![c].memb = Del(@, k)]
       /\ owned' = owned - UserTags({chans[c].memb[k].u})
  ELSE UNCHANGED ucvars

DropMemb(c, u) ==
  LET k == NickKey[uobj[u].nick] IN
  IF k \in DOMAIN chans[c].memb
  THEN /\ Release({chans[c].memb[k].u})
       /\ chans' = [chans EXCEPT ![c].memb = Del(@, k)]
       /\ owned' = owned - UserTags(Dying({chans[c].memb[k].u}))
  ELSE UNCHANGED ucvars

-----------------------------------------------------------------------------
(* Insertion *)

(* lsi_ucb_add_chan *)
AddChan(c) ==
  /\ chans' = Put(chans, c, [memb |-> EmptyMap, tag |-> "none"])
  /\ UNCHANGED <<users, uobj, owned>>

(* The address malloc returns for a new user object.                        *)
Fresh == CHOOSE o \in Obj : o \notin DOMAIN uobj

CanAllocUser == \E o \in Obj : o \notin DOMAIN uobj

LinkMemb(c, k, u, p) ==
  chans' = [chans EXCEPT ![c].memb = Put(@, k, [u |-> u, pfx |-> p])]

(* lsi_ucb_add_user, given memory at o; the caller is about to add the      *)
(* first membership.                                                        *)
AddUser_Uncounted(k, n, o) ==   \* faulty: the first membership is not counted
  /\ users' = Put(users, k, o)
  /\ uobj' = Put(uobj, o, [nick |-> n, nchans |-> 0, tag |-> "none"])

AddUser(k, n, o) ==
  /\ users' = Put(users, k, o)
  /\ uobj' = Put(uobj, o, [nick |-> n, nchans |-> 1, tag |-> "none"])

(* lsi_ucb_get_user, lsi_ucb_add_user if that found nothing, and            *)
(* lsi_ucb_add_memb: the sequence of h_JOIN and of h_353.  A membership     *)
(* object already under the same key is replaced, and counted once more.    *)
AddMember(c, n, p) ==
  LET k == NickKey[n] IN
  \/ /\ KnownUser(n)
     /\ uobj' = [uobj EXCEPT ![users[k]].nchans = @ + 1]
     /\ LinkMemb(c, k, users[k], p)
     /\ UNCHANGED <<users, owned>>
  \/ /\ ~KnownUser(n) /\ CanAllocUser
     /\ AddUser(k, n, Fresh)
     /\ LinkMemb(c, k, Fresh, p)
     /\ UNCHANGED owned

(* The same, failing: in lsi_ucb_add_user nothing has changed yet; in       *)
(* lsi_ucb_add_memb a user added a moment ago is dropped again, and with    *)
(* it whatever the channels hold under its key.                             *)
AddMemberFails_KeepsUser(c, n) ==   \* faulty: the user is not dropped again
  /\ "memb" \in FailSites /\ ~KnownUser(n) /\ CanAllocUser
  /\ AddUser(NickKey[n], n, Fresh)
  /\ UNCHANGED <<chans, owned>>

AddMemberFails(c, n) ==
  LET k == NickKey[n] IN
  \/ /\ "user" \in FailSites \/ ~CanAllocUser
     /\ ~KnownUser(n)
     /\ UNCHANGED ucvars
  \/ /\ "memb" \in FailSites /\ KnownUser(n)
     /\ UNCHANGED ucvars
  \/ /\ "memb" \in FailSites /\ ~KnownUser(n) /\ CanAllocUser
     /\ UnlinkKey(k, {})
     /\ UNCHANGED <<users, owned>>

-----------------------------------------------------------------------------
(* Renaming, lsi_ucb_rename_user *)

SetNick(u, m) == uobj' = [uobj EXCEPT ![u].nick = m]

(* Move the membership objects under key k to key l in the channels D.      *)
Rekey_KeepsOld(k, l, D) ==   \* faulty: the old key is not deleted
  chans' = [c \in DOMAIN chans |->
              IF c \in D THEN [chans[c] EXCEPT !.memb = Put(@, l, @[k])] ELSE chans[c]]

Rekey(k, l, D) ==
  chans' = [c \in DOMAIN chans |->
              IF c \in D
              THEN [chans[c] EXCEPT !.memb = Del(Put(@, l, @[k]), k)]
              ELSE chans[c]]

RenameUser(n, m) ==
  LET k == NickKey[n]
      l == NickKey[m]
  IN \/ ~KnownUser(n) /\ UNCHANGED ucvars
     \/ /\ KnownUser(n) /\ k = l          \* only the case differs
        /\ SetNick(users[k], m)
        /\ UNCHANGED <<users, chans, owned>>
     \/ /\ KnownUser(n) /\ k # l
        /\ SetNick(users[k], m)
        /\ users' = Del(Put(users, l, users[k]), k)
        /\ Rekey(k, l, ChansWith(k))
        /\ UNCHANGED owned

(* The nickname could not be copied: reported, but not as an allocation     *)
(* failure, and nothing has changed.                                        *)
RenameUserGivesUp(n, m) ==
  /\ "strdup" \in FailSites
  /\ KnownUser(n) /\ NickKey[n] # NickKey[m]
  /\ UNCHANGED ucvars

(* lsi_skmap_put could not add key l: to the user map, when the object      *)
(* already has its new nickname, or to a channel, when channels D are done. *)
RenameUserFails(n, m) ==
  LET k == NickKey[n]
      l == NickKey[m]
  IN /\ "rename" \in FailSites
     /\ KnownUser(n) /\ k # l
     /\ SetNick(users[k], m)
     /\ UNCHANGED owned
     /\ \/ ~KnownUser(m) /\ UNCHANGED <<users, chans>>
        \/ \E D \in SUBSET ChansWith(k) :
             /\ \E c \in ChansWith(k) \ D : l \notin DOMAIN chans[c].memb
             /\ users' = Del(Put(users, l, users[k]), k)
             /\ Rekey(k, l, D)

-----------------------------------------------------------------------------
(* Member prefixes and tags *)

(* lsi_ucb_update_modepfx puts symbol s after the stronger ones it meets    *)
(* first, and to remove it closes the gap it leaves.                        *)
InsertSym(p, s) ==
  LET at == Cardinality({i \in 1..Len(p) : \A j \in 1..i : p[j] \in Stronger[s]})
  IN SubSeq(p, 1, at) \o <<s>> \o SubSeq(p, at + 1, Len(p))

RemoveSym_Next(p, s) ==   \* faulty: off by one
  LET at == CHOOSE i \in 1..Len(p) : p[i] = s
  IN SubSeq(p, 1, at) \o SubSeq(p, at + 2, Len(p))

RemoveSym(p, s) ==
  LET at == CHOOSE i \in 1..Len(p) : p[i] = s
  IN SubSeq(p, 1, at - 1) \o SubSeq(p, at + 1, Len(p))

(* lsi_ucb_update_modepfx: refused for unknown members, for a symbol that   *)
(* is already (not) there, and when the buffer is full.                     *)
UpdateModePfx(c, n, s, enab) ==
  LET k == NickKey[n]
      p == chans[c].memb[k].pfx
  IN IF /\ k \in DOMAIN chans[c].memb
        /\ enab # (s \in Range(p))
        /\ enab => Len(p) < MaxPfx
     THEN /\ chans' = [chans EXCEPT ![c].memb[k].pfx =
                         IF enab THEN InsertSym(p, s) ELSE RemoveSym(p, s)]
          /\ UNCHANGED <<users, uobj, owned>>
     ELSE UNCHANGED ucvars

(* lsi_ucb_tag_user, lsi_ucb_tag_chan: an autofree tag already there is    *)
(* freed, whatever replaces it.                                             *)
Retag(old, new) ==
  owned' = owned + (IF new = "auto" THEN 1 ELSE 0) - (IF old = "auto" THEN 1 ELSE 0)

TagUser(n, t) ==
  LET o == users[NickKey[n]] IN
  /\ KnownUser(n)
  /\ uobj' = [uobj EXCEPT ![o].tag = t]
  /\ Retag(uobj[o].tag, t)
  /\ UNCHANGED <<users, chans>>

TagChan(c, t) ==
  /\ KnownChan(c)
  /\ chans' = [chans EXCEPT ![ChanKey[c]].tag = t]
  /\ Retag(chans[ChanKey[c]].tag, t)
  /\ UNCHANGED <<users, uobj>>

=============================================================================
