------------------------------- MODULE Track -------------------------------
(***************************************************************************)
(* Channel and user tracking: the message handlers of libsrsirc/irc_track.c *)
(* over the user and channel base of module UcBase, with the parts of       *)
(* irc.c and irc_msghnd.c that switch tracking on and off, keep our own     *)
(* nickname, and drop the connection when a handler says CANT_PROCEED.      *)
(*                                                                          *)
(* Here the messages are arbitrary: any handler may be called with any      *)
(* arguments at any time the connection is up.  Module TrackServer composes *)
(* the same handlers with a server that only says what is the case.         *)
(*                                                                          *)
(* irc_read handles one message at a time, and the application runs between *)
(* two messages, so a handler is one step.  Two are broken up: the loop of  *)
(* h_353 over the names in its list, and lsi_trk_deinit, which irc_connect  *)
(* and irc_dispose run, over the channels.                                  *)
(***************************************************************************)
EXTENDS UcBase

CONSTANTS
  NoNick,     \* the empty string reset_state leaves in ctx->mynick
  NameLists,  \* the lists a 353 may carry: sequences of [nick, pfx]
  TagKinds,   \* the kinds of tag the application uses
  MaxRefs,    \* bound: no user is counted in more memberships than this
  MaxTags     \* bound: the autofree tags given to the library and not freed

(* An entry of a 353, whose nickname has at most one prefix symbol, and the *)
(* same with the channel it is about.                                       *)
Pfx1   == {<<>>} \cup {<<s>> : s \in Sym}
Entry  == [nick : Nick, pfx : Pfx1]
NameIn == [chan : Chan, nick : Nick, pfx : Pfx1]

In(c, e) == [chan |-> c, nick |-> e.nick, pfx |-> e.pfx]

ASSUME TrackAssumption ==
  /\ NoNick \notin Nick
  /\ NameLists \subseteq Seq(Entry) \ {<<>>}
  /\ TagKinds \subseteq Tag
  /\ MaxRefs \in Nat /\ MaxTags \in Nat

VARIABLES
  online,      \* the connection is up
  mynick,      \* ctx->mynick
  tracking,    \* ctx->tracking_enab: the handlers below are registered
  dangling,    \* ctx->chans points to a map that lsi_ucb_init has disposed of
  endofnames,  \* ctx->endofnames: the next 353 starts a new list
  names,       \* the names h_353 has yet to add, and the keys to their channel
  phase        \* what the application is doing, see Phase

Phase ==
  {"run",       \* between two calls, or in irc_read
   "connect",   \* irc_connect has called lsi_trk_deinit
   "dispose",   \* so has irc_dispose
   "gone",      \* irc_dispose has returned
   "broken"}    \* freed memory has been used: nothing is known from here on

conn == <<online, mynick, tracking, dangling>>
vars == <<ucvars, conn, endofnames, names, phase>>

TypeOK ==
  /\ UcTypeOK
  /\ online \in BOOLEAN /\ tracking \in BOOLEAN /\ dangling \in BOOLEAN
  /\ endofnames \in BOOLEAN
  /\ mynick \in Nick \cup {NoNick}
  /\ names \in Seq(NameIn)
  /\ phase \in Phase

Init ==
  /\ users = EmptyMap /\ uobj = EmptyMap /\ chans = EmptyMap
  /\ owned = 0
  /\ online = FALSE /\ mynick = NoNick
  /\ tracking = FALSE /\ dangling = FALSE /\ endofnames = FALSE
  /\ names = <<>>
  /\ phase = "run"

-----------------------------------------------------------------------------
(* The application is between two calls.                                    *)
Idle == phase = "run" /\ names = <<>>

(* irc_read hands the next message to the handlers of the tracker.          *)
Tracking == Idle /\ online /\ tracking

Me(n) == mynick # NoNick /\ NickKey[n] = NickKey[mynick]

(* A handler returned ALLOC_ERR, which is CANT_PROCEED: irc_read resets the *)
(* connection.  What has been tracked stays until the next irc_connect.     *)
GiveUp_Ignored ==   \* faulty: the error does not end the connection
  /\ names' = <<>>
  /\ UNCHANGED <<conn, endofnames, phase>>

GiveUp ==
  /\ online' = FALSE
  /\ names' = <<>>
  /\ UNCHANGED <<mynick, tracking, dangling, endofnames, phase>>

CarryOn == UNCHANGED <<conn, endofnames, names, phase>>

(* The bound MaxRefs lets n gain a membership.                              *)
Countable(n) == KnownUser(n) => uobj[users[NickKey[n]]].nchans < MaxRefs

(* n JOINs c *)
h_JOIN(n, c) ==
  /\ Tracking
  /\ \/ /\ Me(n)
        /\ IF KnownChan(c) THEN UNCHANGED ucvars ELSE AddChan(ChanKey[c])
        /\ CarryOn
     \/ /\ Me(n) /\ ~KnownChan(c) /\ "chan" \in FailSites
        /\ UNCHANGED ucvars /\ GiveUp
     \/ /\ ~Me(n) /\ ~KnownChan(c)
        /\ UNCHANGED ucvars /\ CarryOn
     \/ /\ ~Me(n) /\ KnownChan(c)
        /\ \/ Countable(n) /\ AddMember(ChanKey[c], n, <<>>) /\ CarryOn
           \/ AddMemberFails(ChanKey[c], n) /\ GiveUp

(* A 353 for channel c begins: only the first one after a 366 forgets the   *)
(* members.  It then works through its list, a name at a time.              *)
h_353_Restarts(c, list) ==   \* faulty: every 353 forgets the members
  /\ Tracking
  /\ IF KnownChan(c)
     THEN /\ ClearMemb(ChanKey[c])
          /\ endofnames' = FALSE
          /\ names' = [i \in 1..Len(list) |-> In(ChanKey[c], list[i])]
          /\ UNCHANGED <<conn, phase>>
     ELSE UNCHANGED ucvars /\ CarryOn

h_353(c, list) ==
  /\ Tracking
  /\ IF KnownChan(c)
     THEN /\ IF endofnames THEN ClearMemb(ChanKey[c]) ELSE UNCHANGED ucvars
          /\ endofnames' = FALSE
          /\ names' = [i \in 1..Len(list) |-> In(ChanKey[c], list[i])]
          /\ UNCHANGED <<conn, phase>>
     ELSE UNCHANGED ucvars /\ CarryOn

NextName ==
  LET e == Head(names) IN
  /\ names # <<>>
  /\ \/ /\ Countable(e.nick)
        /\ AddMember(e.chan, e.nick, e.pfx)
        /\ names' = Tail(names)
        /\ UNCHANGED <<conn, endofnames, phase>>
     \/ AddMemberFails(e.chan, e.nick) /\ GiveUp

(* 366: the end of a list, of a channel we know or not.                     *)
h_366_Ignored ==   \* faulty: the next list does not start anew
  /\ Tracking
  /\ UNCHANGED vars

h_366 ==
  /\ Tracking
  /\ endofnames' = TRUE
  /\ UNCHANGED <<ucvars, conn, names, phase>>

(* n PARTs c *)
h_PART(n, c) ==
  /\ Tracking
  /\ CASE ~KnownChan(c)             -> UNCHANGED ucvars
       [] KnownChan(c) /\ Me(n)     -> DropChan(ChanKey[c])
       [] KnownChan(c) /\ ~Me(n)    -> IF KnownUser(n)
                                       THEN DropMemb(ChanKey[c], users[NickKey[n]])
                                       ELSE UNCHANGED ucvars
  /\ CarryOn

(* n is KICKed from c, which the tracker treats as if n had PARTed, but for *)
(* whom the message comes from.                                             *)
h_KICK(n, c) == h_PART(n, c)

(* n QUITs *)
h_QUIT(n) ==
  /\ Tracking
  /\ IF KnownUser(n) THEN DropUser(users[NickKey[n]]) ELSE UNCHANGED ucvars
  /\ CarryOn

(* n changes its NICK to m.  handle_NICK of irc_msghnd.c, registered        *)
(* whether we are tracking or not, comes first.                             *)
handle_NICK(n, m) == mynick' = IF Me(n) THEN m ELSE mynick

h_NICK(n, m) ==
  /\ Idle /\ online
  /\ handle_NICK(n, m)
  /\ UNCHANGED <<tracking, dangling, endofnames, phase>>
  /\ \/ /\ IF tracking
           THEN RenameUser(n, m) \/ RenameUserGivesUp(n, m)
           ELSE UNCHANGED ucvars
        /\ UNCHANGED <<online, names>>
     \/ /\ tracking /\ RenameUserFails(n, m)
        /\ online' = FALSE /\ UNCHANGED names

(* The part of a channel MODE that is about the prefixes of its members:    *)
(* n gains or loses symbol s.                                               *)
h_MODE(c, n, s, enab) ==
  /\ Tracking
  /\ IF KnownChan(c) THEN UpdateModePfx(ChanKey[c], n, s, enab) ELSE UNCHANGED ucvars
  /\ CarryOn

(* A 005 with a CASEMAPPING switches tracking on, if it is not on already   *)
(* (lsi_trk_init).  Out of memory, it stays off and nobody is told: for the *)
(* handlers or the channel map nothing has been done; for the user map the  *)
(* channel map is disposed of again, but ctx->chans still points there.     *)
handle_005_Fails ==
  /\ \/ "init" \in FailSites /\ dangling' \in {dangling, FALSE}
     \/ "usermap" \in FailSites /\ dangling' = TRUE
  /\ UNCHANGED <<users, chans, tracking, endofnames>>

handle_005 ==
  /\ Idle /\ online /\ ~tracking
  /\ \/ /\ tracking' = TRUE /\ endofnames' = TRUE /\ dangling' = FALSE
        /\ users' = EmptyMap /\ chans' = EmptyMap
     \/ handle_005_Fails
  /\ UNCHANGED <<uobj, owned, online, mynick, names, phase>>

-----------------------------------------------------------------------------
(* The application and the connection *)

irc_tag_user(n, t) == Idle /\ TagUser(n, t) /\ owned' <= MaxTags /\ CarryOn

irc_tag_chan(c, t) == Idle /\ TagChan(c, t) /\ owned' <= MaxTags /\ CarryOn

(* End of file, an I/O error, a message the handlers call a protocol error, *)
(* an allocation failure that changed nothing here, or irc_reset: the       *)
(* connection is gone, and nothing else.                                    *)
Lost ==
  /\ Idle /\ online
  /\ online' = FALSE
  /\ UNCHANGED <<ucvars, mynick, tracking, dangling, endofnames, names, phase>>

(* irc_connect and irc_dispose begin with lsi_trk_deinit.  If there is no   *)
(* channel, lsi_ucb_clear returns early, and the user map is disposed of    *)
(* without the objects it points to.                                        *)
lsi_trk_deinit(p) ==
  /\ Idle /\ ~dangling
  /\ phase' = p
  /\ users' = IF chans = EmptyMap THEN EmptyMap ELSE users
  /\ UNCHANGED <<uobj, chans, owned, conn, endofnames, names>>

ClearNext ==
  /\ phase \in {"connect", "dispose"}
  /\ \E c \in DOMAIN chans : ClearChan(c)
  /\ CarryOn

(* The users that are left in the user map are freed last.                  *)
LeftLive == Range(users) \subseteq DOMAIN uobj

Cleared == chans = EmptyMap /\ LeftLive /\ ClearUsers

(* Freed memory is used: the dangling channel map, by lsi_trk_deinit,       *)
(* irc_tag_chan or a getter; or a user object that teardown has freed, but  *)
(* could not find in the user map, is freed with the users left there.      *)
(* What the program does is undefined, and the model ends here.             *)
UseFreed ==
  /\ \/ Idle /\ dangling
     \/ phase \in {"connect", "dispose"} /\ chans = EmptyMap /\ ~LeftLive
  /\ phase' = "broken"
  /\ UNCHANGED <<ucvars, conn, endofnames, names>>

(* irc_connect continues.  On a context that is online lsi_conn_connect     *)
(* refuses, and the connection goes on without a nickname and untracked.    *)
(* Otherwise we end up online under some nickname, or offline.              *)
irc_connect ==
  /\ phase = "connect" /\ Cleared
  /\ phase' = "run"
  /\ tracking' = FALSE
  /\ \/ online /\ mynick' = NoNick /\ UNCHANGED online
     \/ ~online /\ online' = TRUE /\ mynick' \in Nick
     \/ ~online /\ UNCHANGED online /\ mynick' \in Nick \cup {NoNick}
  /\ UNCHANGED <<dangling, endofnames, names>>

irc_dispose ==
  /\ phase = "dispose" /\ Cleared
  /\ phase' = "gone"
  /\ online' = FALSE /\ tracking' = FALSE
  /\ UNCHANGED <<mynick, dangling, endofnames, names>>

-----------------------------------------------------------------------------
Message ==
  \/ \E n \in Nick, c \in Chan : h_JOIN(n, c) \/ h_PART(n, c) \/ h_KICK(n, c)
  \/ \E c \in Chan, list \in NameLists : h_353(c, list)
  \/ h_366
  \/ \E n \in Nick : h_QUIT(n)
  \/ \E n, m \in Nick : h_NICK(n, m)
  \/ \E c \in Chan, n \in Nick, s \in Sym, enab \in BOOLEAN : h_MODE(c, n, s, enab)
  \/ handle_005

Application ==
  \/ \E n \in Nick, t \in TagKinds : irc_tag_user(n, t)
  \/ \E c \in Chan, t \in TagKinds : irc_tag_chan(c, t)
  \/ \E p \in {"connect", "dispose"} : lsi_trk_deinit(p)
  \/ ClearNext \/ irc_connect \/ irc_dispose \/ UseFreed

Next == Message \/ NextName \/ Application \/ Lost

Spec == Init /\ [][Next]_vars

-----------------------------------------------------------------------------
(* Memory safety of the shared user objects, whatever the server says.      *)

(* The user map points to live objects, and finds each by its nickname.     *)
UsersLive ==
  \A k \in DOMAIN users : users[k] \in DOMAIN uobj /\ NickKey[uobj[users[k]].nick] = k

(* So do the channels' membership objects: what a handler follows m->u to   *)
(* has not been freed.                                                      *)
MembLive == \A c \in DOMAIN chans : Refs(c) \subseteq DOMAIN uobj
(* A user in the user map is a member only under the key it is mapped by.   *)
KeysAgree ==
  \A k \in DOMAIN users, c \in DOMAIN chans :
    \A j \in DOMAIN chans[c].memb : chans[c].memb[j].u = users[k] => j = k

(* No channel counts the same object twice.                                 *)
OncePerChan ==
  \A c \in DOMAIN chans : \A i, j \in DOMAIN chans[c].memb :
    chans[c].memb[i].u = chans[c].memb[j].u => i = j

(* nchans is at least the number of channels that point to the object: it   *)
(* may be too high, when the server repeats itself, but never too low.      *)
RefChans(o) == {c \in DOMAIN chans : o \in Refs(c)}

NchansEnough ==
  \A o \in DOMAIN uobj : Cardinality(RefChans(o)) <= uobj[o].nchans

(* "Deallocate all resources associated with the provided context" (irc.h): *)
(* tearing down, irc_connect and irc_dispose free no user a second time.    *)
(* What they may come by that has been freed is the channel map that        *)
(* lsi_ucb_init has left behind, and nothing else.  (A rename that ran out  *)
(* of memory leaves a user in the user map that is then freed twice: this   *)
(* is for the other failures.)                                              *)
FreedOnce == phase = "broken" => dangling

(* The autofree tags of the users and channels we know are the library's to *)
(* free, each of them, and none has been freed already.                     *)
TagsAlive ==
  Cardinality({o \in DOMAIN uobj : uobj[o].tag = "auto"})
    + Cardinality({c \in DOMAIN chans : chans[c].tag = "auto"}) <= owned

(* What the channels need, and what the user map needs, to stay that way.   *)
MembInv  == MembLive /\ OncePerChan /\ NchansEnough
UsersInv == UsersLive /\ KeysAgree

(* The inductive invariant.  A rename that runs out of memory leaves the    *)
(* user map wrong, but it also takes us offline.                            *)
RefInv == MembInv /\ (online \/ "rename" \notin FailSites => UsersInv)

=============================================================================
