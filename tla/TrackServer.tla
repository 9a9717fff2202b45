---------------------------- MODULE TrackServer ----------------------------
(***************************************************************************)
(* The tracker of module Track composed with an IRC server, an ordered      *)
(* connection, and an application.                                          *)
(*                                                                          *)
(* The server is not part of libsrsirc.  It is modelled from what the       *)
(* handlers of irc_track.c expect of it: it tells us, in order, of every    *)
(* change in the channels we are in and of nothing else, answers a JOIN     *)
(* and a NAMES of ours with 353 lines and a 366, and shows one prefix       *)
(* symbol per member in a 353.                                              *)
(***************************************************************************)
EXTENDS Track, FiniteSetsExt, SequencesExt

CONSTANTS
  PerLine,   \* the number of names the server puts in one 353
  AppNames,  \* the NAMES we may send: "one" channel, or "all"
  MaxQ       \* bound: messages on their way to us

(* The server has one way to write the name of a channel, and PREFIX lists  *)
(* the symbols in an order.                                                 *)
ASSUME ServerAssumption ==
  /\ PerLine \in Nat \ {0} /\ AppNames \subseteq {"one", "all"} /\ MaxQ \in Nat
  /\ \A c \in Chan : ChanKey[c] = c
  /\ \A S \in (SUBSET Sym) \ {{}} : \E s \in S : \A t \in S : s \in Stronger[t] \/ s = t

VARIABLES
  self,    \* the nickname the server knows us by, or NoNick
  on,      \* on[c]: from the members of c to the set of their prefix symbols
  inq      \* the messages on their way to us, oldest first

server == <<self, on, inq>>
allvars == <<vars, server>>

ServerInit ==
  /\ Init
  /\ self = NoNick
  /\ on = [c \in Chan |-> EmptyMap]
  /\ inq = <<>>

-----------------------------------------------------------------------------
Online == (UNION {DOMAIN on[c] : c \in Chan}) \cup ({self} \ {NoNick})

Free(n) == \A o \in Online : NickKey[o] # NickKey[n]

(* We are in channel c; in a channel with n.                                *)
In_(c) == self \in DOMAIN on[c]
Common(n) == \E c \in Chan : In_(c) /\ n \in DOMAIN on[c]

(* Messages ms are sent to us if cond holds.                                *)
SendIf(cond, ms) ==
  /\ inq' = IF cond THEN inq \o ms ELSE inq
  /\ Len(inq') <= MaxQ

Msg(cmd, n, c) == [cmd |-> cmd, nick |-> n, chan |-> c]

(* The symbol of the member that a 353 shows: the strongest.                *)
Shown(S) == IF S = {} THEN <<>>
            ELSE <<CHOOSE s \in S : \A t \in S : s \in Stronger[t] \/ s = t>>

(* The 353 lines for channel c, whose members are given by m.               *)
Lines(c, m) ==
  LET all   == [i \in 1..Cardinality(DOMAIN m) |->
                  LET n == SetToSeq(DOMAIN m)[i] IN [nick |-> n, pfx |-> Shown(m[n])]]
      count == (Len(all) + PerLine - 1) \div PerLine
  IN [i \in 1..count |->
        [cmd |-> "353", chan |-> c,
         list |-> SubSeq(all, (i - 1) * PerLine + 1, Min({i * PerLine, Len(all)}))]]

EndOfNames == <<[cmd |-> "366"]>>

(* n, who may be us, joins c.  The first in the channel is made an operator.*)
SrvJoin(n, c) ==
  LET m == Put(on[c], n, IF on[c] = EmptyMap THEN {s \in Sym : Stronger[s] = {}} ELSE {})
  IN /\ self # NoNick
     /\ n \notin DOMAIN on[c]
     /\ n \in Online \/ Free(n)
     /\ on' = [on EXCEPT ![c] = m]
     /\ IF n = self
        THEN SendIf(TRUE, <<Msg("JOIN", n, c)>> \o Lines(c, m) \o EndOfNames)
        ELSE SendIf(In_(c), <<Msg("JOIN", n, c)>>)
     /\ UNCHANGED self

(* n parts, or is kicked.                                                   *)
SrvLeave(cmd, n, c) ==
  /\ n \in DOMAIN on[c]
  /\ on' = [on EXCEPT ![c] = Del(@, n)]
  /\ SendIf(In_(c), <<Msg(cmd, n, c)>>)
  /\ UNCHANGED self

SrvQuit(n) ==
  /\ n \in Online \ {self}
  /\ on' = [c \in Chan |-> Del(on[c], n)]
  /\ SendIf(Common(n), <<[cmd |-> "QUIT", nick |-> n]>>)
  /\ UNCHANGED self

SrvNick(n, m) ==
  /\ n \in Online /\ m # n
  /\ \A o \in Online \ {n} : NickKey[o] # NickKey[m]
  /\ on' = [c \in Chan |-> IF n \in DOMAIN on[c] THEN Put(Del(on[c], n), m, on[c][n])
                                                  ELSE on[c]]
  /\ self' = IF n = self THEN m ELSE self
  /\ SendIf(n = self \/ Common(n), <<[cmd |-> "NICK", nick |-> n, new |-> m]>>)

SrvMode(c, n, s, enab) ==
  /\ n \in DOMAIN on[c] /\ enab # (s \in on[c][n])
  /\ on' = [on EXCEPT ![c][n] = IF enab THEN @ \cup {s} ELSE @ \ {s}]
  /\ SendIf(In_(c), <<[cmd |-> "MODE", chan |-> c, nick |-> n, sym |-> s, enab |-> enab]>>)
  /\ UNCHANGED self

(* The answer to a NAMES of ours, for a channel we may not be in.           *)
SrvNames(c) ==
  /\ "one" \in AppNames /\ self # NoNick
  /\ SendIf(TRUE, Lines(c, on[c]) \o EndOfNames)
  /\ UNCHANGED <<self, on>>

(* The answer to a NAMES without parameters: the lines of all the channels, *)
(* and a single 366.                                                        *)
SrvNamesAll ==
  /\ "all" \in AppNames /\ self # NoNick
  /\ SendIf(TRUE, FlattenSeq([i \in 1..Cardinality(Chan) |->
                               LET c == SetToSeq(Chan)[i] IN Lines(c, on[c])])
                    \o EndOfNames)
  /\ UNCHANGED <<self, on>>

Server ==
  /\ \/ \E n \in Nick, c \in Chan : \/ SrvJoin(n, c)
                                    \/ SrvLeave("PART", n, c)
                                    \/ SrvLeave("KICK", n, c)
     \/ \E n \in Nick : SrvQuit(n)
     \/ \E n, m \in Nick : SrvNick(n, m)
     \/ \E c \in Chan, n \in Nick, s \in Sym, enab \in BOOLEAN : SrvMode(c, n, s, enab)
     \/ \E c \in Chan : SrvNames(c)
     \/ SrvNamesAll
  /\ UNCHANGED vars

-----------------------------------------------------------------------------
(* What has become of the connection: while it is up the server keeps us    *)
(* and the rest of the queue, else it takes us for gone.                    *)
Hangup ==
  /\ self' = NoNick /\ inq' = <<>>
  /\ on' = [c \in Chan |-> Del(on[c], self)]

Follow(q) ==
  IF online' THEN inq' = q /\ UNCHANGED <<self, on>> ELSE Hangup

Handle(m) ==
  CASE m.cmd = "JOIN" -> h_JOIN(m.nick, m.chan)
    [] m.cmd = "353"  -> h_353(m.chan, m.list)
    [] m.cmd = "366"  -> h_366
    [] m.cmd = "PART" -> h_PART(m.nick, m.chan)
    [] m.cmd = "KICK" -> h_KICK(m.nick, m.chan)
    [] m.cmd = "QUIT" -> h_QUIT(m.nick)
    [] m.cmd = "NICK" -> h_NICK(m.nick, m.new)
    [] m.cmd = "MODE" -> h_MODE(m.chan, m.nick, m.sym, m.enab)
    [] m.cmd = "005"  -> handle_005

(* irc_read: a message comes to its handler.  While the handlers of the     *)
(* tracker are not registered only those of 005 and NICK do something.      *)
Receive ==
  /\ Idle /\ online /\ inq # <<>>
  /\ IF tracking \/ Head(inq).cmd \in {"005", "NICK"}
     THEN Handle(Head(inq))
     ELSE UNCHANGED vars
  /\ Follow(Tail(inq))

Loop == NextName /\ Follow(inq)

(* The application reconnects when it is offline, under a nickname that is  *)
(* free; the server begins with a 005.                                      *)
Connects ==
  /\ irc_connect
  /\ IF online'
     THEN /\ Free(mynick') /\ self' = mynick'
          /\ inq' = <<[cmd |-> "005"]>> /\ UNCHANGED on
     ELSE UNCHANGED server

Client ==
  \/ Receive
  \/ Loop
  \/ \E n \in Nick, t \in TagKinds : irc_tag_user(n, t) /\ UNCHANGED server
  \/ \E c \in Chan, t \in TagKinds : irc_tag_chan(c, t) /\ UNCHANGED server
  \/ Lost /\ Hangup
  \/ \E p \in {"connect", "dispose"} :
       lsi_trk_deinit(p) /\ (p = "connect" => ~online) /\ UNCHANGED server
  \/ ClearNext /\ UNCHANGED server
  \/ Connects
  \/ irc_dispose /\ Hangup
  \/ UseFreed /\ UNCHANGED server

ServerNext == Server \/ Client

SafeSpec == ServerInit /\ [][ServerNext]_allvars

(* The application calls irc_read until it has read everything, and         *)
(* irc_connect and irc_dispose return.                                      *)
ServerSpec == SafeSpec /\ WF_allvars(Receive) /\ WF_allvars(Loop)

-----------------------------------------------------------------------------
(* We are through with the messages that have arrived.                      *)
CaughtUp == Idle /\ online /\ tracking /\ inq = <<>>

Members(c) == DOMAIN on[c]

(* Having read everything, we know the channels we are in, who is in them   *)
(* and under what spelling of their nicknames, and our own nickname.        *)
InSync ==
  /\ mynick = self
  /\ DOMAIN chans = {ChanKey[c] : c \in {d \in Chan : In_(d)}}
  /\ \A c \in Chan : In_(c) =>
       LET memb == chans[ChanKey[c]].memb IN
       /\ DOMAIN memb = {NickKey[n] : n \in Members(c)}
       /\ \A n \in Members(c) : uobj[memb[NickKey[n]].u].nick = n

ViewMatches == CaughtUp => InSync

(* nchans is "the number of channels we know the user is in", at every      *)
(* moment an application could look (irc_track.h).                          *)
NchansExact == \A o \in DOMAIN uobj : uobj[o].nchans = Cardinality(RefChans(o))

(* Nobody is remembered whom no channel knows, in the user map or on the    *)
(* heap, and every membership object is of a user in the user map.          *)
NobodyDangles ==
  /\ Range(users) = DOMAIN uobj
  /\ DOMAIN uobj = UNION {Refs(c) : c \in DOMAIN chans}

(* irc_dispose "deallocates all resources" (irc.h): no user object outlives *)
(* the context.  (The autofree tag of a channel we are in does.)            *)
ObjectsFreed == phase = "gone" => DOMAIN uobj = {}

Sorted(p) == \A i, j \in 1..Len(p) : i < j => p[i] \in Stronger[p[j]]

(* The symbols of a member are sorted, strongest first and each once, and   *)
(* the server has given it all of them: MODE and 353 add the same symbols   *)
(* by different ways.                                                       *)
PrefixesTrue ==
  /\ \A c \in DOMAIN chans : \A k \in DOMAIN chans[c].memb : Sorted(chans[c].memb[k].pfx)
  /\ CaughtUp => \A c \in Chan : In_(c) => \A n \in Members(c) :
       Range(chans[ChanKey[c]].memb[NickKey[n]].pfx) \subseteq on[c][n]

(* The tracker implements the rosters of module Roster.                     *)
Listed == [c \in DOMAIN chans |-> DOMAIN chans[c].memb]

R == INSTANCE Roster WITH
       User <- Nick, Channel <- Chan, roster <- Listed, known <- DOMAIN users

ImplementsRoster == R!Spec

(* If from some time on the server sends nothing and we do nothing but      *)
(* read, we are in the end in sync, or offline, or untracked, or leaving.   *)
Converges ==
  <>[][Receive \/ Loop]_allvars => <>[](phase = "run" /\ online /\ tracking => InSync)

=============================================================================
