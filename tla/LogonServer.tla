---------------------------- MODULE LogonServer ----------------------------
(***************************************************************************)
(* The client of module Logon composed with an IRC server and an            *)
(* application.                                                             *)
(*                                                                          *)
(* The server is not part of libsrsirc.  It is modelled from what the       *)
(* handlers expect of it: it answers what it is sent, in order; it may not  *)
(* know of capabilities at all, or support any of them; it welcomes us once *)
(* it has a nickname that is free and a USER, the capability negotiation is *)
(* over and its PING is answered; and it may change our nickname later.     *)
(***************************************************************************)
EXTENDS Logon

CONSTANTS
  SaslModes,   \* the application's use of SASL: "try", "must"
  TlsModes,    \* and of irc_set_starttls: "none", "cap", "first"
  Settled,     \* once it has used "first" it uses no other
  MaxQ         \* bound: changes of our nickname on their way, after logon

ASSUME ModesAssumption ==
  /\ SaslModes \subseteq {"try", "must"} /\ TlsModes \subseteq {"none", "cap", "first"}
  /\ Settled \in BOOLEAN /\ MaxQ \in Nat

VARIABLE srv

allvars == <<vars, srv>>

Server == [capable : BOOLEAN,              \* knows CAP
           supp    : SUBSET Cap,           \* the capabilities it supports
           neg     : BOOLEAN,              \* we are negotiating
           on      : SUBSET Cap,           \* the capabilities it has enabled
           nick    : Nick \cup {NoNick},   \* our nickname
           user    : BOOLEAN,              \* it has our USER
           ping    : {"no", "asked", "done"},
           reg     : BOOLEAN,              \* it has welcomed us
           authed  : BOOLEAN]              \* SASL is through

(* A server at the beginning of a connection.                               *)
Fresh == {s \in Server : /\ ~s.neg /\ s.on = {} /\ s.nick = NoNick /\ ~s.user
                         /\ s.ping = "no" /\ ~s.reg /\ ~s.authed
                         /\ ~s.capable => s.supp = {}}

NoServer == CHOOSE s \in Fresh : ~s.capable

LogonTypeOK == TypeOK /\ srv \in Server

ServerInit == Init /\ srv = NoServer

-----------------------------------------------------------------------------
(* The server takes the next message, if it is a cmd, and answers.          *)
Hears(cmd) == pc # "off" /\ tls # "wait" /\ c2s # <<>> /\ Head(c2s).cmd = cmd

Answer(ms) ==
  /\ c2s' = Tail(c2s) /\ s2c' = s2c \o ms
  /\ UNCHANGED <<caps, settings, ssl, v3capreq, mynick, pc, progress>>

SrvCapLs ==
  /\ Hears("CAP LS")
  /\ IF srv.capable
     THEN /\ srv' = [srv EXCEPT !.neg = ~srv.reg]
          /\ \/ Answer(<<CapMsg("CAP LS", srv.supp)>>)
             \/ \E S \in SUBSET srv.supp :
                  Answer(<<CapMsg("CAP LS*", S), CapMsg("CAP LS", srv.supp \ S)>>)
     ELSE Answer(<<>>) /\ UNCHANGED srv
  /\ UNCHANGED tls

SrvCapReq ==
  /\ Hears("CAP REQ")
  /\ LET S == Head(c2s).caps IN
     \/ /\ S \subseteq srv.supp
        /\ srv' = [srv EXCEPT !.on = @ \cup S]
        /\ Answer(<<CapMsg("CAP ACK", S)>>)
     \/ Answer(<<CapMsg("CAP NAK", S)>>) /\ UNCHANGED srv
  /\ UNCHANGED tls

SrvCapEnd ==
  /\ Hears("CAP END")
  /\ srv' = [srv EXCEPT !.neg = FALSE]
  /\ Answer(<<>>) /\ UNCHANGED tls

(* A nickname is taken, or it is ours, if perhaps in a form that is shorter *)
(* than we wanted.  Once it has welcomed us the server tells us.            *)
Renamed(n) == [NickMsg("NICK", n) EXCEPT !.from = srv.nick]

SrvNick ==
  /\ Hears("NICK")
  /\ \/ Answer(<<Msg("433")>>) /\ UNCHANGED srv
     \/ \E n \in Nick : /\ srv' = [srv EXCEPT !.nick = n]
                        /\ Answer(IF srv.reg THEN <<Renamed(n)>> ELSE <<>>)
  /\ UNCHANGED tls

SrvUser ==
  /\ Hears("USER")
  /\ srv' = [srv EXCEPT !.user = TRUE]
  /\ Answer(<<>>) /\ UNCHANGED tls

SrvStarttls ==
  /\ Hears("STARTTLS")
  /\ \/ tls = "no" /\ "tls" \in srv.supp /\ Answer(<<Msg("670")>>) /\ tls' = "wait"
     \/ Answer(<<Msg("691")>>) /\ UNCHANGED tls
  /\ UNCHANGED srv

SrvAuthenticate ==
  /\ Hears("AUTHENTICATE")
  /\ Answer(<<Msg(IF "sasl" \in srv.on THEN "AUTHENTICATE" ELSE "904")>>)
  /\ UNCHANGED <<srv, tls>>

SrvAuthdata ==
  /\ Hears("AUTHDATA")
  /\ \/ srv' = [srv EXCEPT !.authed = TRUE] /\ Answer(<<Msg("903")>>)
     \/ Answer(<<Msg("904")>>) /\ UNCHANGED srv
  /\ UNCHANGED tls

SrvPong ==
  /\ Hears("PONG")
  /\ srv' = [srv EXCEPT !.ping = "done"]
  /\ Answer(<<>>) /\ UNCHANGED tls

Serve ==
  \/ SrvCapLs \/ SrvCapReq \/ SrvCapEnd \/ SrvNick \/ SrvUser
  \/ SrvStarttls \/ SrvAuthenticate \/ SrvAuthdata \/ SrvPong

(* What the server says unasked.                                            *)
Says(ms) ==
  /\ pc # "off" /\ tls # "wait"
  /\ s2c' = s2c \o ms
  /\ UNCHANGED <<caps, settings, ssl, v3capreq, mynick, pc, progress, c2s, tls>>

Welcome ==
  /\ ~srv.reg /\ srv.nick # NoNick /\ srv.user /\ ~srv.neg /\ srv.ping # "asked"
  /\ srv' = [srv EXCEPT !.reg = TRUE]
  /\ Says(<<NickMsg("001", srv.nick), Msg("004")>>)

(* It does not like our password.                                           *)
Reject ==
  /\ ~srv.reg /\ srv.user
  /\ Says(<<Msg("464")>>)
  /\ s2c = <<>> /\ UNCHANGED srv

SrvPing ==
  /\ ~srv.reg /\ srv.ping = "no"
  /\ srv' = [srv EXCEPT !.ping = "asked"]
  /\ Says(<<Msg("PING")>>)

SrvRename(n) ==
  /\ srv.reg /\ n # srv.nick
  /\ Len(c2s) + Len(s2c) < MaxQ
  /\ srv' = [srv EXCEPT !.nick = n]
  /\ Says(<<Renamed(n)>>)

-----------------------------------------------------------------------------
Connects ==
  /\ irc_connect
  /\ IF pc' = "logon"
     THEN srv' \in {s \in Fresh : tls' = "yes" => "tls" \notin s.supp}
     ELSE UNCHANGED srv

Reads ==
  /\ Receive
  /\ srv' = IF pc' = "off" THEN NoServer ELSE srv

Application ==
  \/ \E mode \in SaslModes : irc_set_sasl(mode = "must") /\ UNCHANGED srv
  \/ \E mode \in TlsModes, must \in BOOLEAN :
       /\ Settled /\ starttls_first => mode = "first"
       /\ irc_set_starttls(mode, must) /\ UNCHANGED srv
  \/ \E on \in BOOLEAN : irc_set_ssl(on) /\ UNCHANGED srv
  \/ Connects
  \/ \E n \in Nick : Len(c2s) + Len(s2c) < MaxQ /\ irc_write(n) /\ UNCHANGED srv

Next ==
  \/ Application
  \/ Reads
  \/ Lost /\ srv' = NoServer
  \/ Serve \/ Welcome \/ Reject \/ SrvPing
  \/ \E n \in Nick : SrvRename(n)

Spec == ServerInit /\ [][Next]_allvars

(* irc_connect goes on reading, and the server does what it is there for.   *)
FairSpec == Spec /\ WF_allvars(Reads) /\ WF_allvars(Serve) /\ WF_allvars(Welcome)

-----------------------------------------------------------------------------
(* A logon that succeeds has what the application said it must have: the    *)
(* server has enabled the capabilities (v3.c, lsi_v3_check_caps).           *)
MustHave == pc = "on" => Must(caps) \subseteq srv.on

(* With SASL set up, irc_connect returns true only when we are              *)
(* authenticated.                                                           *)
SaslDone == pc = "on" /\ sasl => srv.authed

(* We do not ask a server for a capability it has not offered (handle_CAP). *)
AskOffered ==
  \A i \in 1..Len(c2s) : c2s[i].cmd = "CAP REQ" => c2s[i].caps \subseteq srv.supp

(* Both ends agree on whether the connection is encrypted, except while a   *)
(* handshake is due.                                                        *)
TlsAgrees == pc # "off" /\ tls # "wait" => (ssl <=> tls = "yes")

(* irc_mynick is "what our current nick is" (irc.h), once we have read all  *)
(* there is.                                                                *)
NickAgrees == pc = "on" /\ s2c = <<>> => mynick = srv.nick

(* With STARTTLS requested in no more than one way irc_connect comes to an  *)
(* end, without the help of its timeout, if SASL is a must when it is used. *)
Returns == pc = "logon" /\ (sasl => "sasl" \in Must(caps)) ~> pc # "logon"

=============================================================================
