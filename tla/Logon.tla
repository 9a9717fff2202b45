-------------------------------- MODULE Logon --------------------------------
(***************************************************************************)
(* Logging on to IRC: irc_connect and irc_read of libsrsirc (irc.c) with    *)
(* the handlers of irc_msghnd.c and of v3.c, that is capability             *)
(* negotiation, STARTTLS and SASL.                                          *)
(*                                                                          *)
(* The messages between us and the server are two queues.  What the server  *)
(* does is the business of module LogonServer.  A message is a record; of   *)
(* its arguments only nicknames and capabilities are kept.                  *)
(***************************************************************************)
EXTENDS Naturals, Sequences

CONSTANTS
  Nick,       \* nicknames
  NoNick,     \* the empty string
  WantNick,   \* what irc_set_nick was given
  MutNick,    \* [Nick -> Nick \cup {NoNick}], the callback cb_mut_nick
  Renews      \* the application calls irc_set_sasl and irc_set_starttls
              \* anew before each irc_connect

ASSUME NickAssumption ==
  /\ NoNick \notin Nick /\ WantNick \in Nick
  /\ MutNick \in [Nick -> Nick \cup {NoNick}]

ASSUME RenewsAssumption == Renews \in BOOLEAN

VARIABLES
  caps,            \* ctx->v3caps: from the capabilities wanted to their flags
  starttls,        \* ctx->starttls
  starttls_first,  \* ctx->starttls_first
  sasl,            \* ctx->sasl_mech and ctx->sasl_msg are set
  ssl,             \* ctx->con->ssl
  v3capreq,        \* ctx->v3capreq: the capabilities last requested
  mynick,          \* ctx->mynick
  pc,              \* "off": offline; "logon": in the loop of irc_connect;
                   \* "on": irc_connect has returned true
  logon_sent, logged_on, sasl_authed,   \* irc_connect's variables
  c2s, s2c,        \* the messages on their way to the server, and to us
  tls              \* what the server's end of the connection does: "no", plain
                   \* text; "wait", awaits our TLS handshake; "yes"

settings == <<starttls, starttls_first, sasl>>
progress == <<logon_sent, logged_on, sasl_authed>>
wire     == <<c2s, s2c, tls>>
vars     == <<caps, settings, ssl, v3capreq, mynick, pc, progress, wire>>

Cap    == {"tls", "sasl"}
CapRec == [musthave : BOOLEAN, offered : BOOLEAN, enabled : BOOLEAN]

Cmd == {"CAP LS", "CAP LS*", "CAP REQ", "CAP ACK", "CAP NAK", "CAP END", "NICK", "USER",
        "STARTTLS", "AUTHENTICATE", "AUTHDATA", "PING", "PONG", "001", "004", "433",
        "464", "670", "691", "903", "904"}

NickCmd == {"NICK", "001"}

Message ==
  [cmd : Cmd \ NickCmd, from : {NoNick}, nick : {NoNick}, caps : SUBSET Cap]
    \cup [cmd : NickCmd, from : Nick \cup {NoNick}, nick : Nick, caps : {{}}]

Msg(cmd)        == [cmd |-> cmd, from |-> NoNick, nick |-> NoNick, caps |-> {}]
NickMsg(cmd, n) == [Msg(cmd) EXCEPT !.nick = n]
CapMsg(cmd, S)  == [Msg(cmd) EXCEPT !.caps = S]

TypeOK ==
  /\ DOMAIN caps \subseteq Cap /\ caps \in [DOMAIN caps -> CapRec]
  /\ <<starttls, starttls_first, sasl, ssl>> \in BOOLEAN \X BOOLEAN \X BOOLEAN \X BOOLEAN
  /\ v3capreq \subseteq Cap
  /\ mynick \in IF pc = "off" THEN Nick \cup {NoNick} ELSE Nick
  /\ pc \in {"off", "logon", "on"}
  /\ <<logon_sent, logged_on, sasl_authed>> \in BOOLEAN \X BOOLEAN \X BOOLEAN
  /\ c2s \in Seq(Message) /\ s2c \in Seq(Message)
  /\ tls \in {"no", "wait", "yes"}

Init ==
  /\ caps = [c \in {} |-> {}]
  /\ starttls = FALSE /\ starttls_first = FALSE /\ sasl = FALSE /\ ssl = FALSE
  /\ v3capreq = {} /\ mynick = NoNick
  /\ pc = "off"
  /\ logon_sent = FALSE /\ logged_on = FALSE /\ sasl_authed = FALSE
  /\ c2s = <<>> /\ s2c = <<>> /\ tls = "no"

-----------------------------------------------------------------------------
(* Capabilities *)

(* lsi_v3_want_cap, lsi_v3_clear_cap *)
WantCap(c, must) ==
  [d \in DOMAIN caps \cup {c} |->
     IF d = c THEN [musthave |-> must, offered |-> FALSE, enabled |-> FALSE] ELSE caps[d]]

ClearCap(c) == [d \in DOMAIN caps \ {c} |-> caps[d]]

(* lsi_v3_update_caps: the server has named the capabilities S.             *)
SetOffered(S) == [c \in DOMAIN caps |-> [caps[c] EXCEPT !.offered = @ \/ c \in S]]
SetEnabled(S) == [c \in DOMAIN caps |-> [caps[c] EXCEPT !.enabled = @ \/ c \in S]]

(* lsi_v3_mk_capreq *)
Offered(cs) == {c \in DOMAIN cs : cs[c].offered}

Enabled(cs) == {c \in DOMAIN cs : cs[c].enabled}

Must(cs) == {c \in DOMAIN cs : cs[c].musthave}

(* conclude_sasl_cap: SASL delays the CAP END.                              *)
Conclude(cs) ==
  IF "sasl" \in Enabled(cs) THEN <<Msg("AUTHENTICATE")>> ELSE <<Msg("CAP END")>>

-----------------------------------------------------------------------------
(* The application, before it connects *)

irc_set_sasl(must) ==
  /\ pc = "off"
  /\ caps' = WantCap("sasl", must) /\ sasl' = TRUE
  /\ UNCHANGED <<starttls, starttls_first, ssl, v3capreq, mynick, pc, progress, wire>>

irc_set_starttls(mode, must) ==
  /\ pc = "off"
  /\ ~(ssl /\ mode # "none")
  /\ caps' = IF mode = "cap" THEN WantCap("tls", must) ELSE ClearCap("tls")
  /\ starttls' = (mode # "none")
  /\ starttls_first' = (starttls_first \/ mode = "first")
  /\ UNCHANGED <<sasl, ssl, v3capreq, mynick, pc, progress, wire>>

irc_set_ssl(on) ==
  /\ pc = "off"
  /\ ~(starttls /\ on)
  /\ ssl' = on
  /\ UNCHANGED <<caps, settings, v3capreq, mynick, pc, progress, wire>>

-----------------------------------------------------------------------------
(* Connecting *)

(* send_logon *)
LogonLines ==
  (IF DOMAIN caps # {} THEN <<Msg("CAP LS")>> ELSE <<>>)
    \o <<NickMsg("NICK", WantNick), Msg("USER")>>

(* irc_connect, as far as its loop.  The flags of the capabilities stay as  *)
(* they are.  If there is no connection, or writing to it fails, that is    *)
(* the end.                                                                 *)
irc_connect ==
  /\ pc = "off"
  /\ Renews => Offered(caps) = {} /\ Enabled(caps) = {}
  /\ v3capreq' = {}
  /\ \/ /\ mynick' = NoNick
        /\ UNCHANGED <<pc, progress, wire>>
     \/ /\ pc' = "logon"
        /\ logon_sent' = ~starttls_first /\ logged_on' = FALSE /\ sasl_authed' = FALSE
        /\ c2s' = IF starttls_first THEN <<Msg("STARTTLS")>> ELSE LogonLines
        /\ s2c' = <<>>
        /\ tls' = IF ssl THEN "yes" ELSE "no"
        /\ mynick' = WantNick
  /\ UNCHANGED <<caps, settings, ssl>>

(* irc_reset *)
Hangup ==
  /\ pc' = "off"
  /\ c2s' = <<>> /\ s2c' = <<>> /\ tls' = "no"
  /\ UNCHANGED progress

(* End of file, an error, irc_connect's hard timeout, a callback of the     *)
(* application that objects to a message, or irc_reset.                     *)
Lost ==
  /\ pc # "off"
  /\ Hangup
  /\ UNCHANGED <<caps, settings, ssl, v3capreq, mynick>>

(* The application asks for another nickname, once it is logged on.         *)
irc_write(n) ==
  /\ pc = "on"
  /\ c2s' = Append(c2s, NickMsg("NICK", n))
  /\ UNCHANGED <<caps, settings, ssl, v3capreq, mynick, pc, progress, s2c, tls>>

-----------------------------------------------------------------------------
(* The loops of irc_connect and irc_read around lsi_msg_handle.  A handler  *)
(* that reports CANT_PROCEED ends the connection.  Else irc_connect goes by *)
(* the flags handlers return.                                               *)

CantProceed == Hangup

Proceed_LogonOver(out, flags) ==   \* faulty: SASL is not waited for
  /\ s2c' = Tail(s2c) /\ c2s' = c2s \o out
  /\ logged_on' = (logged_on \/ "LOGON_COMPLETE" \in flags)
  /\ sasl_authed' = (sasl_authed \/ "SASL_COMPLETE" \in flags)
  /\ pc' = IF logged_on' THEN "on" ELSE pc

(* Once irc_connect has returned the flags make no difference.              *)
Proceed(out, flags) ==
  /\ s2c' = Tail(s2c) /\ c2s' = c2s \o out
  /\ logged_on' = (logged_on \/ "LOGON_COMPLETE" \in flags)
  /\ sasl_authed' = (sasl_authed \/ "SASL_COMPLETE" \in flags)
  /\ pc' = IF logged_on' /\ (sasl => sasl_authed') THEN "on" ELSE pc

(* A handler writes the lines out, and writing may fail.                    *)
Reply(out, flags) ==
  \/ Proceed(out, flags) /\ UNCHANGED <<logon_sent, tls>>
  \/ out # <<>> /\ CantProceed

Logon == pc = "logon"

-----------------------------------------------------------------------------
(* irc_msghnd.c *)

handle_001_KeepsNick(m) ==   \* faulty: the nickname we asked for will do
  /\ UNCHANGED <<caps, ssl, v3capreq, mynick>>
  /\ IF Logon /\ Must(caps) \subseteq Enabled(caps) THEN Reply(<<>>, {}) ELSE CantProceed

handle_001_Offered(m) ==   \* faulty: what is offered need not be enabled
  /\ mynick' = IF Logon THEN m.nick ELSE mynick
  /\ UNCHANGED <<caps, ssl, v3capreq>>
  /\ IF Logon /\ Must(caps) \cap Offered(caps) \subseteq Enabled(caps)
     THEN Reply(<<>>, {}) ELSE CantProceed

handle_001(m) ==
  /\ mynick' = IF Logon THEN m.nick ELSE mynick
  /\ UNCHANGED <<caps, ssl, v3capreq>>
  /\ IF Logon /\ Must(caps) \subseteq Enabled(caps) THEN Reply(<<>>, {}) ELSE CantProceed

handle_004(m) ==
  /\ UNCHANGED <<caps, ssl, v3capreq, mynick>>
  /\ IF Logon THEN Reply(<<>>, {"LOGON_COMPLETE"}) ELSE CantProceed

handle_PING(m) ==
  /\ UNCHANGED <<caps, ssl, v3capreq, mynick>>
  /\ Reply(IF Logon THEN <<Msg("PONG")>> ELSE <<>>, {})

handle_bad_nick_Unchecked(m) ==   \* faulty: an empty nickname will do
  /\ UNCHANGED <<caps, ssl, v3capreq>>
  /\ mynick' = IF Logon THEN MutNick[mynick] ELSE mynick
  /\ Reply(IF Logon THEN <<NickMsg("NICK", mynick')>> ELSE <<>>, {})

handle_bad_nick(m) ==
  /\ UNCHANGED <<caps, ssl, v3capreq>>
  /\ mynick' = IF Logon THEN MutNick[mynick] ELSE mynick
  /\ \/ ~Logon /\ Reply(<<>>, {})
     \/ Logon /\ mynick' = NoNick /\ CantProceed
     \/ Logon /\ mynick' # NoNick /\ Reply(<<NickMsg("NICK", mynick')>>, {})

(* A wrong password.                                                        *)
handle_464(m) ==
  /\ UNCHANGED <<caps, ssl, v3capreq, mynick>>
  /\ CantProceed

handle_NICK(m) ==
  /\ mynick' = IF m.from = mynick THEN m.nick ELSE mynick
  /\ UNCHANGED <<caps, ssl, v3capreq>>
  /\ Reply(<<>>, {})

-----------------------------------------------------------------------------
(* v3.c *)

(* The request for the capabilities S, or the end of the negotiation.       *)
Request(S) == <<IF S = {} THEN Msg("CAP END") ELSE CapMsg("CAP REQ", S)>>

(* handle_CAP with LS; only the last line of several is answered.           *)
handle_CAP_LS_AsksAll(m) ==   \* faulty: what we want, offered or not
  /\ caps' = IF Logon THEN SetOffered(m.caps) ELSE caps
  /\ UNCHANGED <<ssl, mynick>>
  /\ IF Logon /\ m.cmd = "CAP LS*"
     THEN Reply(<<>>, {}) /\ UNCHANGED v3capreq
     ELSE IF Must(caps) \subseteq Offered(caps')
     THEN v3capreq' = DOMAIN caps /\ Reply(Request(v3capreq'), {})
     ELSE CantProceed /\ UNCHANGED v3capreq

handle_CAP_LS(m) ==
  /\ caps' = IF Logon THEN SetOffered(m.caps) ELSE caps
  /\ UNCHANGED <<ssl, mynick>>
  /\ IF Logon /\ m.cmd = "CAP LS*"
     THEN Reply(<<>>, {}) /\ UNCHANGED v3capreq
     ELSE IF Must(caps) \subseteq Offered(caps')
     THEN v3capreq' = Offered(caps') /\ Reply(Request(v3capreq'), {})
     ELSE CantProceed /\ UNCHANGED v3capreq

handle_CAP_ACK(m) ==
  /\ UNCHANGED <<ssl, v3capreq, mynick>>
  /\ IF m.caps # v3capreq
     THEN CantProceed /\ UNCHANGED caps
     ELSE /\ caps' = SetEnabled(m.caps)
          /\ Reply(IF "tls" \in Enabled(caps') THEN <<Msg("STARTTLS")>> ELSE Conclude(caps'), {})

handle_CAP_NAK(m) ==
  /\ UNCHANGED <<caps, ssl, v3capreq, mynick>>
  /\ CantProceed

handle_AUTHENTICATE(m) ==
  /\ UNCHANGED <<caps, ssl, v3capreq, mynick>>
  /\ Reply(IF sasl THEN <<Msg("AUTHDATA")>> ELSE <<>>, {})

handle_903(m) ==
  /\ UNCHANGED <<caps, ssl, v3capreq, mynick>>
  /\ IF sasl THEN Reply(IF Logon THEN <<Msg("CAP END")>> ELSE <<>>, {"SASL_COMPLETE"})
             ELSE Reply(<<>>, {})

handle_saslerr(m) ==
  /\ UNCHANGED <<caps, ssl, v3capreq, mynick>>
  /\ IF sasl THEN CantProceed ELSE Reply(<<>>, {})

(* STARTTLS is through, or has failed, and the server's end is in state t.  *)
(* With STARTTLS_OVER irc_connect sends the logon lines if it has not; else *)
(* the negotiation goes on.                                                 *)
StarttlsOver(t) ==
  LET late == starttls_first /\ Logon /\ ~logon_sent
      out  == IF ~starttls_first THEN Conclude(caps) ELSE IF late THEN LogonLines ELSE <<>>
  IN \/ Proceed(out, {}) /\ logon_sent' = (logon_sent \/ late) /\ tls' = t
     \/ out # <<>> /\ CantProceed

handle_691_Stops(m) ==   \* faulty: the negotiation is not concluded
  /\ UNCHANGED <<caps, ssl, v3capreq, mynick>>
  /\ IF "tls" \in Must(caps) THEN CantProceed ELSE Reply(<<>>, {})

handle_691(m) ==
  /\ UNCHANGED <<caps, ssl, v3capreq, mynick>>
  /\ IF "tls" \in Must(caps) THEN CantProceed ELSE StarttlsOver(tls)

handle_670_NotSsl(m) ==   \* faulty: con->ssl is not set
  /\ UNCHANGED <<caps, v3capreq, mynick, ssl>>
  /\ (c2s = <<>> /\ StarttlsOver("yes")) \/ CantProceed

(* The TLS handshake: it can fail, and does if plain text of ours is still  *)
(* on its way to where the server expects the handshake.                    *)
handle_670(m) ==
  /\ UNCHANGED <<caps, v3capreq, mynick>>
  /\ \/ c2s = <<>> /\ ssl' = TRUE /\ StarttlsOver("yes")
     \/ UNCHANGED ssl /\ CantProceed

-----------------------------------------------------------------------------
(* lsi_msg_handle: there is one handler at most for each command, of those  *)
(* that lsi_imh_regall and lsi_v3_regall have registered.                   *)
HandleCore(m) ==
  \/ m.cmd = "001" /\ handle_001(m)
  \/ m.cmd = "004" /\ handle_004(m)
  \/ m.cmd = "PING" /\ handle_PING(m)
  \/ m.cmd = "433" /\ handle_bad_nick(m)
  \/ m.cmd = "464" /\ handle_464(m)
  \/ m.cmd = "NICK" /\ handle_NICK(m)

HandleV3(m) ==
  \/ m.cmd \in {"CAP LS", "CAP LS*"} /\ handle_CAP_LS(m)
  \/ m.cmd = "CAP ACK" /\ handle_CAP_ACK(m)
  \/ m.cmd = "CAP NAK" /\ handle_CAP_NAK(m)
  \/ m.cmd = "AUTHENTICATE" /\ handle_AUTHENTICATE(m)
  \/ m.cmd = "903" /\ handle_903(m)
  \/ m.cmd = "904" /\ handle_saslerr(m)
  \/ m.cmd = "691" /\ handle_691(m)
  \/ m.cmd = "670" /\ handle_670(m)

Handle(m) == HandleCore(m) \/ HandleV3(m)

(* The client reads a message, in irc_connect or in irc_read.               *)
Receive ==
  /\ pc # "off" /\ s2c # <<>>
  /\ Handle(Head(s2c))
  /\ UNCHANGED settings

=============================================================================
