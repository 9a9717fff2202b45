----------------------------- MODULE LogonProofs -----------------------------
(***************************************************************************)
(* Proofs about modules Logon and LogonServer, for any set of nicknames,    *)
(* any callback for nicknames in use, any server and any application: the   *)
(* types of the variables, that a logon succeeds only with what it must     *)
(* have and with SASL through, that only what is offered is asked for, and  *)
(* that both ends agree on TLS and, in the end, on our nickname.            *)
(***************************************************************************)
EXTENDS LogonServer, TLAPS, SequenceTheorems

(* What a server that is in state s may have sent, and what we may have     *)
(* sent it.                                                                 *)
TrueMsg(s) ==
  {m \in Message : /\ m.cmd \in {"CAP LS", "CAP LS*"} => m.caps \subseteq s.supp
                   /\ m.cmd = "CAP ACK" => m.caps \subseteq s.on
                   /\ m.cmd = "903" => s.authed}

ReqMsg(s) == {m \in Message : m.cmd = "CAP REQ" => m.caps \subseteq s.supp}

(* The capabilities have passed the check that is made at 001, and a 004    *)
(* comes after a 001.                                                       *)
Passed == Must(caps) \subseteq Enabled(caps)

Ordered(q) ==
  \A i \in 1..Len(q) : q[i].cmd = "004" => \E j \in 1..i - 1 : q[j].cmd = "001"

(* The flags of the capabilities are what this server said.                 *)
FlagsTrue == Offered(caps) \subseteq srv.supp /\ Enabled(caps) \subseteq srv.on

OnlineInv ==
  /\ s2c \in Seq(TrueMsg(srv))
  /\ sasl_authed => srv.authed
  /\ pc = "on" => logged_on /\ (sasl => sasl_authed)
  /\ Passed \/ Ordered(s2c)
  /\ logged_on => Passed
  /\ Renews => FlagsTrue /\ c2s \in Seq(ReqMsg(srv))

Inv ==
  /\ LogonTypeOK
  /\ pc = "off" => c2s = <<>>
  /\ pc # "off" => OnlineInv

-----------------------------------------------------------------------------
(* Sequences of messages *)

LEMMA SeqGrows ==
  ASSUME NEW S, NEW T, S \subseteq T, NEW q \in Seq(S)
  PROVE  q \in Seq(T)
OBVIOUS

LEMMA SeqShort ==
  ASSUME NEW S
  PROVE  <<>> \in Seq(S) /\ \A m \in S : <<m>> \in Seq(S)
OBVIOUS

LEMMA SeqConcat ==
  ASSUME NEW S, NEW q \in Seq(S), NEW r \in Seq(S)
  PROVE  q \o r \in Seq(S)
OBVIOUS

LEMMA SeqTail ==
  ASSUME NEW S, NEW q \in Seq(S), q # <<>>
  PROVE  Head(q) \in S /\ Tail(q) \in Seq(S)
OBVIOUS

LEMMA OrderedTail ==
  ASSUME NEW q \in Seq(Message), q # <<>>, Ordered(q), Head(q).cmd # "001"
  PROVE  Ordered(Tail(q)) /\ Head(q).cmd # "004"
<1>1. Len(q) \in Nat /\ Len(q) >= 1 /\ Head(q) = q[1]
  OBVIOUS
<1>2. Len(Tail(q)) = Len(q) - 1 /\ \A i \in 1..Len(q) - 1 : Tail(q)[i] = q[i + 1]
  BY <1>1
<1>3. q[1].cmd # "001" /\ q[1].cmd # "004"
  BY <1>1 DEF Ordered
<1>4. ASSUME NEW i \in 1..Len(Tail(q)), Tail(q)[i].cmd = "004"
      PROVE  \E j \in 1..i - 1 : Tail(q)[j].cmd = "001"
  <2>1. i + 1 \in 1..Len(q) /\ q[i + 1].cmd = "004" /\ i \in Nat
    BY <1>1, <1>2, <1>4
  <2>2. PICK j \in 1..(i + 1) - 1 : q[j].cmd = "001"
    BY <2>1 DEF Ordered
  <2>3. j # 1 /\ j - 1 \in 1..i - 1 /\ Tail(q)[j - 1] = q[j]
    BY <1>1, <1>2, <1>3, <2>1, <2>2
  <2> QED BY <2>2, <2>3
<1> QED BY <1>1, <1>3, <1>4 DEF Ordered

LEMMA OrderedShort ==
  /\ \A m : m.cmd # "004" => Ordered(<<m>>)
  /\ \A a, b : a.cmd # "004" /\ b.cmd # "004" => Ordered(<<a, b>>)
<1>1. ASSUME NEW m, m.cmd # "004" PROVE Ordered(<<m>>)
  <2>1. \A i \in 1..Len(<<m>>) : <<m>>[i] = m
    OBVIOUS
  <2> QED BY <1>1, <2>1, Zenon DEF Ordered
<1>2. ASSUME NEW a, NEW b, a.cmd # "004", b.cmd # "004" PROVE Ordered(<<a, b>>)
  <2>1. \A i \in 1..Len(<<a, b>>) : <<a, b>>[i] = a \/ <<a, b>>[i] = b
    OBVIOUS
  <2> QED BY <1>2, <2>1, Zenon DEF Ordered
<1> QED BY <1>1, <1>2

LEMMA OrderedConcat ==
  ASSUME NEW q \in Seq(Message), NEW r \in Seq(Message), Ordered(q), Ordered(r)
  PROVE  Ordered(q \o r)
<1>1. /\ Len(q) \in Nat /\ Len(r) \in Nat /\ Len(q \o r) = Len(q) + Len(r)
      /\ \A i \in 1..Len(q) : (q \o r)[i] = q[i]
      /\ \A i \in 1..Len(r) : (q \o r)[Len(q) + i] = r[i]
  OBVIOUS
<1>2. ASSUME NEW i \in 1..Len(q \o r), (q \o r)[i].cmd = "004"
      PROVE  \E j \in 1..i - 1 : (q \o r)[j].cmd = "001"
  <2>1. CASE i <= Len(q)
    <3>1. i \in 1..Len(q) /\ q[i].cmd = "004"
      BY <1>1, <1>2, <2>1
    <3>2. PICK j \in 1..i - 1 : q[j].cmd = "001"
      BY <3>1 DEF Ordered
    <3>3. (q \o r)[j] = q[j]
      BY <1>1, <3>1, <3>2
    <3> QED BY <3>2, <3>3
  <2>2. CASE i > Len(q)
    <3>1. PICK k \in 1..Len(r) : i = Len(q) + k
      <4>1. i - Len(q) \in 1..Len(r) /\ i = Len(q) + (i - Len(q))
        BY <1>1, <2>2
      <4> QED BY <4>1
    <3>2. r[k].cmd = "004"
      BY <1>1, <1>2, <3>1
    <3>3. PICK j \in 1..k - 1 : r[j].cmd = "001"
      BY <3>2 DEF Ordered
    <3>4. Len(q) + j \in 1..i - 1 /\ (q \o r)[Len(q) + j] = r[j]
      BY <1>1, <3>1, <3>3
    <3> QED BY <3>3, <3>4
  <2> QED BY <1>1, <2>1, <2>2
<1> QED BY <1>2 DEF Ordered

-----------------------------------------------------------------------------
(* Capabilities and the server *)

CapsType(cs) == DOMAIN cs \subseteq Cap /\ cs \in [DOMAIN cs -> CapRec]

LEMMA SetOfferedFacts ==
  ASSUME NEW S, CapsType(caps), NEW cs, cs = SetOffered(S)
  PROVE  /\ CapsType(cs)
         /\ Must(cs) = Must(caps) /\ Enabled(cs) = Enabled(caps)
         /\ Offered(cs) \subseteq Offered(caps) \cup S
<1>1. DOMAIN cs = DOMAIN caps
  BY DEF SetOffered
<1>2. ASSUME NEW c \in DOMAIN caps
      PROVE  /\ cs[c] \in CapRec
             /\ cs[c].musthave = caps[c].musthave /\ cs[c].enabled = caps[c].enabled
             /\ cs[c].offered = (caps[c].offered \/ c \in S)
  <2>1. caps[c] \in CapRec /\ cs[c] = [caps[c] EXCEPT !.offered = @ \/ c \in S]
    BY DEF CapsType, SetOffered
  <2> QED BY <2>1 DEF CapRec
<1>3. cs = [c \in DOMAIN cs |-> cs[c]]
  BY DEF SetOffered
<1>4. CapsType(cs)
  BY <1>1, <1>2, <1>3 DEF CapsType
<1>5. Must(cs) = Must(caps)
  BY <1>1, <1>2 DEF Must
<1>6. Enabled(cs) = Enabled(caps)
  BY <1>1, <1>2 DEF Enabled
<1>7. Offered(cs) \subseteq Offered(caps) \cup S
  BY <1>1, <1>2 DEF Offered
<1> QED BY <1>4, <1>5, <1>6, <1>7

LEMMA SetEnabledFacts ==
  ASSUME NEW S, CapsType(caps), NEW cs, cs = SetEnabled(S)
  PROVE  /\ CapsType(cs)
         /\ Must(cs) = Must(caps) /\ Offered(cs) = Offered(caps)
         /\ Enabled(caps) \subseteq Enabled(cs)
         /\ Enabled(cs) \subseteq Enabled(caps) \cup S
<1>1. DOMAIN cs = DOMAIN caps
  BY DEF SetEnabled
<1>2. ASSUME NEW c \in DOMAIN caps
      PROVE  /\ cs[c] \in CapRec
             /\ cs[c].musthave = caps[c].musthave /\ cs[c].offered = caps[c].offered
             /\ cs[c].enabled = (caps[c].enabled \/ c \in S)
  <2>1. caps[c] \in CapRec /\ cs[c] = [caps[c] EXCEPT !.enabled = @ \/ c \in S]
    BY DEF CapsType, SetEnabled
  <2> QED BY <2>1 DEF CapRec
<1>3. cs = [c \in DOMAIN cs |-> cs[c]]
  BY DEF SetEnabled
<1>4. CapsType(cs)
  BY <1>1, <1>2, <1>3 DEF CapsType
<1>5. Must(cs) = Must(caps)
  BY <1>1, <1>2 DEF Must
<1>6. Offered(cs) = Offered(caps)
  BY <1>1, <1>2 DEF Offered
<1>7. Enabled(caps) \subseteq Enabled(cs) /\ Enabled(cs) \subseteq Enabled(caps) \cup S
  BY <1>1, <1>2 DEF Enabled
<1> QED BY <1>4, <1>5, <1>6, <1>7

LEMMA NoServerFresh == NoServer \in Fresh
<1> DEFINE none == [capable |-> FALSE, supp |-> {}, neg |-> FALSE, on |-> {}, nick |-> NoNick,
                    user |-> FALSE, ping |-> "no", reg |-> FALSE, authed |-> FALSE]
<1>1. none \in Server
  BY DEF Server
<1>2. none \in Fresh /\ ~none.capable
  BY <1>1 DEF Fresh
<1> QED BY <1>2, Zenon DEF NoServer

-----------------------------------------------------------------------------
(* The parts of the type invariant *)

ClientType ==
  /\ CapsType(caps)
  /\ ssl \in BOOLEAN /\ v3capreq \subseteq Cap
  /\ mynick \in IF pc = "off" THEN Nick \cup {NoNick} ELSE Nick

SettingsType == starttls \in BOOLEAN /\ starttls_first \in BOOLEAN /\ sasl \in BOOLEAN

ConnType ==
  /\ pc \in {"off", "logon", "on"}
  /\ logon_sent \in BOOLEAN /\ logged_on \in BOOLEAN /\ sasl_authed \in BOOLEAN
  /\ c2s \in Seq(Message) /\ s2c \in Seq(Message)
  /\ tls \in {"no", "wait", "yes"}
  /\ srv \in Server

LEMMA TypeParts == LogonTypeOK <=> ClientType /\ SettingsType /\ ConnType
BY DEF LogonTypeOK, TypeOK, ClientType, SettingsType, ConnType, CapsType

LEMMA TypePartsNext == LogonTypeOK' <=> ClientType' /\ SettingsType' /\ ConnType'
BY DEF LogonTypeOK, TypeOK, ClientType, SettingsType, ConnType, CapsType

LEMMA TrueMsgType == \A s : TrueMsg(s) \subseteq Message /\ ReqMsg(s) \subseteq Message
BY DEF TrueMsg, ReqMsg

(* The connection ends.                                                     *)
LEMMA HangupInv ==
  ASSUME Inv, Hangup, UNCHANGED settings, srv' = NoServer, ClientType'
  PROVE  Inv'
<1>1. /\ pc' = "off" /\ c2s' = <<>> /\ s2c' = <<>> /\ tls' = "no"
      /\ logon_sent' = logon_sent /\ logged_on' = logged_on /\ sasl_authed' = sasl_authed
  BY DEF Hangup, progress
<1>2. NoServer \in Server
  BY NoServerFresh DEF Fresh
<1>3. <<>> \in Seq(Message)
  OBVIOUS
<1>4. ConnType'
  BY <1>1, <1>2, <1>3, TypeParts DEF Inv, ConnType
<1>5. SettingsType'
  BY TypeParts DEF Inv, SettingsType, settings
<1> QED BY <1>1, <1>4, <1>5, TypePartsNext DEF Inv

(* The client handles a message and goes on.  The conditions are what the   *)
(* handler must see to.                                                     *)
LEMMA ProceedInv ==
  ASSUME Inv, pc # "off", s2c # <<>>,
         NEW out \in Seq(Message), NEW flags, Proceed(out, flags),
         UNCHANGED settings, srv' = srv, ClientType',
         logon_sent' \in BOOLEAN, tls' \in {"no", "wait", "yes"},
         "SASL_COMPLETE" \in flags => srv.authed,
         "LOGON_COMPLETE" \in flags => Head(s2c).cmd = "004",
         Passed => Passed', Head(s2c).cmd = "001" => Passed',
         Renews => FlagsTrue' /\ out \in Seq(ReqMsg(srv))
  PROVE  Inv' /\ pc' # "off"
<1>1. /\ s2c' = Tail(s2c) /\ c2s' = c2s \o out
      /\ logged_on' = (logged_on \/ "LOGON_COMPLETE" \in flags)
      /\ sasl_authed' = (sasl_authed \/ "SASL_COMPLETE" \in flags)
      /\ pc' = IF logged_on' /\ (sasl => sasl_authed') THEN "on" ELSE pc
  BY DEF Proceed
<1>2. ConnType /\ SettingsType /\ OnlineInv
  BY TypeParts DEF Inv
<1>3. SettingsType' /\ sasl' = sasl
  BY <1>2 DEF SettingsType, settings
<1>4. /\ Tail(s2c) \in Seq(Message) /\ Tail(s2c) \in Seq(TrueMsg(srv))
      /\ c2s \o out \in Seq(Message)
  <2>1. s2c \in Seq(Message) /\ c2s \in Seq(Message) /\ s2c \in Seq(TrueMsg(srv))
    BY <1>2 DEF ConnType, OnlineInv
  <2> QED BY <2>1, SeqTail, SeqConcat
<1>5. ConnType'
  BY <1>1, <1>2, <1>4, Zenon DEF ConnType
<1>6. pc' # "off"
  BY <1>1
<1>7. Passed' \/ Ordered(s2c)'
  <2>1. CASE Head(s2c).cmd = "001"
    BY <2>1
  <2>2. CASE Head(s2c).cmd # "001" /\ ~Passed
    BY <1>1, <1>2, <2>2, OrderedTail DEF OnlineInv, ConnType
  <2>3. CASE Passed
    BY <2>3
  <2> QED BY <2>1, <2>2, <2>3
<1>8. logged_on' => Passed'
  <2>1. CASE logged_on
    BY <1>2, <2>1 DEF OnlineInv
  <2>2. CASE "LOGON_COMPLETE" \in flags
    <3>1. ~Ordered(s2c)
      <4>1. s2c \in Seq(Message) /\ Head(s2c).cmd # "001"
        BY <1>2, <2>2 DEF ConnType
      <4> QED BY <2>2, <4>1, OrderedTail
    <3> QED BY <1>2, <3>1 DEF OnlineInv
  <2> QED BY <1>1, <2>1, <2>2
<1>9. sasl_authed' => srv'.authed
  BY <1>1, <1>2 DEF OnlineInv
<1>10. pc' = "on" => logged_on' /\ (sasl' => sasl_authed')
  BY <1>1, <1>2, <1>3 DEF OnlineInv
<1>11. Renews => c2s' \in Seq(ReqMsg(srv'))
  BY <1>1, <1>2, SeqConcat DEF OnlineInv
<1>12. s2c' \in Seq(TrueMsg(srv'))
  BY <1>1, <1>4, Zenon
<1>13. OnlineInv'
  BY <1>7, <1>8, <1>9, <1>10, <1>11, <1>12 DEF OnlineInv
<1> QED BY <1>3, <1>5, <1>6, <1>13, TypePartsNext DEF Inv

-----------------------------------------------------------------------------
(* Messages *)

LEMMA MsgTypes ==
  /\ \A cmd \in Cmd \ NickCmd : Msg(cmd) \in Message /\ Msg(cmd).cmd = cmd
  /\ \A cmd \in NickCmd, n \in Nick :
       NickMsg(cmd, n) \in Message /\ NickMsg(cmd, n).cmd = cmd
  /\ \A cmd \in Cmd \ NickCmd, S \in SUBSET Cap :
       /\ CapMsg(cmd, S) \in Message
       /\ CapMsg(cmd, S).cmd = cmd /\ CapMsg(cmd, S).caps = S
BY DEF Msg, NickMsg, CapMsg, Message, Cmd, NickCmd, Cap

(* What we write, but for the CAP REQ.                                      *)
Harmless == {m \in Message : m.cmd # "CAP REQ"}

LEMMA HarmlessWords ==
  /\ \A cmd \in {"CAP LS", "CAP END", "USER", "STARTTLS", "AUTHENTICATE", "AUTHDATA", "PONG"} :
       Msg(cmd) \in Harmless
  /\ \A n \in Nick : NickMsg("NICK", n) \in Harmless
BY MsgTypes DEF Harmless, Cmd, NickCmd

LEMMA HarmlessSeq ==
  /\ <<>> \in Seq(Harmless)
  /\ \A m \in Harmless : <<m>> \in Seq(Harmless)
  /\ \A q \in Seq(Harmless) : q \in Seq(Message) /\ \A s : q \in Seq(ReqMsg(s))
<1>1. <<>> \in Seq(Harmless) /\ \A m \in Harmless : <<m>> \in Seq(Harmless)
  OBVIOUS
<1>2. Harmless \subseteq Message /\ \A s : Harmless \subseteq ReqMsg(s)
  BY DEF Harmless, ReqMsg
<1>3. \A q \in Seq(Harmless) : q \in Seq(Message)
  BY <1>2, SeqGrows
<1>4. \A s : \A q \in Seq(Harmless) : q \in Seq(ReqMsg(s))
  BY <1>2, SeqGrows
<1> QED BY <1>1, <1>3, <1>4

LEMMA LinesHarmless ==
  /\ LogonLines \in Seq(Harmless)
  /\ \A cs : Conclude(cs) \in Seq(Harmless)
<1>1. <<NickMsg("NICK", WantNick), Msg("USER")>> \in Seq(Harmless)
  <2>1. NickMsg("NICK", WantNick) \in Harmless /\ Msg("USER") \in Harmless
    BY HarmlessWords, NickAssumption
  <2> QED BY <2>1
<1>2. <<Msg("CAP LS")>> \in Seq(Harmless) /\ <<>> \in Seq(Harmless)
  BY HarmlessWords, HarmlessSeq
<1>3. LogonLines \in Seq(Harmless)
  <2>1. PICK q \in Seq(Harmless) : q = IF DOMAIN caps # {} THEN <<Msg("CAP LS")>> ELSE <<>>
    BY <1>2
  <2> QED BY <1>1, <2>1, SeqConcat DEF LogonLines
<1>4. \A cs : Conclude(cs) \in Seq(Harmless)
  <2>1. <<Msg("AUTHENTICATE")>> \in Seq(Harmless) /\ <<Msg("CAP END")>> \in Seq(Harmless)
    BY HarmlessWords, HarmlessSeq
  <2> QED BY <2>1 DEF Conclude
<1> QED BY <1>3, <1>4

-----------------------------------------------------------------------------
(* Handlers *)

(* What the client reads it can rely on.                                    *)
LEMMA HeadTrue ==
  ASSUME Inv, pc # "off", s2c # <<>>
  PROVE  /\ Head(s2c) \in TrueMsg(srv) /\ Head(s2c) \in Message
         /\ CapsType(caps) /\ ssl \in BOOLEAN /\ v3capreq \subseteq Cap /\ mynick \in Nick
         /\ tls \in {"no", "wait", "yes"} /\ logon_sent \in BOOLEAN
         /\ OnlineInv
<1>1. OnlineInv /\ ClientType /\ ConnType
  BY TypeParts DEF Inv
<1>2. Head(s2c) \in TrueMsg(srv)
  BY <1>1, SeqTail DEF OnlineInv
<1> QED BY <1>1, <1>2, TrueMsgType DEF ClientType, ConnType

Follow == srv' = IF pc' = "off" THEN NoServer ELSE srv

LEMMA CantProceedInv ==
  ASSUME Inv, CantProceed, UNCHANGED settings, Follow,
         CapsType(caps'), ssl' \in BOOLEAN, v3capreq' \subseteq Cap,
         mynick' \in Nick \cup {NoNick}
  PROVE  Inv'
<1>1. Hangup /\ pc' = "off"
  BY DEF CantProceed, Hangup
<1>2. srv' = NoServer /\ ClientType'
  BY <1>1 DEF Follow, ClientType, CapsType
<1> QED BY <1>1, <1>2, HangupInv

LEMMA ReplyInv ==
  ASSUME Inv, pc # "off", s2c # <<>>,
         NEW out \in Seq(Message), NEW flags, Reply(out, flags), UNCHANGED settings, Follow,
         CapsType(caps'), ssl' \in BOOLEAN, v3capreq' \subseteq Cap, mynick' \in Nick,
         "SASL_COMPLETE" \in flags => srv.authed,
         "LOGON_COMPLETE" \in flags => Head(s2c).cmd = "004",
         Passed => Passed', Head(s2c).cmd = "001" => Passed',
         Renews => /\ Offered(caps') \subseteq srv.supp /\ Enabled(caps') \subseteq srv.on
                   /\ out \in Seq(ReqMsg(srv))
  PROVE  Inv'
<1>1. CASE CantProceed
  BY <1>1, CantProceedInv
<1>2. CASE Proceed(out, flags) /\ UNCHANGED <<logon_sent, tls>>
  <2>1. pc' # "off"
    BY <1>2 DEF Proceed
  <2>2. srv' = srv
    BY <2>1 DEF Follow
  <2>3. ClientType'
    BY DEF ClientType, CapsType
  <2>4. Renews => FlagsTrue' /\ out \in Seq(ReqMsg(srv))
    BY <2>2 DEF FlagsTrue
  <2>5. logon_sent' \in BOOLEAN /\ tls' \in {"no", "wait", "yes"}
    BY <1>2, HeadTrue
  <2> QED BY <1>2, <2>2, <2>3, <2>4, <2>5, ProceedInv
<1> QED BY <1>1, <1>2 DEF Reply

(* A handler that leaves the capabilities alone and writes nothing, or what *)
(* is harmless.                                                             *)
LEMMA PlainInv ==
  ASSUME Inv, pc # "off", s2c # <<>>,
         NEW out \in Seq(Harmless), NEW flags, Reply(out, flags), UNCHANGED settings, Follow,
         UNCHANGED <<caps, ssl, v3capreq>>, mynick' \in Nick,
         "SASL_COMPLETE" \in flags => srv.authed,
         "LOGON_COMPLETE" \in flags => Head(s2c).cmd = "004",
         Head(s2c).cmd = "001" => Passed
  PROVE  Inv'
<1>1. CapsType(caps') /\ ssl' \in BOOLEAN /\ v3capreq' \subseteq Cap
  BY HeadTrue
<1>2. Passed' = Passed
  BY DEF Passed
<1>3. out \in Seq(Message) /\ out \in Seq(ReqMsg(srv))
  BY HarmlessSeq
<1>4. Renews => Offered(caps') \subseteq srv.supp /\ Enabled(caps') \subseteq srv.on
  BY HeadTrue DEF OnlineInv, FlagsTrue
<1> QED BY <1>1, <1>2, <1>3, <1>4, ReplyInv

(* And one that ends the connection.                                        *)
LEMMA GiveUpInv ==
  ASSUME Inv, pc # "off", s2c # <<>>, CantProceed, UNCHANGED settings, Follow,
         UNCHANGED <<caps, ssl, v3capreq>>, mynick' \in Nick \cup {NoNick}
  PROVE  Inv'
<1>1. CapsType(caps') /\ ssl' \in BOOLEAN /\ v3capreq' \subseteq Cap
  BY HeadTrue
<1> QED BY <1>1, CantProceedInv

(* A handler of a capability message that goes on, with a request of what   *)
(* the server has offered or with what is harmless.                         *)
LEMMA ProceedCapsInv ==
  ASSUME Inv, pc # "off", s2c # <<>>, UNCHANGED settings, Follow,
         NEW out \in Seq(Message), Reply(out, {}),
         UNCHANGED <<ssl, mynick>>, v3capreq' \subseteq Cap, CapsType(caps'),
         Passed => Passed', Head(s2c).cmd # "001",
         Renews => /\ Offered(caps') \subseteq srv.supp /\ Enabled(caps') \subseteq srv.on
                   /\ out \in Seq(ReqMsg(srv))
  PROVE  Inv'
<1>1. ssl' \in BOOLEAN /\ mynick' \in Nick
  BY HeadTrue
<1> QED BY <1>1, ReplyInv

LEMMA CapLsInv ==
  ASSUME Inv, pc # "off", s2c # <<>>, handle_CAP_LS(Head(s2c)), UNCHANGED settings, Follow,
         Head(s2c).cmd \in {"CAP LS", "CAP LS*"}
  PROVE  Inv'
<1>1. PICK m : m = Head(s2c)
  OBVIOUS
<1>2. m \in Message /\ m.caps \subseteq Cap /\ m.caps \subseteq srv.supp /\ m.cmd # "001"
  BY <1>1, HeadTrue DEF TrueMsg, Message
<1>3. CapsType(caps) /\ v3capreq \subseteq Cap /\ OnlineInv /\ mynick \in Nick /\ ssl \in BOOLEAN
  BY HeadTrue
<1>4. /\ caps' = IF Logon THEN SetOffered(m.caps) ELSE caps
      /\ ssl' = ssl /\ mynick' = mynick
      /\ IF Logon /\ m.cmd = "CAP LS*"
         THEN Reply(<<>>, {}) /\ UNCHANGED v3capreq
         ELSE IF Must(caps) \subseteq Offered(caps')
         THEN v3capreq' = Offered(caps') /\ Reply(Request(v3capreq'), {})
         ELSE CantProceed /\ UNCHANGED v3capreq
  BY <1>1 DEF handle_CAP_LS
<1>5. /\ CapsType(caps') /\ Must(caps') = Must(caps) /\ Enabled(caps') = Enabled(caps)
      /\ Offered(caps') \subseteq Offered(caps) \cup m.caps
  <2>1. CASE Logon
    BY <1>3, <1>4, <2>1, SetOfferedFacts
  <2>2. CASE ~Logon
    BY <1>3, <1>4, <2>2
  <2> QED BY <2>1, <2>2
<1>6. Passed' = Passed
  BY <1>5 DEF Passed
<1>7. Renews => Offered(caps') \subseteq srv.supp /\ Enabled(caps') \subseteq srv.on
  BY <1>2, <1>3, <1>5 DEF OnlineInv, FlagsTrue
<1>8. Offered(caps') \subseteq Cap
  BY <1>5 DEF Offered, CapsType
<1>9. CASE Reply(<<>>, {}) /\ UNCHANGED v3capreq
  <2>1. <<>> \in Seq(Message) /\ <<>> \in Seq(ReqMsg(srv))
    BY SeqShort
  <2> QED BY <1>1, <1>2, <1>3, <1>4, <1>5, <1>6, <1>7, <1>9, <2>1, ProceedCapsInv
<1>10. CASE v3capreq' = Offered(caps') /\ Reply(Request(v3capreq'), {})
  <2>1. PICK S : S = Offered(caps')
    OBVIOUS
  <2>2. CapMsg("CAP REQ", S) \in Message /\ CapMsg("CAP REQ", S).caps = S
    BY <1>8, <2>1, MsgTypes DEF Cmd, NickCmd
  <2>3. Msg("CAP END") \in Message /\ Msg("CAP END") \in ReqMsg(srv)
    BY HarmlessWords DEF Harmless, ReqMsg
  <2>4. Renews => CapMsg("CAP REQ", S) \in ReqMsg(srv)
    BY <1>7, <2>1, <2>2 DEF ReqMsg
  <2>5. PICK r : r = IF S = {} THEN Msg("CAP END") ELSE CapMsg("CAP REQ", S)
    OBVIOUS
  <2>6. r \in Message /\ (Renews => r \in ReqMsg(srv))
    BY <2>2, <2>3, <2>4, <2>5
  <2>7. <<r>> \in Seq(Message) /\ (Renews => <<r>> \in Seq(ReqMsg(srv)))
    BY <2>6, SeqShort
  <2>8. Reply(<<r>>, {})
    BY <1>10, <2>1, <2>5 DEF Request
  <2>9. v3capreq' \subseteq Cap
    BY <1>8, <1>10
  <2> QED BY <1>1, <1>2, <1>4, <1>5, <1>6, <1>7, <2>7, <2>8, <2>9, ProceedCapsInv
<1>11. CASE CantProceed /\ UNCHANGED v3capreq
  BY <1>3, <1>4, <1>5, <1>11, CantProceedInv
<1> QED BY <1>4, <1>9, <1>10, <1>11

LEMMA CapAckInv ==
  ASSUME Inv, pc # "off", s2c # <<>>, handle_CAP_ACK(Head(s2c)), UNCHANGED settings, Follow,
         Head(s2c).cmd = "CAP ACK"
  PROVE  Inv'
<1>1. PICK m : m = Head(s2c)
  OBVIOUS
<1>2. m.caps \subseteq srv.on /\ m.cmd # "001"
  BY <1>1, HeadTrue DEF TrueMsg
<1>3. CapsType(caps) /\ v3capreq \subseteq Cap /\ OnlineInv
  BY HeadTrue
<1>4. /\ ssl' = ssl /\ v3capreq' = v3capreq /\ mynick' = mynick
      /\ IF m.caps # v3capreq
         THEN CantProceed /\ UNCHANGED caps
         ELSE /\ caps' = SetEnabled(m.caps)
              /\ Reply(IF "tls" \in Enabled(caps') THEN <<Msg("STARTTLS")>>
                                                    ELSE Conclude(caps'), {})
  BY <1>1 DEF handle_CAP_ACK
<1>5. CASE CantProceed /\ UNCHANGED caps
  BY <1>4, <1>5, HeadTrue, GiveUpInv
<1>6. CASE /\ caps' = SetEnabled(m.caps)
           /\ Reply(IF "tls" \in Enabled(caps') THEN <<Msg("STARTTLS")>>
                                                 ELSE Conclude(caps'), {})
  <2>1. /\ CapsType(caps') /\ Must(caps') = Must(caps) /\ Offered(caps') = Offered(caps)
        /\ Enabled(caps) \subseteq Enabled(caps')
        /\ Enabled(caps') \subseteq Enabled(caps) \cup m.caps
    BY <1>3, <1>6, SetEnabledFacts
  <2>2. Passed => Passed'
    BY <2>1 DEF Passed
  <2>3. Renews => Offered(caps') \subseteq srv.supp /\ Enabled(caps') \subseteq srv.on
    BY <1>2, <1>3, <2>1 DEF OnlineInv, FlagsTrue
  <2>4. PICK out : out = IF "tls" \in Enabled(caps') THEN <<Msg("STARTTLS")>> ELSE Conclude(caps')
    OBVIOUS
  <2>5. out \in Seq(Harmless)
    BY <2>4, HarmlessWords, HarmlessSeq, LinesHarmless
  <2>6. out \in Seq(Message) /\ out \in Seq(ReqMsg(srv))
    BY <2>5, HarmlessSeq
  <2>7. Reply(out, {})
    BY <1>6, <2>4
  <2> QED BY <1>1, <1>2, <1>3, <1>4, <2>1, <2>2, <2>3, <2>6, <2>7, ProceedCapsInv
<1> QED BY <1>4, <1>5, <1>6

(* The end of STARTTLS.                                                     *)
LEMMA StarttlsOverInv ==
  ASSUME Inv, pc # "off", s2c # <<>>, UNCHANGED settings, Follow,
         NEW t \in {"no", "wait", "yes"}, StarttlsOver(t),
         UNCHANGED <<caps, v3capreq, mynick>>, ssl' \in BOOLEAN,
         Head(s2c).cmd # "001"
  PROVE  Inv'
<1>1. PICK late : late = (starttls_first /\ Logon /\ ~logon_sent)
  OBVIOUS
<1>2. PICK out : out = IF ~starttls_first THEN Conclude(caps) ELSE IF late THEN LogonLines ELSE <<>>
  OBVIOUS
<1>3. \/ Proceed(out, {}) /\ logon_sent' = (logon_sent \/ late) /\ tls' = t
      \/ out # <<>> /\ CantProceed
  BY <1>1, <1>2 DEF StarttlsOver
<1>4. CapsType(caps') /\ v3capreq' \subseteq Cap /\ mynick' \in Nick
  BY HeadTrue
<1>5. CASE CantProceed
  BY <1>4, <1>5, CantProceedInv
<1>6. CASE Proceed(out, {}) /\ logon_sent' = (logon_sent \/ late) /\ tls' = t
  <2>1. out \in Seq(Harmless)
    BY <1>2, LinesHarmless, HarmlessSeq
  <2>2. out \in Seq(Message) /\ out \in Seq(ReqMsg(srv))
    BY <2>1, HarmlessSeq
  <2>3. pc' # "off"
    BY <1>6 DEF Proceed
  <2>4. srv' = srv
    BY <2>3 DEF Follow
  <2>5. ClientType'
    BY <1>4 DEF ClientType, CapsType
  <2>6. Passed' = Passed
    BY DEF Passed
  <2>7. Renews => FlagsTrue'
    BY <2>4, HeadTrue DEF OnlineInv, FlagsTrue
  <2>8. logon_sent' \in BOOLEAN
    BY <1>1, <1>6, HeadTrue
  <2> QED BY <1>6, <2>2, <2>4, <2>5, <2>6, <2>7, <2>8, ProceedInv
<1> QED BY <1>3, <1>5, <1>6

(* The client handles a message, whichever it is.                           *)
LEMMA ReadsInv ==
  ASSUME Inv, Reads
  PROVE  Inv'
<1>1. /\ pc # "off" /\ s2c # <<>> /\ Handle(Head(s2c)) /\ UNCHANGED settings
      /\ Follow
  BY DEF Reads, Receive, Follow
<1>2. PICK m : m = Head(s2c)
  OBVIOUS
<1>3. /\ m \in TrueMsg(srv) /\ m \in Message
      /\ CapsType(caps) /\ ssl \in BOOLEAN /\ v3capreq \subseteq Cap /\ mynick \in Nick
      /\ tls \in {"no", "wait", "yes"}
  BY <1>1, <1>2, HeadTrue
<1>4. <<>> \in Seq(Harmless) /\ \A n \in Harmless : <<n>> \in Seq(Harmless)
  BY HarmlessSeq
<1>5. CASE m.cmd = "001" /\ handle_001(m)
  <2>1. m.nick \in Nick
    BY <1>3, <1>5 DEF Message, NickCmd
  <2>2. mynick' \in Nick /\ UNCHANGED <<caps, ssl, v3capreq>>
    BY <1>3, <1>5, <2>1 DEF handle_001
  <2>3. CASE CantProceed
    BY <1>1, <2>2, <2>3, GiveUpInv
  <2>4. CASE Passed /\ Reply(<<>>, {})
    BY <1>1, <1>4, <2>2, <2>4, PlainInv
  <2> QED BY <1>5, <2>3, <2>4 DEF handle_001, Passed
<1>6. CASE m.cmd = "004" /\ handle_004(m)
  <2>1. UNCHANGED <<caps, ssl, v3capreq>> /\ mynick' \in Nick
    BY <1>3, <1>6 DEF handle_004
  <2>2. CASE CantProceed
    BY <1>1, <2>1, <2>2, GiveUpInv
  <2>3. CASE Reply(<<>>, {"LOGON_COMPLETE"})
    BY <1>1, <1>2, <1>4, <1>6, <2>1, <2>3, PlainInv
  <2> QED BY <1>6, <2>2, <2>3 DEF handle_004
<1>7. CASE m.cmd = "PING" /\ handle_PING(m)
  <2>1. PICK out : out = IF Logon THEN <<Msg("PONG")>> ELSE <<>>
    OBVIOUS
  <2>2. out \in Seq(Harmless)
    BY <1>4, <2>1, HarmlessWords
  <2>3. UNCHANGED <<caps, ssl, v3capreq>> /\ mynick' \in Nick /\ Reply(out, {})
    BY <1>3, <1>7, <2>1 DEF handle_PING
  <2> QED BY <1>1, <1>2, <1>7, <2>2, <2>3, PlainInv
<1>8. CASE m.cmd = "433" /\ handle_bad_nick(m)
  <2>1. mynick' \in Nick \cup {NoNick} /\ (~Logon => mynick' \in Nick)
    BY <1>3, <1>8, NickAssumption DEF handle_bad_nick
  <2>2. UNCHANGED <<caps, ssl, v3capreq>>
    BY <1>8 DEF handle_bad_nick
  <2>3. CASE ~Logon /\ Reply(<<>>, {})
    BY <1>1, <1>2, <1>4, <1>8, <2>1, <2>2, <2>3, PlainInv
  <2>4. CASE CantProceed
    BY <1>1, <2>1, <2>2, <2>4, GiveUpInv
  <2>5. CASE mynick' # NoNick /\ Reply(<<NickMsg("NICK", mynick')>>, {})
    <3>1. PICK n \in Nick : n = mynick'
      BY <2>1, <2>5
    <3>2. <<NickMsg("NICK", n)>> \in Seq(Harmless)
      BY <1>4, HarmlessWords
    <3>3. Reply(<<NickMsg("NICK", n)>>, {})
      BY <2>5, <3>1
    <3> QED BY <1>1, <1>2, <1>8, <2>2, <3>1, <3>2, <3>3, PlainInv
  <2> QED BY <1>8, <2>3, <2>4, <2>5 DEF handle_bad_nick
<1>9. CASE m.cmd = "464" /\ handle_464(m)
  BY <1>1, <1>3, <1>9, GiveUpInv DEF handle_464
<1>10. CASE m.cmd = "NICK" /\ handle_NICK(m)
  <2>1. m.nick \in Nick
    BY <1>3, <1>10 DEF Message, NickCmd
  <2>2. mynick' \in Nick /\ UNCHANGED <<caps, ssl, v3capreq>> /\ Reply(<<>>, {})
    BY <1>3, <1>10, <2>1 DEF handle_NICK
  <2> QED BY <1>1, <1>2, <1>4, <1>10, <2>2, PlainInv
<1>11. CASE m.cmd \in {"CAP LS", "CAP LS*"} /\ handle_CAP_LS(m)
  BY <1>1, <1>2, <1>11, CapLsInv
<1>12. CASE m.cmd = "CAP ACK" /\ handle_CAP_ACK(m)
  BY <1>1, <1>2, <1>12, CapAckInv
<1>13. CASE m.cmd = "CAP NAK" /\ handle_CAP_NAK(m)
  BY <1>1, <1>3, <1>13, GiveUpInv DEF handle_CAP_NAK
<1>14. CASE m.cmd = "AUTHENTICATE" /\ handle_AUTHENTICATE(m)
  <2>1. PICK out : out = IF sasl THEN <<Msg("AUTHDATA")>> ELSE <<>>
    OBVIOUS
  <2>2. out \in Seq(Harmless)
    BY <1>4, <2>1, HarmlessWords
  <2>3. UNCHANGED <<caps, ssl, v3capreq>> /\ mynick' \in Nick /\ Reply(out, {})
    BY <1>3, <1>14, <2>1 DEF handle_AUTHENTICATE
  <2> QED BY <1>1, <1>2, <1>14, <2>2, <2>3, PlainInv
<1>15. CASE m.cmd = "903" /\ handle_903(m)
  <2>1. UNCHANGED <<caps, ssl, v3capreq>> /\ mynick' \in Nick
    BY <1>3, <1>15 DEF handle_903
  <2>2. PICK out : out = IF Logon THEN <<Msg("CAP END")>> ELSE <<>>
    OBVIOUS
  <2>3. out \in Seq(Harmless)
    BY <1>4, <2>2, HarmlessWords
  <2>4. srv.authed
    BY <1>3, <1>15 DEF TrueMsg
  <2>5. CASE Reply(out, {"SASL_COMPLETE"})
    BY <1>1, <1>2, <1>15, <2>1, <2>3, <2>4, <2>5, PlainInv
  <2>6. CASE Reply(<<>>, {})
    BY <1>1, <1>2, <1>4, <1>15, <2>1, <2>6, PlainInv
  <2> QED BY <1>15, <2>2, <2>5, <2>6 DEF handle_903
<1>16. CASE m.cmd = "904" /\ handle_saslerr(m)
  <2>1. UNCHANGED <<caps, ssl, v3capreq>> /\ mynick' \in Nick
    BY <1>3, <1>16 DEF handle_saslerr
  <2>2. CASE CantProceed
    BY <1>1, <2>1, <2>2, GiveUpInv
  <2>3. CASE Reply(<<>>, {})
    BY <1>1, <1>2, <1>4, <1>16, <2>1, <2>3, PlainInv
  <2> QED BY <1>16, <2>2, <2>3 DEF handle_saslerr
<1>17. CASE m.cmd = "691" /\ handle_691(m)
  <2>1. UNCHANGED <<caps, ssl, v3capreq, mynick>>
    BY <1>17 DEF handle_691
  <2>2. CASE CantProceed
    BY <1>1, <1>3, <2>1, <2>2, GiveUpInv
  <2>3. CASE StarttlsOver(tls)
    BY <1>1, <1>2, <1>3, <1>17, <2>1, <2>3, StarttlsOverInv
  <2> QED BY <1>17, <2>2, <2>3 DEF handle_691
<1>18. CASE m.cmd = "670" /\ handle_670(m)
  <2>1. UNCHANGED <<caps, v3capreq, mynick>>
    BY <1>18 DEF handle_670
  <2>2. CASE UNCHANGED ssl /\ CantProceed
    BY <1>1, <1>3, <2>1, <2>2, GiveUpInv
  <2>3. CASE ssl' = TRUE /\ StarttlsOver("yes")
    BY <1>1, <1>2, <1>18, <2>1, <2>3, StarttlsOverInv
  <2> QED BY <1>18, <2>2, <2>3 DEF handle_670
<1>19. CASE HandleCore(m)
  BY <1>5, <1>6, <1>7, <1>8, <1>9, <1>10, <1>19, Zenon DEF HandleCore
<1>20. CASE HandleV3(m)
  BY <1>11, <1>12, <1>13, <1>14, <1>15, <1>16, <1>17, <1>18, <1>20, Zenon DEF HandleV3
<1> QED BY <1>1, <1>2, <1>19, <1>20 DEF Handle

-----------------------------------------------------------------------------
(* The server *)

(* It answers or speaks, and learns.                                        *)
LEMMA SrvInv ==
  ASSUME Inv, pc # "off",
         UNCHANGED <<caps, settings, ssl, v3capreq, mynick, pc, progress>>,
         (c2s # <<>> /\ c2s' = Tail(c2s)) \/ c2s' = c2s,
         tls' \in {"no", "wait", "yes"},
         srv' \in Server, srv'.supp = srv.supp, srv.on \subseteq srv'.on,
         srv.authed => srv'.authed,
         NEW ms \in Seq(TrueMsg(srv')), s2c' = s2c \o ms, Ordered(ms)
  PROVE  Inv'
<1>1. ClientType /\ SettingsType /\ ConnType /\ OnlineInv
  BY TypeParts DEF Inv
<1>2. ClientType' /\ SettingsType' /\ sasl' = sasl
  BY <1>1 DEF ClientType, SettingsType, settings, CapsType
<1>3. TrueMsg(srv) \subseteq TrueMsg(srv')
  BY DEF TrueMsg
<1>4. ReqMsg(srv) = ReqMsg(srv')
  BY DEF ReqMsg
<1>5. s2c \in Seq(TrueMsg(srv')) /\ ms \in Seq(Message)
  BY <1>1, <1>3, SeqGrows, TrueMsgType DEF OnlineInv
<1>6. s2c' \in Seq(TrueMsg(srv')) /\ s2c' \in Seq(Message)
  BY <1>1, <1>5, SeqConcat DEF ConnType
<1>7. c2s' \in Seq(Message)
  BY <1>1, SeqTail DEF ConnType
<1>8. Renews => c2s' \in Seq(ReqMsg(srv'))
  BY <1>1, <1>4, SeqTail DEF OnlineInv
<1>9. ConnType'
  BY <1>1, <1>6, <1>7 DEF ConnType, progress
<1>10. Ordered(s2c) => Ordered(s2c)'
  BY <1>1, <1>5, OrderedConcat DEF ConnType
<1>11. Passed' = Passed
  BY DEF Passed
<1>12. Renews => FlagsTrue'
  BY <1>1 DEF OnlineInv, FlagsTrue
<1>13. OnlineInv'
  BY <1>1, <1>2, <1>6, <1>8, <1>10, <1>11, <1>12 DEF OnlineInv, progress
<1>14. pc' # "off"
  OBVIOUS
<1> QED BY <1>2, <1>9, <1>13, <1>14, TypePartsNext DEF Inv

(* What a server may always say.                                            *)
Calm == {m \in Message : m.cmd \notin {"CAP LS", "CAP LS*", "CAP ACK", "903", "004"}}

LEMMA CalmFacts ==
  /\ \A s : Calm \subseteq TrueMsg(s)
  /\ \A q \in Seq(Calm) : Ordered(q) /\ \A s : q \in Seq(TrueMsg(s))
<1>1. \A s : Calm \subseteq TrueMsg(s)
  BY DEF Calm, TrueMsg
<1>2. ASSUME NEW q \in Seq(Calm) PROVE Ordered(q)
  <2>1. ASSUME NEW i \in 1..Len(q) PROVE q[i].cmd # "004"
    <3>1. q[i] \in Calm
      OBVIOUS
    <3> QED BY <3>1 DEF Calm
  <2> QED BY <2>1 DEF Ordered
<1>3. \A s : \A q \in Seq(Calm) : q \in Seq(TrueMsg(s))
  BY <1>1, SeqGrows
<1> QED BY <1>1, <1>2, <1>3

LEMMA CalmWords ==
  /\ \A cmd \in {"433", "464", "670", "691", "904", "AUTHENTICATE", "PING"} : Msg(cmd) \in Calm
  /\ \A S \in SUBSET Cap : CapMsg("CAP NAK", S) \in Calm
  /\ srv \in Server => \A n \in Nick : Renamed(n) \in Calm
<1>1. \A cmd \in {"433", "464", "670", "691", "904", "AUTHENTICATE", "PING"} : Msg(cmd) \in Calm
  BY MsgTypes DEF Calm, Cmd, NickCmd
<1>2. \A S \in SUBSET Cap : CapMsg("CAP NAK", S) \in Calm
  BY MsgTypes DEF Calm, Cmd, NickCmd
<1>3. ASSUME srv \in Server, NEW n \in Nick PROVE Renamed(n) \in Calm
  <2>1. srv.nick \in Nick \cup {NoNick}
    BY <1>3 DEF Server
  <2>2. NickMsg("NICK", n) = [cmd |-> "NICK", from |-> NoNick, nick |-> n, caps |-> {}]
    BY DEF NickMsg, Msg
  <2>3. Renamed(n) = [cmd |-> "NICK", from |-> srv.nick, nick |-> n, caps |-> {}]
    BY <2>2 DEF Renamed
  <2>4. [cmd |-> "NICK", from |-> srv.nick, nick |-> n, caps |-> {}] \in Calm
    BY <2>1 DEF Calm, Message, NickCmd
  <2> QED BY <2>3, <2>4
<1> QED BY <1>1, <1>2, <1>3

LEMMA CalmInv ==
  ASSUME Inv, pc # "off",
         UNCHANGED <<caps, settings, ssl, v3capreq, mynick, pc, progress>>,
         (c2s # <<>> /\ c2s' = Tail(c2s)) \/ c2s' = c2s,
         tls' \in {"no", "wait", "yes"},
         srv' \in Server, srv'.supp = srv.supp, srv'.on = srv.on,
         srv.authed => srv'.authed,
         NEW ms \in Seq(Calm), s2c' = s2c \o ms
  PROVE  Inv'
<1>1. ms \in Seq(TrueMsg(srv')) /\ Ordered(ms)
  BY CalmFacts
<1> QED BY <1>1, SrvInv

LEMMA ServeInv ==
  ASSUME Inv, Serve
  PROVE  Inv'
<1> DEFINE quiet == UNCHANGED <<caps, settings, ssl, v3capreq, mynick, pc, progress>>
           m == Head(c2s)
<1>1. pc # "off" /\ c2s # <<>>
  BY DEF Serve, Hears, SrvCapLs, SrvCapReq, SrvCapEnd, SrvNick, SrvUser, SrvStarttls,
         SrvAuthenticate, SrvAuthdata, SrvPong
<1>2. /\ srv \in Server /\ tls \in {"no", "wait", "yes"}
      /\ m \in Message
  BY <1>1, TypeParts, SeqTail DEF Inv, ConnType
<1>3. /\ srv.supp \in SUBSET Cap /\ srv.on \in SUBSET Cap /\ srv.nick \in Nick \cup {NoNick}
      /\ m.caps \in SUBSET Cap
  BY <1>2 DEF Server, Message
<1>4. \A ms : Answer(ms) => quiet /\ c2s' = Tail(c2s) /\ s2c' = s2c \o ms
  BY DEF Answer
<1>5. <<>> \in Seq(Calm) /\ \A n \in Calm : <<n>> \in Seq(Calm)
  BY SeqShort
<1> HIDE DEF quiet, m
<1>6. ASSUME NEW ms \in Seq(Calm), Answer(ms), tls' \in {"no", "wait", "yes"},
             srv' \in Server, srv'.supp = srv.supp, srv'.on = srv.on,
             srv.authed => srv'.authed
      PROVE  Inv'
  BY <1>1, <1>4, <1>6, CalmInv DEF quiet
<1>7. ASSUME NEW ms \in Seq(TrueMsg(srv')), Answer(ms), Ordered(ms), UNCHANGED tls,
             srv' \in Server, srv'.supp = srv.supp, srv.on \subseteq srv'.on,
             srv.authed => srv'.authed
      PROVE  Inv'
  BY <1>1, <1>2, <1>4, <1>7, SrvInv DEF quiet
<1>8. CASE SrvCapLs
  <2>1. UNCHANGED tls
    BY <1>8 DEF SrvCapLs
  <2>2. CASE ~srv.capable
    BY <1>2, <1>5, <1>6, <1>8, <2>1, <2>2 DEF SrvCapLs
  <2>3. CASE srv.capable
    <3>1. srv' = [srv EXCEPT !.neg = ~srv.reg]
      BY <1>8, <2>3 DEF SrvCapLs
    <3>2. /\ srv' \in Server /\ srv'.supp = srv.supp /\ srv'.on = srv.on
          /\ srv'.authed = srv.authed
      BY <1>2, <3>1 DEF Server
    <3>3. ASSUME NEW cmd \in {"CAP LS", "CAP LS*"}, NEW S \in SUBSET srv.supp
          PROVE  /\ CapMsg(cmd, S) \in TrueMsg(srv')
                 /\ CapMsg(cmd, S).cmd = cmd /\ cmd # "004"
      <4>1. cmd \in Cmd \ NickCmd /\ S \in SUBSET Cap
        BY <1>3 DEF Cmd, NickCmd
      <4>2. /\ CapMsg(cmd, S) \in Message
            /\ CapMsg(cmd, S).cmd = cmd /\ CapMsg(cmd, S).caps = S
        BY <4>1, MsgTypes
      <4> QED BY <3>2, <4>2 DEF TrueMsg
    <3>4. ASSUME NEW S \in SUBSET srv.supp
          PROVE  /\ <<CapMsg("CAP LS", S)>> \in Seq(TrueMsg(srv'))
                 /\ Ordered(<<CapMsg("CAP LS", S)>>)
      BY <3>3, SeqShort, OrderedShort
    <3>5. CASE Answer(<<CapMsg("CAP LS", srv.supp)>>)
      BY <1>7, <2>1, <3>2, <3>4, <3>5
    <3>6. ASSUME NEW S \in SUBSET srv.supp,
                 Answer(<<CapMsg("CAP LS*", S), CapMsg("CAP LS", srv.supp \ S)>>)
          PROVE  Inv'
      <4>1. PICK a \in TrueMsg(srv'), b \in TrueMsg(srv') :
               /\ a = CapMsg("CAP LS*", S) /\ b = CapMsg("CAP LS", srv.supp \ S)
               /\ a.cmd # "004" /\ b.cmd # "004"
        BY <3>3
      <4>2. <<a, b>> \in Seq(TrueMsg(srv'))
        OBVIOUS
      <4>3. Ordered(<<a, b>>)
        BY <4>1, OrderedShort
      <4> QED BY <1>7, <2>1, <3>2, <3>6, <4>1, <4>2, <4>3
    <3> QED BY <1>8, <2>3, <3>5, <3>6 DEF SrvCapLs
  <2> QED BY <2>2, <2>3
<1>9. CASE SrvCapReq
  <2>1. UNCHANGED tls
    BY <1>9 DEF SrvCapReq
  <2>2. CASE /\ m.caps \subseteq srv.supp /\ srv' = [srv EXCEPT !.on = @ \cup m.caps]
             /\ Answer(<<CapMsg("CAP ACK", m.caps)>>)
    <3>1. /\ srv' \in Server /\ srv'.supp = srv.supp /\ srv'.on = srv.on \cup m.caps
          /\ srv'.authed = srv.authed
      BY <1>2, <1>3, <2>2 DEF Server
    <3>2. CapMsg("CAP ACK", m.caps) \in TrueMsg(srv') /\ CapMsg("CAP ACK", m.caps).cmd # "004"
      <4>1. /\ CapMsg("CAP ACK", m.caps) \in Message /\ CapMsg("CAP ACK", m.caps).cmd = "CAP ACK"
            /\ CapMsg("CAP ACK", m.caps).caps = m.caps
        <5>1. "CAP ACK" \in Cmd \ NickCmd
          BY DEF Cmd, NickCmd
        <5> QED BY <1>3, <5>1, MsgTypes
      <4> QED BY <3>1, <4>1 DEF TrueMsg
    <3>3. <<CapMsg("CAP ACK", m.caps)>> \in Seq(TrueMsg(srv'))
      BY <3>2, SeqShort
    <3>4. Ordered(<<CapMsg("CAP ACK", m.caps)>>)
      BY <3>2, OrderedShort
    <3> QED BY <1>7, <2>1, <2>2, <3>1, <3>3, <3>4
  <2>3. CASE Answer(<<CapMsg("CAP NAK", m.caps)>>) /\ UNCHANGED srv
    <3>1. <<CapMsg("CAP NAK", m.caps)>> \in Seq(Calm)
      BY <1>3, <1>5, CalmWords
    <3> QED BY <1>2, <1>6, <2>1, <2>3, <3>1
  <2> QED BY <1>9, <2>2, <2>3 DEF SrvCapReq, m
<1>10. CASE SrvCapEnd
  <2>1. /\ srv' \in Server /\ srv'.supp = srv.supp /\ srv'.on = srv.on
        /\ srv'.authed = srv.authed
    BY <1>2, <1>10 DEF SrvCapEnd, Server
  <2> QED BY <1>2, <1>5, <1>6, <1>10, <2>1 DEF SrvCapEnd
<1>11. CASE SrvNick
  <2>1. UNCHANGED tls
    BY <1>11 DEF SrvNick
  <2>2. CASE Answer(<<Msg("433")>>) /\ UNCHANGED srv
    <3>1. <<Msg("433")>> \in Seq(Calm)
      BY <1>5, CalmWords
    <3> QED BY <1>2, <1>6, <2>1, <2>2, <3>1
  <2>3. ASSUME NEW n \in Nick, srv' = [srv EXCEPT !.nick = n],
               Answer(IF srv.reg THEN <<Renamed(n)>> ELSE <<>>)
        PROVE  Inv'
    <3>1. /\ srv' \in Server /\ srv'.supp = srv.supp /\ srv'.on = srv.on
          /\ srv'.authed = srv.authed
      BY <1>2, <2>3 DEF Server
    <3>2. (IF srv.reg THEN <<Renamed(n)>> ELSE <<>>) \in Seq(Calm)
      BY <1>2, <1>5, CalmWords
    <3> QED BY <1>2, <1>6, <2>1, <2>3, <3>1, <3>2
  <2> QED BY <1>11, <2>2, <2>3 DEF SrvNick
<1>12. CASE SrvUser
  <2>1. /\ srv' \in Server /\ srv'.supp = srv.supp /\ srv'.on = srv.on
        /\ srv'.authed = srv.authed
    BY <1>2, <1>12 DEF SrvUser, Server
  <2> QED BY <1>2, <1>5, <1>6, <1>12, <2>1 DEF SrvUser
<1>13. CASE SrvStarttls
  <2>1. <<Msg("670")>> \in Seq(Calm) /\ <<Msg("691")>> \in Seq(Calm)
    BY <1>5, CalmWords
  <2>2. UNCHANGED srv /\ tls' \in {"no", "wait", "yes"}
    BY <1>2, <1>13 DEF SrvStarttls
  <2>3. Answer(<<Msg("670")>>) \/ Answer(<<Msg("691")>>)
    BY <1>13 DEF SrvStarttls
  <2> QED BY <1>2, <1>6, <2>1, <2>2, <2>3
<1>14. CASE SrvAuthenticate
  <2>1. <<Msg("AUTHENTICATE")>> \in Seq(Calm) /\ <<Msg("904")>> \in Seq(Calm)
    BY <1>5, CalmWords
  <2>2. UNCHANGED <<srv, tls>>
    BY <1>14 DEF SrvAuthenticate
  <2>3. Answer(<<Msg("AUTHENTICATE")>>) \/ Answer(<<Msg("904")>>)
    BY <1>14 DEF SrvAuthenticate
  <2> QED BY <1>2, <1>6, <2>1, <2>2, <2>3
<1>15. CASE SrvAuthdata
  <2>1. UNCHANGED tls
    BY <1>15 DEF SrvAuthdata
  <2>2. CASE srv' = [srv EXCEPT !.authed = TRUE] /\ Answer(<<Msg("903")>>)
    <3>1. srv' \in Server /\ srv'.supp = srv.supp /\ srv'.on = srv.on /\ srv'.authed
      BY <1>2, <2>2 DEF Server
    <3>2. Msg("903") \in TrueMsg(srv') /\ Msg("903").cmd # "004"
      <4>1. Msg("903") \in Message /\ Msg("903").cmd = "903"
        BY MsgTypes DEF Cmd, NickCmd
      <4> QED BY <3>1, <4>1 DEF TrueMsg
    <3>3. <<Msg("903")>> \in Seq(TrueMsg(srv')) /\ Ordered(<<Msg("903")>>)
      BY <3>2, SeqShort, OrderedShort
    <3> QED BY <1>7, <2>1, <2>2, <3>1, <3>3
  <2>3. CASE Answer(<<Msg("904")>>) /\ UNCHANGED srv
    <3>1. <<Msg("904")>> \in Seq(Calm)
      BY <1>5, CalmWords
    <3> QED BY <1>2, <1>6, <2>1, <2>3, <3>1
  <2> QED BY <1>15, <2>2, <2>3 DEF SrvAuthdata
<1>16. CASE SrvPong
  <2>1. /\ srv' \in Server /\ srv'.supp = srv.supp /\ srv'.on = srv.on
        /\ srv'.authed = srv.authed
    BY <1>2, <1>16 DEF SrvPong, Server
  <2> QED BY <1>2, <1>5, <1>6, <1>16, <2>1 DEF SrvPong
<1> QED
  BY <1>8, <1>9, <1>10, <1>11, <1>12, <1>13, <1>14, <1>15, <1>16, Zenon DEF Serve

(* What the server says unasked.                                            *)
LEMMA SaysInv ==
  ASSUME Inv,
         \/ Welcome
         \/ Reject
         \/ SrvPing
         \/ \E n \in Nick : SrvRename(n)
  PROVE  Inv'
<1> DEFINE quiet == /\ pc # "off"
                    /\ UNCHANGED <<caps, settings, ssl, v3capreq, mynick, pc, progress, c2s, tls>>
<1>1. \A ms : Says(ms) => quiet /\ s2c' = s2c \o ms
  BY DEF Says
<1>2. srv \in Server /\ tls \in {"no", "wait", "yes"}
  BY TypeParts DEF Inv, ConnType
<1>3. \A n \in Calm : <<n>> \in Seq(Calm)
  BY SeqShort
<1> HIDE DEF quiet
<1>4. ASSUME NEW ms \in Seq(Calm), Says(ms),
             srv' \in Server, srv'.supp = srv.supp, srv'.on = srv.on, srv'.authed = srv.authed
      PROVE  Inv'
  BY <1>1, <1>2, <1>4, CalmInv DEF quiet
<1>5. CASE Welcome
  <2>1. srv' = [srv EXCEPT !.reg = TRUE] /\ srv.nick # NoNick
    BY <1>5 DEF Welcome
  <2>2. /\ srv' \in Server /\ srv'.supp = srv.supp /\ srv'.on = srv.on
        /\ srv'.authed = srv.authed /\ srv.nick \in Nick
    BY <1>2, <2>1 DEF Server
  <2>3. PICK a, b : a = NickMsg("001", srv.nick) /\ b = Msg("004")
    OBVIOUS
  <2>4. a \in Message /\ b \in Message /\ a.cmd = "001" /\ b.cmd = "004"
    BY <2>2, <2>3, MsgTypes DEF Cmd, NickCmd
  <2>5. a \in TrueMsg(srv') /\ b \in TrueMsg(srv')
    BY <2>4 DEF TrueMsg
  <2>6. <<a, b>> \in Seq(TrueMsg(srv'))
    BY <2>5
  <2>7. Ordered(<<a, b>>)
    <3>1. Len(<<a, b>>) = 2 /\ <<a, b>>[1] = a /\ <<a, b>>[2] = b
      OBVIOUS
    <3> QED BY <2>4, <3>1 DEF Ordered
  <2>8. Says(<<a, b>>)
    BY <1>5, <2>3 DEF Welcome
  <2> QED BY <1>1, <1>2, <2>2, <2>6, <2>7, <2>8, SrvInv DEF quiet
<1>6. CASE Reject
  <2>1. <<Msg("464")>> \in Seq(Calm)
    BY <1>3, CalmWords
  <2> QED BY <1>2, <1>4, <1>6, <2>1 DEF Reject
<1>7. CASE SrvPing
  <2>1. <<Msg("PING")>> \in Seq(Calm)
    BY <1>3, CalmWords
  <2>2. srv' = [srv EXCEPT !.ping = "asked"] /\ Says(<<Msg("PING")>>)
    BY <1>7 DEF SrvPing
  <2>3. srv' \in Server /\ srv'.supp = srv.supp /\ srv'.on = srv.on /\ srv'.authed = srv.authed
    BY <1>2, <2>2 DEF Server
  <2> QED BY <1>4, <2>1, <2>2, <2>3
<1>8. ASSUME NEW n \in Nick, SrvRename(n) PROVE Inv'
  <2>1. <<Renamed(n)>> \in Seq(Calm)
    BY <1>2, <1>3, CalmWords
  <2>2. srv' = [srv EXCEPT !.nick = n] /\ Says(<<Renamed(n)>>)
    BY <1>8 DEF SrvRename
  <2>3. srv' \in Server /\ srv'.supp = srv.supp /\ srv'.on = srv.on /\ srv'.authed = srv.authed
    BY <1>2, <2>2 DEF Server
  <2> QED BY <1>4, <2>1, <2>2, <2>3
<1> QED BY <1>5, <1>6, <1>7, <1>8

-----------------------------------------------------------------------------
(* The application *)

LEMMA WantCapType ==
  ASSUME CapsType(caps), NEW c \in Cap, NEW must \in BOOLEAN
  PROVE  CapsType(WantCap(c, must)) /\ CapsType(ClearCap(c))
BY DEF CapsType, WantCap, ClearCap, CapRec

LEMMA OfflineInv ==
  ASSUME Inv, pc = "off", UNCHANGED <<mynick, v3capreq, pc, progress, wire, srv>>,
         CapsType(caps'), ssl' \in BOOLEAN, SettingsType'
  PROVE  Inv'
<1>1. ClientType /\ ConnType /\ c2s = <<>>
  BY TypeParts DEF Inv
<1>2. ClientType'
  BY <1>1 DEF ClientType, CapsType
<1>3. ConnType'
  BY <1>1 DEF ConnType, progress, wire
<1>4. pc' = "off" /\ c2s' = <<>>
  BY <1>1 DEF wire
<1> QED BY <1>2, <1>3, <1>4, TypePartsNext DEF Inv

LEMMA ConnectsInv ==
  ASSUME Inv, Connects
  PROVE  Inv'
<1>1. ClientType /\ SettingsType /\ ConnType /\ pc = "off" /\ c2s = <<>>
  BY TypeParts DEF Inv, Connects, irc_connect
<1>2. v3capreq' = {} /\ UNCHANGED <<caps, settings, ssl>>
  BY DEF Connects, irc_connect
<1>3. SettingsType' /\ CapsType(caps') /\ ssl' \in BOOLEAN
  BY <1>1, <1>2 DEF SettingsType, settings, ClientType
<1>4. CASE mynick' = NoNick /\ UNCHANGED <<pc, progress, wire>>
  <2>1. UNCHANGED srv
    BY <1>1, <1>4 DEF Connects
  <2>2. ClientType'
    BY <1>1, <1>2, <1>3, <1>4 DEF ClientType, CapsType
  <2>3. ConnType' /\ pc' = "off" /\ c2s' = <<>>
    BY <1>1, <1>4, <2>1 DEF ConnType, progress, wire
  <2> QED BY <1>3, <2>2, <2>3, TypePartsNext DEF Inv
<1>5. CASE /\ pc' = "logon"
           /\ logon_sent' = ~starttls_first /\ logged_on' = FALSE /\ sasl_authed' = FALSE
           /\ c2s' = IF starttls_first THEN <<Msg("STARTTLS")>> ELSE LogonLines
           /\ s2c' = <<>>
           /\ tls' = IF ssl THEN "yes" ELSE "no"
           /\ mynick' = WantNick
  <2>1. srv' \in Fresh
    BY <1>5 DEF Connects
  <2>2. srv' \in Server /\ srv'.on = {}
    BY <2>1 DEF Fresh
  <2>3. c2s' \in Seq(Harmless)
    BY <1>5, HarmlessWords, HarmlessSeq, LinesHarmless
  <2>4. c2s' \in Seq(Message) /\ c2s' \in Seq(ReqMsg(srv'))
    BY <2>3, HarmlessSeq
  <2>5. ClientType'
    BY <1>2, <1>3, <1>5, NickAssumption DEF ClientType, CapsType
  <2>6. <<>> \in Seq(Message) /\ <<>> \in Seq(TrueMsg(srv')) /\ Ordered(<<>>)
    BY SeqShort DEF Ordered
  <2>7. ConnType'
    BY <1>1, <1>5, <2>2, <2>4, <2>6 DEF ConnType, SettingsType
  <2>8. Renews => FlagsTrue'
    BY <1>2 DEF Connects, irc_connect, FlagsTrue
  <2>9. OnlineInv'
    <3>1. Ordered(s2c)' /\ s2c' \in Seq(TrueMsg(srv'))
      BY <1>5, <2>6
    <3> QED BY <1>5, <2>4, <2>8, <3>1 DEF OnlineInv
  <2> QED BY <1>3, <1>5, <2>5, <2>7, <2>9, TypePartsNext DEF Inv
<1> QED BY <1>4, <1>5 DEF Connects, irc_connect

LEMMA ApplicationInv ==
  ASSUME Inv, Application
  PROVE  Inv'
<1>1. ClientType /\ SettingsType /\ ConnType
  BY TypeParts DEF Inv
<1>2. ASSUME NEW mode \in SaslModes, irc_set_sasl(mode = "must"), UNCHANGED srv
      PROVE  Inv'
  <2>1. /\ pc = "off" /\ caps' = WantCap("sasl", mode = "must") /\ sasl' = TRUE
        /\ UNCHANGED <<starttls, starttls_first, ssl, v3capreq, mynick, pc, progress, wire>>
    BY <1>2 DEF irc_set_sasl
  <2>2. CapsType(caps') /\ SettingsType' /\ ssl' \in BOOLEAN
    BY <1>1, <2>1, WantCapType DEF Cap, ClientType, SettingsType
  <2> QED BY <1>2, <2>1, <2>2, OfflineInv
<1>3. ASSUME NEW mode \in TlsModes, NEW must \in BOOLEAN, irc_set_starttls(mode, must),
             UNCHANGED srv
      PROVE  Inv'
  <2>1. /\ pc = "off"
        /\ caps' = IF mode = "cap" THEN WantCap("tls", must) ELSE ClearCap("tls")
        /\ starttls' = (mode # "none") /\ starttls_first' = (starttls_first \/ mode = "first")
        /\ UNCHANGED <<sasl, ssl, v3capreq, mynick, pc, progress, wire>>
    BY <1>3 DEF irc_set_starttls
  <2>2. CapsType(WantCap("tls", must)) /\ CapsType(ClearCap("tls"))
    BY <1>1, WantCapType DEF Cap, ClientType
  <2>3. CapsType(caps') /\ SettingsType' /\ ssl' \in BOOLEAN
    BY <1>1, <2>1, <2>2 DEF ClientType, SettingsType
  <2> QED BY <1>3, <2>1, <2>3, OfflineInv
<1>4. ASSUME NEW on \in BOOLEAN, irc_set_ssl(on), UNCHANGED srv
      PROVE  Inv'
  <2>1. pc = "off" /\ ssl' = on
        /\ UNCHANGED <<caps, settings, v3capreq, mynick, pc, progress, wire>>
    BY <1>4 DEF irc_set_ssl
  <2>2. CapsType(caps') /\ SettingsType' /\ ssl' \in BOOLEAN
    BY <1>1, <2>1 DEF ClientType, SettingsType, settings
  <2> QED BY <1>4, <2>1, <2>2, OfflineInv
<1>5. ASSUME NEW n \in Nick, irc_write(n), UNCHANGED srv
      PROVE  Inv'
  <2>1. /\ pc = "on" /\ c2s' = Append(c2s, NickMsg("NICK", n))
        /\ UNCHANGED <<caps, settings, ssl, v3capreq, mynick, pc, progress, s2c, tls>>
    BY <1>5 DEF irc_write
  <2>2. PICK m \in Harmless : m = NickMsg("NICK", n)
    BY HarmlessWords
  <2>3. m \in Message /\ m \in ReqMsg(srv)
    BY <2>2 DEF Harmless, ReqMsg
  <2>4. OnlineInv
    BY <2>1 DEF Inv
  <2>5. c2s' \in Seq(Message) /\ (Renews => c2s' \in Seq(ReqMsg(srv)))
    <3>1. c2s \in Seq(Message) /\ (Renews => c2s \in Seq(ReqMsg(srv)))
      BY <1>1, <2>4 DEF ConnType, OnlineInv
    <3>2. c2s' = Append(c2s, m)
      BY <2>1, <2>2
    <3> QED BY <2>3, <3>1, <3>2
  <2>6. ClientType' /\ SettingsType'
    BY <1>1, <2>1 DEF ClientType, SettingsType, settings, CapsType
  <2>7. ConnType'
    BY <1>1, <1>5, <2>1, <2>5 DEF ConnType, progress
  <2>8. s2c' \in Seq(TrueMsg(srv')) /\ (Passed' = Passed) /\ (FlagsTrue' = FlagsTrue)
        /\ (Ordered(s2c)' = Ordered(s2c))
    BY <1>5, <2>1, <2>4 DEF OnlineInv, Passed, FlagsTrue
  <2>9. Renews => c2s' \in Seq(ReqMsg(srv'))
    BY <1>5, <2>5
  <2>10. OnlineInv'
    BY <1>5, <2>1, <2>4, <2>8, <2>9 DEF OnlineInv, progress, settings
  <2>11. pc' # "off"
    BY <2>1
  <2> QED BY <2>6, <2>7, <2>10, <2>11, TypePartsNext DEF Inv
<1> QED BY <1>2, <1>3, <1>4, <1>5, ConnectsInv DEF Application

-----------------------------------------------------------------------------
(* The invariant *)

LEMMA InitInv ==
  ASSUME ServerInit
  PROVE  Inv
<1>1. NoServer \in Server
  BY NoServerFresh DEF Fresh
<1>2. <<>> \in Seq(Message)
  BY SeqShort
<1>3. ClientType
  BY DEF ServerInit, Init, ClientType, CapsType
<1>4. SettingsType /\ ConnType
  BY <1>1, <1>2 DEF ServerInit, Init, SettingsType, ConnType
<1> QED BY <1>3, <1>4, TypeParts DEF Inv, ServerInit, Init

LEMMA NextInv ==
  ASSUME Inv, [Next]_allvars
  PROVE  Inv'
<1>1. CASE Application
  BY <1>1, ApplicationInv
<1>2. CASE Reads
  BY <1>2, ReadsInv
<1>3. CASE Lost /\ srv' = NoServer
  <2>1. Hangup /\ UNCHANGED settings /\ UNCHANGED <<caps, ssl, v3capreq, mynick>>
    BY <1>3 DEF Lost
  <2>2. pc' = "off" /\ ClientType
    BY <2>1, TypeParts DEF Hangup, Inv
  <2>3. ClientType'
    BY <2>1, <2>2 DEF ClientType, CapsType
  <2> QED BY <1>3, <2>1, <2>3, HangupInv
<1>4. CASE Serve
  BY <1>4, ServeInv
<1>5. CASE Welcome \/ Reject \/ SrvPing \/ \E n \in Nick : SrvRename(n)
  BY <1>5, SaysInv
<1>6. CASE UNCHANGED allvars
  <2>1. ClientType' /\ SettingsType' /\ ConnType'
    BY <1>6, TypeParts
       DEF Inv, allvars, vars, settings, progress, wire, ClientType, SettingsType, ConnType,
           CapsType
  <2>2. pc = "off" => c2s' = <<>>
    BY <1>6 DEF Inv, allvars, vars, wire
  <2>3. pc # "off" => OnlineInv'
    BY <1>6
       DEF Inv, allvars, vars, settings, progress, wire, OnlineInv, Passed, Ordered, FlagsTrue
  <2>4. pc' = pc
    BY <1>6 DEF allvars, vars
  <2> QED BY <2>1, <2>2, <2>3, <2>4, TypePartsNext DEF Inv
<1> QED BY <1>1, <1>2, <1>3, <1>4, <1>5, <1>6 DEF Next

LEMMA InvCorrect == Spec => []Inv
<1>1. ServerInit => Inv
  BY InitInv
<1>2. Inv /\ [Next]_allvars => Inv'
  BY NextInv
<1> QED BY <1>1, <1>2, PTL DEF Spec

(* Every variable has its type: in particular no empty nickname is ever     *)
(* sent, whatever the callback of the application answers (handle_bad_nick).*)
THEOREM TypeCorrect == Spec => []LogonTypeOK
<1>1. Inv => LogonTypeOK
  BY DEF Inv
<1> QED BY <1>1, InvCorrect, PTL

(* If the application calls irc_set_sasl and irc_set_starttls anew before   *)
(* each irc_connect, a logon succeeds only when this server has enabled all *)
(* must-have capabilities (handle_001, lsi_v3_check_caps).                  *)
THEOREM MustHaveCorrect ==
  ASSUME Renews
  PROVE  Spec => []MustHave
<1>1. Inv => MustHave
  <2> SUFFICES ASSUME Inv, pc = "on" PROVE Must(caps) \subseteq srv.on
    BY DEF MustHave
  <2>1. OnlineInv
    BY DEF Inv
  <2> QED BY <2>1 DEF OnlineInv, Passed, FlagsTrue
<1> QED BY <1>1, InvCorrect, PTL

(* With SASL set up irc_connect returns true only after authentication has  *)
(* succeeded, in whatever order the numerics come (irc_connect).            *)
THEOREM SaslCorrect == Spec => []SaslDone
<1>1. Inv => SaslDone
  BY DEF Inv, OnlineInv, SaslDone
<1> QED BY <1>1, InvCorrect, PTL

(* No capability is asked for that this server has not offered (handle_CAP, *)
(* lsi_v3_mk_capreq), under the same condition as MustHaveCorrect.          *)
THEOREM AskCorrect ==
  ASSUME Renews
  PROVE  Spec => []AskOffered
<1>1. Inv => AskOffered
  <2> SUFFICES ASSUME Inv, NEW i \in 1..Len(c2s)
               PROVE  c2s[i].cmd = "CAP REQ" => c2s[i].caps \subseteq srv.supp
    BY DEF AskOffered
  <2>1. pc # "off"
    BY DEF Inv
  <2>2. c2s \in Seq(ReqMsg(srv))
    BY <2>1 DEF Inv, OnlineInv
  <2>3. c2s[i] \in ReqMsg(srv)
    BY <2>2
  <2> QED BY <2>3 DEF ReqMsg
<1> QED BY <1>1, InvCorrect, PTL

(* Both ends of a connection agree on whether it is encrypted, whenever no  *)
(* handshake is due (handle_670, lsi_conn_connect).                         *)
THEOREM TlsCorrect == Spec => []TlsAgrees
<1>1. ServerInit => TlsAgrees
  BY DEF ServerInit, Init, TlsAgrees
<1>2. TlsAgrees /\ [Next]_allvars => TlsAgrees'
  <2> SUFFICES ASSUME TlsAgrees, [Next]_allvars PROVE TlsAgrees'
    OBVIOUS
  <2>1. CASE UNCHANGED <<ssl, pc, tls>>
    BY <2>1 DEF TlsAgrees
  <2>2. CASE pc' = "off"
    BY <2>2 DEF TlsAgrees
  <2>3. CASE irc_connect
    BY <2>3 DEF irc_connect, TlsAgrees, wire
  <2>4. CASE tls = "no" /\ tls' = "wait"
    BY <2>4 DEF TlsAgrees
  <2>5. CASE Reads
    <3>1. PICK m : m = Head(s2c) /\ Handle(m) /\ pc # "off"
      BY <2>5 DEF Reads, Receive
    <3>2. ASSUME NEW out, NEW flags, Reply(out, flags), UNCHANGED ssl PROVE TlsAgrees'
      BY <2>2, <3>1, <3>2 DEF Reply, Proceed, CantProceed, Hangup, TlsAgrees
    <3>3. CantProceed => TlsAgrees'
      BY <2>2 DEF CantProceed, Hangup
    <3>4. ASSUME NEW t, StarttlsOver(t), (t = tls /\ UNCHANGED ssl) \/ (t = "yes" /\ ssl' = TRUE)
          PROVE  TlsAgrees'
      <4>1. CASE tls' = t /\ pc' = pc
        BY <3>1, <3>4, <4>1 DEF TlsAgrees
      <4>2. CASE tls' = t /\ pc' = "on"
        BY <3>1, <3>4, <4>2 DEF TlsAgrees
      <4> QED BY <3>3, <3>4, <4>1, <4>2 DEF StarttlsOver, Proceed
    <3>5. HandleCore(m) => TlsAgrees'
      BY <3>2, <3>3
         DEF HandleCore, handle_001, handle_004, handle_PING, handle_bad_nick, handle_464,
             handle_NICK
    <3>6. HandleV3(m) => TlsAgrees'
      BY <3>2, <3>3, <3>4
         DEF HandleV3, handle_CAP_LS, handle_CAP_ACK, handle_CAP_NAK, handle_AUTHENTICATE,
             handle_903, handle_saslerr, handle_691, handle_670
    <3> QED BY <3>1, <3>5, <3>6 DEF Handle
  <2>6. Application \/ Reads \/ Lost \/ Serve \/ Welcome \/ Reject \/ SrvPing
          \/ (\E n \in Nick : SrvRename(n)) \/ UNCHANGED allvars
    BY DEF Next
  <2>7. Application => pc = "off" \/ UNCHANGED <<ssl, pc, tls>>
    BY DEF Application, Connects, irc_connect, irc_set_sasl, irc_set_starttls, irc_set_ssl,
           irc_write
  <2>8. Application /\ pc = "off" => pc' = "off" \/ irc_connect
    BY DEF Application, Connects, irc_set_sasl, irc_set_starttls, irc_set_ssl, irc_write
  <2>9. Lost => pc' = "off"
    BY DEF Lost, Hangup
  <2>10. Serve => UNCHANGED <<ssl, pc, tls>> \/ (tls = "no" /\ tls' = "wait")
    BY DEF Serve, Answer, SrvCapLs, SrvCapReq, SrvCapEnd, SrvNick, SrvUser, SrvStarttls,
           SrvAuthenticate, SrvAuthdata, SrvPong
  <2>11. Welcome \/ Reject \/ SrvPing \/ (\E n \in Nick : SrvRename(n))
           => UNCHANGED <<ssl, pc, tls>>
    BY DEF Welcome, Reject, SrvPing, SrvRename, Says
  <2>12. UNCHANGED allvars => UNCHANGED <<ssl, pc, tls>>
    BY DEF allvars, vars, wire
  <2> QED BY <2>1, <2>2, <2>3, <2>4, <2>5, <2>6, <2>7, <2>8, <2>9, <2>10, <2>11, <2>12
<1> QED BY <1>1, <1>2, PTL DEF Spec

-----------------------------------------------------------------------------
(* Our nickname *)

(* What handle_001 and handle_NICK make of nickname n when they read m; and *)
(* that reading all of q turns n into z.                                    *)
NickAfter(m, n) == IF m.cmd = "001" \/ (m.cmd = "NICK" /\ m.from = n) THEN m.nick ELSE n

Leads(q, n, z) ==
  \E f \in [0..Len(q) -> Nick \cup {NoNick}] :
    /\ f[0] = n /\ f[Len(q)] = z
    /\ \A i \in 1..Len(q) : f[i] = NickAfter(q[i], f[i - 1])

None(q, cmd) == \A i \in 1..Len(q) : q[i].cmd # cmd

Once(q, cmd) == \A i, j \in 1..Len(q) : q[i].cmd = cmd /\ q[j].cmd = cmd => i = j

(* Until we are logged on a single nickname is under way: the one that we   *)
(* ask for, or a refusal of it, or the one that the server has taken.       *)
OneNick ==
  /\ Once(c2s, "NICK") /\ Once(s2c, "433")
  /\ None(c2s, "NICK") \/ None(s2c, "433")
  /\ srv.nick # NoNick \/ ~logon_sent => None(c2s, "NICK") /\ None(s2c, "433")
  /\ ~logon_sent => srv.nick = NoNick

NickOnline ==
  /\ pc = "logon" => OneNick
  /\ ~srv.reg => /\ None(s2c, "001") /\ None(s2c, "NICK") /\ None(s2c, "004")
                 /\ ~logged_on
  /\ srv.reg => srv.nick # NoNick /\ Leads(s2c, mynick, srv.nick)

NickInv == pc # "off" => NickOnline

LEMMA NoneShort ==
  ASSUME NEW cmd
  PROVE  /\ None(<<>>, cmd) /\ Once(<<>>, cmd)
         /\ \A m : m.cmd # cmd => None(<<m>>, cmd)
         /\ \A m : Once(<<m>>, cmd)
         /\ \A a, b : a.cmd # cmd /\ b.cmd # cmd => None(<<a, b>>, cmd)
<1>1. None(<<>>, cmd) /\ Once(<<>>, cmd)
  BY DEF None, Once
<1>2. ASSUME NEW m PROVE (m.cmd # cmd => None(<<m>>, cmd)) /\ Once(<<m>>, cmd)
  <2>1. \A i \in 1..Len(<<m>>) : i = 1 /\ <<m>>[i] = m
    OBVIOUS
  <2> QED BY <2>1 DEF None, Once
<1>3. ASSUME NEW a, NEW b, a.cmd # cmd, b.cmd # cmd PROVE None(<<a, b>>, cmd)
  <2>1. \A i \in 1..Len(<<a, b>>) : <<a, b>>[i] = a \/ <<a, b>>[i] = b
    OBVIOUS
  <2> QED BY <1>3, <2>1, Zenon DEF None
<1> QED BY <1>1, <1>2, <1>3

LEMMA NoneTail ==
  ASSUME NEW q \in Seq(Message), q # <<>>, NEW cmd
  PROVE  /\ None(q, cmd) => None(Tail(q), cmd) /\ Head(q).cmd # cmd
         /\ Once(q, cmd) => Once(Tail(q), cmd)
         /\ Once(q, cmd) /\ Head(q).cmd = cmd => None(Tail(q), cmd)
<1>1. Len(q) \in Nat /\ Len(q) >= 1 /\ Head(q) = q[1]
  OBVIOUS
<1>2. Len(Tail(q)) = Len(q) - 1 /\ \A i \in 1..Len(q) - 1 : Tail(q)[i] = q[i + 1]
  BY <1>1
<1>3. \A i \in 1..Len(Tail(q)) : i + 1 \in 1..Len(q) /\ i + 1 # 1 /\ Tail(q)[i] = q[i + 1]
  BY <1>1, <1>2
<1>4. 1 \in 1..Len(q)
  BY <1>1
<1>5. None(q, cmd) => None(Tail(q), cmd) /\ Head(q).cmd # cmd
  BY <1>1, <1>3, <1>4, Zenon DEF None
<1>6. Once(q, cmd) => Once(Tail(q), cmd)
  <2> SUFFICES ASSUME Once(q, cmd), NEW i \in 1..Len(Tail(q)), NEW j \in 1..Len(Tail(q)),
                      Tail(q)[i].cmd = cmd, Tail(q)[j].cmd = cmd
               PROVE  i = j
    BY DEF Once
  <2>1. i + 1 = j + 1
    BY <1>3 DEF Once
  <2> QED BY <2>1
<1>7. Once(q, cmd) /\ Head(q).cmd = cmd => None(Tail(q), cmd)
  BY <1>1, <1>3, <1>4, Zenon DEF Once, None
<1> QED BY <1>5, <1>6, <1>7

LEMMA NoneConcat ==
  ASSUME NEW q \in Seq(Message), NEW r \in Seq(Message), NEW cmd
  PROVE  /\ None(q, cmd) /\ None(r, cmd) => None(q \o r, cmd)
         /\ Once(q, cmd) /\ None(r, cmd) => Once(q \o r, cmd)
         /\ None(q, cmd) /\ Once(r, cmd) => Once(q \o r, cmd)
<1>1. /\ Len(q) \in Nat /\ Len(r) \in Nat /\ Len(q \o r) = Len(q) + Len(r)
      /\ \A i \in 1..Len(q) : (q \o r)[i] = q[i]
      /\ \A i \in 1..Len(r) : (q \o r)[Len(q) + i] = r[i]
  OBVIOUS
<1>2. ASSUME NEW i \in 1..Len(q \o r)
      PROVE  \/ i \in 1..Len(q) /\ (q \o r)[i] = q[i]
             \/ i - Len(q) \in 1..Len(r) /\ (q \o r)[i] = r[i - Len(q)]
  <2>1. CASE i <= Len(q)
    BY <1>1, <2>1
  <2>2. CASE i > Len(q)
    <3>1. i - Len(q) \in 1..Len(r) /\ i = Len(q) + (i - Len(q))
      BY <1>1, <2>2
    <3> QED BY <1>1, <3>1
  <2> QED BY <1>1, <2>1, <2>2
<1>3. None(q, cmd) /\ None(r, cmd) => None(q \o r, cmd)
  BY <1>2 DEF None
<1>4. ASSUME Once(q, cmd), Once(r, cmd), None(q, cmd) \/ None(r, cmd)
      PROVE  Once(q \o r, cmd)
  <2> SUFFICES ASSUME NEW i \in 1..Len(q \o r), NEW j \in 1..Len(q \o r),
                      (q \o r)[i].cmd = cmd, (q \o r)[j].cmd = cmd
               PROVE  i = j
    BY DEF Once
  <2>1. CASE None(r, cmd)
    <3>1. i \in 1..Len(q) /\ j \in 1..Len(q) /\ q[i].cmd = cmd /\ q[j].cmd = cmd
      BY <1>2, <2>1 DEF None
    <3> QED BY <1>4, <3>1 DEF Once
  <2>2. CASE None(q, cmd)
    <3>1. /\ i - Len(q) \in 1..Len(r) /\ j - Len(q) \in 1..Len(r)
          /\ r[i - Len(q)].cmd = cmd /\ r[j - Len(q)].cmd = cmd
      BY <1>2, <2>2 DEF None
    <3>2. i - Len(q) = j - Len(q)
      BY <1>4, <3>1 DEF Once
    <3> QED BY <1>1, <3>2
  <2> QED BY <1>4, <2>1, <2>2
<1>5. \A s : None(s, cmd) => Once(s, cmd)
  BY DEF None, Once
<1> QED BY <1>3, <1>4, <1>5

LEMMA LeadsTail ==
  ASSUME NEW q \in Seq(Message), q # <<>>, NEW n, NEW z, Leads(q, n, z)
  PROVE  Leads(Tail(q), NickAfter(Head(q), n), z)
<1>1. Len(q) \in Nat /\ Len(q) >= 1 /\ Head(q) = q[1]
  OBVIOUS
<1>2. Len(Tail(q)) = Len(q) - 1 /\ \A i \in 1..Len(q) - 1 : Tail(q)[i] = q[i + 1]
  BY <1>1
<1>3. PICK f \in [0..Len(q) -> Nick \cup {NoNick}] :
        /\ f[0] = n /\ f[Len(q)] = z
        /\ \A i \in 1..Len(q) : f[i] = NickAfter(q[i], f[i - 1])
  BY DEF Leads
<1> DEFINE g == [i \in 0..Len(Tail(q)) |-> f[i + 1]]
<1>4. g \in [0..Len(Tail(q)) -> Nick \cup {NoNick}]
  BY <1>1, <1>2
<1>5. g[0] = NickAfter(Head(q), n) /\ g[Len(Tail(q))] = z
  <2>1. g[0] = f[1] /\ g[Len(Tail(q))] = f[Len(q)]
    BY <1>1, <1>2
  <2>2. f[1] = NickAfter(q[1], f[1 - 1]) /\ f[1 - 1] = n
    BY <1>1, <1>3
  <2> QED BY <1>1, <1>3, <2>1, <2>2
<1>6. ASSUME NEW i \in 1..Len(Tail(q)) PROVE g[i] = NickAfter(Tail(q)[i], g[i - 1])
  <2>1. g[i] = f[i + 1] /\ g[i - 1] = f[i] /\ i + 1 \in 1..Len(q) /\ Tail(q)[i] = q[i + 1]
    BY <1>1, <1>2
  <2>2. f[i + 1] = NickAfter(q[i + 1], f[(i + 1) - 1]) /\ (i + 1) - 1 = i
    BY <1>3, <2>1
  <2> QED BY <2>1, <2>2
<1> HIDE DEF g
<1> QED BY <1>4, <1>5, <1>6 DEF Leads

LEMMA LeadsAppend ==
  ASSUME NEW q \in Seq(Message), NEW m \in Message, NEW n, NEW z, Leads(q, n, z)
  PROVE  Leads(q \o <<m>>, n, NickAfter(m, z))
<1>1. /\ Len(q) \in Nat /\ Len(q \o <<m>>) = Len(q) + 1
      /\ \A i \in 1..Len(q) : (q \o <<m>>)[i] = q[i]
      /\ (q \o <<m>>)[Len(q) + 1] = m
  OBVIOUS
<1>2. PICK f \in [0..Len(q) -> Nick \cup {NoNick}] :
        /\ f[0] = n /\ f[Len(q)] = z
        /\ \A i \in 1..Len(q) : f[i] = NickAfter(q[i], f[i - 1])
  BY DEF Leads
<1> DEFINE r == q \o <<m>>
           g == [i \in 0..Len(r) |-> IF i = Len(q) + 1 THEN NickAfter(m, z) ELSE f[i]]
<1>3. NickAfter(m, z) \in Nick \cup {NoNick}
  <2>1. m.nick \in Nick \cup {NoNick}
    BY DEF Message
  <2>2. z \in Nick \cup {NoNick}
    BY <1>1, <1>2
  <2> QED BY <2>1, <2>2 DEF NickAfter
<1>4. g \in [0..Len(r) -> Nick \cup {NoNick}]
  BY <1>1, <1>3
<1>5. g[0] = n /\ g[Len(r)] = NickAfter(m, z)
  BY <1>1, <1>2
<1>6. ASSUME NEW i \in 1..Len(r) PROVE g[i] = NickAfter(r[i], g[i - 1])
  <2>1. CASE i = Len(q) + 1
    <3>1. g[i] = NickAfter(m, z) /\ r[i] = m /\ g[i - 1] = f[Len(q)]
      BY <1>1, <2>1
    <3> QED BY <1>2, <3>1
  <2>2. CASE i # Len(q) + 1
    <3>1. i \in 1..Len(q) /\ g[i] = f[i] /\ r[i] = q[i] /\ g[i - 1] = f[i - 1]
      BY <1>1, <2>2
    <3> QED BY <1>2, <3>1
  <2> QED BY <2>1, <2>2
<1> HIDE DEF g
<1>7. Leads(r, n, NickAfter(m, z))
  BY <1>4, <1>5, <1>6 DEF Leads
<1> QED BY <1>7

LEMMA LeadsNowhere ==
  ASSUME NEW q \in Seq(Message), NEW n \in Nick \cup {NoNick}, None(q, "001"), None(q, "NICK")
  PROVE  Leads(q, n, n)
<1> DEFINE f == [i \in 0..Len(q) |-> n]
<1>1. Len(q) \in Nat /\ f \in [0..Len(q) -> Nick \cup {NoNick}] /\ f[0] = n /\ f[Len(q)] = n
  OBVIOUS
<1>2. ASSUME NEW i \in 1..Len(q) PROVE f[i] = NickAfter(q[i], f[i - 1])
  <2>1. f[i] = n /\ f[i - 1] = n
    BY <1>1
  <2> QED BY <2>1 DEF None, NickAfter
<1> HIDE DEF f
<1> QED BY <1>1, <1>2 DEF Leads

LEMMA LeadsEmpty ==
  ASSUME NEW n, NEW z, Leads(<<>>, n, z)
  PROVE  n = z
BY DEF Leads

(* The client reads a message and goes on.  It writes a NICK only when the  *)
(* one before it was refused, or as part of the logon lines.                *)
LEMMA ProceedNick ==
  ASSUME Inv, NickInv, pc # "off", s2c # <<>>,
         NEW out \in Seq(Message), NEW flags, Proceed(out, flags), srv' = srv,
         "LOGON_COMPLETE" \in flags => Head(s2c).cmd = "004",
         Once(out, "NICK"),
         \/ None(out, "NICK") /\ logon_sent' = logon_sent
         \/ Head(s2c).cmd = "433" /\ logon_sent' = logon_sent
         \/ ~logon_sent /\ logon_sent',
         mynick' \in Nick \cup {NoNick},
         srv.reg => \/ mynick' = NickAfter(Head(s2c), mynick)
                    \/ Logon /\ Head(s2c).cmd = "433"
  PROVE  NickInv'
<1>1. /\ s2c' = Tail(s2c) /\ c2s' = c2s \o out
      /\ logged_on' = (logged_on \/ "LOGON_COMPLETE" \in flags)
      /\ pc' \in {"on", pc}
  BY DEF Proceed
<1>2. s2c \in Seq(Message) /\ c2s \in Seq(Message)
  BY TypeParts DEF Inv, ConnType
<1>3. NickOnline
  BY DEF NickInv
<1>4. ASSUME pc' = "logon" PROVE OneNick'
  <2>1. pc = "logon" /\ OneNick
    BY <1>1, <1>3, <1>4 DEF NickOnline
  <2>2. /\ Once(s2c', "433") /\ (None(s2c, "433") => None(s2c', "433"))
        /\ Head(s2c).cmd = "433" => ~None(s2c, "433") /\ None(s2c', "433")
    BY <1>1, <1>2, <2>1, NoneTail, Zenon DEF OneNick
  <2>3. None(out, "NICK") => /\ Once(c2s', "NICK")
                             /\ None(c2s, "NICK") => None(c2s', "NICK")
    BY <1>1, <1>2, <2>1, NoneConcat, Zenon DEF OneNick
  <2>4. None(c2s, "NICK") => Once(c2s', "NICK")
    BY <1>1, <1>2, NoneConcat, Zenon
  <2>5. CASE None(out, "NICK") /\ logon_sent' = logon_sent
    BY <2>1, <2>2, <2>3, <2>5, Zenon DEF OneNick
  <2>6. CASE Head(s2c).cmd = "433" /\ logon_sent' = logon_sent
    BY <2>1, <2>2, <2>4, <2>6, Zenon DEF OneNick
  <2>7. CASE ~logon_sent /\ logon_sent'
    BY <2>1, <2>2, <2>4, <2>7, Zenon DEF OneNick
  <2> QED BY <2>5, <2>6, <2>7
<1>5. ASSUME ~srv.reg
      PROVE  None(s2c', "001") /\ None(s2c', "NICK") /\ None(s2c', "004") /\ ~logged_on'
  <2>1. None(s2c, "001") /\ None(s2c, "NICK") /\ None(s2c, "004") /\ ~logged_on
    BY <1>3, <1>5 DEF NickOnline
  <2>2. Head(s2c).cmd # "004"
    BY <1>2, <2>1, NoneTail
  <2>3. None(s2c', "001") /\ None(s2c', "NICK") /\ None(s2c', "004")
    BY <1>1, <1>2, <2>1, NoneTail, Zenon
  <2> QED BY <1>1, <2>1, <2>2, <2>3
<1>6. ASSUME srv.reg
      PROVE  srv.nick # NoNick /\ Leads(s2c', mynick', srv.nick)
  <2>1. srv.nick # NoNick /\ Leads(s2c, mynick, srv.nick)
    BY <1>3, <1>6 DEF NickOnline
  <2>2. ~(Logon /\ Head(s2c).cmd = "433")
    <3>1. SUFFICES ASSUME pc = "logon", Head(s2c).cmd = "433" PROVE FALSE
      BY DEF Logon
    <3>2. None(s2c, "433")
      BY <1>3, <2>1, <3>1 DEF NickOnline, OneNick
    <3> QED BY <1>2, <3>1, <3>2, NoneTail
  <2>3. mynick' = NickAfter(Head(s2c), mynick)
    BY <1>6, <2>2
  <2> QED BY <1>1, <1>2, <2>1, <2>3, LeadsTail, Zenon
<1> QED BY <1>4, <1>5, <1>6 DEF NickInv, NickOnline

LEMMA GoneNick ==
  ASSUME pc' = "off"
  PROVE  NickInv'
BY DEF NickInv

(* What handlers write besides.                                             *)
LEMMA NoNickWords ==
  /\ None(<<>>, "NICK") /\ Once(<<>>, "NICK")
  /\ \A cmd \in Cmd \ NickCmd : None(<<Msg(cmd)>>, "NICK") /\ Once(<<Msg(cmd)>>, "NICK")
  /\ \A cs : None(Conclude(cs), "NICK")
  /\ \A S : None(Request(S), "NICK")
  /\ Once(LogonLines, "NICK")
<1>1. \A cmd : Msg(cmd).cmd = cmd
  BY DEF Msg
<1>2. \A S : CapMsg("CAP REQ", S).cmd = "CAP REQ"
  BY DEF CapMsg, Msg
<1>3. \A cmd \in Cmd \ NickCmd : None(<<Msg(cmd)>>, "NICK") /\ Once(<<Msg(cmd)>>, "NICK")
  BY <1>1, NoneShort DEF NickCmd
<1>4. /\ None(<<Msg("AUTHENTICATE")>>, "NICK") /\ None(<<Msg("CAP END")>>, "NICK")
      /\ None(<<Msg("CAP LS")>>, "NICK")
  BY <1>3 DEF Cmd, NickCmd
<1>5. \A cs : None(Conclude(cs), "NICK")
  BY <1>4 DEF Conclude
<1>6. \A S : None(Request(S), "NICK")
  BY <1>2, <1>4, NoneShort DEF Request
<1>7. Once(LogonLines, "NICK")
  <2>1. PICK a, b : a = NickMsg("NICK", WantNick) /\ b = Msg("USER")
    OBVIOUS
  <2>2. a \in Message /\ b \in Message /\ b.cmd = "USER"
    BY <2>1, MsgTypes, NickAssumption DEF Cmd, NickCmd
  <2>3. Once(<<a, b>>, "NICK")
    <3>1. \A i \in 1..Len(<<a, b>>) : i = 1 \/ (i = 2 /\ <<a, b>>[i] = b)
      OBVIOUS
    <3> QED BY <2>2, <3>1 DEF Once
  <2>4. PICK q : q = IF DOMAIN caps # {} THEN <<Msg("CAP LS")>> ELSE <<>>
    OBVIOUS
  <2>5. q \in Seq(Message) /\ None(q, "NICK")
    <3>1. Msg("CAP LS") \in Message
      BY MsgTypes DEF Cmd, NickCmd
    <3>2. <<Msg("CAP LS")>> \in Seq(Message) /\ <<>> \in Seq(Message)
      BY <3>1, SeqShort
    <3> QED BY <1>4, <2>4, <3>2, NoneShort
  <2>6. <<a, b>> \in Seq(Message)
    BY <2>2
  <2> QED BY <2>1, <2>3, <2>4, <2>5, <2>6, NoneConcat DEF LogonLines
<1> QED BY <1>3, <1>5, <1>6, <1>7, NoneShort

LEMMA NoneOnce == \A q, cmd : None(q, cmd) => Once(q, cmd)
BY DEF None, Once

(* A handler that replies, or gives up, and does not touch the nickname     *)
(* unless the message says so.                                              *)
LEMMA ReplyNick ==
  ASSUME Inv, NickInv, pc # "off", s2c # <<>>, Follow,
         NEW out \in Seq(Message), NEW flags, Reply(out, flags) \/ CantProceed,
         "LOGON_COMPLETE" \in flags => Head(s2c).cmd = "004",
         Once(out, "NICK"), None(out, "NICK") \/ Head(s2c).cmd = "433",
         mynick' \in Nick \cup {NoNick},
         srv.reg => \/ mynick' = NickAfter(Head(s2c), mynick)
                    \/ Logon /\ Head(s2c).cmd = "433"
                    \/ CantProceed
  PROVE  NickInv'
<1>1. CASE CantProceed
  BY <1>1, GoneNick DEF CantProceed, Hangup
<1>2. CASE ~CantProceed /\ Proceed(out, flags) /\ UNCHANGED <<logon_sent, tls>>
  <2>1. pc' # "off"
    BY <1>2 DEF Proceed
  <2>2. srv' = srv
    BY <2>1 DEF Follow
  <2> QED BY <1>2, <2>2, ProceedNick
<1> QED BY <1>1, <1>2 DEF Reply

(* A message that is not about nicknames, and a reply that is not either.   *)
LEMMA QuietNick ==
  ASSUME Inv, NickInv, pc # "off", s2c # <<>>, Follow,
         NEW out \in Seq(Message), NEW flags, Reply(out, flags) \/ CantProceed,
         "LOGON_COMPLETE" \in flags => Head(s2c).cmd = "004",
         None(out, "NICK"), Head(s2c).cmd \notin NickCmd, mynick' = mynick
  PROVE  NickInv'
<1>1. mynick' = NickAfter(Head(s2c), mynick)
  BY DEF NickAfter, NickCmd
<1>2. mynick \in Nick
  BY HeadTrue
<1> QED BY <1>1, <1>2, NoneOnce, ReplyNick

LEMMA StarttlsNick ==
  ASSUME Inv, NickInv, pc # "off", s2c # <<>>, Follow, NEW t, StarttlsOver(t),
         Head(s2c).cmd \notin NickCmd, mynick' = mynick
  PROVE  NickInv'
<1> DEFINE late == starttls_first /\ Logon /\ ~logon_sent
           out  == IF ~starttls_first THEN Conclude(caps) ELSE IF late THEN LogonLines ELSE <<>>
<1>1. CASE CantProceed
  BY <1>1, GoneNick DEF CantProceed, Hangup
<1>2. CASE Proceed(out, {}) /\ logon_sent' = (logon_sent \/ late)
  <2>1. srv' = srv
    BY <1>2 DEF Proceed, Follow
  <2>2. out \in Seq(Message)
    <3>1. Conclude(caps) \in Seq(Message) /\ LogonLines \in Seq(Message) /\ <<>> \in Seq(Message)
      BY LinesHarmless, HarmlessSeq
    <3> QED BY <3>1
  <2>3. Once(out, "NICK") /\ (~late => None(out, "NICK"))
    BY NoNickWords, NoneOnce
  <2>4. logon_sent \in BOOLEAN /\ mynick \in Nick
    BY HeadTrue
  <2>5. late => ~logon_sent /\ logon_sent'
    BY <1>2
  <2>6. ~late => logon_sent' = logon_sent
    BY <1>2, <2>4
  <2>7. mynick' = NickAfter(Head(s2c), mynick)
    BY DEF NickAfter, NickCmd
  <2> HIDE DEF late, out
  <2> QED BY <1>2, <2>1, <2>2, <2>3, <2>4, <2>5, <2>6, <2>7, ProceedNick
<1> QED BY <1>1, <1>2 DEF StarttlsOver

LEMMA ReadsNick ==
  ASSUME Inv, NickInv, Reads
  PROVE  NickInv'
<1>1. pc # "off" /\ s2c # <<>> /\ Handle(Head(s2c)) /\ Follow
  BY DEF Reads, Receive, Follow
<1>2. PICK m : m = Head(s2c)
  OBVIOUS
<1>3. m \in Message /\ CapsType(caps) /\ v3capreq \subseteq Cap /\ mynick \in Nick
  BY <1>1, <1>2, HeadTrue
<1>4. /\ <<>> \in Seq(Message) /\ None(<<>>, "NICK") /\ Once(<<>>, "NICK")
      /\ \A n \in Message : <<n>> \in Seq(Message)
  BY NoNickWords, SeqShort
<1>5. \A cmd \in {"PONG", "AUTHDATA", "CAP END", "STARTTLS"} :
        <<Msg(cmd)>> \in Seq(Message) /\ None(<<Msg(cmd)>>, "NICK")
  <2>1. \A cmd \in {"PONG", "AUTHDATA", "CAP END", "STARTTLS"} : cmd \in Cmd \ NickCmd
    BY DEF Cmd, NickCmd
  <2> QED BY <1>4, <2>1, MsgTypes, NoNickWords
<1>6. ASSUME NEW out \in Seq(Message), NEW flags, Reply(out, flags) \/ CantProceed,
             "LOGON_COMPLETE" \in flags => m.cmd = "004",
             None(out, "NICK"), m.cmd \notin NickCmd, mynick' = mynick
      PROVE  NickInv'
  BY <1>1, <1>2, <1>6, QuietNick
<1>23. ASSUME NEW out \in Seq(Message), Reply(out, {}) \/ CantProceed,
              None(out, "NICK"), m.cmd \notin NickCmd, mynick' = mynick
       PROVE  NickInv'
  <2>1. PICK flags : flags = {}
    OBVIOUS
  <2>2. Reply(out, flags) \/ CantProceed
    BY <1>23, <2>1, Zenon
  <2> QED BY <1>6, <1>23, <2>1, <2>2
<1>7. CASE m.cmd = "001" /\ handle_001(m)
  <2>1. CASE CantProceed
    BY <2>1, GoneNick DEF CantProceed, Hangup
  <2>2. CASE Logon /\ Reply(<<>>, {})
    <3>1. mynick' = NickAfter(m, mynick)
      BY <1>7, <2>2 DEF handle_001, NickAfter
    <3>2. mynick' \in Nick
      BY <1>3, <1>7, <2>2 DEF handle_001, Message, NickCmd
    <3> QED BY <1>1, <1>2, <1>4, <2>2, <3>1, <3>2, ReplyNick
  <2> QED BY <1>7, <2>1, <2>2 DEF handle_001
<1>8. CASE m.cmd = "004" /\ handle_004(m)
  <2>1. Reply(<<>>, {"LOGON_COMPLETE"}) \/ CantProceed
    BY <1>8 DEF handle_004
  <2> QED BY <1>4, <1>6, <1>8, <2>1 DEF handle_004, NickCmd
<1>9. CASE m.cmd = "PING" /\ handle_PING(m)
  <2>1. Reply(<<Msg("PONG")>>, {}) \/ Reply(<<>>, {})
    BY <1>9 DEF handle_PING
  <2> QED BY <1>4, <1>5, <1>6, <1>9, <2>1 DEF handle_PING, NickCmd
<1>10. CASE m.cmd = "433" /\ handle_bad_nick(m)
  <2>1. CASE ~Logon /\ Reply(<<>>, {})
    BY <1>4, <1>6, <1>10, <2>1 DEF handle_bad_nick, NickCmd
  <2>2. CASE CantProceed
    BY <2>2, GoneNick DEF CantProceed, Hangup
  <2>3. CASE Logon /\ mynick' # NoNick /\ Reply(<<NickMsg("NICK", mynick')>>, {})
    <3>1. PICK n \in Nick : n = mynick'
      BY <1>3, <1>10, <2>3, NickAssumption DEF handle_bad_nick
    <3>2. <<NickMsg("NICK", n)>> \in Seq(Message) /\ Once(<<NickMsg("NICK", n)>>, "NICK")
      <4>1. "NICK" \in NickCmd
        BY DEF NickCmd
      <4> QED BY <1>4, <4>1, MsgTypes, NoneShort
    <3>3. Reply(<<NickMsg("NICK", n)>>, {})
      BY <2>3, <3>1
    <3> QED BY <1>1, <1>2, <1>10, <2>3, <3>1, <3>2, <3>3, ReplyNick
  <2> QED BY <1>10, <2>1, <2>2, <2>3 DEF handle_bad_nick
<1>11. CASE m.cmd = "464" /\ handle_464(m)
  BY <1>11, GoneNick DEF handle_464, CantProceed, Hangup
<1>12. CASE m.cmd = "NICK" /\ handle_NICK(m)
  <2>1. mynick' = NickAfter(m, mynick)
    BY <1>12 DEF handle_NICK, NickAfter
  <2>2. mynick' \in Nick /\ Reply(<<>>, {})
    BY <1>3, <1>12 DEF handle_NICK, Message, NickCmd
  <2> QED BY <1>1, <1>2, <1>4, <2>1, <2>2, ReplyNick
<1>13. CASE m.cmd \in {"CAP LS", "CAP LS*"} /\ handle_CAP_LS(m)
  <2>1. CASE Reply(<<>>, {}) \/ CantProceed
    BY <1>4, <1>23, <1>13, <2>1 DEF handle_CAP_LS, NickCmd
  <2>2. CASE v3capreq' = Offered(caps') /\ Reply(Request(v3capreq'), {})
    <3>1. PICK S : S = Offered(caps')
      OBVIOUS
    <3>2. S \subseteq Cap
      BY <1>3, <1>13, <3>1 DEF handle_CAP_LS, SetOffered, Offered, CapsType
    <3>3. Request(S) \in Seq(Message)
      <4>1. "CAP REQ" \in Cmd \ NickCmd /\ "CAP END" \in Cmd \ NickCmd
        BY DEF Cmd, NickCmd
      <4>2. CapMsg("CAP REQ", S) \in Message /\ Msg("CAP END") \in Message
        BY <3>2, <4>1, MsgTypes
      <4> QED BY <1>4, <4>2 DEF Request
    <3>4. Reply(Request(S), {}) /\ mynick' = mynick
      BY <1>13, <2>2, <3>1 DEF handle_CAP_LS
    <3> QED BY <1>6, <1>13, <3>3, <3>4, NoNickWords DEF NickCmd
  <2> QED BY <1>13, <2>1, <2>2 DEF handle_CAP_LS
<1>14. CASE m.cmd = "CAP ACK" /\ handle_CAP_ACK(m)
  <2>1. \A cs : Conclude(cs) \in Seq(Message) /\ None(Conclude(cs), "NICK")
    BY LinesHarmless, HarmlessSeq, NoNickWords
  <2>2. \/ CantProceed
        \/ Reply(<<Msg("STARTTLS")>>, {})
        \/ Reply(Conclude(caps'), {})
    BY <1>14 DEF handle_CAP_ACK
  <2>3. m.cmd \notin NickCmd /\ mynick' = mynick
    BY <1>14 DEF handle_CAP_ACK, NickCmd
  <2>4. \E out \in Seq(Message) : None(out, "NICK") /\ (Reply(out, {}) \/ CantProceed)
    BY <1>4, <1>5, <2>1, <2>2
  <2> QED BY <1>23, <2>3, <2>4
<1>15. CASE m.cmd = "CAP NAK" /\ handle_CAP_NAK(m)
  BY <1>15, GoneNick DEF handle_CAP_NAK, CantProceed, Hangup
<1>16. CASE m.cmd = "AUTHENTICATE" /\ handle_AUTHENTICATE(m)
  <2>1. Reply(<<Msg("AUTHDATA")>>, {}) \/ Reply(<<>>, {})
    BY <1>16 DEF handle_AUTHENTICATE
  <2> QED BY <1>4, <1>5, <1>6, <1>16, <2>1 DEF handle_AUTHENTICATE, NickCmd
<1>17. CASE m.cmd = "903" /\ handle_903(m)
  <2>1. \/ Reply(<<Msg("CAP END")>>, {"SASL_COMPLETE"})
        \/ Reply(<<>>, {"SASL_COMPLETE"})
        \/ Reply(<<>>, {})
    BY <1>17 DEF handle_903
  <2> QED BY <1>4, <1>5, <1>6, <1>17, <2>1 DEF handle_903, NickCmd
<1>18. CASE m.cmd = "904" /\ handle_saslerr(m)
  <2>1. CantProceed \/ Reply(<<>>, {})
    BY <1>18 DEF handle_saslerr
  <2> QED BY <1>4, <1>23, <1>18, <2>1 DEF handle_saslerr, NickCmd
<1>19. CASE m.cmd = "691" /\ handle_691(m)
  <2>1. CantProceed \/ StarttlsOver(tls)
    BY <1>19 DEF handle_691
  <2>2. mynick' = mynick /\ Head(s2c).cmd \notin NickCmd
    BY <1>2, <1>19 DEF handle_691, NickCmd
  <2>3. CASE CantProceed
    BY <2>3, GoneNick DEF CantProceed, Hangup
  <2>4. CASE StarttlsOver(tls)
    BY <1>1, <2>2, <2>4, StarttlsNick
  <2> QED BY <2>1, <2>3, <2>4
<1>20. CASE m.cmd = "670" /\ handle_670(m)
  <2>1. CantProceed \/ StarttlsOver("yes")
    BY <1>20 DEF handle_670
  <2>2. mynick' = mynick /\ Head(s2c).cmd \notin NickCmd
    BY <1>2, <1>20 DEF handle_670, NickCmd
  <2>3. CASE CantProceed
    BY <2>3, GoneNick DEF CantProceed, Hangup
  <2>4. CASE StarttlsOver("yes")
    BY <1>1, <2>2, <2>4, StarttlsNick
  <2> QED BY <2>1, <2>3, <2>4
<1>21. CASE HandleCore(m)
  BY <1>7, <1>8, <1>9, <1>10, <1>11, <1>12, <1>21, Zenon DEF HandleCore
<1>22. CASE HandleV3(m)
  BY <1>13, <1>14, <1>15, <1>16, <1>17, <1>18, <1>19, <1>20, <1>22, Zenon DEF HandleV3
<1> QED BY <1>1, <1>2, <1>21, <1>22 DEF Handle

(* The server takes a message or not, and says what is not about nicknames. *)
LEMMA SrvQuiet ==
  ASSUME Inv, NickInv, pc # "off",
         UNCHANGED <<mynick, pc, logon_sent, logged_on>>,
         (c2s # <<>> /\ c2s' = Tail(c2s)) \/ c2s' = c2s,
         srv'.nick = srv.nick, srv'.reg = srv.reg,
         NEW ms \in Seq(Message), s2c' = s2c \o ms,
         None(ms, "001"), None(ms, "NICK"), None(ms, "004"), None(ms, "433"),
         \A n, z : Leads(s2c, n, z) => Leads(s2c', n, z)
  PROVE  NickInv'
<1>1. s2c \in Seq(Message) /\ c2s \in Seq(Message) /\ NickOnline
  BY TypeParts DEF Inv, ConnType, NickInv
<1>2. /\ Once(c2s, "NICK") => Once(c2s', "NICK")
      /\ None(c2s, "NICK") => None(c2s', "NICK")
  <2>1. CASE c2s # <<>> /\ c2s' = Tail(c2s)
    BY <1>1, <2>1, NoneTail, Zenon
  <2>2. CASE c2s' = c2s
    BY <2>2
  <2> QED BY <2>1, <2>2
<1>3. /\ \A cmd \in {"001", "NICK", "004", "433"} : None(s2c, cmd) => None(s2c', cmd)
      /\ Once(s2c, "433") => Once(s2c', "433")
  BY <1>1, NoneConcat
<1>4. OneNick => OneNick'
  BY <1>2, <1>3 DEF OneNick
<1>5. srv.reg => Leads(s2c', mynick', srv'.nick)
  BY <1>1 DEF NickOnline
<1>6. ~srv.reg => None(s2c', "001") /\ None(s2c', "NICK") /\ None(s2c', "004")
  BY <1>1, <1>3 DEF NickOnline
<1> QED BY <1>1, <1>4, <1>5, <1>6 DEF NickInv, NickOnline

(* A message about something else leads nowhere new.                        *)
LEMMA LeadsOn ==
  ASSUME NEW q \in Seq(Message), NEW m \in Message, m.cmd \notin NickCmd
  PROVE  \A n, z : Leads(q, n, z) => Leads(q \o <<m>>, n, z)
<1> SUFFICES ASSUME NEW n, NEW z, Leads(q, n, z) PROVE Leads(q \o <<m>>, n, z)
  OBVIOUS
<1>1. NickAfter(m, z) = z
  BY DEF NickAfter, NickCmd
<1> QED BY <1>1, LeadsAppend

LEMMA PairConcat ==
  ASSUME NEW a \in Message, NEW b \in Message
  PROVE  <<a>> \o <<b>> = <<a, b>>
<1>1. PICK p, r, w : p = <<a>> /\ r = <<b>> /\ w = <<a, b>>
  OBVIOUS
<1>2. /\ p \in Seq(Message) /\ r \in Seq(Message) /\ w \in Seq(Message)
      /\ Len(p) = 1 /\ Len(r) = 1 /\ Len(w) = 2
      /\ p[1] = a /\ r[1] = b /\ w[1] = a /\ w[2] = b
  BY <1>1
<1>3. p \o r \in Seq(Message) /\ Len(p \o r) = 2 /\ (p \o r)[1] = a /\ (p \o r)[2] = b
  <2>1. /\ p \o r \in Seq(Message) /\ Len(p \o r) = Len(p) + Len(r)
        /\ \A i \in 1..Len(p) + Len(r) :
             (p \o r)[i] = IF i <= Len(p) THEN p[i] ELSE r[i - Len(p)]
    BY <1>2, ConcatProperties
  <2>2. Len(p \o r) = 2 /\ 1 \in 1..Len(p) + Len(r) /\ 2 \in 1..Len(p) + Len(r) /\ 2 - Len(p) = 1
    BY <1>2, <2>1
  <2>3. (p \o r)[1] = p[1] /\ (p \o r)[2] = r[2 - Len(p)]
    BY <1>2, <2>1, <2>2
  <2> QED BY <1>2, <2>1, <2>2, <2>3
<1>4. p \o r = w
  <2>1. \A i \in 1..Len(p \o r) : (p \o r)[i] = w[i]
    <3>1. \A i \in 1..Len(p \o r) : i = 1 \/ i = 2
      BY <1>3
    <3> QED BY <1>2, <1>3, <3>1
  <2> QED BY <1>2, <1>3, <2>1, SeqEqual
<1> QED BY <1>1, <1>4, Zenon

(* It says nothing, one such thing, or two.                                 *)
LEMMA SrvQuietWords ==
  ASSUME Inv, NickInv, pc # "off",
         UNCHANGED <<mynick, pc, logon_sent, logged_on>>,
         (c2s # <<>> /\ c2s' = Tail(c2s)) \/ c2s' = c2s,
         srv'.nick = srv.nick, srv'.reg = srv.reg,
         \/ s2c' = s2c \o <<>>
         \/ \E m \in Message : /\ s2c' = s2c \o <<m>>
                               /\ m.cmd \notin {"001", "NICK", "004", "433"}
         \/ \E a, b \in Message : /\ s2c' = s2c \o <<a, b>>
                                  /\ a.cmd \notin {"001", "NICK", "004", "433"}
                                  /\ b.cmd \notin {"001", "NICK", "004", "433"}
  PROVE  NickInv'
<1>1. s2c \in Seq(Message)
  BY TypeParts DEF Inv, ConnType
<1>2. CASE s2c' = s2c \o <<>>
  <2>1. s2c' = s2c /\ <<>> \in Seq(Message)
    BY <1>1, <1>2
  <2>2. \A n, z : Leads(s2c, n, z) => Leads(s2c', n, z)
    BY <2>1
  <2> QED BY <1>2, <2>1, <2>2, NoneShort, SrvQuiet
<1>3. ASSUME NEW m \in Message, s2c' = s2c \o <<m>>, m.cmd \notin {"001", "NICK", "004", "433"}
      PROVE  NickInv'
  <2>1. \A n, z : Leads(s2c, n, z) => Leads(s2c', n, z)
    BY <1>1, <1>3, LeadsOn DEF NickCmd
  <2>2. <<m>> \in Seq(Message)
    OBVIOUS
  <2>3. None(<<m>>, "001") /\ None(<<m>>, "NICK") /\ None(<<m>>, "004") /\ None(<<m>>, "433")
    BY <1>3, NoneShort
  <2> QED BY <1>3, <2>1, <2>2, <2>3, SrvQuiet
<1>4. ASSUME NEW a \in Message, NEW b \in Message, s2c' = s2c \o <<a, b>>,
             a.cmd \notin {"001", "NICK", "004", "433"}, b.cmd \notin {"001", "NICK", "004", "433"}
      PROVE  NickInv'
  <2>1. s2c' = (s2c \o <<a>>) \o <<b>> /\ s2c \o <<a>> \in Seq(Message)
    <3>1. <<a>> \in Seq(Message) /\ <<b>> \in Seq(Message)
      BY SeqShort
    <3>2. <<a>> \o <<b>> = <<a, b>>
      BY <1>4, PairConcat
    <3>3. (s2c \o <<a>>) \o <<b>> = s2c \o (<<a>> \o <<b>>)
      BY <1>1, <3>1, ConcatAssociative
    <3>4. s2c \o <<a>> \in Seq(Message)
      BY <1>1, <3>1, SeqConcat
    <3> QED BY <1>4, <3>2, <3>3, <3>4
  <2>2. \A n, z : Leads(s2c, n, z) => Leads(s2c', n, z)
    BY <1>1, <1>4, <2>1, LeadsOn DEF NickCmd
  <2>3. <<a, b>> \in Seq(Message)
    OBVIOUS
  <2>4. /\ None(<<a, b>>, "001") /\ None(<<a, b>>, "NICK") /\ None(<<a, b>>, "004")
        /\ None(<<a, b>>, "433")
    BY <1>4, NoneShort
  <2> QED BY <1>4, <2>2, <2>3, <2>4, SrvQuiet
<1> QED BY <1>2, <1>3, <1>4

(* The server tells us of the nickname that it has given us.                *)
LEMMA RenamedFacts ==
  ASSUME srv \in Server, NEW n \in Nick
  PROVE  Renamed(n) \in Message /\ Renamed(n).cmd = "NICK" /\ NickAfter(Renamed(n), srv.nick) = n
<1>1. Renamed(n) = [cmd |-> "NICK", from |-> srv.nick, nick |-> n, caps |-> {}]
  <2>1. NickMsg("NICK", n) = [cmd |-> "NICK", from |-> NoNick, nick |-> n, caps |-> {}]
    BY DEF NickMsg, Msg
  <2> QED BY <2>1 DEF Renamed
<1>2. srv.nick \in Nick \cup {NoNick}
  BY DEF Server
<1>3. [cmd |-> "NICK", from |-> srv.nick, nick |-> n, caps |-> {}] \in Message
  BY <1>2 DEF Message, NickCmd
<1>4. srv.nick = Renamed(n).from /\ Renamed(n).cmd = "NICK" /\ Renamed(n).nick = n
  BY <1>1
<1>5. NickAfter(Renamed(n), srv.nick) = n
  BY <1>4 DEF NickAfter
<1> QED BY <1>1, <1>3, <1>4, <1>5

LEMMA ServeNick ==
  ASSUME Inv, NickInv, Serve
  PROVE  NickInv'
<1>1. pc # "off" /\ c2s # <<>>
  BY DEF Serve, Hears, SrvCapLs, SrvCapReq, SrvCapEnd, SrvNick, SrvUser, SrvStarttls,
         SrvAuthenticate, SrvAuthdata, SrvPong
<1>2. /\ srv \in Server /\ Head(c2s) \in Message /\ c2s \in Seq(Message) /\ s2c \in Seq(Message)
      /\ srv.supp \in SUBSET Cap /\ Head(c2s).caps \in SUBSET Cap
      /\ NickOnline
  <2>1. srv \in Server /\ c2s \in Seq(Message) /\ s2c \in Seq(Message) /\ NickOnline
    BY <1>1, TypeParts DEF Inv, ConnType, NickInv
  <2>2. Head(c2s) \in Message
    BY <1>1, <2>1, SeqTail
  <2> QED BY <2>1, <2>2 DEF Server, Message
<1>3. \A ms : Answer(ms) => /\ c2s' = Tail(c2s) /\ s2c' = s2c \o ms
                            /\ UNCHANGED <<mynick, pc, logon_sent, logged_on>>
  BY DEF Answer, progress
<1> DEFINE other == {"001", "NICK", "004", "433"}
<1>4. ASSUME srv'.nick = srv.nick, srv'.reg = srv.reg,
             \/ Answer(<<>>)
             \/ \E m \in Message : Answer(<<m>>) /\ m.cmd \notin other
             \/ \E a, b \in Message :
                  Answer(<<a, b>>) /\ a.cmd \notin other /\ b.cmd \notin other
      PROVE  NickInv'
  BY <1>1, <1>3, <1>4, SrvQuietWords
<1>5. /\ \A cmd \in {"670", "691", "AUTHENTICATE", "904", "903"} :
           Msg(cmd) \in Message /\ Msg(cmd).cmd \notin other
      /\ \A cmd \in {"CAP LS", "CAP LS*", "CAP ACK", "CAP NAK"}, S \in SUBSET Cap :
           CapMsg(cmd, S) \in Message /\ CapMsg(cmd, S).cmd \notin other
  <2>1. \A cmd \in {"670", "691", "AUTHENTICATE", "904", "903", "CAP LS", "CAP LS*", "CAP ACK",
                    "CAP NAK"} : cmd \in Cmd \ NickCmd /\ cmd \notin other
    BY DEF Cmd, NickCmd
  <2> QED BY <2>1, MsgTypes
<1> HIDE DEF other
<1>6. CASE SrvCapLs
  <2>1. srv'.nick = srv.nick /\ srv'.reg = srv.reg
    BY <1>2, <1>6 DEF SrvCapLs, Server
  <2>2. CASE Answer(<<>>)
    BY <1>4, <2>1, <2>2
  <2>3. CASE Answer(<<CapMsg("CAP LS", srv.supp)>>)
    BY <1>2, <1>4, <1>5, <2>1, <2>3
  <2>4. ASSUME NEW S \in SUBSET srv.supp,
               Answer(<<CapMsg("CAP LS*", S), CapMsg("CAP LS", srv.supp \ S)>>)
        PROVE  NickInv'
    <3>1. PICK a \in Message, b \in Message :
            /\ a = CapMsg("CAP LS*", S) /\ b = CapMsg("CAP LS", srv.supp \ S)
            /\ a.cmd \notin other /\ b.cmd \notin other
      BY <1>2, <1>5
    <3>2. Answer(<<a, b>>)
      BY <2>4, <3>1
    <3> QED BY <1>4, <2>1, <3>1, <3>2
  <2> QED BY <1>6, <2>2, <2>3, <2>4 DEF SrvCapLs
<1>7. CASE SrvCapReq
  <2>1. srv'.nick = srv.nick /\ srv'.reg = srv.reg
    BY <1>2, <1>7 DEF SrvCapReq, Server
  <2>2. \/ Answer(<<CapMsg("CAP ACK", Head(c2s).caps)>>)
        \/ Answer(<<CapMsg("CAP NAK", Head(c2s).caps)>>)
    BY <1>7 DEF SrvCapReq
  <2> QED BY <1>2, <1>4, <1>5, <2>1, <2>2
<1>8. CASE SrvCapEnd
  <2>1. srv'.nick = srv.nick /\ srv'.reg = srv.reg /\ Answer(<<>>)
    BY <1>2, <1>8 DEF SrvCapEnd, Server
  <2> QED BY <1>4, <2>1
<1>9. CASE SrvUser
  <2>1. srv'.nick = srv.nick /\ srv'.reg = srv.reg /\ Answer(<<>>)
    BY <1>2, <1>9 DEF SrvUser, Server
  <2> QED BY <1>4, <2>1
<1>10. CASE SrvPong
  <2>1. srv'.nick = srv.nick /\ srv'.reg = srv.reg /\ Answer(<<>>)
    BY <1>2, <1>10 DEF SrvPong, Server
  <2> QED BY <1>4, <2>1
<1>11. CASE SrvStarttls
  <2>1. srv' = srv /\ (Answer(<<Msg("670")>>) \/ Answer(<<Msg("691")>>))
    BY <1>11 DEF SrvStarttls
  <2> QED BY <1>4, <1>5, <2>1
<1>12. CASE SrvAuthenticate
  <2>1. srv' = srv /\ (Answer(<<Msg("AUTHENTICATE")>>) \/ Answer(<<Msg("904")>>))
    BY <1>12 DEF SrvAuthenticate
  <2> QED BY <1>4, <1>5, <2>1
<1>13. CASE SrvAuthdata
  <2>1. srv'.nick = srv.nick /\ srv'.reg = srv.reg
    BY <1>2, <1>13 DEF SrvAuthdata, Server
  <2>2. Answer(<<Msg("903")>>) \/ Answer(<<Msg("904")>>)
    BY <1>13 DEF SrvAuthdata
  <2> QED BY <1>4, <1>5, <2>1, <2>2
<1>14. CASE SrvNick
  <2>1. Head(c2s).cmd = "NICK"
    BY <1>14 DEF SrvNick, Hears
  <2>2. /\ ~None(c2s, "NICK")
        /\ Once(c2s, "NICK") => None(Tail(c2s), "NICK")
    BY <1>1, <1>2, <2>1, NoneTail
  <2>3. CASE Answer(<<Msg("433")>>) /\ UNCHANGED srv
    <3>1. Msg("433") \in Message /\ Msg("433").cmd = "433"
      BY MsgTypes DEF Cmd, NickCmd
    <3>2. PICK m \in Message : m = Msg("433") /\ m.cmd = "433"
      BY <3>1
    <3>3. /\ c2s' = Tail(c2s) /\ s2c' = s2c \o <<m>>
          /\ UNCHANGED <<mynick, pc, logon_sent, logged_on, srv>>
      BY <1>3, <2>3, <3>2
    <3>4. <<m>> \in Seq(Message) /\ \A n, z : Leads(s2c, n, z) => Leads(s2c', n, z)
      BY <1>2, <3>2, <3>3, LeadsOn, SeqShort DEF NickCmd
    <3>5. ASSUME pc = "logon" PROVE OneNick'
      <4>1. OneNick /\ None(s2c, "433") /\ srv.nick = NoNick /\ logon_sent
        BY <1>2, <2>2, <3>5 DEF NickOnline, OneNick
      <4>2. Once(s2c', "433") /\ Once(c2s', "NICK") /\ None(c2s', "NICK")
        BY <1>2, <2>2, <3>3, <3>4, <4>1, NoneConcat, NoneShort, NoneOnce DEF OneNick
      <4> QED BY <3>3, <4>1, <4>2 DEF OneNick
    <3>6. \A cmd \in {"001", "NICK", "004"} : None(s2c, cmd) => None(s2c', cmd)
      <4>1. \A cmd \in {"001", "NICK", "004"} : None(<<m>>, cmd)
        BY <3>2, NoneShort
      <4> QED BY <1>2, <3>3, <3>4, <4>1, NoneConcat
    <3>7. NickOnline'
      BY <1>2, <3>3, <3>4, <3>5, <3>6 DEF NickOnline
    <3> QED BY <3>7 DEF NickInv
  <2>4. ASSUME NEW n \in Nick, srv' = [srv EXCEPT !.nick = n],
               Answer(IF srv.reg THEN <<Renamed(n)>> ELSE <<>>)
        PROVE  NickInv'
    <3>1. /\ c2s' = Tail(c2s) /\ s2c' = s2c \o (IF srv.reg THEN <<Renamed(n)>> ELSE <<>>)
          /\ UNCHANGED <<mynick, pc, logon_sent, logged_on>>
      <4>1. PICK ms : ms = IF srv.reg THEN <<Renamed(n)>> ELSE <<>>
        OBVIOUS
      <4>2. Answer(ms)
        BY <2>4, <4>1
      <4>3. /\ c2s' = Tail(c2s) /\ s2c' = s2c \o ms
            /\ UNCHANGED <<mynick, pc, logon_sent, logged_on>>
        BY <1>3, <4>2
      <4> QED BY <4>1, <4>3
    <3>2. srv'.nick = n /\ srv'.reg = srv.reg /\ n # NoNick
      BY <1>2, <2>4, NickAssumption DEF Server
    <3>3. CASE srv.reg
      <4>1. PICK m \in Message : m = Renamed(n) /\ NickAfter(m, srv.nick) = n
        BY <1>2, RenamedFacts
      <4>2. s2c' = s2c \o <<m>>
        BY <3>1, <3>3, <4>1
      <4>3. Leads(s2c', mynick, n)
        BY <1>2, <3>3, <4>1, <4>2, LeadsAppend DEF NickOnline
      <4>4. pc # "logon"
        BY <1>2, <2>2, <3>3 DEF NickOnline, OneNick
      <4> QED BY <3>1, <3>2, <3>3, <4>3, <4>4 DEF NickInv, NickOnline
    <3>4. CASE ~srv.reg
      <4>1. s2c' = s2c
        BY <1>2, <3>1, <3>4, ConcatEmptySeq
      <4>2. ASSUME pc = "logon" PROVE OneNick'
        <5>1. OneNick /\ None(s2c, "433") /\ logon_sent /\ None(c2s', "NICK") /\ Once(c2s', "NICK")
          BY <1>2, <2>2, <3>1, <4>2, NoneOnce DEF NickOnline, OneNick
        <5> QED BY <3>1, <3>2, <4>1, <5>1 DEF OneNick
      <4>3. NickOnline'
        BY <1>2, <3>1, <3>2, <3>4, <4>1, <4>2 DEF NickOnline
      <4> QED BY <4>3 DEF NickInv
    <3> QED BY <3>3, <3>4
  <2> QED BY <1>14, <2>3, <2>4 DEF SrvNick
<1> QED
  BY <1>6, <1>7, <1>8, <1>9, <1>10, <1>11, <1>12, <1>13, <1>14, Zenon DEF Serve

LEMMA SaysNick ==
  ASSUME Inv, NickInv,
         \/ Welcome
         \/ Reject
         \/ SrvPing
         \/ \E n \in Nick : SrvRename(n)
  PROVE  NickInv'
<1>1. pc # "off"
  BY DEF Welcome, Reject, SrvPing, SrvRename, Says
<1>2. srv \in Server /\ s2c \in Seq(Message) /\ NickOnline /\ mynick \in Nick
  BY <1>1, TypeParts DEF Inv, ConnType, ClientType, NickInv
<1>3. \A ms : Says(ms) => /\ s2c' = s2c \o ms
                          /\ UNCHANGED <<mynick, pc, logon_sent, logged_on, c2s>>
  BY DEF Says, progress
<1>4. CASE Welcome
  <2>1. /\ ~srv.reg /\ srv.nick # NoNick /\ srv' = [srv EXCEPT !.reg = TRUE]
        /\ Says(<<NickMsg("001", srv.nick), Msg("004")>>)
    BY <1>4 DEF Welcome
  <2>2. srv.nick \in Nick /\ srv'.nick = srv.nick /\ srv'.reg
    BY <1>2, <2>1 DEF Server
  <2>3. PICK a \in Message, b \in Message :
          /\ a = NickMsg("001", srv.nick) /\ b = Msg("004") /\ a.cmd = "001" /\ b.cmd = "004"
    <3>1. "001" \in NickCmd /\ "004" \in Cmd \ NickCmd
      BY DEF Cmd, NickCmd
    <3>2. NickMsg("001", srv.nick) \in Message /\ NickMsg("001", srv.nick).cmd = "001"
      BY <2>2, <3>1, MsgTypes
    <3>3. Msg("004") \in Message /\ Msg("004").cmd = "004"
      BY <3>1, MsgTypes
    <3> QED BY <3>2, <3>3
  <2>4. a.nick = srv.nick
    BY <2>3 DEF NickMsg, Msg
  <2>5. /\ s2c' = s2c \o <<a, b>>
        /\ UNCHANGED <<mynick, pc, logon_sent, logged_on, c2s>>
    BY <1>3, <2>1, <2>3
  <2>6. Leads(s2c', mynick, srv.nick)
    <3>1. Leads(s2c, mynick, mynick)
      BY <1>2, <2>1, LeadsNowhere DEF NickOnline
    <3>2. Leads(s2c \o <<a>>, mynick, srv.nick)
      <4>1. NickAfter(a, mynick) = srv.nick
        BY <2>3, <2>4 DEF NickAfter
      <4> QED BY <1>2, <3>1, <4>1, LeadsAppend
    <3>3. s2c \o <<a>> \in Seq(Message)
      BY <1>2, SeqShort, SeqConcat
    <3>4. Leads((s2c \o <<a>>) \o <<b>>, mynick, srv.nick)
      BY <2>3, <3>2, <3>3, LeadsOn DEF NickCmd
    <3>5. (s2c \o <<a>>) \o <<b>> = s2c \o (<<a>> \o <<b>>)
      BY <1>2, SeqShort, ConcatAssociative
    <3> QED BY <2>5, <3>4, <3>5, PairConcat
  <2>7. None(s2c, "433") /\ Once(s2c, "433") => None(s2c', "433") /\ Once(s2c', "433")
    <3>1. <<a, b>> \in Seq(Message) /\ None(<<a, b>>, "433")
      BY <2>3, NoneShort
    <3> QED BY <1>2, <2>5, <3>1, NoneConcat
  <2>8. pc = "logon" => OneNick'
    BY <1>2, <2>1, <2>2, <2>5, <2>7 DEF NickOnline, OneNick
  <2> QED BY <2>1, <2>2, <2>5, <2>6, <2>8 DEF NickInv, NickOnline
<1>5. ASSUME srv'.nick = srv.nick, srv'.reg = srv.reg,
             NEW cmd \in {"464", "PING"}, Says(<<Msg(cmd)>>)
      PROVE  NickInv'
  <2>1. cmd \in Cmd \ NickCmd /\ cmd \notin {"001", "NICK", "004", "433"}
    BY <1>5 DEF Cmd, NickCmd
  <2>2. Msg(cmd) \in Message /\ Msg(cmd).cmd \notin {"001", "NICK", "004", "433"}
    BY <2>1, MsgTypes
  <2> QED BY <1>1, <1>3, <1>5, <2>2, SrvQuietWords
<1>6. CASE Reject
  BY <1>5, <1>6 DEF Reject
<1>7. CASE SrvPing
  <2>1. srv'.nick = srv.nick /\ srv'.reg = srv.reg /\ Says(<<Msg("PING")>>)
    BY <1>2, <1>7 DEF SrvPing, Server
  <2> QED BY <1>5, <2>1
<1>8. ASSUME NEW n \in Nick, SrvRename(n) PROVE NickInv'
  <2>1. srv.reg /\ srv' = [srv EXCEPT !.nick = n] /\ Says(<<Renamed(n)>>)
    BY <1>8 DEF SrvRename
  <2>2. srv'.nick = n /\ srv'.reg /\ n # NoNick
    BY <1>2, <2>1, NickAssumption DEF Server
  <2>3. PICK m \in Message : m = Renamed(n) /\ m.cmd = "NICK" /\ NickAfter(m, srv.nick) = n
    BY <1>2, RenamedFacts
  <2>4. s2c' = s2c \o <<m>> /\ UNCHANGED <<mynick, pc, logon_sent, logged_on, c2s>>
    BY <1>3, <2>1, <2>3
  <2>5. Leads(s2c', mynick, n)
    BY <1>2, <2>1, <2>3, <2>4, LeadsAppend DEF NickOnline
  <2>6. None(s2c, "433") /\ Once(s2c, "433") => None(s2c', "433") /\ Once(s2c', "433")
    BY <1>2, <2>3, <2>4, SeqShort, NoneShort, NoneConcat
  <2>7. pc = "logon" => OneNick'
    BY <1>2, <2>1, <2>2, <2>4, <2>6 DEF NickOnline, OneNick
  <2> QED BY <2>2, <2>4, <2>5, <2>7 DEF NickInv, NickOnline
<1> QED BY <1>4, <1>6, <1>7, <1>8

LEMMA ApplicationNick ==
  ASSUME Inv, NickInv, Application
  PROVE  NickInv'
<1>1. CASE pc' = "off"
  BY <1>1, GoneNick
<1>2. CASE pc = "on" /\ UNCHANGED <<mynick, pc, logged_on, s2c, srv>>
  BY <1>2 DEF NickInv, NickOnline
<1>3. CASE Connects /\ pc' = "logon"
  <2>1. /\ logon_sent' = ~starttls_first /\ logged_on' = FALSE
        /\ c2s' = IF starttls_first THEN <<Msg("STARTTLS")>> ELSE LogonLines
        /\ s2c' = <<>> /\ srv' \in Fresh
    BY <1>3 DEF Connects, irc_connect
  <2>2. srv'.nick = NoNick /\ ~srv'.reg
    BY <2>1 DEF Fresh
  <2>3. /\ Once(c2s', "NICK") /\ (~logon_sent' => None(c2s', "NICK"))
        /\ None(s2c', "433") /\ Once(s2c', "433")
    <3>1. None(<<Msg("STARTTLS")>>, "NICK") /\ Once(<<Msg("STARTTLS")>>, "NICK")
      BY NoNickWords DEF Cmd, NickCmd
    <3> QED BY <2>1, <3>1, NoNickWords, NoneShort
  <2>4. OneNick'
    BY <2>2, <2>3 DEF OneNick
  <2>5. NickOnline'
    BY <2>1, <2>2, <2>4, NoneShort DEF NickOnline
  <2> QED BY <2>5 DEF NickInv
<1>4. ASSUME NEW mode \in SaslModes, irc_set_sasl(mode = "must") PROVE pc' = "off"
  BY <1>4 DEF irc_set_sasl
<1>5. ASSUME NEW mode \in TlsModes, NEW must \in BOOLEAN, irc_set_starttls(mode, must)
      PROVE  pc' = "off"
  BY <1>5 DEF irc_set_starttls
<1>6. ASSUME NEW on \in BOOLEAN, irc_set_ssl(on) PROVE pc' = "off"
  BY <1>6 DEF irc_set_ssl
<1>7. ASSUME NEW n \in Nick, irc_write(n), UNCHANGED srv
      PROVE  pc = "on" /\ UNCHANGED <<mynick, pc, logged_on, s2c, srv>>
  BY <1>7 DEF irc_write, progress
<1>8. Connects => pc' = "off" \/ pc' = "logon"
  BY DEF Connects, irc_connect
<1> QED BY <1>1, <1>2, <1>3, <1>4, <1>5, <1>6, <1>7, <1>8 DEF Application

LEMMA NextNick ==
  ASSUME Inv, NickInv, [Next]_allvars
  PROVE  NickInv'
<1>1. CASE Lost
  BY <1>1, GoneNick DEF Lost, Hangup
<1>2. CASE UNCHANGED allvars
  BY <1>2 DEF NickInv, NickOnline, OneNick, Leads, None, Once, allvars, vars, progress, wire
<1> QED
  BY <1>1, <1>2, ApplicationNick, ReadsNick, ServeNick, SaysNick DEF Next

(* Once we have read all there is, irc_mynick is what the server calls us,  *)
(* whatever names were refused, cut short or changed on the way             *)
(* (handle_001, handle_bad_nick, handle_NICK).                              *)
THEOREM NickCorrect == Spec => []NickAgrees
<1>1. ServerInit => NickInv
  BY DEF ServerInit, Init, NickInv
<1>2. Inv /\ NickInv /\ [Next]_allvars => NickInv'
  BY NextNick
<1>3. Inv /\ NickInv => NickAgrees
  <2> SUFFICES ASSUME Inv, NickInv, pc = "on", s2c = <<>> PROVE mynick = srv.nick
    BY DEF NickAgrees
  <2>1. logged_on /\ NickOnline
    BY DEF Inv, OnlineInv, NickInv
  <2>2. Leads(<<>>, mynick, srv.nick)
    <3>1. srv.reg
      BY <2>1 DEF NickOnline
    <3> QED BY <2>1, <3>1 DEF NickOnline
  <2> QED BY <2>2, LeadsEmpty
<1> QED BY <1>1, <1>2, <1>3, InvCorrect, PTL DEF Spec

=============================================================================
