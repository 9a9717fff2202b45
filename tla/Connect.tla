------------------------------ MODULE Connect ------------------------------
(***************************************************************************)
(* Getting a connection: lsi_conn_connect and lsi_conn_reset (conn.c),       *)
(* lsi_com_consocket, which tries the addresses of a host one after the     *)
(* other (common.c), the negotiation with a proxy (px.c), and the wrappers  *)
(* of the system calls they make (platform/base_net.c), with the process's  *)
(* table of descriptors, the clock, and a network and a proxy that do as    *)
(* they please.                                                             *)
(*                                                                          *)
(* Times are counted down.  Time passes only where the code waits: in the   *)
(* resolver, in select(2), in a blocking TLS handshake; everything else is  *)
(* instantaneous, and select(2) returns as soon as its timeout is up.       *)
(***************************************************************************)
EXTENDS Integers, FiniteSets

CONSTANTS
  Confs,      \* settings: records of proxy, ssl, soft and hard timeout, laddr
  MaxFd,      \* bound: descriptors of the process
  MaxAddr,    \* bound: addresses of a host
  HttpBuf,    \* the size of the buffer for an HTTP proxy's answer
  HttpLens,   \* bound: lengths of such answers
  Socks4Len,  \* the length of a SOCKS4 answer: 8
  GreetLen,   \* of the answer to a SOCKS5 greeting: 2
  HeadLen,    \* of the fixed part of the answer to a SOCKS5 request: 4
  AddrLens,   \* of the address that follows, by its type, with the port: 6,
              \* 18, or for a name 3 and the value of its first byte
  RespBuf     \* the size of the buffer for a SOCKS5 proxy's answers: 128

ASSUME ConnectAssumption ==
  /\ \A k \in Confs :
       k \in [px : {"none", "http", "socks4", "socks5"}, ssl : BOOLEAN,
              soft : Nat, hard : Nat, laddr : BOOLEAN]
  /\ MaxFd \in Nat /\ MaxAddr \in Nat
  /\ {HttpBuf, Socks4Len, GreetLen, HeadLen, RespBuf} \subseteq Nat \ {0}
  /\ HttpLens \subseteq Nat \ {0} /\ AddrLens \subseteq Nat \ {0}

VARIABLES
  conf,     \* the settings
  fds,      \* the open descriptors and whose they are
  sck,      \* ctx->sh.sck
  shnd,     \* ctx->sh.shnd is a TLS handle
  online,   \* ctx->online
  pc,       \* where lsi_conn_connect is
  hardleft, \* time left until the hard timeout, -1 without one
  soft,     \* softto, perhaps stretched
  selto,    \* time left in select(2), -1 for no timeout
  left,     \* addresses not tried
  cur,      \* tryhost's socket, -1 for none
  c,        \* bytes read of the part of the proxy's answer it is in
  need,     \* the length of that part
  rem,      \* bytes of the proxy's answer not read
  rx,       \* bytes that have arrived and are not read
  grant,    \* the proxy lets us through
  (* history *)
  torn,     \* part of an answer was stored where nobody looks for it
  phantom,  \* the loop over the addresses ended with the hard timeout
  slow,     \* the resolver took its time
  late,     \* where time has passed after the hard timeout
  count     \* how many addresses it found

timers == <<hardleft, soft, selto>>
proxy  == <<c, need, rem, rx, grant>>
past   == <<torn, phantom, slow, late, count>>
vars   == <<conf, fds, sck, shnd, online, pc, timers, left, cur, proxy, past>>

Fd == 0..MaxFd

Pc == {"out", "resolve", "next", "select", "proxy", "http", "socks4",
       "greet", "head", "addr", "tls", "exit"}

(* Where an answer of the proxy is read.                                    *)
Reading == {"http", "socks4", "greet", "head", "addr"}

DescriptorsOK ==
  /\ DOMAIN fds \subseteq Fd /\ \A d \in DOMAIN fds : fds[d] \in {"app", "lib"}
  /\ sck \in Fd \cup {-1} /\ cur \in Fd \cup {-1}

TimersOK ==
  /\ hardleft \in Int /\ hardleft >= -1 /\ soft \in Nat
  /\ selto \in Int /\ selto >= -1 /\ late \subseteq Pc

CountsOK ==
  /\ left \in Nat /\ count \in Nat
  /\ c \in Nat /\ need \in Nat /\ rem \in Int /\ rx \in Nat

FlagsOK ==
  /\ shnd \in BOOLEAN /\ online \in BOOLEAN /\ grant \in BOOLEAN
  /\ torn \in BOOLEAN /\ phantom \in BOOLEAN /\ slow \in BOOLEAN

ConnectTypeOK ==
  /\ conf \in Confs /\ pc \in Pc
  /\ DescriptorsOK /\ TimersOK /\ CountsOK /\ FlagsOK

(* A process with a standard input, or a daemon without.                    *)
Init ==
  /\ conf \in Confs
  /\ fds \in {[d \in {} |-> "app"], [d \in {0} |-> "app"]}
  /\ sck = -1 /\ shnd = FALSE /\ online = FALSE
  /\ pc = "out" /\ hardleft = -1 /\ soft = 0 /\ selto = -1
  /\ left = 0 /\ cur = -1
  /\ c = 0 /\ need = 0 /\ rem = 0 /\ rx = 0 /\ grant = FALSE
  /\ torn = FALSE /\ phantom = FALSE /\ slow = FALSE /\ late = {} /\ count = 0

-----------------------------------------------------------------------------
(* The process's descriptors *)

Free == Fd \ DOMAIN fds

(* A new descriptor is the lowest that is free.                             *)
Lowest == CHOOSE d \in Free : \A e \in Free : d <= e

Opened(who) == [d \in DOMAIN fds \cup {Lowest} |-> IF d = Lowest THEN who ELSE fds[d]]

(* close(2) of one that is not open does nothing.                           *)
Without(d) == [e \in DOMAIN fds \ {d} |-> fds[e]]

AppOpens ==
  /\ pc = "out" /\ Cardinality(Free) > 1
  /\ fds' = Opened("app")
  /\ UNCHANGED <<conf, sck, shnd, online, pc, timers, left, cur, proxy, past>>

AppCloses(d) ==
  /\ pc = "out" /\ d \in DOMAIN fds /\ fds[d] = "app"
  /\ fds' = Without(d)
  /\ UNCHANGED <<conf, sck, shnd, online, pc, timers, left, cur, proxy, past>>

(* irc_set_px, irc_set_ssl, irc_set_connect_timeout, irc_set_localaddr.      *)
Configure(k) ==
  /\ pc = "out" /\ ~online
  /\ conf' = k /\ hardleft' = -1 /\ late' = {}
  /\ UNCHANGED <<fds, sck, shnd, online, pc, soft, selto, left, cur, proxy,
                 torn, phantom, slow, count>>

-----------------------------------------------------------------------------
(* The clock *)

Less(t) == IF t > 0 THEN t - 1 ELSE t

Waiting ==
  \/ pc \in {"resolve", "tls"}
  \/ pc = "select" /\ selto # 0
  \/ pc \in Reading /\ rx = 0 /\ hardleft # 0

Tick ==
  /\ Waiting
  /\ hardleft' = Less(hardleft) /\ selto' = Less(selto)
  /\ slow' = (slow \/ pc = "resolve")
  /\ late' = IF hardleft = 0 THEN late \cup {pc} ELSE late
  /\ UNCHANGED <<conf, fds, sck, shnd, online, pc, soft, left, cur, proxy,
                 torn, phantom, count>>

-----------------------------------------------------------------------------
(* lsi_com_consocket *)

(* lsi_conn_connect gives up; what it has opened is closed.                 *)
GiveUp(d) ==
  /\ fds' = Without(d) /\ cur' = -1
  /\ sck' = -1 /\ pc' = "out" /\ selto' = -1 /\ left' = 0
  /\ UNCHANGED <<conf, online, hardleft, soft, proxy, torn, slow, late, count>>

Connect ==
  /\ pc = "out" /\ ~online
  /\ pc' = "resolve"
  /\ hardleft' = IF conf.hard > 0 THEN conf.hard ELSE -1
  /\ c' = 0 /\ need' = 0 /\ rem' = 0 /\ rx' = 0 /\ grant' = FALSE
  /\ torn' = FALSE /\ phantom' = FALSE /\ slow' = FALSE /\ late' = {}
  /\ UNCHANGED <<conf, fds, sck, shnd, online, soft, selto, left, cur, count>>

(* lsi_b_mkaddrlist found n addresses.  The soft timeout is stretched.      *)
Stretched_Up(n) ==   \* faulty: rounded up
  IF conf.soft > 0 /\ conf.hard > 0 /\ conf.soft * n < conf.hard
  THEN (conf.hard + n - 1) \div n
  ELSE conf.soft

Stretched(n) ==
  IF conf.soft > 0 /\ conf.hard > 0 /\ conf.soft * n < conf.hard
  THEN conf.hard \div n
  ELSE conf.soft

Resolved(n) ==
  /\ pc = "resolve" /\ n > 0
  /\ pc' = "next" /\ left' = n /\ count' = n
  /\ soft' = Stretched(n)
  /\ UNCHANGED <<conf, fds, sck, shnd, online, hardleft, selto, cur, proxy,
                 torn, phantom, slow, late>>

(* It found none, or the last one has failed: consocket returns -1, and     *)
(* nothing of ctx has changed.                                              *)
NoAddress ==
  /\ pc = "resolve" \/ (pc = "next" /\ left = 0)
  /\ pc' = "out"
  /\ UNCHANGED <<conf, fds, sck, shnd, online, timers, left, cur, proxy, past>>

(* There is a TCP connection, or so it seems.                               *)
HaveSocket_StaleHandle(d) ==   \* faulty: a TLS handle left behind stays
  /\ sck' = d /\ shnd' = shnd /\ cur' = -1
  /\ selto' = -1 /\ left' = 0
  /\ pc' = IF conf.px # "none" THEN "proxy" ELSE IF conf.ssl THEN "tls" ELSE "out"
  /\ online' = (conf.px = "none" /\ ~conf.ssl)
  /\ UNCHANGED <<conf, hardleft, soft, proxy, torn, slow, late, count>>

HaveSocket(d) ==
  /\ sck' = d /\ shnd' = FALSE /\ cur' = -1
  /\ selto' = -1 /\ left' = 0
  /\ pc' = IF conf.px # "none" THEN "proxy" ELSE IF conf.ssl THEN "tls" ELSE "out"
  /\ online' = (conf.px = "none" /\ ~conf.ssl)
  /\ UNCHANGED <<conf, hardleft, soft, proxy, torn, slow, late, count>>

(* The hard timeout is up: consocket returns false, which is 0, which       *)
(* lsi_conn_connect takes for a descriptor.                                 *)
HardTimeout ==
  /\ pc = "next" /\ left > 0 /\ hardleft = 0
  /\ phantom' = TRUE
  /\ HaveSocket(0) /\ UNCHANGED fds

(* tryhost: there is no descriptor left, or the address cannot be used, or  *)
(* the connection is refused at once.                                       *)
TryFails ==
  /\ pc = "next" /\ left > 0 /\ hardleft # 0
  /\ left' = left - 1
  /\ UNCHANGED <<conf, fds, sck, shnd, online, pc, timers, cur, proxy, past>>

(* The local address cannot be bound: C() ends the process.                 *)
BindFails ==
  /\ pc = "next" /\ left > 0 /\ hardleft # 0 /\ Free # {} /\ conf.laddr
  /\ pc' = "exit"
  /\ UNCHANGED <<conf, fds, sck, shnd, online, timers, left, cur, proxy, past>>

TryConnects ==
  /\ pc = "next" /\ left > 0 /\ hardleft # 0 /\ Free # {}
  /\ fds' = Opened("lib")
  /\ HaveSocket(Lowest) /\ UNCHANGED phantom

(* It is in progress.  The time to wait for it is the lesser of what is     *)
(* left of the hard timeout and the soft one; no hard timeout is a 0 here,  *)
(* and a 0 is no timeout for select(2).                                     *)
TimeToTry_Soft ==   \* faulty: the soft timeout only
  IF soft = 0 THEN -1 ELSE soft

TimeToTry ==
  LET trem == IF hardleft = -1 THEN 0 ELSE hardleft
      t    == IF trem > soft THEN soft ELSE trem
  IN  IF t = 0 THEN -1 ELSE t

TryWaits ==
  /\ pc = "next" /\ left > 0 /\ hardleft # 0 /\ Free # {}
  /\ fds' = Opened("lib") /\ cur' = Lowest
  /\ left' = left - 1
  /\ selto' = TimeToTry
  /\ pc' = "select"
  /\ UNCHANGED <<conf, sck, shnd, online, hardleft, soft, proxy, past>>

(* lsi_b_sock_ok: it is connected.                                          *)
Answered ==
  /\ pc = "select"
  /\ HaveSocket(cur) /\ UNCHANGED <<fds, phantom>>

(* It is not, or the timeout is up: on to the next address.                 *)
Unanswered_Keeps ==   \* faulty: the socket is not closed
  /\ pc = "select"
  /\ cur' = -1
  /\ selto' = -1 /\ pc' = "next"
  /\ UNCHANGED <<conf, fds, sck, shnd, online, hardleft, soft, left, proxy, past>>

Unanswered ==
  /\ pc = "select"
  /\ fds' = Without(cur) /\ cur' = -1
  /\ selto' = -1 /\ pc' = "next"
  /\ UNCHANGED <<conf, sck, shnd, online, hardleft, soft, left, proxy, past>>

-----------------------------------------------------------------------------
(* px.c *)

(* The request is written, and the proxy has an answer of n bytes, the      *)
(* first l of which are read in one loop.                                   *)
Asked(phase, n, l) ==
  /\ pc' = phase
  /\ rem' = rem + n /\ need' = l /\ c' = 0
  /\ grant' \in BOOLEAN
  /\ UNCHANGED <<conf, fds, sck, shnd, online, timers, left, cur, rx, past>>

ProxyStarts ==
  /\ pc = "proxy" /\ hardleft # 0
  /\ \/ /\ conf.px = "http"
        /\ \E n \in HttpLens : Asked("http", n, IF n < HttpBuf THEN n ELSE HttpBuf)
     \/ conf.px = "socks4" /\ Asked("socks4", Socks4Len, Socks4Len)
     \/ conf.px = "socks5" /\ Asked("greet", GreetLen, GreetLen)

(* lsi_conn_connect finds the hard timeout exceeded, the request cannot be  *)
(* written, or the proxy closes the connection.                             *)
ProxyFails ==
  /\ pc \in {"proxy"} \cup Reading
  /\ GiveUp(sck) /\ UNCHANGED <<shnd, phantom>>

(* Bytes arrive: those of the answer, and then, if we are let through, what *)
(* the server behind the proxy says.                                        *)
Arrives ==
  /\ pc \in Reading
  /\ rx < rem \/ (rx = rem /\ grant /\ pc \notin {"greet", "head"})
  /\ rx' = rx + 1
  /\ UNCHANGED <<conf, fds, sck, shnd, online, pc, timers, left, cur,
                 c, need, rem, grant, past>>

(* The bytes one call of lsi_b_read asks for.                               *)
Request ==
  CASE pc = "http"           -> 1
    [] pc = "addr" /\ c = 0  -> 1
    [] OTHER                 -> need - c

(* In two of the loops the bytes of a second call are stored behind the     *)
(* buffer: &resp+c is c times the buffer's size away.                       *)
ProxyReads(k) ==
  /\ pc \in Reading /\ c < need
  /\ k <= rx /\ k <= Request
  /\ pc = "addr" => c + k <= RespBuf
  /\ c' = c + k /\ rx' = rx - k /\ rem' = rem - k
  /\ torn' = (torn \/ (pc \in {"socks4", "greet"} /\ c > 0))
  /\ UNCHANGED <<conf, fds, sck, shnd, online, pc, timers, left, cur,
                 need, grant, phantom, slow, late, count>>

(* An address may be longer than resp: what is read then goes over the end  *)
(* of it, over the function's own variables and beyond.  What the program   *)
(* does after that is undefined, and the model ends here.                   *)
ProxyOverruns ==
  /\ pc = "addr" /\ c < need
  /\ \E k \in 1..rx : k <= Request /\ c + k > RespBuf
  /\ pc' = "exit"
  /\ UNCHANGED <<conf, fds, sck, shnd, online, timers, left, cur, proxy, past>>

(* Once the hard timeout is exceeded lsi_b_read polls.                      *)
ProxyTimeout ==
  /\ pc \in Reading /\ c < need /\ rx = 0 /\ hardleft = 0
  /\ GiveUp(sck) /\ UNCHANGED <<shnd, phantom>>

(* The answer says no.  What has not been stored may say anything.          *)
Refused ==
  /\ pc \in Reading \ {"addr"} /\ c >= need
  /\ ~grant \/ torn
  /\ GiveUp(sck) /\ UNCHANGED <<shnd, phantom>>

(* It says yes, or in SOCKS5 that there is more to come.                    *)
Granted == pc \in Reading /\ c >= need /\ (grant \/ torn)

Greeted ==
  /\ Granted /\ pc = "greet"
  /\ Asked("head", HeadLen, HeadLen)

Headed_Short ==   \* faulty: the port is forgotten
  /\ Granted /\ pc = "head"
  /\ \E n \in AddrLens :
       /\ pc' = "addr"
       /\ rem' = rem + n /\ need' = n - 1 /\ c' = 0
       /\ UNCHANGED <<conf, fds, sck, shnd, online, timers, left, cur, rx, grant, past>>

Headed ==
  /\ Granted /\ pc = "head"
  /\ \E n \in AddrLens :
       /\ pc' = "addr"
       /\ rem' = rem + n /\ need' = n /\ c' = 0
       /\ UNCHANGED <<conf, fds, sck, shnd, online, timers, left, cur, rx, grant, past>>

ThroughProxy ==
  /\ Granted /\ pc \in {"http", "socks4", "addr"}
  /\ pc' = IF conf.ssl THEN "tls" ELSE "out"
  /\ online' = ~conf.ssl
  /\ UNCHANGED <<conf, fds, sck, shnd, timers, left, cur, proxy, past>>

-----------------------------------------------------------------------------
(* lsi_b_sslize *)

TlsConnects ==
  /\ pc = "tls" /\ sck \in DOMAIN fds /\ fds[sck] = "lib"
  /\ shnd' = TRUE /\ online' = TRUE
  /\ pc' = "out"
  /\ UNCHANGED <<conf, fds, sck, timers, left, cur, proxy, past>>

TlsFails ==
  /\ pc = "tls"
  /\ GiveUp(sck) /\ UNCHANGED <<shnd, phantom>>

(* The handshake is done, but the socket cannot be made nonblocking again.  *)
(* The handle stays.                                                        *)
TlsStaysBlocking ==
  /\ pc = "tls" /\ sck \in DOMAIN fds /\ fds[sck] = "lib"
  /\ shnd' = TRUE
  /\ GiveUp(sck) /\ UNCHANGED phantom

(* lsi_conn_reset, at the end of a failed logon or of a session.            *)
Reset ==
  /\ pc = "out"
  /\ shnd' = (shnd /\ ~conf.ssl)
  /\ fds' = IF sck # -1 THEN Without(sck) ELSE fds
  /\ sck' = -1 /\ online' = FALSE
  /\ UNCHANGED <<conf, pc, timers, left, cur, proxy, past>>

-----------------------------------------------------------------------------
Next ==
  \/ Connect \/ Reset
  \/ \E n \in 1..MaxAddr : Resolved(n)
  \/ NoAddress \/ HardTimeout
  \/ TryFails \/ BindFails \/ TryConnects \/ TryWaits \/ Answered \/ Unanswered
  \/ ProxyStarts \/ ProxyFails
  \/ \E k \in 1..rx : ProxyReads(k)
  \/ ProxyOverruns \/ ProxyTimeout \/ Refused \/ Greeted \/ Headed \/ ThroughProxy
  \/ TlsConnects \/ TlsFails \/ TlsStaysBlocking
  \/ Arrives \/ Tick
  \/ AppOpens \/ \E d \in Fd : AppCloses(d)
  \/ \E k \in Confs : Configure(k)

Spec == Init /\ [][Next]_vars

-----------------------------------------------------------------------------
(* The descriptors the library has open are the one in ctx->sh and, while   *)
(* an address is tried, the one it is tried with: none is lost, and none it *)
(* would close is the application's, which may have been given the same     *)
(* number.  Online means that there is one, whatever fails (unless          *)
(* consocket has made one up).                                              *)
OwnDescriptors ==
  ~phantom =>
    /\ {d \in DOMAIN fds : fds[d] = "lib"} = {sck, cur} \ {-1}
    /\ online => sck # -1

(* No wait for a connection and no read from a proxy goes on after the hard *)
(* timeout, if there is a soft one too ("a too-long soft timeout can never  *)
(* overrule the hard timeout", irc_ext.h:382); only the resolver and the    *)
(* TLS handshake are not bounded by it.                                     *)
HardKept == late \subseteq {"resolve", "tls"} \/ conf.soft = 0

(* Stretching the soft timeout lets every address be tried before the hard  *)
(* timeout is up ("so that we can be sure all A- or AAAA records are tried",*)
(* irc.h:163), if the resolver was quick and the timeouts allow for it.     *)
AllTried ==
  [][HardTimeout /\ ~slow /\ conf.soft > 0 => conf.soft * count > conf.hard]_vars

(* A connection through a proxy is used for IRC when the proxy has granted  *)
(* it, and then the next byte is the server's first: nothing of the proxy's *)
(* answer is left to be read and nothing behind it is lost, in whatever     *)
(* pieces it came.  (An HTTP answer longer than the buffer is not read to   *)
(* its end, a torn answer is not known, and with a SOCKS5 address longer    *)
(* than the buffer the model ends before we are online.)                    *)
StreamStarts ==
  online /\ conf.px # "none" /\ ~torn /\ (conf.px = "http" => c + rem <= HttpBuf) =>
    grant /\ rem = 0

(* With TLS configured, the connection is a TLS connection or there is none *)
(* and no plain text is exchanged.                                          *)
TlsKept == online /\ ~phantom => (shnd <=> conf.ssl)

-----------------------------------------------------------------------------
(* "You can expect the irc_connect() function to give up after the /hard/   *)
(* timeout is exceeded" (irc_ext.h:380).  The loop over the addresses makes *)
(* up a descriptor instead, and the connection counts as established.       *)
GivesUp == phantom => ~online

=============================================================================
