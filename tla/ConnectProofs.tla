--------------------------- MODULE ConnectProofs ---------------------------
(***************************************************************************)
(* Proofs about module Connect, for any settings, any number of descriptors *)
(* and addresses, answers of any lengths and a network and a proxy that do  *)
(* as they please: no descriptor is lost or mistaken, TLS is kept, the hard *)
(* timeout too, and IRC starts where the proxy's answer ends.               *)
(***************************************************************************)
EXTENDS Connect, FiniteSetTheorems, WellFoundedInduction, TLAPS

(* The descriptors the library has opened.                                  *)
Lib == {d \in DOMAIN fds : fds[d] = "lib"}

Trying     == {"resolve", "next", "select"}
Connecting == {"proxy", "tls"} \cup Reading

(* Where the library's descriptors are, at each place of lsi_conn_connect.  *)
(* A phantom is none of them.                                               *)
Own ==
  /\ Lib = IF phantom THEN {} ELSE {sck, cur} \ {-1}
  /\ cur # -1 <=> pc = "select"
  /\ pc \in Trying => sck = -1 /\ ~online /\ ~phantom
  /\ pc \in Connecting => sck # -1 /\ ~online
  /\ pc = "out" => (online <=> sck # -1)
  /\ pc = "exit" => ~online

(* There is no TLS handle before the handshake, which is made if TLS is set.*)
Tls ==
  /\ pc \in Connecting => ~shnd
  /\ pc = "tls" => conf.ssl
  /\ online /\ ~phantom => (shnd <=> conf.ssl)

(* select(2) does not wait longer than until the hard timeout.              *)
Timed ==
  conf.soft > 0 =>
    /\ late \subseteq {"resolve", "tls"}
    /\ pc \in {"next", "select"} => soft > 0
    /\ pc = "select" /\ hardleft # -1 => 0 <= selto /\ selto <= hardleft

(* What is left of the proxy's answer.                                      *)
Whole == conf.px # "none" /\ ~torn /\ (conf.px = "http" => c + rem <= HttpBuf)

Stream ==
  /\ pc \in {"resolve", "next", "select", "proxy"} => rem = 0
  /\ pc \in Reading =>
       /\ c <= need
       /\ pc = "http" <=> conf.px = "http"
       /\ pc # "http" => rem + c = need
       /\ pc = "http" => need = IF rem + c < HttpBuf THEN rem + c ELSE HttpBuf
  /\ pc = "tls" \/ online => (Whole => grant /\ rem = 0)

-----------------------------------------------------------------------------
(* The settings are of their types.                                         *)
LEMMA ConfType ==
  ASSUME conf \in Confs
  PROVE  /\ conf \in [px : {"none", "http", "socks4", "socks5"}, ssl : BOOLEAN,
                      soft : Nat, hard : Nat, laddr : BOOLEAN]
         /\ conf.soft \in Nat /\ conf.hard \in Nat /\ conf.ssl \in BOOLEAN
BY ConnectAssumption

(* Of a set of descriptors, one is the lowest.                              *)
LEMMA LowestFree ==
  ASSUME Free # {}
  PROVE  Lowest \in Free
<1>1. Free \in SUBSET Nat
  BY ConnectAssumption DEF Free, Fd
<1>2. PICK m \in Free : \A d \in Free : <<d, m>> \notin OpToRel(<, Nat)
  BY <1>1, NatLessThanWellFounded, WFMin
<1>3. \A d \in Free : ~(d < m)
  BY <1>1, <1>2, Zenon DEF OpToRel
<1>4. \A d \in Free : m <= d
  BY <1>1, <1>3
<1> QED BY <1>2, <1>4 DEF Lowest

(* What opening and closing do to the library's descriptors.                *)
LEMMA LibOpened ==
  ASSUME Free # {}, DescriptorsOK
  PROVE  /\ fds' = Opened("lib") => Lib' = Lib \cup {Lowest} /\ Lowest \notin Lib
         /\ fds' = Opened("app") => Lib' = Lib
<1>1. Lowest \in Free /\ Lowest \notin DOMAIN fds
  BY LowestFree DEF Free
<1>2. fds' = Opened("lib") => Lib' = Lib \cup {Lowest} /\ Lowest \notin Lib
  BY <1>1 DEF Opened, Lib
<1>3. fds' = Opened("app") => Lib' = Lib
  BY <1>1 DEF Opened, Lib
<1> QED BY <1>2, <1>3

LEMMA LibWithout ==
  ASSUME NEW d, fds' = Without(d)
  PROVE  Lib' = Lib \ {d}
BY DEF Without, Lib

(* The table of descriptors stays one.                                      *)
LEMMA FdsType ==
  ASSUME DescriptorsOK
  PROVE  /\ \A d : fds' = Without(d) =>
              DOMAIN fds' \subseteq Fd /\ \A e \in DOMAIN fds' : fds'[e] \in {"app", "lib"}
         /\ \A who \in {"app", "lib"} : Free # {} /\ fds' = Opened(who) =>
              DOMAIN fds' \subseteq Fd /\ \A e \in DOMAIN fds' : fds'[e] \in {"app", "lib"}
<1>1. ASSUME NEW d, fds' = Without(d)
      PROVE  DOMAIN fds' \subseteq Fd /\ \A e \in DOMAIN fds' : fds'[e] \in {"app", "lib"}
  BY <1>1 DEF Without, DescriptorsOK
<1>2. ASSUME NEW who \in {"app", "lib"}, Free # {}, fds' = Opened(who)
      PROVE  DOMAIN fds' \subseteq Fd /\ \A e \in DOMAIN fds' : fds'[e] \in {"app", "lib"}
  <2>1. Lowest \in Fd
    BY <1>2, LowestFree DEF Free
  <2> QED BY <1>2, <2>1 DEF Opened, DescriptorsOK
<1> QED BY <1>1, <1>2

(* What lsi_conn_connect does with a descriptor.                            *)
LEMMA HaveSocketCases ==
  ASSUME NEW d, HaveSocket(d), conf \in Confs
  PROVE  /\ sck' = d /\ ~shnd' /\ cur' = -1 /\ selto' = -1 /\ left' = 0
         /\ shnd' \in BOOLEAN /\ online' \in BOOLEAN
         /\ UNCHANGED <<conf, hardleft, soft, c, need, rem, rx, grant, torn, slow, late, count>>
         /\ \/ conf.px # "none" /\ pc' = "proxy" /\ ~online'
            \/ conf.px = "none" /\ conf.ssl /\ pc' = "tls" /\ ~online'
            \/ conf.px = "none" /\ ~conf.ssl /\ pc' = "out" /\ online'
<1>1. /\ sck' = d /\ ~shnd' /\ cur' = -1 /\ selto' = -1 /\ left' = 0
      /\ shnd' \in BOOLEAN
      /\ UNCHANGED <<conf, hardleft, soft, c, need, rem, rx, grant, torn, slow, late, count>>
  BY DEF HaveSocket, proxy
<1>2. online' = (conf.px = "none" /\ ~conf.ssl)
  BY DEF HaveSocket
<1>3. CASE conf.px # "none"
  BY <1>1, <1>2, <1>3 DEF HaveSocket
<1>4. CASE conf.px = "none" /\ conf.ssl
  BY <1>1, <1>2, <1>4 DEF HaveSocket
<1>5. CASE conf.px = "none" /\ ~conf.ssl
  BY <1>1, <1>2, <1>5 DEF HaveSocket
<1> QED BY <1>3, <1>4, <1>5

(* What lsi_conn_connect does when it gives up on a connection it has: of   *)
(* the handle only a handshake that is done leaves something behind.        *)
Fails == ProxyFails \/ ProxyTimeout \/ Refused \/ TlsFails \/ TlsStaysBlocking

LEMMA FailsCases ==
  ASSUME Fails
  PROVE  /\ pc \in Connecting /\ pc' = "out"
         /\ fds' = Without(sck) /\ sck' = -1 /\ cur' = -1 /\ selto' = -1 /\ left' = 0
         /\ UNCHANGED <<conf, online, hardleft, soft, c, need, rem, rx, grant,
                        torn, phantom, slow, late, count>>
<1>1. CASE ProxyFails
  BY <1>1 DEF ProxyFails, GiveUp, Connecting, proxy
<1>2. CASE ProxyTimeout
  BY <1>2 DEF ProxyTimeout, GiveUp, Connecting, proxy
<1>3. CASE Refused
  BY <1>3 DEF Refused, GiveUp, Connecting, proxy
<1>4. CASE TlsFails
  BY <1>4 DEF TlsFails, GiveUp, Connecting, proxy
<1>5. CASE TlsStaysBlocking
  BY <1>5 DEF TlsStaysBlocking, GiveUp, Connecting, proxy
<1> QED BY <1>1, <1>2, <1>3, <1>4, <1>5 DEF Fails

(* And with the handle: it is as it was, or the handshake is done.          *)
LEMMA FailsHandle ==
  ASSUME Fails, shnd \in BOOLEAN
  PROVE  shnd' \in BOOLEAN
BY DEF Fails, ProxyFails, ProxyTimeout, Refused, TlsFails, TlsStaysBlocking

(* The steps that leave the descriptors alone, and with them where          *)
(* lsi_conn_connect is and what it holds.                                   *)
LEMMA NextCases ==
  ASSUME Next
  PROVE  \/ Connect \/ Reset \/ NoAddress \/ HardTimeout
         \/ \E n \in 1..MaxAddr : Resolved(n)
         \/ TryFails \/ BindFails \/ TryConnects \/ TryWaits \/ Answered \/ Unanswered
         \/ ProxyStarts \/ ProxyOverruns \/ \E k \in 1..rx : ProxyReads(k)
         \/ Fails \/ Greeted \/ Headed \/ ThroughProxy \/ TlsConnects
         \/ Arrives \/ Tick \/ AppOpens \/ \E d \in Fd : AppCloses(d)
         \/ \E k \in Confs : Configure(k)
BY Zenon DEF Next, Fails

-----------------------------------------------------------------------------
(* Type correctness, part by part *)

(* The descriptors stay descriptors.                                        *)
LEMMA DescriptorsNext ==
  ASSUME ConnectTypeOK, Next
  PROVE  DescriptorsOK'
<1> USE DEF DescriptorsOK
<1>0. DescriptorsOK /\ conf \in Confs /\ 0 \in Fd
  BY ConnectAssumption DEF ConnectTypeOK, Fd
<1>1. CASE Fails
  BY <1>0, <1>1, FailsCases, FdsType
<1>2. CASE Reset
  BY <1>0, <1>2, FdsType DEF Reset
<1>3. CASE HardTimeout
  <2>1. sck' = 0 /\ cur' = -1 /\ fds' = fds
    BY <1>0, <1>3, HaveSocketCases DEF HardTimeout
  <2> QED BY <1>0, <2>1
<1>4. CASE TryConnects
  <2>1. Free # {} /\ fds' = Opened("lib") /\ HaveSocket(Lowest)
    BY <1>4 DEF TryConnects
  <2>2. sck' = Lowest /\ cur' = -1 /\ Lowest \in Fd
    BY <1>0, <2>1, HaveSocketCases, LowestFree DEF Free
  <2> QED BY <1>0, <2>1, <2>2, FdsType
<1>5. CASE TryWaits
  <2>1. Free # {} /\ fds' = Opened("lib") /\ cur' = Lowest /\ sck' = sck
    BY <1>5 DEF TryWaits
  <2>2. Lowest \in Fd
    BY <2>1, LowestFree DEF Free
  <2> QED BY <1>0, <2>1, <2>2, FdsType
<1>6. CASE Answered
  <2>1. sck' = cur /\ cur' = -1 /\ fds' = fds
    BY <1>0, <1>6, HaveSocketCases DEF Answered
  <2> QED BY <1>0, <2>1
<1>7. CASE Unanswered
  BY <1>0, <1>7, FdsType DEF Unanswered
<1>8. CASE AppOpens
  <2>1. Free # {} /\ fds' = Opened("app") /\ sck' = sck /\ cur' = cur
    <3>1. Cardinality(Free) > 1 /\ fds' = Opened("app") /\ sck' = sck /\ cur' = cur
      BY <1>8 DEF AppOpens
    <3>2. Free # {}
      BY <3>1, FS_EmptySet
    <3> QED BY <3>1, <3>2
  <2> QED BY <1>0, <2>1, FdsType
<1>9. CASE \E d \in Fd : AppCloses(d)
  BY <1>0, <1>9, FdsType DEF AppCloses
<1>10. CASE \/ Connect \/ NoAddress \/ \E n \in 1..MaxAddr : Resolved(n)
            \/ TryFails \/ BindFails \/ ProxyOverruns
            \/ ProxyStarts \/ \E k \in 1..rx : ProxyReads(k)
            \/ Greeted \/ Headed \/ ThroughProxy \/ TlsConnects
            \/ Arrives \/ Tick \/ \E k \in Confs : Configure(k)
  <2>1. UNCHANGED <<fds, sck, cur>>
    BY <1>10 DEF Connect, NoAddress, Resolved, TryFails, BindFails, ProxyOverruns,
                 ProxyStarts, Asked, ProxyReads, Greeted, Headed, ThroughProxy,
                 TlsConnects, Arrives,
                 Tick, Configure
  <2> QED BY <1>0, <2>1
<1> QED BY <1>1, <1>2, <1>3, <1>4, <1>5, <1>6, <1>7, <1>8, <1>9, <1>10, NextCases

(* Stretching the soft timeout leaves it a time, and never makes it none.   *)
LEMMA StretchedIs ==
  ASSUME conf \in Confs, NEW n \in 1..MaxAddr
  PROVE  Stretched(n) \in Nat /\ (conf.soft > 0 => Stretched(n) > 0)
<1> DEFINE s == conf.soft
           h == conf.hard
<1>1. s \in Nat /\ h \in Nat /\ n \in Nat /\ n > 0
  BY ConfType, ConnectAssumption
<1>2. CASE s > 0 /\ h > 0 /\ s * n < h
  <2>1. Stretched(n) = h \div n
    BY <1>2 DEF Stretched
  <2>2. n <= s * n
    BY <1>1, <1>2
  <2>3. n < h
    BY <1>1, <1>2, <2>2
  <2>4. h \div n \in Nat /\ h \div n > 0
    BY <1>1, <2>3
  <2> QED BY <2>1, <2>4
<1>3. CASE ~(s > 0 /\ h > 0 /\ s * n < h)
  BY <1>1, <1>3 DEF Stretched
<1> QED BY <1>2, <1>3

(* select(2) waits for some time or without end.                            *)
LEMMA TimeToTryIs ==
  ASSUME TimersOK
  PROVE  /\ TimeToTry \in Int /\ TimeToTry >= -1
         /\ soft > 0 /\ hardleft > 0 => 0 <= TimeToTry /\ TimeToTry <= hardleft
BY DEF TimersOK, TimeToTry

(* The time left goes down and does not pass zero.                          *)
LEMMA LessIs ==
  /\ \A t \in Int : t >= -1 => Less(t) \in Int /\ Less(t) >= -1
  /\ \A t \in Int, u \in Int : 0 <= t /\ t <= u => 0 <= Less(t) /\ Less(t) <= Less(u)
  /\ \A t \in Int : Less(t) = -1 => t = -1
BY DEF Less

LEMMA TimersNext ==
  ASSUME ConnectTypeOK, Next
  PROVE  TimersOK'
<1> USE DEF TimersOK
<1>0. TimersOK /\ conf \in Confs /\ pc \in Pc
  BY DEF ConnectTypeOK
<1>1. CASE Fails
  BY <1>0, <1>1, FailsCases
<1>2. CASE Connect
  <2>1. hardleft' = (IF conf.hard > 0 THEN conf.hard ELSE -1) /\ late' = {}
        /\ soft' = soft /\ selto' = selto
    BY <1>2 DEF Connect
  <2>2. conf.hard \in Nat
    BY <1>0, ConfType
  <2> QED BY <1>0, <2>1, <2>2
<1>3. CASE \E n \in 1..MaxAddr : Resolved(n)
  <2>1. PICK n \in 1..MaxAddr : Resolved(n)
    BY <1>3
  <2>2. soft' = Stretched(n) /\ UNCHANGED <<hardleft, selto, late>>
    BY <2>1 DEF Resolved
  <2> QED BY <1>0, <2>2, StretchedIs
<1>4. CASE HardTimeout \/ TryConnects \/ Answered
  <2>1. PICK d : HaveSocket(d)
    BY <1>4 DEF HardTimeout, TryConnects, Answered
  <2> QED BY <1>0, <2>1, HaveSocketCases
<1>5. CASE TryWaits
  <2>1. selto' = TimeToTry /\ UNCHANGED <<hardleft, soft, late>>
    BY <1>5 DEF TryWaits, past
  <2> QED BY <1>0, <2>1, TimeToTryIs
<1>6. CASE Unanswered
  <2>1. selto' = -1 /\ UNCHANGED <<hardleft, soft, late>>
    BY <1>6 DEF Unanswered, past
  <2> QED BY <1>0, <2>1
<1>7. CASE Tick
  <2>1. hardleft' = Less(hardleft) /\ selto' = Less(selto) /\ soft' = soft
        /\ late' \subseteq late \cup {pc}
    BY <1>7 DEF Tick
  <2> QED BY <1>0, <2>1, LessIs
<1>8. CASE \E k \in Confs : Configure(k)
  BY <1>0, <1>8 DEF Configure
<1>9. CASE \/ Reset \/ NoAddress \/ TryFails \/ BindFails \/ ProxyOverruns
           \/ ProxyStarts \/ \E k \in 1..rx : ProxyReads(k)
           \/ Greeted \/ Headed \/ ThroughProxy \/ TlsConnects
           \/ Arrives \/ AppOpens \/ \E d \in Fd : AppCloses(d)
  <2>1. UNCHANGED <<hardleft, soft, selto, late>>
    BY <1>9 DEF Reset, NoAddress, TryFails, BindFails, ProxyOverruns, ProxyStarts, Asked,
                ProxyReads, Greeted, Headed, ThroughProxy, TlsConnects, Arrives,
                AppOpens, AppCloses, timers, past
  <2> QED BY <1>0, <2>1
<1> QED BY <1>1, <1>2, <1>3, <1>4, <1>5, <1>6, <1>7, <1>8, <1>9, NextCases

(* The counters stay counters: a read takes no more than there is.          *)
LEMMA CountsNext ==
  ASSUME ConnectTypeOK, Next
  PROVE  CountsOK'
<1> USE DEF CountsOK
<1>0. CountsOK /\ conf \in Confs
  BY DEF ConnectTypeOK
<1>1. CASE Fails
  BY <1>0, <1>1, FailsCases
<1>2. CASE Connect
  BY <1>0, <1>2 DEF Connect
<1>3. CASE \E n \in 1..MaxAddr : Resolved(n)
  BY <1>0, <1>3, ConnectAssumption DEF Resolved, proxy
<1>4. CASE HardTimeout \/ TryConnects \/ Answered
  <2>1. PICK d : HaveSocket(d)
    BY <1>4 DEF HardTimeout, TryConnects, Answered
  <2> QED BY <1>0, <2>1, HaveSocketCases
<1>5. CASE TryFails \/ TryWaits
  BY <1>0, <1>5 DEF TryFails, TryWaits, proxy, past
<1>6. CASE ProxyStarts
  <2>1. PICK n \in Nat, l \in Nat : \E phase : Asked(phase, n, l)
    BY <1>6, ConnectAssumption DEF ProxyStarts
  <2> QED BY <1>0, <2>1 DEF Asked, past
<1>7. CASE Greeted
  <2>1. PICK n \in Nat, l \in Nat : \E phase : Asked(phase, n, l)
    BY <1>7, ConnectAssumption DEF Greeted
  <2> QED BY <1>0, <2>1 DEF Asked, past
<1>8. CASE Headed
  <2>1. PICK n \in Nat : rem' = rem + n /\ need' = n /\ c' = 0 /\ UNCHANGED <<left, count, rx>>
    BY <1>8, ConnectAssumption DEF Headed, past
  <2> QED BY <1>0, <2>1
<1>9. CASE \E k \in 1..rx : ProxyReads(k)
  BY <1>0, <1>9 DEF ProxyReads
<1>10. CASE Arrives
  BY <1>0, <1>10 DEF Arrives, past
<1>11. CASE \/ Reset \/ NoAddress \/ BindFails \/ ProxyOverruns \/ Unanswered
            \/ ThroughProxy \/ TlsConnects
            \/ Tick \/ AppOpens \/ \E d \in Fd : AppCloses(d)
            \/ \E k \in Confs : Configure(k)
  <2>1. UNCHANGED <<left, count, c, need, rem, rx>>
    BY <1>11 DEF Reset, NoAddress, BindFails, ProxyOverruns, Unanswered,
                 ThroughProxy, TlsConnects,
                 Tick, AppOpens, AppCloses, Configure, proxy, past
  <2> QED BY <1>0, <2>1
<1> QED BY <1>1, <1>2, <1>3, <1>4, <1>5, <1>6, <1>7, <1>8, <1>9, <1>10, <1>11,
            NextCases

(* The flags stay truth values.                                             *)
LEMMA FlagsNext ==
  ASSUME ConnectTypeOK, Next
  PROVE  FlagsOK'
<1> USE DEF FlagsOK
<1>0. FlagsOK /\ conf \in Confs
  BY DEF ConnectTypeOK
<1>1. CASE Fails
  <2>1. shnd' \in BOOLEAN
    BY <1>0, <1>1, FailsHandle
  <2>2. UNCHANGED <<online, grant, torn, phantom, slow>>
    BY <1>1, FailsCases
  <2> QED BY <1>0, <2>1, <2>2
<1>2. CASE Connect \/ Reset
  BY <1>0, <1>2 DEF Connect, Reset, proxy, past
<1>3. CASE HardTimeout \/ TryConnects \/ Answered
  <2>1. PICK d : HaveSocket(d)
    BY <1>3 DEF HardTimeout, TryConnects, Answered
  <2>2. shnd' \in BOOLEAN /\ online' \in BOOLEAN /\ UNCHANGED <<grant, torn, slow>>
    BY <1>0, <2>1, HaveSocketCases
  <2>3. phantom' = TRUE \/ phantom' = phantom
    BY <1>3 DEF HardTimeout, TryConnects, Answered
  <2> QED BY <1>0, <2>2, <2>3
<1>4. CASE ProxyStarts
  BY <1>0, <1>4 DEF ProxyStarts, Asked, past
<1>5. CASE Greeted
  BY <1>0, <1>5 DEF Greeted, Asked, past
<1>6. CASE \E k \in 1..rx : ProxyReads(k)
  BY <1>0, <1>6 DEF ProxyReads
<1>7. CASE ThroughProxy
  <2>1. online' \in BOOLEAN /\ UNCHANGED <<shnd, grant, torn, phantom, slow>>
    BY <1>7 DEF ThroughProxy, proxy, past
  <2> QED BY <1>0, <2>1
<1>8. CASE TlsConnects
  BY <1>0, <1>8 DEF TlsConnects, proxy, past
<1>9. CASE Tick
  BY <1>0, <1>9 DEF Tick, proxy
<1>10. CASE \/ NoAddress \/ \E n \in 1..MaxAddr : Resolved(n)
            \/ TryFails \/ BindFails \/ ProxyOverruns \/ TryWaits \/ Unanswered
            \/ Headed \/ Arrives \/ AppOpens
            \/ \E d \in Fd : AppCloses(d)
            \/ \E k \in Confs : Configure(k)
  <2>1. UNCHANGED <<shnd, online, grant, torn, phantom, slow>>
    BY <1>10 DEF NoAddress, Resolved, TryFails, BindFails, ProxyOverruns, TryWaits, Unanswered,
                 Headed, Arrives, AppOpens, AppCloses, Configure, proxy, past
  <2> QED BY <1>0, <2>1
<1> QED BY <1>1, <1>2, <1>3, <1>4, <1>5, <1>6, <1>7, <1>8, <1>9, <1>10, NextCases

(* The places lsi_conn_connect can be at, and the settings.                 *)
LEMMA PlacesNext ==
  ASSUME ConnectTypeOK, Next
  PROVE  conf' \in Confs /\ pc' \in Pc
<1>0. conf \in Confs /\ pc \in Pc
  BY DEF ConnectTypeOK
<1>1. CASE Fails
  BY <1>0, <1>1, FailsCases DEF Pc
<1>2. CASE HardTimeout \/ TryConnects \/ Answered
  <2>1. PICK d : HaveSocket(d)
    BY <1>2 DEF HardTimeout, TryConnects, Answered
  <2> QED BY <1>0, <2>1, HaveSocketCases DEF Pc
<1>3. CASE \/ Connect \/ Reset \/ NoAddress
           \/ \E n \in 1..MaxAddr : Resolved(n)
           \/ TryFails \/ BindFails \/ ProxyOverruns \/ TryWaits \/ Unanswered
  BY <1>0, <1>3 DEF Pc, Connect, Reset, NoAddress, Resolved, TryFails, BindFails,
                    ProxyOverruns,
                    TryWaits, Unanswered, past
<1>4. CASE \/ ProxyStarts \/ \E k \in 1..rx : ProxyReads(k)
           \/ Greeted \/ Headed \/ ThroughProxy \/ TlsConnects
  BY <1>0, <1>4 DEF Pc, ProxyStarts, Asked, ProxyReads, Greeted, Headed, ThroughProxy,
                    TlsConnects
<1>5. CASE \/ Arrives \/ Tick \/ AppOpens
           \/ \E d \in Fd : AppCloses(d)
           \/ \E k \in Confs : Configure(k)
  BY <1>0, <1>5 DEF Arrives, Tick, AppOpens, AppCloses, Configure
<1> QED BY <1>1, <1>2, <1>3, <1>4, <1>5, NextCases

LEMMA TypeInit == Init => ConnectTypeOK
<1> SUFFICES ASSUME Init PROVE ConnectTypeOK
  OBVIOUS
<1>1. DescriptorsOK
  BY ConnectAssumption DEF Init, DescriptorsOK, Fd
<1>2. TimersOK /\ CountsOK
  <2>1. /\ hardleft = -1 /\ soft = 0 /\ selto = -1 /\ late = {}
        /\ left = 0 /\ count = 0 /\ c = 0 /\ need = 0 /\ rem = 0 /\ rx = 0
    BY Zenon DEF Init
  <2> QED BY <2>1 DEF TimersOK, CountsOK
<1>3. FlagsOK /\ conf \in Confs /\ pc \in Pc
  BY DEF Init, FlagsOK, Pc
<1> QED BY <1>1, <1>2, <1>3 DEF ConnectTypeOK

LEMMA TypeNext == ConnectTypeOK /\ [Next]_vars => ConnectTypeOK'
<1> SUFFICES ASSUME ConnectTypeOK, [Next]_vars PROVE ConnectTypeOK'
  OBVIOUS
<1>1. CASE Next
  BY <1>1, DescriptorsNext, TimersNext, CountsNext, FlagsNext, PlacesNext DEF ConnectTypeOK
<1>2. CASE UNCHANGED vars
  BY <1>2 DEF ConnectTypeOK, DescriptorsOK, TimersOK, CountsOK, FlagsOK,
              vars, timers, proxy, past
<1> QED BY <1>1, <1>2

(* ConnectTypeOK: whatever the network, the proxy and the application do,   *)
(* the context, the timeouts and the counters of px.c stay in their ranges. *)
THEOREM TypeCorrect == Spec => []ConnectTypeOK
BY TypeInit, TypeNext, PTL DEF Spec

-----------------------------------------------------------------------------
(* Whose the descriptors are *)

(* A step takes a descriptor from the system, hands it on from tryhost to   *)
(* ctx->sh, or closes it; the phantom is not taken from the system.         *)
LEMMA OwnNext ==
  ASSUME ConnectTypeOK, Own, Next
  PROVE  Own'
<1>0. /\ conf \in Confs /\ pc \in Pc /\ DescriptorsOK
      /\ sck \in Fd \cup {-1} /\ cur \in Fd \cup {-1} /\ -1 \notin Fd
  BY ConnectAssumption DEF ConnectTypeOK, DescriptorsOK, Fd
<1>a. /\ Lib = IF phantom THEN {} ELSE {sck, cur} \ {-1}
      /\ cur # -1 <=> pc = "select"
      /\ pc \in Trying => sck = -1 /\ ~online /\ ~phantom
      /\ pc \in Connecting => sck # -1 /\ ~online
      /\ pc = "out" => (online <=> sck # -1)
  BY DEF Own
<1>1. CASE Fails
  <2>1. /\ pc \in Connecting /\ pc' = "out" /\ fds' = Without(sck)
        /\ sck' = -1 /\ cur' = -1 /\ online' = online /\ phantom' = phantom
    BY <1>1, FailsCases
  <2>2. Lib' = Lib \ {sck}
    BY <2>1, LibWithout
  <2>3. cur = -1 /\ ~online
    BY <1>a, <2>1 DEF Connecting, Reading
  <2>4. Lib' = {}
    BY <1>a, <2>2, <2>3
  <2> QED BY <2>1, <2>3, <2>4 DEF Own, Trying, Connecting, Reading
<1>2. CASE Reset
  <2>1. /\ pc = "out" /\ pc' = "out" /\ cur' = cur /\ phantom' = phantom
        /\ sck' = -1 /\ ~online'
        /\ fds' = IF sck # -1 THEN Without(sck) ELSE fds
    BY <1>2 DEF Reset, past
  <2>2. cur = -1
    BY <1>a, <2>1
  <2>3. Lib' = Lib \ {sck}
    <3>1. CASE sck # -1
      BY <2>1, <3>1, LibWithout
    <3>2. CASE sck = -1
      BY <1>a, <2>1, <2>2, <3>2 DEF Lib
    <3> QED BY <3>1, <3>2
  <2>4. Lib' = {}
    BY <1>a, <2>2, <2>3
  <2> QED BY <2>1, <2>2, <2>4 DEF Own, Trying, Connecting, Reading
<1>3. CASE Connect
  <2>1. /\ pc = "out" /\ ~online /\ pc' = "resolve" /\ ~phantom'
        /\ UNCHANGED <<fds, sck, cur, online>>
    BY <1>3 DEF Connect
  <2>2. sck = -1 /\ cur = -1
    BY <1>a, <2>1
  <2>3. Lib' = {}
    BY <1>a, <2>1, <2>2 DEF Lib
  <2> QED BY <2>1, <2>2, <2>3 DEF Own, Trying, Connecting, Reading
<1>4. CASE HardTimeout
  <2>1. /\ pc = "next" /\ phantom' /\ HaveSocket(0) /\ fds' = fds
    BY <1>4 DEF HardTimeout
  <2>2. Lib' = {}
    BY <1>a, <2>1 DEF Lib, Trying
  <2>3. 0 # -1
    OBVIOUS
  <2> QED BY <1>0, <2>1, <2>2, <2>3, HaveSocketCases DEF Own, Trying, Connecting, Reading
<1>5. CASE TryConnects
  <2>1. /\ pc = "next" /\ Free # {} /\ fds' = Opened("lib")
        /\ HaveSocket(Lowest) /\ phantom' = phantom
    BY <1>5 DEF TryConnects
  <2>2. Lowest \in Fd /\ Lowest # -1
    BY <1>0, <2>1, LowestFree DEF Free
  <2>3. Lib' = {Lowest} /\ ~phantom'
    BY <1>0, <1>a, <2>1, LibOpened DEF Trying
  <2> QED BY <1>0, <2>1, <2>2, <2>3, HaveSocketCases DEF Own, Trying, Connecting, Reading
<1>6. CASE TryWaits
  <2>1. /\ pc = "next" /\ Free # {} /\ fds' = Opened("lib") /\ cur' = Lowest
        /\ pc' = "select" /\ UNCHANGED <<sck, online, phantom>>
    BY <1>6 DEF TryWaits, past
  <2>2. Lowest \in Fd /\ Lowest # -1
    BY <1>0, <2>1, LowestFree DEF Free
  <2>3. Lib' = {Lowest} /\ ~phantom /\ sck = -1 /\ ~online
    BY <1>0, <1>a, <2>1, LibOpened DEF Trying
  <2> QED BY <2>1, <2>2, <2>3 DEF Own, Trying, Connecting, Reading
<1>7. CASE Answered
  <2>1. /\ pc = "select" /\ HaveSocket(cur) /\ UNCHANGED <<fds, phantom>>
    BY <1>7 DEF Answered
  <2>2. cur # -1 /\ Lib' = {cur} /\ ~phantom
    BY <1>a, <2>1 DEF Trying, Lib
  <2> QED BY <1>0, <2>1, <2>2, HaveSocketCases DEF Own, Trying, Connecting, Reading
<1>8. CASE Unanswered
  <2>1. /\ pc = "select" /\ pc' = "next" /\ fds' = Without(cur) /\ cur' = -1
        /\ UNCHANGED <<sck, online, phantom>>
    BY <1>8 DEF Unanswered, past
  <2>2. Lib' = {} /\ sck = -1 /\ ~online /\ ~phantom
    BY <1>a, <2>1, LibWithout DEF Trying
  <2> QED BY <2>1, <2>2 DEF Own, Trying, Connecting, Reading
<1>9. CASE ThroughProxy
  <2>1. /\ pc \in Reading /\ UNCHANGED <<fds, sck, cur, phantom>>
        /\ (pc' = "tls" /\ ~online') \/ (pc' = "out" /\ online')
    BY <1>9 DEF ThroughProxy, Granted, past
  <2>2. Lib' = Lib /\ cur = -1 /\ sck # -1
    BY <1>a, <2>1 DEF Lib, Connecting, Reading
  <2> QED BY <1>a, <2>1, <2>2 DEF Own, Trying, Connecting, Reading
<1>10. CASE TlsConnects
  <2>1. /\ pc = "tls" /\ pc' = "out" /\ online' = TRUE
        /\ UNCHANGED <<fds, sck, cur, phantom>>
    BY <1>10 DEF TlsConnects, past
  <2>2. Lib' = Lib /\ cur = -1 /\ sck # -1
    BY <1>a, <2>1 DEF Lib, Connecting, Reading
  <2> QED BY <1>a, <2>1, <2>2 DEF Own, Trying, Connecting, Reading
<1>11. CASE AppOpens \/ \E d \in Fd : AppCloses(d)
  <2>1. /\ pc = "out" /\ UNCHANGED <<pc, sck, cur, online, phantom>>
    BY <1>11 DEF AppOpens, AppCloses, past
  <2>2. Lib' = Lib
    <3>1. CASE AppOpens
      <4>1. Cardinality(Free) > 1 /\ fds' = Opened("app")
        BY <3>1 DEF AppOpens
      <4>2. Free # {}
        BY <4>1, FS_EmptySet
      <4> QED BY <1>0, <4>1, <4>2, LibOpened
    <3>2. CASE \E d \in Fd : AppCloses(d)
      <4>1. PICK d \in Fd : fds[d] = "app" /\ fds' = Without(d)
        BY <3>2 DEF AppCloses
      <4> QED BY <4>1, LibWithout DEF Lib
    <3> QED BY <1>11, <3>1, <3>2
  <2> QED BY <1>a, <2>1, <2>2 DEF Own, Trying, Connecting, Reading
<1>12. CASE \/ NoAddress \/ \E n \in 1..MaxAddr : Resolved(n)
            \/ TryFails \/ BindFails
  <2>1. /\ pc \in {"resolve", "next"} /\ pc' \in {"out", "next", "exit"}
        /\ UNCHANGED <<fds, sck, cur, online, phantom>>
    BY <1>12 DEF NoAddress, Resolved, TryFails, BindFails, past
  <2>2. Lib' = Lib /\ cur = -1 /\ sck = -1 /\ ~online /\ ~phantom
    BY <1>a, <2>1 DEF Lib, Trying
  <2> QED BY <1>a, <2>1, <2>2 DEF Own, Trying, Connecting, Reading
<1>13. CASE \/ ProxyStarts \/ \E k \in 1..rx : ProxyReads(k)
            \/ Greeted \/ Headed
  <2>1. /\ pc \in {"proxy"} \cup Reading /\ pc' \in Reading
        /\ UNCHANGED <<fds, sck, cur, online, phantom>>
    BY <1>13 DEF ProxyStarts, Asked, ProxyReads, Greeted, Headed,
                 Granted, Reading, past
  <2>2. cur = -1 /\ sck # -1 /\ ~online
    BY <1>a, <2>1 DEF Own, Connecting, Reading
  <2>3. Lib' = Lib
    BY <2>1 DEF Lib
  <2> QED BY <1>a, <2>1, <2>2, <2>3 DEF Own, Trying, Connecting, Reading
<1>14. CASE Arrives \/ Tick \/ \E k \in Confs : Configure(k)
  <2>1. UNCHANGED <<pc, fds, sck, cur, online, phantom>>
    BY <1>14 DEF Arrives, Tick, Configure, past
  <2> QED BY <1>a, <2>1 DEF Own, Lib
<1>15. CASE ProxyOverruns
  <2>1. pc = "addr" /\ pc' = "exit" /\ UNCHANGED <<fds, sck, cur, online, phantom>>
    BY <1>15 DEF ProxyOverruns, past
  <2>2. Lib' = Lib /\ cur = -1 /\ ~online
    BY <1>a, <2>1 DEF Own, Lib, Connecting, Reading
  <2> QED BY <1>a, <2>1, <2>2 DEF Own, Trying, Connecting, Reading
<1> QED BY <1>1, <1>2, <1>3, <1>4, <1>5, <1>6, <1>7, <1>8, <1>9, <1>10, <1>11,
            <1>12, <1>13, <1>14, <1>15, NextCases

-----------------------------------------------------------------------------
(* The handle *)

(* The handle of an earlier connection is gone when there is a socket, and  *)
(* only the handshake makes a new one.                                      *)
LEMMA TlsNext ==
  ASSUME ConnectTypeOK, Own, Tls, Next
  PROVE  Tls'
<1>0. conf \in Confs /\ pc \in Pc
  BY DEF ConnectTypeOK
<1>a. /\ pc \in Connecting => ~shnd
      /\ pc = "tls" => conf.ssl
      /\ online /\ ~phantom => (shnd <=> conf.ssl)
  BY DEF Tls
<1>b. pc \in Trying \cup Connecting => ~online
  BY DEF Own
<1>1. CASE Fails
  <2>1. pc \in Connecting /\ pc' = "out" /\ online' = online
    BY <1>1, FailsCases
  <2> QED BY <1>b, <2>1 DEF Tls, Connecting, Reading
<1>2. CASE Reset
  BY <1>2 DEF Tls, Reset, Connecting, Reading
<1>3. CASE HardTimeout \/ TryConnects \/ Answered
  <2>1. PICK d : HaveSocket(d)
    BY <1>3 DEF HardTimeout, TryConnects, Answered
  <2> QED BY <1>0, <2>1, HaveSocketCases DEF Tls, Connecting, Reading
<1>4. CASE ThroughProxy
  <2>1. /\ pc \in Reading /\ UNCHANGED <<conf, shnd, phantom>>
        /\ \/ conf.ssl /\ pc' = "tls" /\ ~online'
           \/ ~conf.ssl /\ pc' = "out" /\ online'
    BY <1>4 DEF ThroughProxy, Granted, past
  <2> QED BY <1>a, <2>1 DEF Tls, Connecting, Reading
<1>5. CASE TlsConnects
  <2>1. pc = "tls" /\ pc' = "out" /\ conf' = conf /\ shnd'
    BY <1>5 DEF TlsConnects
  <2> QED BY <1>a, <2>1 DEF Tls, Connecting, Reading
<1>6. CASE \E k \in Confs : Configure(k)
  <2>1. pc = "out" /\ pc' = "out" /\ ~online /\ online' = online
    BY <1>6 DEF Configure
  <2> QED BY <2>1 DEF Tls, Connecting, Reading
<1>7. CASE Connect
  <2>1. ~online /\ pc' = "resolve" /\ online' = online
    BY <1>7 DEF Connect
  <2> QED BY <2>1 DEF Tls, Connecting, Reading
<1>8. CASE \/ NoAddress \/ \E n \in 1..MaxAddr : Resolved(n)
           \/ TryFails \/ BindFails \/ TryWaits \/ Unanswered
  <2>1. /\ pc \in Trying /\ pc' \in {"out", "exit"} \cup Trying
        /\ online' = online
    BY <1>8 DEF NoAddress, Resolved, TryFails, BindFails, TryWaits, Unanswered, Trying
  <2> QED BY <1>b, <2>1 DEF Tls, Trying, Connecting, Reading
<1>9. CASE \/ ProxyStarts \/ \E k \in 1..rx : ProxyReads(k)
           \/ ProxyOverruns \/ Greeted \/ Headed
  <2>1. /\ pc \in {"proxy"} \cup Reading /\ pc' \in {"exit"} \cup Reading
        /\ UNCHANGED <<conf, shnd, online, phantom>>
    BY <1>9 DEF ProxyStarts, Asked, ProxyReads, ProxyOverruns, Greeted, Headed,
                 Granted, Reading, past
  <2> QED BY <1>a, <2>1 DEF Tls, Connecting, Reading
<1>10. CASE \/ Arrives \/ Tick \/ AppOpens
            \/ \E d \in Fd : AppCloses(d)
  <2>1. UNCHANGED <<conf, pc, shnd, online, phantom>>
    BY <1>10 DEF Arrives, Tick, AppOpens, AppCloses, past
  <2> QED BY <1>a, <2>1 DEF Tls, Connecting, Reading
<1> QED BY <1>1, <1>2, <1>3, <1>4, <1>5, <1>6, <1>7, <1>8, <1>9, <1>10, NextCases

-----------------------------------------------------------------------------
(* The hard timeout *)

(* Time passes after it where the code does not look at it.                 *)
LEMMA TimedNext ==
  ASSUME ConnectTypeOK, Timed, Next
  PROVE  Timed'
<1>0. conf \in Confs /\ TimersOK /\ conf.soft \in Nat
  BY ConfType DEF ConnectTypeOK
<1>1. CASE \E k \in Confs : Configure(k)
  BY <1>1 DEF Configure, Timed
<1>2. CASE Connect
  BY <1>2 DEF Connect, Timed
<1>3. CASE \E n \in 1..MaxAddr : Resolved(n)
  <2>1. PICK n \in 1..MaxAddr : Resolved(n)
    BY <1>3
  <2>2. pc' = "next" /\ soft' = Stretched(n) /\ UNCHANGED <<conf, late>>
    BY <2>1 DEF Resolved
  <2>3. conf.soft > 0 => Stretched(n) > 0
    BY <1>0, StretchedIs
  <2> QED BY <2>2, <2>3 DEF Timed
<1>4. CASE TryWaits
  <2>1. /\ pc = "next" /\ hardleft # 0 /\ selto' = TimeToTry
        /\ UNCHANGED <<conf, hardleft, soft, late>>
    BY <1>4 DEF TryWaits, past
  <2>2. conf.soft > 0 => soft > 0
    BY <2>1 DEF Timed
  <2>3. hardleft # -1 => hardleft > 0
    BY <1>0, <2>1 DEF TimersOK
  <2> QED BY <1>0, <2>1, <2>2, <2>3, TimeToTryIs DEF Timed
<1>5. CASE Tick
  <2>1. /\ Waiting /\ UNCHANGED <<conf, pc, soft>>
        /\ hardleft' = Less(hardleft) /\ selto' = Less(selto)
        /\ late' = IF hardleft = 0 THEN late \cup {pc} ELSE late
    BY <1>5 DEF Tick
  <2>2. ASSUME conf.soft > 0, hardleft = 0
        PROVE  pc \in {"resolve", "tls"}
    <3>1. ~(pc = "select" /\ selto # 0)
      BY <1>0, <2>2 DEF Timed, TimersOK
    <3>2. ~(pc \in Reading /\ rx = 0 /\ hardleft # 0)
      BY <2>2
    <3> QED BY <2>1, <3>1, <3>2 DEF Waiting
  <2>3. conf.soft > 0 => late' \subseteq {"resolve", "tls"}
    BY <2>1, <2>2 DEF Timed
  <2>4. ASSUME conf.soft > 0, pc = "select", Less(hardleft) # -1
        PROVE  0 <= Less(selto) /\ Less(selto) <= Less(hardleft)
    <3>1. hardleft # -1
      BY <2>4 DEF Less
    <3> QED BY <1>0, <2>4, <3>1, LessIs DEF Timed, TimersOK
  <2> QED BY <2>1, <2>3, <2>4 DEF Timed
<1>6. CASE Fails
  <2>1. pc' = "out" /\ UNCHANGED <<conf, late>>
    BY <1>6, FailsCases
  <2> QED BY <2>1 DEF Timed
<1>7. CASE HardTimeout \/ TryConnects \/ Answered
  <2>1. PICK d : HaveSocket(d)
    BY <1>7 DEF HardTimeout, TryConnects, Answered
  <2>2. pc' \in {"proxy", "tls", "out"} /\ UNCHANGED <<conf, late>>
    BY <1>0, <2>1, HaveSocketCases
  <2> QED BY <2>2 DEF Timed
<1>8. CASE TryFails \/ Unanswered
  <2>1. pc \in {"next", "select"} /\ pc' = "next" /\ UNCHANGED <<conf, soft, late>>
    BY <1>8 DEF TryFails, Unanswered, timers, past
  <2> QED BY <2>1 DEF Timed
<1>9. CASE \/ NoAddress \/ BindFails \/ ProxyOverruns
           \/ ProxyStarts \/ \E k \in 1..rx : ProxyReads(k)
           \/ Greeted \/ Headed \/ ThroughProxy \/ TlsConnects
  <2>1. pc' \notin {"next", "select"} /\ UNCHANGED <<conf, late>>
    BY <1>9 DEF NoAddress, BindFails, ProxyOverruns, ProxyStarts, Asked, ProxyReads,
                Greeted, Headed,
                ThroughProxy, TlsConnects, Reading, past
  <2> QED BY <2>1 DEF Timed
<1>10. CASE \/ Reset \/ Arrives \/ AppOpens
            \/ \E d \in Fd : AppCloses(d)
  <2>1. UNCHANGED <<conf, pc, hardleft, soft, selto, late>>
    BY <1>10 DEF Reset, Arrives, AppOpens, AppCloses, timers, past
  <2> QED BY <2>1 DEF Timed
<1> QED BY <1>1, <1>2, <1>3, <1>4, <1>5, <1>6, <1>7, <1>8, <1>9, <1>10, NextCases

-----------------------------------------------------------------------------
(* The proxy's answer *)

(* A read takes what it stores from what is left of the answer, and the     *)
(* next part is asked for when the one before is read to its end.           *)
LEMMA StreamNext ==
  ASSUME ConnectTypeOK, Own, Stream, Next
  PROVE  Stream'
<1>0. conf \in Confs /\ pc \in Pc /\ CountsOK
  BY DEF ConnectTypeOK
<1>a. /\ pc \in {"resolve", "next", "select", "proxy"} => rem = 0
      /\ pc \in Reading =>
           /\ c <= need
           /\ pc = "http" <=> conf.px = "http"
           /\ pc # "http" => rem + c = need
           /\ pc = "http" => need = IF rem + c < HttpBuf THEN rem + c ELSE HttpBuf
      /\ pc = "tls" \/ online => (Whole => grant /\ rem = 0)
  BY DEF Stream
<1>b. pc \in Trying \cup Connecting => ~online
  BY DEF Own
<1>1. CASE Fails
  <2>1. pc \in Connecting /\ pc' = "out" /\ online' = online
    BY <1>1, FailsCases
  <2> QED BY <1>b, <2>1 DEF Stream, Connecting, Reading
<1>2. CASE Reset
  BY <1>2 DEF Stream, Reset, Reading
<1>3. CASE Connect
  <2>1. ~online /\ pc' = "resolve" /\ online' = online /\ rem' = 0
    BY <1>3 DEF Connect
  <2> QED BY <2>1 DEF Stream, Reading
<1>4. CASE HardTimeout \/ TryConnects \/ Answered
  <2>1. PICK d : HaveSocket(d)
    BY <1>4 DEF HardTimeout, TryConnects, Answered
  <2>2. /\ conf' = conf /\ rem' = rem
        /\ \/ pc' = "proxy" /\ ~online'
           \/ pc' \in {"tls", "out"} /\ conf.px = "none"
    BY <1>0, <2>1, HaveSocketCases
  <2>3. rem = 0
    BY <1>4, <1>a DEF HardTimeout, TryConnects, Answered
  <2> QED BY <2>2, <2>3 DEF Stream, Whole, Reading
<1>5. CASE ProxyStarts
  <2>1. /\ pc = "proxy" /\ UNCHANGED <<conf, online>> /\ c' = 0
        /\ \/ /\ conf.px = "http" /\ pc' = "http"
              /\ \E n \in HttpLens : rem' = rem + n /\ need' = IF n < HttpBuf THEN n ELSE HttpBuf
           \/ conf.px = "socks4" /\ pc' = "socks4" /\ rem' = rem + Socks4Len /\ need' = Socks4Len
           \/ conf.px = "socks5" /\ pc' = "greet" /\ rem' = rem + GreetLen /\ need' = GreetLen
    BY <1>5 DEF ProxyStarts, Asked
  <2>2. rem = 0 /\ ~online
    BY <1>a, <1>b, <2>1 DEF Connecting
  <2>3. /\ HttpLens \subseteq Nat /\ HttpBuf \in Nat
        /\ Socks4Len \in Nat /\ GreetLen \in Nat
    BY ConnectAssumption
  <2>4. CASE pc' = "http"
    <3>1. conf'.px = "http"
      BY <2>1, <2>4
    <3>2. PICK n \in HttpLens : rem' = n /\ need' = IF n < HttpBuf THEN n ELSE HttpBuf
      BY <2>1, <2>2, <2>3, <2>4
    <3>3. c' = 0 /\ c' <= need' /\ need' = IF rem' + c' < HttpBuf THEN rem' + c' ELSE HttpBuf
      BY <2>1, <2>3, <3>2
    <3> QED BY <2>1, <2>2, <2>4, <3>1, <3>3 DEF Stream
  <2>5. CASE pc' \in {"socks4", "greet"}
    <3>1. conf'.px # "http"
      BY <2>1, <2>5
    <3>2. c' <= need' /\ rem' + c' = need'
      BY <2>1, <2>2, <2>3, <2>5
    <3> QED BY <2>1, <2>2, <2>5, <3>1, <3>2 DEF Stream
  <2> QED BY <2>1, <2>4, <2>5
<1>6. CASE \E k \in 1..rx : ProxyReads(k)
  <2>1. PICK k \in 1..rx : ProxyReads(k)
    BY <1>6
  <2>2. /\ pc \in Reading /\ c < need /\ k <= Request
        /\ c' = c + k /\ rem' = rem - k
        /\ UNCHANGED <<conf, pc, online, need>>
    BY <2>1 DEF ProxyReads
  <2>3. k \in Nat /\ c \in Nat /\ need \in Nat /\ rem \in Int
    BY <1>0 DEF CountsOK
  <2>4. c + k <= need
    BY <2>2, <2>3 DEF Request
  <2>5. rem' + c' = rem + c /\ c' <= need'
    BY <2>2, <2>3, <2>4
  <2>6. ~online /\ pc # "tls" /\ pc \notin {"resolve", "next", "select", "proxy"}
    BY <1>b, <2>2 DEF Connecting, Reading
  <2> QED BY <1>a, <2>2, <2>5, <2>6 DEF Stream
<1>7. CASE Greeted
  <2>1. /\ pc = "greet" /\ pc \in Reading /\ c >= need /\ pc' = "head"
        /\ rem' = rem + HeadLen /\ need' = HeadLen /\ c' = 0
        /\ UNCHANGED <<conf, online>>
    BY <1>7 DEF Greeted, Granted, Asked
  <2>2. c \in Nat /\ need \in Nat /\ rem \in Int /\ HeadLen \in Nat
    BY <1>0, ConnectAssumption DEF CountsOK
  <2>3. rem = 0
    BY <1>a, <2>1, <2>2
  <2>4. rem' + c' = need' /\ c' <= need'
    BY <2>1, <2>2, <2>3
  <2>5. ~online /\ conf.px # "http"
    BY <1>a, <1>b, <2>1 DEF Connecting
  <2> QED BY <2>1, <2>4, <2>5 DEF Stream
<1>8. CASE Headed
  <2>1. PICK n \in AddrLens :
          /\ pc = "head" /\ pc \in Reading /\ c >= need /\ pc' = "addr"
          /\ rem' = rem + n /\ need' = n /\ c' = 0
          /\ UNCHANGED <<conf, online>>
    BY <1>8 DEF Headed, Granted
  <2>2. c \in Nat /\ need \in Nat /\ rem \in Int /\ n \in Nat
    BY <1>0, ConnectAssumption DEF CountsOK
  <2>3. rem = 0
    BY <1>a, <2>1, <2>2
  <2>4. rem' + c' = need' /\ c' <= need'
    BY <2>1, <2>2, <2>3
  <2>5. ~online /\ conf.px # "http"
    BY <1>a, <1>b, <2>1 DEF Connecting
  <2> QED BY <2>1, <2>4, <2>5 DEF Stream
<1>9. CASE ThroughProxy
  <2>1. /\ pc \in Reading /\ c >= need /\ (grant \/ torn)
        /\ pc' \in {"tls", "out"}
        /\ UNCHANGED <<conf, c, need, rem, grant, torn>>
    BY <1>9 DEF ThroughProxy, Granted, proxy, past
  <2>2. c \in Nat /\ need \in Nat /\ rem \in Int /\ HttpBuf \in Nat
    BY <1>0, ConnectAssumption DEF CountsOK
  <2>3. /\ c <= need
        /\ pc # "http" => rem + c = need
        /\ pc = "http" => need = IF rem + c < HttpBuf THEN rem + c ELSE HttpBuf
        /\ pc = "http" <=> conf.px = "http"
    BY <1>a, <2>1, Zenon
  <2>4. c >= need
    BY <2>1, Zenon
  <2>5. Whole => (pc = "http" => c + rem <= HttpBuf)
    BY <2>3, Zenon DEF Whole
  <2>6. Whole => rem = 0
    <3>1. CASE pc = "http" /\ c + rem <= HttpBuf
      BY <2>2, <2>3, <2>4, <3>1
    <3>2. CASE pc # "http"
      BY <2>2, <2>3, <2>4, <3>2
    <3> QED BY <2>5, <3>1, <3>2, Zenon
  <2>7. Whole => grant
    BY <2>1 DEF Whole
  <2>8. Whole' => Whole
    BY <2>1 DEF Whole
  <2> QED BY <2>1, <2>6, <2>7, <2>8 DEF Stream, Reading
<1>10. CASE TlsConnects
  <2>1. pc = "tls" /\ pc' = "out" /\ UNCHANGED <<conf, c, rem, grant, torn>>
    BY <1>10 DEF TlsConnects, proxy, past
  <2> QED BY <1>a, <2>1 DEF Stream, Whole, Reading
<1>11. CASE \E k \in Confs : Configure(k)
  <2>1. pc = "out" /\ pc' = "out" /\ ~online /\ online' = online
    BY <1>11 DEF Configure
  <2> QED BY <2>1 DEF Stream, Reading
<1>12. CASE \/ NoAddress \/ \E n \in 1..MaxAddr : Resolved(n)
            \/ TryFails \/ BindFails \/ TryWaits \/ Unanswered
  <2>1. /\ pc \in {"resolve", "next", "select"} /\ pc \in Trying
        /\ pc' \in {"out", "next", "select", "exit"}
        /\ UNCHANGED <<online, rem>>
    BY <1>12 DEF NoAddress, Resolved, TryFails, BindFails, TryWaits, Unanswered, Trying,
                 proxy
  <2> QED BY <1>a, <1>b, <2>1 DEF Stream, Reading
<1>13. CASE \/ Arrives \/ Tick \/ AppOpens
            \/ \E d \in Fd : AppCloses(d)
  <2>1. UNCHANGED <<conf, pc, online, c, need, rem, grant, torn>>
    BY <1>13 DEF Arrives, Tick, AppOpens, AppCloses, proxy, past
  <2> QED BY <1>a, <2>1 DEF Stream, Whole, Reading
<1>14. CASE ProxyOverruns
  <2>1. pc = "addr" /\ pc' = "exit" /\ UNCHANGED <<conf, online, c, rem, grant, torn>>
    BY <1>14 DEF ProxyOverruns, proxy, past
  <2> QED BY <1>a, <2>1 DEF Stream, Whole, Reading
<1> QED BY <1>1, <1>2, <1>3, <1>4, <1>5, <1>6, <1>7, <1>8, <1>9, <1>10, <1>11,
            <1>12, <1>13, <1>14, NextCases

-----------------------------------------------------------------------------
(* The inductive invariant *)

IInv == ConnectTypeOK /\ Own /\ Tls /\ Timed /\ Stream

LEMMA IInvInit == Init => IInv
<1> SUFFICES ASSUME Init PROVE IInv
  OBVIOUS
<1>1. ConnectTypeOK
  BY TypeInit
<1>2. /\ pc = "out" /\ sck = -1 /\ cur = -1 /\ late = {}
      /\ \A d \in DOMAIN fds : fds[d] = "app"
  BY DEF Init
<1>3. ~online /\ ~phantom
  BY DEF Init
<1>4. Lib = {}
  BY <1>2 DEF Lib
<1>5. Own
  BY <1>2, <1>3, <1>4 DEF Own, Trying, Connecting, Reading
<1>6. Tls /\ Timed /\ Stream
  BY <1>2, <1>3 DEF Tls, Timed, Stream, Connecting, Reading
<1> QED BY <1>1, <1>5, <1>6 DEF IInv

LEMMA IInvNext == IInv /\ [Next]_vars => IInv'
<1> SUFFICES ASSUME IInv, [Next]_vars PROVE IInv'
  OBVIOUS
<1>1. ConnectTypeOK'
  BY TypeNext DEF IInv
<1>2. CASE Next
  BY <1>1, <1>2, OwnNext, TlsNext, TimedNext, StreamNext DEF IInv
<1>3. CASE UNCHANGED vars
  <2>1. UNCHANGED <<conf, fds, sck, shnd, online, pc, hardleft, soft, selto, cur,
                    c, need, rem, grant, torn, phantom, late>>
    BY <1>3 DEF vars, timers, proxy, past
  <2>2. Own'
    BY <2>1 DEF IInv, Own, Lib
  <2>3. Tls' /\ Timed'
    BY <2>1 DEF IInv, Tls, Timed
  <2>4. Stream'
    BY <2>1 DEF IInv, Stream, Whole
  <2> QED BY <1>1, <2>2, <2>3, <2>4 DEF IInv
<1> QED BY <1>2, <1>3

LEMMA Invariant == Spec => []IInv
BY IInvInit, IInvNext, PTL DEF Spec

(* OwnDescriptors: consocket, tryhost, sslize and reset lose no descriptor  *)
(* on any path of success or failure, and none closes one that is not open  *)
(* for the library, whatever the application opens and closes in between.   *)
THEOREM OwnCorrect == Spec => []OwnDescriptors
<1>1. IInv => OwnDescriptors
  <2> SUFFICES ASSUME IInv, ~phantom
               PROVE  /\ {d \in DOMAIN fds : fds[d] = "lib"} = {sck, cur} \ {-1}
                      /\ online => sck # -1
    BY DEF OwnDescriptors
  <2>1. Lib = {sck, cur} \ {-1}
    BY DEF IInv, Own
  <2>2. online => sck # -1
    <3>1. pc \in Pc
      BY DEF IInv, ConnectTypeOK
    <3> QED BY <3>1 DEF IInv, Own, Pc, Trying, Connecting, Reading
  <2> QED BY <2>1, <2>2 DEF Lib
<1> QED BY <1>1, Invariant, PTL

(* TlsKept: lsi_conn_connect does not return a plain connection when TLS is *)
(* set, nor use the handle of an earlier connection when it is not.         *)
THEOREM TlsCorrect == Spec => []TlsKept
<1>1. IInv => TlsKept
  BY DEF IInv, Tls, TlsKept
<1> QED BY <1>1, Invariant, PTL

(* HardKept: the time tryhost waits in select(2) never reaches past the     *)
(* hard timeout, however the soft timeout is set and stretched.             *)
THEOREM HardCorrect == Spec => []HardKept
<1>1. IInv => HardKept
  <2> SUFFICES ASSUME IInv PROVE HardKept
    OBVIOUS
  <2>1. conf.soft \in Nat
    BY ConfType DEF IInv, ConnectTypeOK
  <2>2. conf.soft = 0 \/ conf.soft > 0
    BY <2>1
  <2> QED BY <2>2 DEF IInv, Timed, HardKept
<1> QED BY <1>1, Invariant, PTL

(* StreamStarts: px.c leaves the stream where the server's first byte is,   *)
(* for answers of any lengths that come in any pieces.                      *)
THEOREM StreamCorrect == Spec => []StreamStarts
<1>1. IInv => StreamStarts
  BY DEF IInv, Stream, Whole, StreamStarts
<1> QED BY <1>1, Invariant, PTL

-----------------------------------------------------------------------------
(* Every address is tried *)

(* If the resolver took no time, the addresses tried have had no more than  *)
(* the stretched soft timeout each.                                         *)
Pace ==
  conf.soft > 0 /\ ~slow =>
    /\ pc \in {"resolve", "next", "select"} /\ conf.hard = 0 => hardleft = -1
    /\ pc = "resolve" /\ conf.hard > 0 => hardleft = conf.hard
    /\ pc \in {"next", "select"} =>
         /\ count > 0 /\ left <= count
         /\ count <= MaxAddr
         /\ soft = Stretched(count)
    /\ pc = "next" /\ conf.hard > 0 =>
         hardleft >= 0 /\ hardleft >= conf.hard - (count - left) * soft
    /\ pc = "select" /\ conf.hard > 0 =>
         /\ 0 <= selto /\ selto <= hardleft
         /\ hardleft >= conf.hard - (count - left) * soft + selto

(* What an address more, or less, makes of the time that has been spent.    *)
LEMMA Spent ==
  /\ \A n \in Nat, l \in Nat, s \in Nat : (n - (l - 1)) * s = (n - l) * s + s
  /\ \A n \in Nat, l \in Nat, s \in Nat : 1 <= l /\ l <= n => (n - l) * s <= s * n - s
  /\ \A n \in Nat, l \in Nat, s \in Nat : (n - l) * s \in Int
  /\ \A n \in Nat, s \in Nat : (n - n) * s = 0
<1>1. ASSUME NEW n \in Nat, NEW l \in Nat, NEW s \in Nat
      PROVE  (n - (l - 1)) * s = (n - l) * s + s /\ (n - l) * s \in Int
  OBVIOUS
<1>2. ASSUME NEW n \in Nat, NEW l \in Nat, NEW s \in Nat, 1 <= l, l <= n
      PROVE  (n - l) * s <= s * n - s
  BY <1>2
<1>3. ASSUME NEW n \in Nat, NEW s \in Nat
      PROVE  (n - n) * s = 0
  OBVIOUS
<1> QED BY <1>1, <1>2, <1>3

(* The stretched timeouts of all addresses fit into the hard timeout, or    *)
(* the soft timeout was not stretched.                                      *)
LEMMA StretchedFits ==
  ASSUME conf \in Confs, NEW n \in 1..MaxAddr, conf.soft > 0, conf.hard > 0
  PROVE  \/ Stretched(n) = conf.soft
         \/ Stretched(n) * n <= conf.hard
<1>1. conf.soft \in Nat /\ conf.hard \in Nat /\ n \in Nat /\ n > 0
  BY ConfType, ConnectAssumption
<1>2. CASE conf.soft * n < conf.hard
  <2>1. Stretched(n) = conf.hard \div n
    BY <1>2 DEF Stretched
  <2>2. (conf.hard \div n) * n <= conf.hard
    <3>1. ASSUME NEW h \in Nat
          PROVE  (h \div n) * n <= h
      BY <1>1
    <3> QED BY <1>1, <3>1
  <2> QED BY <2>1, <2>2
<1>3. CASE ~(conf.soft * n < conf.hard)
  BY <1>3 DEF Stretched
<1> QED BY <1>2, <1>3

(* The time an address takes is the time that passes.                       *)
LEMMA PaceNext ==
  ASSUME ConnectTypeOK, Timed, Pace, Next
  PROVE  Pace'
<1>0. /\ conf \in Confs /\ TimersOK /\ conf.soft \in Nat /\ conf.hard \in Nat
      /\ left \in Nat /\ count \in Nat /\ soft \in Nat
      /\ hardleft \in Int /\ hardleft >= -1 /\ selto \in Int
  BY ConfType DEF ConnectTypeOK, TimersOK, CountsOK
<1>1. CASE Connect
  <2>1. /\ pc' = "resolve" /\ conf' = conf
        /\ hardleft' = IF conf.hard > 0 THEN conf.hard ELSE -1
    BY <1>1 DEF Connect
  <2> QED BY <1>0, <2>1 DEF Pace
<1>2. CASE \E n \in 1..MaxAddr : Resolved(n)
  <2>1. PICK n \in 1..MaxAddr : Resolved(n)
    BY <1>2
  <2>2. /\ pc = "resolve" /\ pc' = "next" /\ left' = n /\ count' = n
        /\ soft' = Stretched(n) /\ UNCHANGED <<conf, hardleft, slow>>
    BY <2>1 DEF Resolved
  <2>3. n \in Nat /\ n > 0 /\ n <= MaxAddr
    BY ConnectAssumption
  <2>4. Stretched(n) \in Nat /\ (Stretched(count))' = Stretched(n)
    BY <1>0, <2>2, StretchedIs DEF Stretched
  <2>5. (count' - left') * soft' = 0
    BY <2>2, <2>3, <2>4, Spent
  <2>6. conf.soft > 0 /\ ~slow /\ conf.hard > 0 => hardleft = conf.hard
    BY <2>2, Zenon DEF Pace
  <2>7. conf.soft > 0 /\ ~slow /\ conf.hard = 0 => hardleft = -1
    BY <2>2 DEF Pace
  <2>8. conf.soft > 0 /\ ~slow /\ conf.hard > 0 =>
          hardleft' >= 0 /\ hardleft' >= conf'.hard - (count' - left') * soft'
    BY <1>0, <2>2, <2>5, <2>6
  <2>9. count' > 0 /\ left' <= count' /\ count' <= MaxAddr
    BY <2>2, <2>3
  <2> QED BY <2>2, <2>4, <2>7, <2>8, <2>9 DEF Pace
<1>3. CASE TryFails
  <2>1. /\ pc = "next" /\ pc' = "next" /\ left > 0 /\ left' = left - 1
        /\ UNCHANGED <<conf, hardleft, soft, count, slow>>
    BY <1>3 DEF TryFails, timers, past
  <2>2. (count - left') * soft = (count - left) * soft + soft /\ (count - left) * soft \in Int
    BY <1>0, <2>1, Spent
  <2>3. (Stretched(count))' = Stretched(count)
    BY <2>1 DEF Stretched
  <2>4. ASSUME conf.soft > 0, ~slow
        PROVE  /\ conf.hard = 0 => hardleft = -1
               /\ count > 0 /\ left <= count /\ count <= MaxAddr /\ soft = Stretched(count)
               /\ conf.hard > 0 => hardleft >= 0 /\ hardleft >= conf.hard - (count - left) * soft
    BY <2>1, <2>4, Zenon DEF Pace
  <2>5. ASSUME conf.soft > 0, ~slow
        PROVE  /\ left' <= count
               /\ conf.hard > 0 => hardleft >= 0 /\ hardleft >= conf.hard - (count - left') * soft
    BY <1>0, <2>1, <2>2, <2>4, <2>5
  <2> QED BY <2>1, <2>3, <2>4, <2>5 DEF Pace
<1>4. CASE TryWaits
  <2>1. /\ pc = "next" /\ pc' = "select" /\ left > 0 /\ left' = left - 1
        /\ hardleft # 0 /\ selto' = TimeToTry
        /\ UNCHANGED <<conf, hardleft, soft, count, slow>>
    BY <1>4 DEF TryWaits, past
  <2>2. (count - left') * soft = (count - left) * soft + soft /\ (count - left) * soft \in Int
    BY <1>0, <2>1, Spent
  <2>3. (Stretched(count))' = Stretched(count)
    BY <2>1 DEF Stretched
  <2>4. ASSUME conf.soft > 0, ~slow
        PROVE  /\ conf.hard = 0 => hardleft = -1
               /\ count > 0 /\ left <= count /\ count <= MaxAddr /\ soft = Stretched(count)
               /\ conf.hard > 0 => hardleft >= 0 /\ hardleft >= conf.hard - (count - left) * soft
    BY <2>1, <2>4, Zenon DEF Pace
  <2>5. conf.soft > 0 => soft > 0
    BY <2>1 DEF Timed
  <2>6. ASSUME conf.soft > 0, hardleft > 0
        PROVE  /\ 0 <= TimeToTry /\ TimeToTry <= hardleft /\ TimeToTry <= soft
    BY <1>0, <2>5, <2>6 DEF TimeToTry
  <2>7. TimeToTry \in Int
    BY <1>0, TimeToTryIs
  <2>8. ASSUME conf.soft > 0, ~slow, conf.hard > 0
        PROVE  /\ 0 <= selto' /\ selto' <= hardleft'
               /\ hardleft' >= conf'.hard - (count' - left') * soft' + selto'
    <3>1. hardleft > 0 /\ hardleft >= conf.hard - (count - left) * soft
      BY <1>0, <2>1, <2>4, <2>8
    <3> QED BY <1>0, <2>1, <2>2, <2>6, <2>7, <2>8, <3>1
  <2>9. ASSUME conf.soft > 0, ~slow
        PROVE  left' <= count
    BY <1>0, <2>1, <2>4, <2>9
  <2> QED BY <2>1, <2>3, <2>4, <2>8, <2>9 DEF Pace
<1>5. CASE Unanswered
  <2>1. /\ pc = "select" /\ pc' = "next"
        /\ UNCHANGED <<conf, hardleft, soft, count, left, slow>>
    BY <1>5 DEF Unanswered, past
  <2>2. (Stretched(count))' = Stretched(count)
    BY <2>1 DEF Stretched
  <2>3. (count - left) * soft \in Int
    BY <1>0, Spent
  <2>4. ASSUME conf.soft > 0, ~slow
        PROVE  /\ conf.hard = 0 => hardleft = -1
               /\ count > 0 /\ left <= count /\ count <= MaxAddr /\ soft = Stretched(count)
               /\ conf.hard > 0 => /\ 0 <= selto /\ selto <= hardleft
                                   /\ hardleft >= conf.hard - (count - left) * soft + selto
    BY <2>1, <2>4, Zenon DEF Pace
  <2>5. ASSUME conf.soft > 0, ~slow, conf.hard > 0
        PROVE  hardleft >= 0 /\ hardleft >= conf.hard - (count - left) * soft
    BY <1>0, <2>3, <2>4, <2>5
  <2> QED BY <2>1, <2>2, <2>4, <2>5 DEF Pace
<1>6. CASE Tick
  <2>1. /\ Waiting /\ UNCHANGED <<conf, pc, soft, count, left>>
        /\ hardleft' = Less(hardleft) /\ selto' = Less(selto)
        /\ slow' = (slow \/ pc = "resolve")
    BY <1>6 DEF Tick
  <2>2. (Stretched(count))' = Stretched(count)
    BY <2>1 DEF Stretched
  <2>3. CASE pc \in {"resolve", "next"}
    <3>1. pc # "next"
      BY <2>1 DEF Waiting, Reading
    <3> QED BY <2>1, <2>3, <3>1 DEF Pace
  <2>4. CASE pc = "select"
    <3>1. (count - left) * soft \in Int
      BY <1>0, Spent
    <3>2. ASSUME conf.soft > 0, ~slow
          PROVE  /\ conf.hard = 0 => hardleft = -1
                 /\ count > 0 /\ left <= count /\ count <= MaxAddr /\ soft = Stretched(count)
                 /\ conf.hard > 0 => /\ 0 <= selto /\ selto <= hardleft
                                     /\ hardleft >= conf.hard - (count - left) * soft + selto
      BY <2>4, <3>2, Zenon DEF Pace
    <3>3. selto # 0
      BY <2>1, <2>4 DEF Waiting, Reading
    <3>4. ASSUME conf.soft > 0, ~slow, conf.hard > 0
          PROVE  /\ 0 <= selto' /\ selto' <= hardleft'
                 /\ hardleft' >= conf.hard - (count - left) * soft + selto'
      <4>1. selto > 0 /\ hardleft > 0
        BY <1>0, <3>2, <3>3, <3>4
      <4>2. selto' = selto - 1 /\ hardleft' = hardleft - 1
        BY <2>1, <4>1 DEF Less
      <4> QED BY <1>0, <3>1, <3>2, <3>4, <4>1, <4>2
    <3>5. ASSUME conf.soft > 0, ~slow, conf.hard = 0
          PROVE  hardleft' = -1
      BY <2>1, <3>2, <3>5 DEF Less
    <3>6. slow' <=> slow
      BY <2>1, <2>4
    <3> QED BY <2>1, <2>2, <2>4, <3>2, <3>4, <3>5, <3>6 DEF Pace
  <2>5. CASE pc \notin {"resolve", "next", "select"}
    BY <2>1, <2>5 DEF Pace
  <2> QED BY <2>3, <2>4, <2>5
<1>7. CASE Fails
  <2>1. pc' = "out"
    BY <1>7, FailsCases
  <2> QED BY <2>1 DEF Pace
<1>8. CASE HardTimeout \/ TryConnects \/ Answered
  <2>1. PICK d : HaveSocket(d)
    BY <1>8 DEF HardTimeout, TryConnects, Answered
  <2>2. pc' \in {"proxy", "tls", "out"}
    BY <1>0, <2>1, HaveSocketCases
  <2> QED BY <2>2 DEF Pace
<1>9. CASE \/ NoAddress \/ BindFails \/ ProxyOverruns
           \/ ProxyStarts \/ \E k \in 1..rx : ProxyReads(k)
           \/ Greeted \/ Headed \/ ThroughProxy \/ TlsConnects \/ Reset \/ Arrives
           \/ AppOpens \/ \E d \in Fd : AppCloses(d)
  <2>1. pc' \notin {"resolve", "next", "select"}
    BY <1>9 DEF NoAddress, BindFails, ProxyOverruns, ProxyStarts, Asked, ProxyReads,
                Greeted, Headed,
                ThroughProxy, TlsConnects, Reset, Arrives, AppOpens, AppCloses, Reading
  <2> QED BY <2>1 DEF Pace
<1>10. CASE \E k \in Confs : Configure(k)
  <2>1. pc' = "out"
    BY <1>10 DEF Configure
  <2> QED BY <2>1 DEF Pace
<1> QED BY <1>1, <1>2, <1>3, <1>4, <1>5, <1>6, <1>7, <1>8, <1>9, <1>10, NextCases

(* The hard timeout cannot be up while there is an address left, if the     *)
(* addresses' timeouts fit into it.                                         *)
LEMMA PaceSuffices ==
  ASSUME ConnectTypeOK, Timed, Pace, HardTimeout, ~slow, conf.soft > 0
  PROVE  conf.soft * count > conf.hard
<1>0. /\ conf \in Confs /\ conf.soft \in Nat /\ conf.hard \in Nat
      /\ left \in Nat /\ count \in Nat /\ soft \in Nat
  BY ConfType DEF ConnectTypeOK, TimersOK, CountsOK
<1>1. pc = "next" /\ left > 0 /\ hardleft = 0
  BY DEF HardTimeout
<1>2. /\ conf.hard = 0 => hardleft = -1
      /\ count > 0 /\ left <= count /\ count <= MaxAddr /\ soft = Stretched(count)
      /\ conf.hard > 0 => hardleft >= conf.hard - (count - left) * soft
  BY <1>1, Zenon DEF Pace
<1>3. conf.hard > 0
  BY <1>0, <1>1, <1>2
<1>4. soft > 0
  BY <1>1 DEF Timed
<1>5. count \in 1..MaxAddr
  BY <1>0, <1>2, ConnectAssumption
<1>6. (count - left) * soft <= soft * count - soft /\ (count - left) * soft \in Int
  <2>1. 1 <= left /\ left <= count
    BY <1>0, <1>1, <1>2
  <2> QED BY <1>0, <2>1, Spent
<1>7. soft * count \in Nat
  BY <1>0
<1>8. conf.hard < soft * count
  BY <1>0, <1>1, <1>2, <1>3, <1>4, <1>6, <1>7
<1>9. soft = conf.soft \/ soft * count <= conf.hard
  BY <1>0, <1>2, <1>3, <1>5, StretchedFits
<1>10. soft = conf.soft
  BY <1>0, <1>7, <1>8, <1>9
<1> QED BY <1>0, <1>8, <1>10

(* AllTried: with a soft timeout that leaves time for all of them, however  *)
(* it is rounded when stretched, consocket does not run into the hard       *)
(* timeout before it has tried each address.                                *)
THEOREM AllTriedCorrect == Spec => AllTried
<1>1. Init => Pace
  BY DEF Init, Pace
<1>2. IInv /\ Pace /\ [Next]_vars => Pace'
  <2> SUFFICES ASSUME IInv, Pace, [Next]_vars PROVE Pace'
    OBVIOUS
  <2>1. CASE Next
    BY <2>1, PaceNext DEF IInv
  <2>2. CASE UNCHANGED vars
    BY <2>2 DEF Pace, Stretched, vars, timers, past
  <2> QED BY <2>1, <2>2
<1>3. IInv /\ Pace /\ HardTimeout => (~slow /\ conf.soft > 0 => conf.soft * count > conf.hard)
  BY PaceSuffices DEF IInv
<1>4. Spec => [](IInv /\ Pace)
  BY <1>1, <1>2, Invariant, IInvInit, IInvNext, PTL DEF Spec
<1>5. IInv /\ Pace => [HardTimeout /\ ~slow /\ conf.soft > 0 => conf.soft * count > conf.hard]_vars
  BY <1>3
<1> QED BY <1>4, <1>5, PTL DEF AllTried
=============================================================================
