-------------------------- MODULE ChanModesProofs --------------------------
(***************************************************************************)
(* Proofs about the topic of a channel, module ChanModes: whatever order    *)
(* the messages about it come in, when none is on its way the topic is the  *)
(* channel's.                                                               *)
(*                                                                          *)
(* The argument: what the tracker has of the topic is a view, and each      *)
(* message turns a view into the next.  While we are connected the messages *)
(* on their way turn what we have into something that is true.              *)
(***************************************************************************)
EXTENDS ChanModes, TLAPS

ViewOf(k, t, b) == [known |-> k, topic |-> t, by |-> b]
View == ViewOf(known, topic, topicnick)

(* What the handlers make of a view when memory does not run out.           *)
After(v, m) ==
  IF m.cmd = "JOIN" THEN ViewOf(TRUE, NoText, NoText)
  ELSE IF m.cmd = "PART" THEN ViewOf(FALSE, NoText, NoText)
  ELSE IF v.known = FALSE THEN v
  ELSE IF m.cmd = "332" THEN ViewOf(TRUE, m.text, v.by)
  ELSE IF m.cmd = "333" THEN ViewOf(TRUE, v.topic, m.by)
  ELSE IF m.cmd = "TOPIC" THEN ViewOf(TRUE, m.text, m.by)
  ELSE v

(* The messages q turn the view v into the view z, one after the other.     *)
Leads(v, q, z) ==
  \E w : /\ w[0] = v /\ w[Len(q)] = z
         /\ \A i \in 1..Len(q) : w[i] = After(w[i - 1], q[i])

(* A view that is true of the channel, when `top` is its topic and we are   *)
(* on it, or not.                                                           *)
IsTrue(z, on, top) ==
  /\ z.known = on
  /\ on => /\ z.topic = top.text \/ (z.topic = NoText /\ top.text = "")
           /\ top.text # "" => z.by = top.by

TopicInv ==
  /\ joined \in BOOLEAN /\ online \in BOOLEAN /\ known \in BOOLEAN
  /\ \E S : net \in Seq(S)
  /\ online => \E z : Leads(View, net, z) /\ IsTrue(z, joined, srvtopic)
  /\ ~online => net = <<>> /\ ~joined

-----------------------------------------------------------------------------
(* Lemmas about the messages on their way *)

LEMMA LeadsNone ==
  ASSUME NEW v
  PROVE  Leads(v, <<>>, v)
<1> DEFINE w == [i \in {0} |-> v]
<1>1. w[0] = v /\ Len(<<>>) = 0 /\ 1..0 = {}
  OBVIOUS
<1> HIDE DEF w
<1> QED BY <1>1 DEF Leads

LEMMA LeadsTail ==
  ASSUME NEW S, NEW q \in Seq(S), q # <<>>, NEW v, NEW z, Leads(v, q, z)
  PROVE  Leads(After(v, Head(q)), Tail(q), z)
<1>1. PICK w : /\ w[0] = v /\ w[Len(q)] = z
               /\ \A i \in 1..Len(q) : w[i] = After(w[i - 1], q[i])
  BY DEF Leads
<1>2. /\ Len(q) \in Nat \ {0} /\ Len(Tail(q)) = Len(q) - 1
      /\ Head(q) = q[1] /\ \A i \in 1..(Len(q) - 1) : Tail(q)[i] = q[i + 1]
  OBVIOUS
<1> DEFINE x == [i \in 0..(Len(q) - 1) |-> w[i + 1]]
<1>3. x[0] = After(v, Head(q)) /\ x[Len(Tail(q))] = z
  <2>1. x[0] = w[1] /\ x[Len(q) - 1] = w[Len(q)]
    BY <1>2
  <2>2. w[1] = After(w[1 - 1], q[1]) /\ 1 - 1 = 0
    BY <1>1, <1>2
  <2> HIDE DEF x
  <2> QED BY <1>1, <1>2, <2>1, <2>2
<1>4. ASSUME NEW i \in 1..Len(Tail(q))
      PROVE  x[i] = After(x[i - 1], Tail(q)[i])
  <2>1. i + 1 \in 1..Len(q) /\ (i + 1) - 1 = i /\ i \in 0..(Len(q) - 1) /\ i - 1 \in 0..(Len(q) - 1)
        /\ (i - 1) + 1 = i
    BY <1>2
  <2>2. w[i + 1] = After(w[(i + 1) - 1], q[i + 1])
    BY <1>1, <2>1
  <2>3. x[i] = w[i + 1] /\ x[i - 1] = w[i] /\ Tail(q)[i] = q[i + 1]
    BY <1>2, <2>1
  <2> HIDE DEF x
  <2> QED BY <2>1, <2>2, <2>3
<1> HIDE DEF x
<1> QED BY <1>3, <1>4 DEF Leads

LEMMA LeadsOn ==
  ASSUME NEW S, NEW q \in Seq(S), NEW v, NEW z, NEW m, Leads(v, q, z)
  PROVE  Leads(v, Append(q, m), After(z, m))
<1>1. PICK w : /\ w[0] = v /\ w[Len(q)] = z
               /\ \A i \in 1..Len(q) : w[i] = After(w[i - 1], q[i])
  BY DEF Leads
<1> DEFINE n == Len(q)
           r == Append(q, m)
           x == [i \in 0..(n + 1) |-> IF i = n + 1 THEN After(z, m) ELSE w[i]]
<1>2. n \in Nat /\ Len(r) = n + 1 /\ r[n + 1] = m /\ \A i \in 1..n : r[i] = q[i]
  <2>1. q \in Seq(S \cup {m}) /\ m \in S \cup {m}
    OBVIOUS
  <2> QED BY <2>1
<1> HIDE DEF n, r
<1>3. x[0] = v /\ x[n + 1] = After(z, m)
  BY <1>1, <1>2
<1>4. ASSUME NEW i \in 1..(n + 1)
      PROVE  x[i] = After(x[i - 1], r[i])
  <2>1. CASE i = n + 1
    <3>1. x[i] = After(z, m) /\ x[i - 1] = w[n] /\ w[n] = z /\ r[i] = m
      BY <1>1, <1>2, <2>1 DEF n
    <3> HIDE DEF x
    <3> QED BY <3>1
  <2>2. CASE i # n + 1
    <3>1. i \in 1..n /\ x[i] = w[i] /\ x[i - 1] = w[i - 1]
      BY <1>2, <2>2
    <3>2. w[i] = After(w[i - 1], q[i]) /\ r[i] = q[i]
      BY <1>1, <1>2, <3>1 DEF n
    <3> HIDE DEF x
    <3> QED BY <3>1, <3>2
  <2> QED BY <2>1, <2>2
<1> HIDE DEF x
<1>5. Leads(v, r, After(z, m))
  BY <1>2, <1>3, <1>4 DEF Leads
<1> QED BY <1>5 DEF r

(* Appending keeps a sequence one.                                          *)
LEMMA Longer ==
  ASSUME NEW S, NEW q \in Seq(S), NEW m
  PROVE  \E T : Append(q, m) \in Seq(T)
<1>1. q \in Seq(S \cup {m}) /\ m \in S \cup {m}
  OBVIOUS
<1>2. Append(q, m) \in Seq(S \cup {m})
  BY <1>1
<1> QED BY <1>2

LEMMA NoneMore ==
  ASSUME NEW S, NEW q \in Seq(S)
  PROVE  q \o <<>> = q
OBVIOUS

(* A message that no handler of the topic looks at leaves the view alone.   *)
LEMMA AfterOther ==
  ASSUME NEW v, NEW m, m.cmd \notin {"JOIN", "PART", "332", "333", "TOPIC"}
  PROVE  After(v, m) = v
BY DEF After

-----------------------------------------------------------------------------
(* The steps of the tracker *)

(* A handler that has no memory leaves us without a connection.             *)
LEMMA Failed ==
  ASSUME TopicInv, Handled(TRUE), known' = known
  PROVE  TopicInv'
<1>1. net' = <<>> /\ online' = FALSE /\ joined' = FALSE
  BY DEF Handled, TopicInv
<1>2. <<>> \in Seq({})
  OBVIOUS
<1> QED BY <1>1, <1>2 DEF TopicInv

(* One that has it makes of the view what After says.                       *)
LEMMA Done ==
  ASSUME TopicInv, online, net # <<>>, Handled(FALSE), known' \in BOOLEAN,
         View' = After(View, Head(net))
  PROVE  TopicInv'
<1>1. /\ net' = Tail(net) /\ online' = online /\ joined' = joined
      /\ srvtopic' = srvtopic
  BY DEF Handled, TopicInv
<1>2. PICK S : net \in Seq(S)
  BY DEF TopicInv
<1>3. PICK z : Leads(View, net, z) /\ IsTrue(z, joined, srvtopic)
  BY DEF TopicInv
<1>4. Tail(net) \in Seq(S)
  BY <1>2
<1>5. Leads(View', net', z)
  BY <1>1, <1>2, <1>3, LeadsTail
<1>6. IsTrue(z, joined', srvtopic')
  BY <1>1, <1>3
<1> QED BY <1>1, <1>4, <1>5, <1>6 DEF TopicInv

LEMMA MODE_Inv == TopicInv /\ h_MODE_chanmode => TopicInv'
<1> SUFFICES ASSUME TopicInv, h_MODE_chanmode PROVE TopicInv'
  OBVIOUS
<1>1. online /\ net # <<>> /\ Head(net).cmd = "MODE"
  BY DEF h_MODE_chanmode, Next_
<1>2. known' = known /\ UNCHANGED <<topic, topicnick>>
  BY DEF h_MODE_chanmode, IgnoredMode, cview
<1>3. Handled(TRUE) \/ Handled(FALSE)
  BY DEF h_MODE_chanmode, IgnoredMode, Handled
<1>4. View' = After(View, Head(net))
  BY <1>1, <1>2, AfterOther DEF View
<1> QED BY <1>1, <1>2, <1>3, <1>4, Failed, Done DEF TopicInv

LEMMA M324_Inv == TopicInv /\ h_324 => TopicInv'
<1> SUFFICES ASSUME TopicInv, h_324 PROVE TopicInv'
  OBVIOUS
<1>1. online /\ net # <<>> /\ Head(net).cmd = "324"
  BY DEF h_324, Next_
<1>2. known' = known /\ UNCHANGED <<topic, topicnick>>
  BY DEF h_324, IgnoredMode, cview
<1>3. Handled(TRUE) \/ Handled(FALSE)
  BY DEF h_324, IgnoredMode, Handled
<1>4. View' = After(View, Head(net))
  BY <1>1, <1>2, AfterOther DEF View
<1> QED BY <1>1, <1>2, <1>3, <1>4, Failed, Done DEF TopicInv

LEMMA M332_Inv == TopicInv /\ h_332 => TopicInv'
<1> SUFFICES ASSUME TopicInv, h_332 PROVE TopicInv'
  OBVIOUS
<1>1. online /\ net # <<>> /\ Head(net).cmd = "332" /\ known \in BOOLEAN
  BY DEF h_332, Next_, TopicInv
<1>2. CASE Handled(TRUE) /\ known' = known
  BY <1>2, Failed
<1>3. CASE ~known /\ Handled(FALSE) /\ UNCHANGED cview
  <2>1. View' = After(View, Head(net)) /\ known' \in BOOLEAN
    BY <1>1, <1>3 DEF View, ViewOf, After, cview
  <2> QED BY <1>1, <1>3, <2>1, Done
<1>4. CASE /\ known /\ topic' = Head(net).text /\ Handled(FALSE)
           /\ UNCHANGED <<known, modes, pfx, topicnick, tstopic>>
  <2>1. View' = After(View, Head(net)) /\ known' \in BOOLEAN
    BY <1>1, <1>4 DEF View, ViewOf, After
  <2> QED BY <1>1, <1>4, <2>1, Done
<1> QED BY <1>2, <1>3, <1>4 DEF h_332

LEMMA M333_Inv == TopicInv /\ h_333 => TopicInv'
<1> SUFFICES ASSUME TopicInv, h_333 PROVE TopicInv'
  OBVIOUS
<1>1. online /\ net # <<>> /\ Head(net).cmd = "333" /\ known \in BOOLEAN
  BY DEF h_333, Next_, TopicInv
<1>2. CASE Handled(TRUE) /\ known' = known
  BY <1>2, Failed
<1>3. CASE ~known /\ Handled(FALSE) /\ UNCHANGED cview
  <2>1. View' = After(View, Head(net)) /\ known' \in BOOLEAN
    BY <1>1, <1>3 DEF View, ViewOf, After, cview
  <2> QED BY <1>1, <1>3, <2>1, Done
<1>4. CASE /\ known /\ Handled(FALSE)
           /\ topicnick' = Head(net).by /\ tstopic' = Head(net).at
           /\ UNCHANGED <<known, modes, pfx, topic>>
  <2>1. View' = After(View, Head(net)) /\ known' \in BOOLEAN
    BY <1>1, <1>4 DEF View, ViewOf, After
  <2> QED BY <1>1, <1>4, <2>1, Done
<1> QED BY <1>2, <1>3, <1>4 DEF h_333

LEMMA TOPIC_Inv == TopicInv /\ h_TOPIC => TopicInv'
<1> SUFFICES ASSUME TopicInv, h_TOPIC PROVE TopicInv'
  OBVIOUS
<1>1. online /\ net # <<>> /\ Head(net).cmd = "TOPIC" /\ known \in BOOLEAN
  BY DEF h_TOPIC, Next_, TopicInv
<1>2. CASE Handled(TRUE) /\ known' = known
  BY <1>2, Failed
<1>3. CASE ~known /\ Handled(FALSE) /\ UNCHANGED cview
  <2>1. View' = After(View, Head(net)) /\ known' \in BOOLEAN
    BY <1>1, <1>3 DEF View, ViewOf, After, cview
  <2> QED BY <1>1, <1>3, <2>1, Done
<1>4. CASE /\ known /\ Handled(FALSE)
           /\ topic' = Head(net).text /\ topicnick' = Head(net).by
           /\ UNCHANGED <<known, modes, pfx, tstopic>>
  <2>1. View' = After(View, Head(net)) /\ known' \in BOOLEAN
    BY <1>1, <1>4 DEF View, ViewOf, After
  <2> QED BY <1>1, <1>4, <2>1, Done
<1> QED BY <1>2, <1>3, <1>4 DEF h_TOPIC

LEMMA JOIN_Inv == TopicInv /\ h_JOIN => TopicInv'
<1> SUFFICES ASSUME TopicInv, h_JOIN PROVE TopicInv'
  OBVIOUS
<1>1. online /\ net # <<>> /\ Head(net).cmd = "JOIN" /\ Handled(FALSE)
  BY DEF h_JOIN, Next_
<1>2. View' = After(View, Head(net)) /\ known' \in BOOLEAN
  BY <1>1 DEF View, ViewOf, After, h_JOIN, NewChan
<1> QED BY <1>1, <1>2, Done

LEMMA PART_Inv == TopicInv /\ h_PART => TopicInv'
<1> SUFFICES ASSUME TopicInv, h_PART PROVE TopicInv'
  OBVIOUS
<1>1. online /\ net # <<>> /\ Head(net).cmd = "PART" /\ Handled(FALSE)
  BY DEF h_PART, Next_
<1>2. View' = After(View, Head(net)) /\ known' \in BOOLEAN
  BY <1>1 DEF View, ViewOf, After, h_PART, NoChan
<1> QED BY <1>1, <1>2, Done

(* A new connection starts with nothing.                                    *)
LEMMA Connect_Inv == TopicInv /\ irc_connect => TopicInv'
<1> SUFFICES ASSUME TopicInv, irc_connect PROVE TopicInv'
  OBVIOUS
<1>1. /\ net = <<>> /\ net' = net /\ joined = FALSE /\ joined' = joined
      /\ online' = TRUE /\ known' = FALSE /\ srvtopic' = srvtopic
  BY DEF TopicInv, irc_connect, srv, NoChan
<1>2. Leads(View', net', View')
  BY <1>1, LeadsNone
<1>3. IsTrue(View', joined', srvtopic')
  BY <1>1 DEF IsTrue, View, ViewOf
<1>4. <<>> \in Seq({})
  OBVIOUS
<1> QED BY <1>1, <1>2, <1>3, <1>4 DEF TopicInv

-----------------------------------------------------------------------------
(* The steps of the server *)

(* A message more, after which the view is true of the channel as it is now. *)
LEMMA Sent ==
  ASSUME TopicInv, online, NEW m, NEW on \in BOOLEAN, NEW top,
         \A z : IsTrue(z, joined, srvtopic) => IsTrue(After(z, m), on, top),
         net' = Append(net, m), joined' = on, srvtopic' = top,
         UNCHANGED <<online, known, topic, topicnick>>
  PROVE  TopicInv'
<1>1. PICK S : net \in Seq(S)
  BY DEF TopicInv
<1>2. PICK z : Leads(View, net, z) /\ IsTrue(z, joined, srvtopic)
  BY DEF TopicInv
<1>3. Leads(View, Append(net, m), After(z, m)) /\ IsTrue(After(z, m), on, top)
  BY <1>1, <1>2, LeadsOn
<1>4. View' = View
  BY DEF View
<1>5. \E T : net' \in Seq(T)
  BY <1>1, Longer
<1>6. Leads(View', net', After(z, m)) /\ IsTrue(After(z, m), joined', srvtopic')
  BY <1>3, <1>4
<1> QED BY <1>5, <1>6 DEF TopicInv

(* None, after which it is.                                                 *)
LEMMA Silent ==
  ASSUME TopicInv, online, NEW top,
         \A z : IsTrue(z, joined, srvtopic) => IsTrue(z, joined, top),
         srvtopic' = top,
         UNCHANGED <<net, joined, online, known, topic, topicnick>>
  PROVE  TopicInv'
<1>1. PICK z : Leads(View, net, z) /\ IsTrue(z, joined, srvtopic)
  BY DEF TopicInv
<1>2. View' = View
  BY DEF View
<1>3. Leads(View', net', z) /\ IsTrue(z, joined', srvtopic')
  BY <1>1, <1>2
<1> QED BY <1>3 DEF TopicInv

(* The two messages that tell a topic.                                      *)
Told332 == [cmd |-> "332", text |-> srvtopic.text]
Told333 == [cmd |-> "333", by |-> srvtopic.by, at |-> srvtopic.at]

Two(m, n)    == <<m, n>>
Joined(q, r) == q \o r
Longer2(q, m, n) == Append(Append(q, m), n)

LEMMA Twice ==
  ASSUME NEW S, NEW q \in Seq(S), NEW m, NEW n
  PROVE  Joined(q, Two(m, n)) = Longer2(q, m, n)
<1> DEFINE U == S \cup {m, n}
<1>1. q \in Seq(U) /\ m \in U /\ n \in U
  OBVIOUS
<1> HIDE DEF U
<1> QED BY <1>1 DEF Two, Joined, Longer2

LEMMA TopicAppended ==
  ASSUME NEW S, NEW q \in Seq(S), srvtopic.text # ""
  PROVE  q \o TheTopic = Append(Append(q, Told332), Told333)
<1>1. TheTopic = Two(Told332, Told333)
  BY DEF Two, TheTopic, Told332, Told333
<1>2. Joined(q, Two(Told332, Told333)) = Longer2(q, Told332, Told333)
  BY Twice
<1>3. Joined(q, TheTopic) = Longer2(q, Told332, Told333)
  BY <1>1, <1>2
<1> QED BY <1>3 DEF Joined, Longer2

(* What the server says of the topic makes a view true that knows of the    *)
(* channel when we are on it.                                               *)
LEMMA TopicTold ==
  ASSUME TopicInv, NEW on \in BOOLEAN, NEW z, z.known = on,
         srvtopic.text = "" => IsTrue(z, on, srvtopic),
         NEW S, NEW q \in Seq(S), Leads(View, q, z), net' = q \o TheTopic,
         joined' = on, UNCHANGED <<online, srvtopic, known, topic, topicnick>>,
         online
  PROVE  TopicInv'
<1>1. View' = View
  BY DEF View
<1>2. CASE srvtopic.text = ""
  <2>0. TheTopic = <<>>
    BY <1>2 DEF TheTopic
  <2>1. net' = q
    BY <2>0, NoneMore
  <2>2. Leads(View', net', z) /\ IsTrue(z, joined', srvtopic')
    BY <1>1, <1>2, <2>1
  <2> QED BY <2>1, <2>2 DEF TopicInv
<1>3. CASE srvtopic.text # ""
  <2> DEFINE m == Told332
             n == Told333
             y == After(After(z, m), n)
  <2>2. IsTrue(y, on, srvtopic)
    BY DEF After, ViewOf, IsTrue, Told332, Told333
  <2> HIDE DEF y
  <2>1. net' = Append(Append(q, m), n)
    BY <1>3, TopicAppended
  <2>3. Leads(View, Append(q, m), After(z, m))
    BY LeadsOn
  <2>4. PICK T : Append(q, m) \in Seq(T)
    BY Longer
  <2>5. Leads(View, Append(Append(q, m), n), y)
    BY <2>3, <2>4, LeadsOn DEF y
  <2>6. \E U : Append(Append(q, m), n) \in Seq(U)
    BY <2>4, Longer
  <2>7. Leads(View', net', y) /\ IsTrue(y, joined', srvtopic') /\ \E U : net' \in Seq(U)
    BY <1>1, <2>1, <2>2, <2>5, <2>6
  <2> QED BY <2>7 DEF TopicInv
<1> QED BY <1>2, <1>3

LEMMA SrvMode_Inv ==
  ASSUME NEW chs, TopicInv, SrvMode(chs)
  PROVE  TopicInv'
<1> DEFINE m == Wire("MODE", chs)
<1>1. /\ online /\ joined' = joined /\ srvtopic' = srvtopic
      /\ UNCHANGED <<online, known, topic, topicnick>>
      /\ net' = IF joined THEN Append(net, m) ELSE net
  BY DEF SrvMode, RoomOnNet, Sends, cview
<1>2. m.cmd = "MODE"
  BY DEF Wire
<1> HIDE DEF m
<1>3. \A z : After(z, m) = z
  BY <1>2, AfterOther
<1>4. CASE joined
  BY <1>1, <1>3, <1>4, Sent DEF TopicInv
<1>5. CASE ~joined
  BY <1>1, <1>5, Silent
<1> QED BY <1>4, <1>5

LEMMA SrvTopic_Inv ==
  ASSUME NEW who, NEW text, TopicInv, SrvTopic(who, text)
  PROVE  TopicInv'
<1> DEFINE m == [cmd |-> "TOPIC", text |-> text, by |-> who]
           top == [text |-> text, by |-> who, at |-> 1]
<1>1. /\ online /\ joined' = joined /\ srvtopic' = top
      /\ UNCHANGED <<online, known, topic, topicnick>>
      /\ net' = IF joined THEN Append(net, m) ELSE net
  BY DEF SrvTopic, RoomOnNet, Sends, cview
<1>2. CASE joined
  <2>1. \A z : IsTrue(z, joined, srvtopic) => IsTrue(After(z, m), joined, top)
    BY <1>2 DEF IsTrue, After, ViewOf
  <2> HIDE DEF m, top
  <2> QED BY <1>1, <1>2, <2>1, Sent DEF TopicInv
<1>3. CASE ~joined
  <2>1. \A z : IsTrue(z, joined, srvtopic) => IsTrue(z, joined, top)
    BY <1>3 DEF IsTrue
  <2> HIDE DEF m, top
  <2> QED BY <1>1, <1>3, <2>1, Silent
<1> QED BY <1>2, <1>3

LEMMA SrvJoin_Inv == TopicInv /\ SrvJoin => TopicInv'
<1> SUFFICES ASSUME TopicInv, SrvJoin PROVE TopicInv'
  OBVIOUS
<1> DEFINE m == [cmd |-> "JOIN", pfx |-> srvpfx]
           z == ViewOf(TRUE, NoText, NoText)
<1>1. /\ online /\ joined' = TRUE /\ UNCHANGED <<online, srvtopic, known, topic, topicnick>>
      /\ net' = Append(net, m) \o TheTopic
  BY DEF SrvJoin, RoomOnNet, cview
<1>2. \A y : After(y, m) = z
  BY DEF After
<1>3. z.known = TRUE /\ (srvtopic.text = "" => IsTrue(z, TRUE, srvtopic))
  BY DEF ViewOf, IsTrue
<1> HIDE DEF m, z
<1>4. PICK S : net \in Seq(S)
  BY DEF TopicInv
<1>5. Leads(View, Append(net, m), z)
  <2>1. PICK y : Leads(View, net, y)
    BY <1>1 DEF TopicInv
  <2>2. Leads(View, Append(net, m), After(y, m))
    BY <1>4, <2>1, LeadsOn
  <2> QED BY <1>2, <2>2
<1>6. PICK T : Append(net, m) \in Seq(T)
  BY <1>4, Longer
<1> QED BY <1>1, <1>3, <1>5, <1>6, TopicTold

LEMMA SrvPart_Inv == TopicInv /\ SrvPart => TopicInv'
<1> SUFFICES ASSUME TopicInv, SrvPart PROVE TopicInv'
  OBVIOUS
<1> DEFINE m == [cmd |-> "PART"]
<1>1. /\ online /\ joined' = FALSE /\ srvtopic' = srvtopic
      /\ UNCHANGED <<online, known, topic, topicnick>> /\ net' = Append(net, m)
  BY DEF SrvPart, RoomOnNet, cview
<1>2. \A z : IsTrue(After(z, m), FALSE, srvtopic)
  BY DEF IsTrue, After, ViewOf
<1> HIDE DEF m
<1> QED BY <1>1, <1>2, Sent

LEMMA SrvAnswerMode_Inv == TopicInv /\ SrvAnswerMode => TopicInv'
<1> SUFFICES ASSUME TopicInv, SrvAnswerMode PROVE TopicInv'
  OBVIOUS
<1>1. PICK chs : net' = Append(net, Wire("324", chs))
  BY DEF SrvAnswerMode
<1> DEFINE m == Wire("324", chs)
<1>2. /\ online /\ joined' = joined /\ srvtopic' = srvtopic
      /\ UNCHANGED <<online, known, topic, topicnick>>
  BY DEF SrvAnswerMode, RoomOnNet, cview
<1>3. m.cmd = "324"
  BY DEF Wire
<1> HIDE DEF m
<1>4. \A z : After(z, m) = z
  BY <1>3, AfterOther
<1> QED BY <1>1, <1>2, <1>4, Sent DEF TopicInv, m

LEMMA SrvAnswerTopic_Inv == TopicInv /\ SrvAnswerTopic => TopicInv'
<1> SUFFICES ASSUME TopicInv, SrvAnswerTopic PROVE TopicInv'
  OBVIOUS
<1>1. /\ online /\ UNCHANGED <<online, joined, srvtopic, known, topic, topicnick>>
      /\ net' = net \o TheTopic
  BY DEF SrvAnswerTopic, RoomOnNet, cview, srv
<1>2. PICK S : net \in Seq(S)
  BY DEF TopicInv
<1>3. PICK z : Leads(View, net, z) /\ IsTrue(z, joined, srvtopic)
  BY <1>1 DEF TopicInv
<1>4. z.known = joined /\ joined \in BOOLEAN
  BY <1>3 DEF IsTrue, TopicInv
<1> QED BY <1>1, <1>2, <1>3, <1>4, TopicTold

LEMMA Lost_Inv == TopicInv /\ Lost => TopicInv'
<1> SUFFICES ASSUME TopicInv, Lost PROVE TopicInv'
  OBVIOUS
<1>1. net' = <<>> /\ online' = FALSE /\ joined' = FALSE /\ known' = known
  BY DEF Lost, cview
<1>2. <<>> \in Seq({})
  OBVIOUS
<1> QED BY <1>1, <1>2 DEF TopicInv

-----------------------------------------------------------------------------
LEMMA InitTopic == Init => TopicInv
<1> SUFFICES ASSUME Init PROVE TopicInv
  OBVIOUS
<1>1. Leads(View, net, View)
  BY LeadsNone DEF Init
<1>2. IsTrue(View, joined, srvtopic)
  BY DEF IsTrue, View, ViewOf, Init
<1>3. <<>> \in Seq({})
  OBVIOUS
<1> QED BY <1>1, <1>2, <1>3 DEF Init, TopicInv

LEMMA NextTopic == TopicInv /\ [Next]_vars => TopicInv'
<1> SUFFICES ASSUME TopicInv, [Next]_vars PROVE TopicInv'
  OBVIOUS
<1>1. CASE UNCHANGED vars
  BY <1>1 DEF TopicInv, View, vars, cview, srv
<1>2. CASE Next
  BY <1>2, MODE_Inv, M324_Inv, M332_Inv, M333_Inv, TOPIC_Inv, JOIN_Inv, PART_Inv,
     Connect_Inv, SrvMode_Inv, SrvTopic_Inv, SrvJoin_Inv, SrvPart_Inv,
     SrvAnswerMode_Inv, SrvAnswerTopic_Inv, Lost_Inv DEF Next
<1> QED BY <1>1, <1>2

LEMMA TopicFromInv == TopicInv => TopicMatches
<1> SUFFICES ASSUME TopicInv, Settled PROVE
      /\ topic = srvtopic.text \/ (topic = NoText /\ srvtopic.text = "")
      /\ srvtopic.text # "" => topicnick = srvtopic.by
  BY DEF TopicMatches
<1>1. PICK z : Leads(View, <<>>, z) /\ IsTrue(z, joined, srvtopic) /\ joined
  BY DEF TopicInv, Settled
<1>2. z = View
  BY <1>1 DEF Leads
<1> QED BY <1>1, <1>2 DEF IsTrue, View, ViewOf

(* When nothing is on its way between the server and us, the topic the      *)
(* tracker has is that of the channel, and so is who set it (h_332, h_333,  *)
(* h_TOPIC), for all texts and members, whatever the server does.           *)
THEOREM TopicIsTrue == Spec => []TopicMatches
<1>1. Init => TopicInv
  BY InitTopic
<1>2. TopicInv /\ [Next]_vars => TopicInv'
  BY NextTopic
<1>3. TopicInv => TopicMatches
  BY TopicFromInv
<1> QED BY <1>1, <1>2, <1>3, PTL DEF Spec
=============================================================================
