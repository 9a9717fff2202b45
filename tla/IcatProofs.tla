----------------------------- MODULE IcatProofs -----------------------------
(***************************************************************************)
(* Proofs about module Icat, for any settings, any delays, any number of    *)
(* free lines, and a server, a user and a clock that do as they please: the *)
(* types of the variables, that each line is written once and in order,     *)
(* that no line is cut off by the QUIT at the end of the user's input, and  *)
(* that a connection is given up only for a PING without an answer on it.   *)
(***************************************************************************)
EXTENDS Icat, SequenceTheorems, TLAPS

(* Lines are numbered as they are queued: what has been written and what    *)
(* waits are the numbers from one on.                                       *)
Numbered ==
  /\ Len(written) + Len(s_outQ) = queued
  /\ \A i \in 1..Len(written) : written[i] = i
  /\ \A i \in 1..Len(s_outQ) : s_outQ[i].id = Len(written) + i

(* A heartbeat is waited for on the connection it was sent on.              *)
Beating ==
  /\ s_on /\ ~s_gotpong => pinged = "waiting"
  /\ pc = "beat" => s_on

(* A QUIT that is not the user's is the last thing queued, once there is    *)
(* nothing left to be read.                                                 *)
QuitLast ==
  /\ ignoreuser <=> ueof = "seen"
  /\ ueof = "seen" => stdin = <<>>
  /\ ~byuser => \A i \in 1..Len(s_outQ) :
       s_outQ[i].quit => ueof = "seen" /\ i = Len(s_outQ)
  /\ ~byuser /\ s_quitat >= 0 => ueof = "seen" /\ s_outQ = <<>>

IInv == IcatTypeOK /\ Numbered /\ Beating /\ QuitLast

-----------------------------------------------------------------------------
(* The delays are numbers.                                                  *)
LEMMA Delays ==
  /\ Hbeat \in Nat \ {0} /\ LineDelay \in Nat \ {0} /\ WaitQuit \in Nat \ {0}
  /\ CfWait \in Nat \ {0} /\ SslCap \in Nat \ {0} /\ Free \in Nat /\ MaxIn \in Nat
BY IcatAssumption

(* The timeout of select(2) is a time or there is none.                     *)
LEMMA TimeoutType ==
  ASSUME IcatTypeOK
  PROVE  Timeout \in Int /\ Timeout >= -1
<1>1. /\ s_nexthb \in Int /\ s_nexthb >= 0 /\ s_nextsend \in Int /\ s_nextsend >= -1
      /\ s_quitat \in Int /\ WaitQuit \in Nat
  <2>1. s_nexthb \in 0..Hbeat /\ s_nextsend \in -1..LineDelay /\ s_quitat \in -1..WaitQuit + 1
    BY DEF IcatTypeOK, ServOK
  <2> QED BY <2>1, Delays
<1>2. sett.hbeat \in BOOLEAN
  BY IcatAssumption DEF IcatTypeOK
<1>3. Attention \in Int /\ Attention >= -1
  <2>1. CASE s_outQ = <<>> /\ sett.hbeat
    BY <1>1, <2>1 DEF Attention
  <2>2. CASE s_outQ = <<>> /\ ~sett.hbeat
    BY <1>1, <2>2 DEF Attention
  <2>3. CASE s_outQ # <<>> /\ sett.hbeat
    BY <1>1, <2>3 DEF Attention
  <2>4. CASE s_outQ # <<>> /\ ~sett.hbeat
    BY <1>1, <2>4 DEF Attention
  <2> QED BY <1>2, <2>1, <2>2, <2>3, <2>4
<1> QED BY <1>1, <1>3 DEF Timeout

-----------------------------------------------------------------------------
(* Types *)

(* What a step leaves alone keeps its type.                                 *)
LEMMA Kept ==
  ASSUME IcatTypeOK
  PROVE  /\ UNCHANGED sett => (sett \in Settings)'
         /\ UNCHANGED peer => PeerOK'
         /\ UNCHANGED user => UserOK'
         /\ UNCHANGED serv => ServOK'
         /\ UNCHANGED core => CoreOK'
         /\ UNCHANGED past => PastOK'
<1>1. UNCHANGED sett => (sett \in Settings)'
  BY DEF IcatTypeOK
<1>2. UNCHANGED peer => PeerOK'
  BY DEF IcatTypeOK, PeerOK, peer
<1>3. UNCHANGED user => UserOK'
  BY DEF IcatTypeOK, UserOK, user
<1>4. UNCHANGED serv => ServOK'
  BY DEF IcatTypeOK, ServOK, serv
<1>5. UNCHANGED core => CoreOK'
  BY DEF IcatTypeOK, CoreOK, core
<1>6. UNCHANGED past => PastOK'
  BY DEF IcatTypeOK, PastOK, past
<1> QED BY <1>1, <1>2, <1>3, <1>4, <1>5, <1>6

(* The steps of the server, the user and the clock preserve the types.      *)
LEMMA OthersType ==
  ASSUME IcatTypeOK, Others \/ Tick
  PROVE  IcatTypeOK'
<1>1. ASSUME NEW m \in Msg, SrvSend(m) PROVE IcatTypeOK'
  <2>1. inq' \in Seq(Msg) /\ Len(inq') = Len(inq) + 1
    BY <1>1, AppendProperties DEF SrvSend, IcatTypeOK, PeerOK
  <2>2. Len(inq) \in Nat /\ Len(inq) < MaxIn
    BY <1>1, LenProperties DEF SrvSend, IcatTypeOK, PeerOK
  <2>3. PeerOK'
    BY <1>1, <2>1, <2>2, Delays DEF SrvSend, IcatTypeOK, PeerOK
  <2> QED BY <1>1, <2>3, Kept DEF SrvSend, IcatTypeOK
<1>2. CASE SrvClose
  <2>1. PeerOK'
    BY <1>2 DEF SrvClose, IcatTypeOK, PeerOK
  <2> QED BY <1>2, <2>1, Kept DEF SrvClose, IcatTypeOK
<1>3. ASSUME NEW l \in Line, UserLine(l) PROVE IcatTypeOK'
  <2>1. UserOK'
    BY <1>3, AppendProperties DEF UserLine, IcatTypeOK, UserOK
  <2> QED BY <1>3, <2>1, Kept DEF UserLine, IcatTypeOK
<1>4. CASE UserEof
  <2>1. UserOK'
    BY <1>4 DEF UserEof, IcatTypeOK, UserOK
  <2> QED BY <1>4, <2>1, Kept DEF UserEof, IcatTypeOK
<1>5. CASE Interrupted
  <2>1. CoreOK'
    BY <1>5 DEF Interrupted, End, IcatTypeOK, CoreOK
  <2>2. PastOK'
    BY <1>5 DEF Interrupted, End, IcatTypeOK, PastOK
  <2> QED BY <1>5, <2>1, <2>2, Kept DEF Interrupted, End, IcatTypeOK
<1>6. CASE SelectFails
  <2>1. CoreOK'
    BY <1>6 DEF SelectFails, IcatTypeOK, CoreOK
  <2> QED BY <1>6, <2>1, Kept DEF SelectFails, IcatTypeOK
<1>7. CASE Tick
  <2>1. ServOK'
    <3>1. s_nexthb' \in 0..Hbeat
      BY <1>7, Delays DEF Tick, Less, IcatTypeOK, ServOK
    <3>2. s_nextsend' \in -1..LineDelay
      BY <1>7, Delays DEF Tick, Less, IcatTypeOK, ServOK
    <3>3. s_quitat' \in -1..WaitQuit + 1
      BY <1>7, Delays DEF Tick, IcatTypeOK, ServOK
    <3> QED BY <1>7, <3>1, <3>2, <3>3 DEF Tick, IcatTypeOK, ServOK
  <2>2. CoreOK'
    <3>1. nextop' \in 0..CfWait
      BY <1>7, Delays DEF Tick, Less, IcatTypeOK, CoreOK
    <3>2. to' \in Int /\ to' >= -1
      BY <1>7 DEF Tick, Less, IcatTypeOK, CoreOK
    <3>3. UNCHANGED <<pc, idle, ignoreuser, tquit>>
      BY <1>7 DEF Tick
    <3> QED BY <3>1, <3>2, <3>3 DEF IcatTypeOK, CoreOK
  <2> QED BY <1>7, <2>1, <2>2, Kept DEF Tick, IcatTypeOK
<1>8. CASE SrvReads
  <2>1. PeerOK'
    BY <1>8 DEF SrvReads, IcatTypeOK, PeerOK
  <2> QED BY <1>8, <2>1, Kept DEF SrvReads, IcatTypeOK
<1>9. CASE UserPart
  <2>1. UserOK'
    BY <1>9 DEF UserPart, IcatTypeOK, UserOK
  <2> QED BY <1>9, <2>1, Kept DEF UserPart, IcatTypeOK
<1>10. CASE Reconnect
  <2>1. <<>> \in Seq(Msg) /\ Len(<<>>) = 0
    BY EmptySeq
  <2>2. inq' \in Seq(Msg) /\ Len(inq') <= MaxIn
    BY <1>10, <2>1, Delays DEF Reconnect
  <2>3. up' \in BOOLEAN /\ closed' \in BOOLEAN /\ asked' \in BOOLEAN /\ full' \in BOOLEAN
    BY <1>10 DEF Reconnect
  <2>4. PeerOK'
    BY <2>2, <2>3 DEF PeerOK
  <2>5. s_nexthb' \in 0..Hbeat
    BY <1>10, Delays DEF Reconnect
  <2>6. ServOK'
    BY <1>10, <2>5 DEF Reconnect, IcatTypeOK, ServOK
  <2>7. CoreOK'
    BY <1>10 DEF Reconnect, IcatTypeOK, CoreOK
  <2>8. PastOK'
    BY <1>10 DEF Reconnect, IcatTypeOK, PastOK
  <2> QED BY <1>10, <2>4, <2>6, <2>7, <2>8, Kept DEF Reconnect, IcatTypeOK
<1>11. CASE ReconnectFails
  <2>1. CoreOK'
    <3>1. nextop' \in 0..CfWait
      BY <1>11, Delays DEF ReconnectFails
    <3> QED BY <1>11, <3>1 DEF ReconnectFails, IcatTypeOK, CoreOK
  <2> QED BY <1>11, <2>1, Kept DEF ReconnectFails, IcatTypeOK
<1> QED BY <1>1, <1>2, <1>3, <1>4, <1>5, <1>6, <1>7, <1>8, <1>9, <1>10, <1>11 DEF Others

(* A lost connection has its type.                                          *)
LEMMA LostType ==
  ASSUME LoseConnection
  PROVE  PeerOK'
<1>1. <<>> \in Seq(Msg) /\ Len(<<>>) = 0
  BY EmptySeq
<1>2. inq' \in Seq(Msg) /\ Len(inq') <= MaxIn
  BY <1>1, Delays DEF LoseConnection
<1>3. up' \in BOOLEAN /\ closed' \in BOOLEAN /\ asked' \in BOOLEAN /\ full' \in BOOLEAN
  BY DEF LoseConnection
<1> QED BY <1>2, <1>3 DEF PeerOK

(* So does the queue with one line more.                                    *)
LEMMA QueueType ==
  ASSUME IcatTypeOK, NEW q \in BOOLEAN, Queue(q)
  PROVE  /\ [id |-> queued + 1, quit |-> q] \in Entry
         /\ s_outQ' \in Seq(Entry) /\ queued' \in Nat
<1>1. queued \in Nat /\ s_outQ \in Seq(Entry)
  BY DEF IcatTypeOK, ServOK, PastOK
<1>2. [id |-> queued + 1, quit |-> q] \in Entry
  BY <1>1 DEF Entry
<1> QED BY <1>1, <1>2, AppendProperties DEF Queue

(* And so do the queue with one line less, and the lines written.           *)
LEMMA SendType ==
  ASSUME IcatTypeOK, SendLine
  PROVE  /\ s_outQ \in Seq(Entry) /\ s_outQ # <<>>
         /\ written \in Seq(Nat) /\ Head(s_outQ) \in Entry /\ Head(s_outQ).id \in Nat
         /\ s_outQ' \in Seq(Entry) /\ written' \in Seq(Nat)
<1>1. s_outQ # <<>> /\ s_outQ \in Seq(Entry) /\ written \in Seq(Nat)
  BY DEF SendLine, SendDue, IcatTypeOK, ServOK, PastOK
<1>2. Head(s_outQ) \in Entry /\ s_outQ' \in Seq(Entry)
  BY <1>1, HeadTailProperties DEF SendLine
<1>3. Head(s_outQ).id \in Nat
  BY <1>2 DEF Entry
<1>4. written' \in Seq(Nat)
  BY <1>1, <1>3, AppendProperties DEF SendLine
<1> QED BY <1>1, <1>2, <1>3, <1>4

(* The steps of the main loop preserve the types.                           *)
LEMMA LoopType ==
  ASSUME IcatTypeOK, Loop
  PROVE  IcatTypeOK'
<1>1. CASE NotOnline \/ ReadNothing \/ NotIdle \/ Attend \/ Sleep \/ Slept
  <2>1. CoreOK'
    BY <1>1 DEF NotOnline, ReadNothing, NotIdle, Attend, Sleep, Slept,
                IcatTypeOK, CoreOK
  <2> QED BY <1>1, <2>1, Kept
          DEF NotOnline, ReadNothing, NotIdle, Attend, Sleep, Slept, IcatTypeOK
<1>2. CASE ReadMsg
  <2>1. inq \in Seq(Msg) /\ inq # <<>> /\ Len(inq) <= MaxIn /\ inq' = Tail(inq)
    BY <1>2 DEF ReadMsg, IcatTypeOK, PeerOK
  <2>2. inq' \in Seq(Msg) /\ Len(inq') <= MaxIn
    BY <2>1, HeadTailProperties, LenProperties, Delays
  <2>3. PeerOK'
    <3>1. full' \in BOOLEAN
      BY <1>2 DEF ReadMsg, IcatTypeOK, PeerOK
    <3> QED BY <1>2, <2>2, <3>1 DEF ReadMsg, IcatTypeOK, PeerOK
  <2>4. ServOK'
    BY <1>2 DEF ReadMsg, IcatTypeOK, ServOK
  <2>5. CoreOK'
    BY <1>2 DEF ReadMsg, IcatTypeOK, CoreOK
  <2>6. PastOK'
    BY <1>2 DEF ReadMsg, IcatTypeOK, PastOK
  <2> QED BY <1>2, <2>3, <2>4, <2>5, <2>6, Kept DEF ReadMsg, IcatTypeOK
<1>3. CASE ReadFails
  <2>1. ServOK'
    BY <1>3 DEF ReadFails, IcatTypeOK, ServOK
  <2> QED BY <1>3, <2>1, LostType, Kept DEF ReadFails, IcatTypeOK
<1>4. CASE ReadUser
  <2>1. UserOK' /\ Head(stdin) \in Line
    <3>1. stdin' \in Seq(Line) /\ Head(stdin) \in Line
      BY <1>4, HeadTailProperties DEF ReadUser, IcatTypeOK, UserOK
    <3> QED BY <1>4, <3>1 DEF ReadUser, IcatTypeOK, UserOK
  <2>2. s_outQ' \in Seq(Entry) /\ queued' \in Nat
    BY <1>4, QueueType DEF ReadUser, IcatTypeOK, ServOK, PastOK
  <2>3. ServOK'
    BY <1>4, <2>2 DEF ReadUser, IcatTypeOK, ServOK
  <2>4. CoreOK'
    BY <1>4 DEF ReadUser, IcatTypeOK, CoreOK
  <2>5. PastOK'
    BY <1>4, <2>2 DEF ReadUser, IcatTypeOK, PastOK
  <2> QED BY <1>4, <2>1, <2>3, <2>4, <2>5, Kept DEF ReadUser, IcatTypeOK
<1>5. CASE ReadUserEof
  <2>1. s_outQ' \in Seq(Entry) /\ queued' \in Nat
    BY <1>5, QueueType DEF ReadUserEof
  <2>2. UserOK'
    BY <1>5 DEF ReadUserEof, IcatTypeOK, UserOK
  <2>3. ServOK'
    BY <1>5, <2>1 DEF ReadUserEof, IcatTypeOK, ServOK
  <2>4. CoreOK'
    BY <1>5 DEF ReadUserEof, IcatTypeOK, CoreOK
  <2>5. PastOK'
    BY <1>5, <2>1 DEF ReadUserEof, IcatTypeOK, PastOK
  <2> QED BY <1>5, <2>2, <2>3, <2>4, <2>5, Kept DEF ReadUserEof, IcatTypeOK
<1>6. CASE Closed \/ Waited \/ Offline
  <2>1. CoreOK'
    BY <1>6 DEF Closed, Waited, Offline, End, IcatTypeOK, CoreOK
  <2>2. PastOK'
    BY <1>6 DEF Closed, Waited, Offline, End, IcatTypeOK, PastOK
  <2> QED BY <1>6, <2>1, <2>2, Kept DEF Closed, Waited, Offline, End, IcatTypeOK
<1>7. CASE GoOn
  <2>1. CoreOK'
    BY <1>7 DEF GoOn, IcatTypeOK, CoreOK
  <2> QED BY <1>7, <2>1, Kept DEF GoOn, IcatTypeOK
<1>8. CASE ReadDelims
  <2>1. inq \in Seq(Msg) /\ inq # <<>> /\ Len(inq) <= MaxIn /\ inq' = Tail(inq)
    BY <1>8 DEF ReadDelims, IcatTypeOK, PeerOK
  <2>2. inq' \in Seq(Msg) /\ Len(inq') <= MaxIn
    BY <2>1, HeadTailProperties, LenProperties, Delays
  <2>3. PeerOK'
    BY <1>8, <2>2 DEF ReadDelims, IcatTypeOK, PeerOK
  <2> QED BY <1>8, <2>3, Kept DEF ReadDelims, IcatTypeOK
<1>9. CASE NoUser
  <2>1. UserOK'
    BY <1>9 DEF NoUser, IcatTypeOK, UserOK
  <2>2. CoreOK'
    BY <1>9 DEF NoUser, IcatTypeOK, CoreOK
  <2> QED BY <1>9, <2>1, <2>2, Kept DEF NoUser, IcatTypeOK
<1>10. CASE NothingToSend \/ NoHeartbeat
  <2>1. CoreOK'
    BY <1>10 DEF NothingToSend, NoHeartbeat, IcatTypeOK, CoreOK
  <2> QED BY <1>10, <2>1, Kept DEF NothingToSend, NoHeartbeat, IcatTypeOK
<1>11. CASE SendLine
  <2>1. s_quitat' \in -1..WaitQuit + 1
    BY <1>11, Delays DEF SendLine, IcatTypeOK, ServOK
  <2>2. freelines' \in 0..Free
    BY <1>11, Delays DEF SendLine, Less, IcatTypeOK, ServOK
  <2>3. s_nextsend' \in -1..LineDelay
    BY <1>11, Delays DEF SendLine
  <2>4. ServOK'
    BY <1>11, <2>1, <2>2, <2>3, SendType DEF SendLine, IcatTypeOK, ServOK
  <2>5. CoreOK'
    BY <1>11 DEF SendLine, IcatTypeOK, CoreOK
  <2>6. PastOK'
    BY <1>11, SendType DEF SendLine, IcatTypeOK, PastOK
  <2>7. PeerOK'
    BY <1>11 DEF SendLine, IcatTypeOK, PeerOK
  <2> QED BY <1>11, <2>4, <2>5, <2>6, <2>7, Kept DEF SendLine, IcatTypeOK
<1>12. CASE SendFails \/ HeartbeatTimeout
  <2>1. ServOK'
    BY <1>12 DEF SendFails, HeartbeatTimeout, IcatTypeOK, ServOK
  <2>2. CoreOK'
    BY <1>12 DEF SendFails, HeartbeatTimeout, IcatTypeOK, CoreOK
  <2> QED BY <1>12, <2>1, <2>2, LostType, Kept DEF SendFails, HeartbeatTimeout, IcatTypeOK
<1>13. CASE Heartbeat
  <2>1. PeerOK'
    BY <1>13 DEF Heartbeat, IcatTypeOK, PeerOK
  <2>2. ServOK'
    <3>1. s_nexthb' \in 0..Hbeat
      BY <1>13, Delays DEF Heartbeat
    <3> QED BY <1>13, <3>1 DEF Heartbeat, IcatTypeOK, ServOK
  <2>3. CoreOK'
    BY <1>13 DEF Heartbeat, IcatTypeOK, CoreOK
  <2>4. PastOK'
    BY <1>13 DEF Heartbeat, IcatTypeOK, PastOK
  <2> QED BY <1>13, <2>1, <2>2, <2>3, <2>4, Kept DEF Heartbeat, IcatTypeOK
<1>14. CASE HeartbeatFails
  <2>1. ServOK'
    <3>1. s_nexthb' \in 0..Hbeat
      BY <1>14, Delays DEF HeartbeatFails
    <3> QED BY <1>14, <3>1 DEF HeartbeatFails, IcatTypeOK, ServOK
  <2>2. CoreOK'
    BY <1>14 DEF HeartbeatFails, IcatTypeOK, CoreOK
  <2> QED BY <1>14, <2>1, <2>2, LostType, Kept DEF HeartbeatFails, IcatTypeOK
<1>15. CASE Select
  <2>1. to' \in Int /\ to' >= -1
    BY <1>15, TimeoutType, Delays DEF Select
  <2>2. CoreOK'
    BY <1>15, <2>1 DEF Select, IcatTypeOK, CoreOK
  <2> QED BY <1>15, <2>2, Kept DEF Select, IcatTypeOK
<1>16. CASE Wake
  <2>1. CoreOK'
    BY <1>16 DEF Wake, IcatTypeOK, CoreOK
  <2> QED BY <1>16, <2>1, Kept DEF Wake, IcatTypeOK
<1> QED BY <1>1, <1>2, <1>3, <1>4, <1>5, <1>6, <1>7, <1>8, <1>9, <1>10, <1>11, <1>12,
           <1>13, <1>14, <1>15, <1>16 DEF Loop

(* The types hold at first and are preserved by every step.                 *)
LEMMA TypeInv ==
  /\ Init => IcatTypeOK
  /\ IcatTypeOK /\ [Next]_vars => IcatTypeOK'
<1>1. Init => IcatTypeOK
  <2> SUFFICES ASSUME Init PROVE IcatTypeOK
    OBVIOUS
  <2>0. /\ s_nexthb = Hbeat \/ s_nexthb = 0
        /\ s_nextsend = -1 /\ s_quitat = -1 /\ freelines = Free /\ nextop = 0
        /\ inq = <<>> /\ to = -1 /\ pc = "read"
    BY Zenon DEF Init
  <2>1. <<>> \in Seq(Msg) /\ <<>> \in Seq(Line) /\ <<>> \in Seq(Entry) /\ <<>> \in Seq(Nat)
        /\ Len(<<>>) = 0
    BY EmptySeq
  <2>2. PeerOK
    <3>1. inq \in Seq(Msg) /\ Len(inq) <= MaxIn
      BY <2>0, <2>1, Delays
    <3>2. up \in BOOLEAN /\ closed = FALSE /\ asked = FALSE /\ full \in BOOLEAN
      BY DEF Init
    <3> QED BY <3>1, <3>2 DEF PeerOK
  <2>3. UserOK
    BY <2>1 DEF Init, UserOK
  <2>4. ServOK
    <3>1. /\ s_nexthb \in 0..Hbeat /\ s_nextsend \in -1..LineDelay
          /\ s_quitat \in -1..WaitQuit + 1 /\ freelines \in 0..Free
      BY <2>0, Delays
    <3>2. s_on = TRUE /\ s_gotpong = TRUE /\ s_outQ = <<>>
      BY DEF Init
    <3> QED BY <2>1, <3>1, <3>2 DEF ServOK
  <2>5. CoreOK
    <3>1. nextop \in 0..CfWait
      BY <2>0, Delays
    <3>2. idle \in BOOLEAN /\ ignoreuser \in BOOLEAN /\ tquit \in BOOLEAN
      BY DEF Init
    <3>3. pc = "read" /\ to \in Int /\ to >= -1
      BY <2>0
    <3> QED BY <3>1, <3>2, <3>3 DEF CoreOK
  <2>6. PastOK
    BY <2>1 DEF Init, PastOK
  <2> QED BY <2>2, <2>3, <2>4, <2>5, <2>6 DEF Init, IcatTypeOK
<1>2. IcatTypeOK /\ UNCHANGED vars => IcatTypeOK'
  BY Kept DEF vars, IcatTypeOK
<1> QED BY <1>1, <1>2, OthersType, LoopType DEF Next

-----------------------------------------------------------------------------
(* The queue *)

(* Only queueing a line and sending one change the queue.                   *)
LEMMA QueueSteps ==
  ASSUME IcatTypeOK, [Next]_vars
  PROVE  \/ UNCHANGED <<queued, s_outQ, written>>
         \/ (\E q \in BOOLEAN : Queue(q)) /\ UNCHANGED written
         \/ SendLine
<1>1. CASE Others
  <2>1. CASE (\E m \in Msg : SrvSend(m)) \/ SrvClose \/ SrvReads
    BY <2>1 DEF SrvSend, SrvClose, SrvReads, serv, past
  <2>2. CASE (\E l \in Line : UserLine(l)) \/ UserPart \/ UserEof
    BY <2>2 DEF UserLine, UserPart, UserEof, serv, past
  <2>3. CASE Interrupted \/ SelectFails \/ Reconnect \/ ReconnectFails
    BY <2>3 DEF Interrupted, SelectFails, Reconnect, ReconnectFails, End, serv, past
  <2> QED BY <1>1, <2>1, <2>2, <2>3 DEF Others
<1>2. CASE Tick
  BY <1>2 DEF Tick, past
<1>3. CASE UNCHANGED vars
  BY <1>3 DEF vars, serv, past
<1>4. CASE Loop
  <2>1. CASE ReadUser
    <3>1. Queue(Head(stdin) = "quit") \/ UNCHANGED <<s_outQ, queued>>
      BY <2>1 DEF ReadUser
    <3>2. (Head(stdin) = "quit") \in BOOLEAN
      OBVIOUS
    <3> QED BY <2>1, <3>1, <3>2 DEF ReadUser
  <2>2. CASE ReadUserEof
    BY <2>2 DEF ReadUserEof
  <2>3. CASE NotOnline \/ ReadNothing \/ ReadDelims \/ ReadMsg \/ ReadFails
    BY <2>3 DEF NotOnline, ReadNothing, ReadDelims, ReadMsg, ReadFails, serv, past
  <2>4. CASE Closed \/ Waited \/ Offline
    BY <2>4 DEF Closed, Waited, Offline, End, serv
  <2>5. CASE NoUser \/ GoOn \/ NothingToSend \/ SendFails
    BY <2>5 DEF NoUser, GoOn, NothingToSend, SendFails, serv, past
  <2>6. CASE NoHeartbeat \/ Heartbeat \/ HeartbeatFails \/ HeartbeatTimeout
    BY <2>6 DEF NoHeartbeat, Heartbeat, HeartbeatFails, HeartbeatTimeout, serv, past
  <2>7. CASE NotIdle \/ Attend \/ Select \/ Wake \/ Sleep \/ Slept
    BY <2>7 DEF NotIdle, Attend, Select, Wake, Sleep, Slept, serv, past
  <2> QED BY <1>4, <2>1, <2>2, <2>3, <2>4, <2>5, <2>6, <2>7 DEF Loop
<1> QED BY <1>1, <1>2, <1>3, <1>4 DEF Next

(* A line that is queued has the next number.                               *)
LEMMA QueueNumbers ==
  ASSUME IcatTypeOK, Numbered, NEW q \in BOOLEAN, Queue(q), UNCHANGED written
  PROVE  Numbered'
<1> DEFINE e == [id |-> queued + 1, quit |-> q]
<1>1. s_outQ' = Append(s_outQ, e) /\ queued' = queued + 1 /\ e \in Entry
  BY QueueType DEF Queue
<1>2. s_outQ \in Seq(Entry) /\ queued \in Nat /\ Len(written) \in Nat /\ Len(s_outQ) \in Nat
  BY LenProperties DEF IcatTypeOK, ServOK, PastOK
<1>3. e.id = queued + 1
  OBVIOUS
<1> HIDE DEF e
<1>4. /\ Len(s_outQ') = Len(s_outQ) + 1
      /\ \A i \in 1..Len(s_outQ) : s_outQ'[i] = s_outQ[i]
      /\ s_outQ'[Len(s_outQ) + 1] = e
  BY <1>1, <1>2, AppendProperties
<1>5. ASSUME NEW i \in 1..Len(s_outQ') PROVE s_outQ'[i].id = Len(written) + i
  <2>1. i \in 1..Len(s_outQ) \/ i = Len(s_outQ) + 1
    BY <1>2, <1>4
  <2>2. CASE i \in 1..Len(s_outQ)
    <3>1. s_outQ'[i] = s_outQ[i]
      BY <1>4, <2>2
    <3> QED BY <2>2, <3>1 DEF Numbered
  <2>3. CASE i = Len(s_outQ) + 1
    <3>1. s_outQ'[i].id = queued + 1
      BY <1>3, <1>4, <2>3
    <3>2. Len(written) + Len(s_outQ) = queued
      BY DEF Numbered
    <3> QED BY <1>2, <2>3, <3>1, <3>2
  <2> QED BY <2>1, <2>2, <2>3
<1>6. /\ Len(written) + Len(s_outQ') = queued'
      /\ \A i \in 1..Len(written) : written[i] = i
  BY <1>1, <1>2, <1>4 DEF Numbered
<1>7. written' = written
  OBVIOUS
<1> QED BY <1>5, <1>6, <1>7 DEF Numbered

(* The line that is sent has the number after the last one written.         *)
LEMMA SendNumbers ==
  ASSUME IcatTypeOK, Numbered, SendLine
  PROVE  Numbered'
<1>1. s_outQ' = Tail(s_outQ) /\ queued' = queued
      /\ written' = Append(written, Head(s_outQ).id)
  BY DEF SendLine
<1>2. /\ s_outQ \in Seq(Entry) /\ s_outQ # <<>> /\ written \in Seq(Nat)
      /\ Head(s_outQ).id \in Nat
  BY SendType
<1>3. Len(written) \in Nat /\ Len(s_outQ) \in Nat \ {0} /\ Head(s_outQ) = s_outQ[1]
  BY <1>2, LenProperties, EmptySeq
<1>4. /\ Len(s_outQ') = Len(s_outQ) - 1
      /\ \A i \in 1..Len(s_outQ') : s_outQ'[i] = s_outQ[i + 1]
  BY <1>1, <1>2, HeadTailProperties
<1>5. /\ Len(written') = Len(written) + 1
      /\ \A i \in 1..Len(written) : written'[i] = written[i]
      /\ written'[Len(written) + 1] = Head(s_outQ).id
  BY <1>1, <1>2, AppendProperties
<1>6. Head(s_outQ).id = Len(written) + 1
  BY <1>3 DEF Numbered
<1>7. ASSUME NEW i \in 1..Len(written') PROVE written'[i] = i
  <2>1. i \in 1..Len(written) \/ i = Len(written) + 1
    BY <1>3, <1>5
  <2> QED BY <1>5, <1>6, <2>1 DEF Numbered
<1>8. ASSUME NEW i \in 1..Len(s_outQ') PROVE s_outQ'[i].id = Len(written') + i
  <2>1. i + 1 \in 1..Len(s_outQ) /\ i \in Nat
    BY <1>3, <1>4
  <2>2. s_outQ'[i] = s_outQ[i + 1]
    BY <1>4
  <2>3. s_outQ[i + 1].id = Len(written) + (i + 1)
    BY <2>1 DEF Numbered
  <2> QED BY <1>3, <1>5, <2>1, <2>2, <2>3
<1>9. Len(written') + Len(s_outQ') = queued'
  BY <1>1, <1>3, <1>4, <1>5 DEF Numbered
<1> QED BY <1>7, <1>8, <1>9 DEF Numbered

(* Every step keeps the numbers in order.                                   *)
LEMMA NumberedStep ==
  ASSUME IcatTypeOK, Numbered, [Next]_vars
  PROVE  Numbered'
<1>1. CASE UNCHANGED <<queued, s_outQ, written>>
  BY <1>1 DEF Numbered
<1> QED BY <1>1, QueueSteps, QueueNumbers, SendNumbers

(* Numbers in order are what EachLineOnce says.                             *)
LEMMA NumberedIsOnce ==
  ASSUME IcatTypeOK, Numbered
  PROVE  EachLineOnce
<1> DEFINE ids == [i \in 1..Len(s_outQ) |-> s_outQ[i].id]
           nums == [i \in 1..queued |-> i]
<1>1. /\ s_outQ \in Seq(Entry) /\ written \in Seq(Nat) /\ queued \in Nat
      /\ Len(written) \in Nat /\ Len(s_outQ) \in Nat
  BY LenProperties DEF IcatTypeOK, ServOK, PastOK
<1>2. ASSUME NEW i \in 1..Len(s_outQ) PROVE s_outQ[i].id \in Nat
  <2>1. s_outQ[i] \in Entry
    BY <1>1, ElementOfSeq
  <2> QED BY <2>1 DEF Entry
<1>3. ids \in Seq(Nat) /\ Len(ids) = Len(s_outQ)
  BY <1>1, <1>2
<1>4. \A i \in 1..Len(ids) : ids[i] = Len(written) + i
  BY <1>3 DEF Numbered
<1>5. nums \in Seq(Nat) /\ Len(nums) = queued /\ \A i \in 1..queued : nums[i] = i
  BY <1>1
<1> HIDE DEF ids, nums
<1>6. /\ written \o ids \in Seq(Nat)
      /\ Len(written \o ids) = Len(written) + Len(ids)
      /\ \A i \in 1..Len(written) + Len(ids) :
           (written \o ids)[i] = IF i <= Len(written) THEN written[i] ELSE ids[i - Len(written)]
  BY <1>1, <1>3, ConcatProperties
<1>7. Len(written \o ids) = queued
  BY <1>3, <1>6 DEF Numbered
<1>8. ASSUME NEW i \in 1..queued PROVE (written \o ids)[i] = i
  <2>1. i \in 1..Len(written) + Len(ids) /\ i \in Nat
    BY <1>1, <1>6, <1>7
  <2>2. CASE i <= Len(written)
    BY <1>1, <1>6, <2>1, <2>2 DEF Numbered
  <2>3. CASE ~(i <= Len(written))
    <3>1. i - Len(written) \in 1..Len(ids)
      BY <1>1, <1>3, <2>1, <2>3
    <3>2. ids[i - Len(written)] = i
      BY <1>1, <1>4, <2>1, <3>1
    <3> QED BY <1>6, <2>1, <2>3, <3>2
  <2> QED BY <2>2, <2>3
<1>9. written \o ids = nums
  BY <1>5, <1>6, <1>7, <1>8, SeqEqual
<1> QED BY <1>9 DEF ids, nums, EachLineOnce

-----------------------------------------------------------------------------
(* The heartbeat *)

(* What a step can do to what Beating speaks of.                            *)
LEMMA BeatSteps ==
  ASSUME IcatTypeOK, [Next]_vars
  PROVE  \/ UNCHANGED <<s_on, s_gotpong, pinged>> /\ (UNCHANGED pc \/ pc' # "beat" \/ s_on)
         \/ s_on' = FALSE /\ pc' # "beat"
         \/ s_gotpong' = TRUE /\ pc' # "beat"
         \/ pinged' = "waiting" /\ pc' # "beat"
<1>1. CASE Others
  <2>1. CASE (\E m \in Msg : SrvSend(m)) \/ SrvClose \/ SrvReads
    BY <2>1 DEF SrvSend, SrvClose, SrvReads, serv, core, past
  <2>2. CASE (\E l \in Line : UserLine(l)) \/ UserPart \/ UserEof
    BY <2>2 DEF UserLine, UserPart, UserEof, serv, core, past
  <2>3. CASE Interrupted \/ SelectFails \/ ReconnectFails
    BY <2>3 DEF Interrupted, SelectFails, ReconnectFails, End, serv, past
  <2>4. CASE Reconnect
    BY <2>4 DEF Reconnect
  <2> QED BY <1>1, <2>1, <2>2, <2>3, <2>4 DEF Others
<1>2. CASE Tick
  BY <1>2 DEF Tick, past
<1>3. CASE UNCHANGED vars
  BY <1>3 DEF vars, serv, core, past
<1>4. CASE Loop
  <2>1. CASE NotOnline \/ ReadNothing \/ ReadDelims \/ NoUser \/ GoOn
    BY <2>1 DEF NotOnline, ReadNothing, ReadDelims, NoUser, GoOn, serv, core, past
  <2>2. CASE ReadUser \/ ReadUserEof
    BY <2>2 DEF ReadUser, ReadUserEof
  <2>3. CASE Closed \/ Waited \/ Offline
    BY <2>3 DEF Closed, Waited, Offline, End, serv
  <2>4. CASE NotIdle \/ Attend \/ Select \/ Wake \/ Sleep \/ Slept \/ NoHeartbeat
    BY <2>4 DEF NotIdle, Attend, Select, Wake, Sleep, Slept, NoHeartbeat, serv, past
  <2>5. CASE NothingToSend \/ SendLine
    BY <2>5 DEF NothingToSend, SendLine, serv, past
  <2>6. CASE ReadFails
    BY <2>6 DEF ReadFails, core
  <2>7. CASE SendFails \/ HeartbeatFails \/ HeartbeatTimeout
    BY <2>7 DEF SendFails, HeartbeatFails, HeartbeatTimeout
  <2>8. CASE ReadMsg
    <3>1. pc' # "beat" /\ UNCHANGED s_on
      BY <2>8 DEF ReadMsg
    <3>2. CASE Head(inq) = "PONG"
      BY <2>8, <3>1, <3>2 DEF ReadMsg
    <3>3. CASE Head(inq) # "PONG"
      BY <2>8, <3>1, <3>3 DEF ReadMsg, IcatTypeOK, ServOK
    <3> QED BY <3>2, <3>3
  <2>9. CASE Heartbeat
    BY <2>9 DEF Heartbeat
  <2> QED BY <1>4, <2>1, <2>2, <2>3, <2>4, <2>5, <2>6, <2>7, <2>8, <2>9 DEF Loop
<1> QED BY <1>1, <1>2, <1>3, <1>4 DEF Next

(* None of it leaves a PONG awaited for which there was no PING.            *)
LEMMA BeatingStep ==
  ASSUME IcatTypeOK, Beating, [Next]_vars
  PROVE  Beating'
<1>1. CASE UNCHANGED <<s_on, s_gotpong, pinged>> /\ (UNCHANGED pc \/ pc' # "beat" \/ s_on)
  BY <1>1 DEF Beating
<1>2. CASE s_on' = FALSE /\ pc' # "beat"
  BY <1>2 DEF Beating
<1>3. CASE s_gotpong' = TRUE /\ pc' # "beat"
  BY <1>3 DEF Beating
<1>4. CASE pinged' = "waiting" /\ pc' # "beat"
  BY <1>4 DEF Beating
<1> QED BY <1>1, <1>2, <1>3, <1>4, BeatSteps

-----------------------------------------------------------------------------
(* The QUIT at the end of the user's input *)

(* What a step can do to what QuitLast speaks of.                           *)
LEMMA QuitSteps ==
  ASSUME IcatTypeOK, [Next]_vars
  PROVE  \/ /\ UNCHANGED <<ignoreuser, ueof, stdin, byuser, s_outQ>>
            /\ s_quitat' >= 0 => s_quitat >= 0
         \/ \E l \in Line : UserLine(l)
         \/ UserEof \/ ReadUser \/ ReadUserEof \/ SendLine
<1>1. CASE Others
  <2>1. CASE SrvClose \/ SrvReads \/ UserPart \/ Interrupted \/ SelectFails
    BY <2>1 DEF SrvClose, SrvReads, UserPart, Interrupted, SelectFails, End,
                user, serv, core, past
  <2>2. ASSUME NEW m \in Msg, SrvSend(m)
        PROVE  /\ UNCHANGED <<ignoreuser, ueof, stdin, byuser, s_outQ>>
               /\ s_quitat' >= 0 => s_quitat >= 0
    BY <2>2 DEF SrvSend, user, serv, core, past
  <2>3. CASE Reconnect \/ ReconnectFails
    BY <2>3 DEF Reconnect, ReconnectFails, user, serv, past
  <2> QED BY <1>1, <2>1, <2>2, <2>3 DEF Others
<1>2. CASE Tick
  <2>1. UNCHANGED <<ignoreuser, ueof, stdin, byuser, s_outQ>>
    BY <1>2 DEF Tick, user, past
  <2>2. s_quitat' >= 0 => s_quitat >= 0
    BY <1>2, Delays DEF Tick, IcatTypeOK, ServOK
  <2> QED BY <2>1, <2>2
<1>3. CASE UNCHANGED vars
  BY <1>3 DEF vars, user, serv, core, past
<1>4. CASE Loop
  <2>1. CASE NotOnline \/ ReadNothing \/ ReadDelims \/ ReadMsg \/ ReadFails
    BY <2>1 DEF NotOnline, ReadNothing, ReadDelims, ReadMsg, ReadFails,
                user, serv, core, past
  <2>2. CASE Closed \/ Waited \/ Offline
    BY <2>2 DEF Closed, Waited, Offline, End, user, serv
  <2>3. CASE NoUser \/ GoOn \/ NothingToSend \/ SendFails
    BY <2>3 DEF NoUser, GoOn, NothingToSend, SendFails, user, serv, past
  <2>4. CASE NoHeartbeat \/ Heartbeat \/ HeartbeatFails \/ HeartbeatTimeout
    BY <2>4 DEF NoHeartbeat, Heartbeat, HeartbeatFails, HeartbeatTimeout, user, serv, past
  <2>5. CASE NotIdle \/ Attend \/ Select \/ Wake \/ Sleep \/ Slept
    BY <2>5 DEF NotIdle, Attend, Select, Wake, Sleep, Slept, user, serv, past
  <2> QED BY <1>4, <2>1, <2>2, <2>3, <2>4, <2>5 DEF Loop
<1> QED BY <1>1, <1>2, <1>3, <1>4 DEF Next

(* The queue with a line more, entry by entry.                              *)
LEMMA QueueEntries ==
  ASSUME IcatTypeOK, NEW q \in BOOLEAN, Queue(q)
  PROVE  /\ Len(s_outQ) \in Nat /\ Len(s_outQ') = Len(s_outQ) + 1
         /\ \A i \in 1..Len(s_outQ) : s_outQ'[i] = s_outQ[i]
         /\ s_outQ'[Len(s_outQ) + 1].quit = q
<1> DEFINE e == [id |-> queued + 1, quit |-> q]
<1>1. s_outQ' = Append(s_outQ, e) /\ e \in Entry
  BY QueueType DEF Queue
<1>2. s_outQ \in Seq(Entry) /\ Len(s_outQ) \in Nat
  BY LenProperties DEF IcatTypeOK, ServOK
<1>3. e.quit = q
  OBVIOUS
<1> HIDE DEF e
<1> QED BY <1>1, <1>2, <1>3, AppendProperties

(* No step queues anything behind icat's own QUIT or cuts off what the user *)
(* wrote before it.                                                         *)
LEMMA QuitLastStep ==
  ASSUME IcatTypeOK, QuitLast, [Next]_vars
  PROVE  QuitLast'
<1>1. CASE /\ UNCHANGED <<ignoreuser, ueof, stdin, byuser, s_outQ>>
           /\ s_quitat' >= 0 => s_quitat >= 0
  BY <1>1 DEF QuitLast
<1>2. ASSUME NEW l \in Line, UserLine(l) PROVE QuitLast'
  BY <1>2 DEF UserLine, QuitLast, serv, core, past
<1>3. CASE UserEof
  BY <1>3 DEF UserEof, QuitLast, serv, core, past
<1>4. CASE ReadUser
  <2>1. ueof # "seen" /\ UNCHANGED <<ueof, ignoreuser, s_quitat>> /\ ~ignoreuser
    BY <1>4 DEF ReadUser, QuitLast
  <2>2. ~byuser' => ~byuser /\ Head(stdin) # "quit"
    BY <1>4 DEF ReadUser
  <2>3. ~byuser => ~(s_quitat >= 0) /\ \A i \in 1..Len(s_outQ) : ~s_outQ[i].quit
    BY <2>1 DEF QuitLast
  <2>4. ASSUME ~byuser', NEW i \in 1..Len(s_outQ') PROVE ~s_outQ'[i].quit
    <3>1. CASE Head(stdin) = "blank"
      <4>1. s_outQ' = s_outQ
        BY <1>4, <3>1 DEF ReadUser
      <4> QED BY <2>2, <2>3, <2>4, <4>1
    <3>2. CASE Head(stdin) # "blank"
      <4>1. Queue(FALSE)
        BY <1>4, <2>2, <2>4, <3>2 DEF ReadUser
      <4>2. CASE i \in 1..Len(s_outQ)
        BY <2>2, <2>3, <2>4, <4>1, <4>2, QueueEntries
      <4>3. CASE i = Len(s_outQ) + 1
        BY <4>1, <4>3, QueueEntries
      <4>4. i \in 1..Len(s_outQ) \/ i = Len(s_outQ) + 1
        <5>1. Len(s_outQ) \in Nat /\ Len(s_outQ') = Len(s_outQ) + 1
          BY <4>1, QueueEntries
        <5> QED BY <5>1
      <4> QED BY <4>2, <4>3, <4>4
    <3> QED BY <3>1, <3>2
  <2> QED BY <2>1, <2>2, <2>3, <2>4 DEF QuitLast
<1>5. CASE ReadUserEof
  <2>1. /\ ueof' = "seen" /\ ignoreuser' = TRUE /\ stdin' = <<>>
        /\ ueof # "seen" /\ UNCHANGED <<byuser, s_quitat>> /\ Queue(TRUE)
    BY <1>5 DEF ReadUserEof, QuitLast
  <2>2. ~byuser => ~(s_quitat >= 0) /\ \A i \in 1..Len(s_outQ) : ~s_outQ[i].quit
    BY <2>1 DEF QuitLast
  <2>3. ASSUME ~byuser', NEW i \in 1..Len(s_outQ'), s_outQ'[i].quit PROVE i = Len(s_outQ')
    <3>1. CASE i \in 1..Len(s_outQ)
      BY <2>1, <2>2, <2>3, <3>1, QueueEntries
    <3>2. Len(s_outQ) \in Nat /\ Len(s_outQ') = Len(s_outQ) + 1
      BY <2>1, QueueEntries
    <3> QED BY <3>1, <3>2
  <2> QED BY <2>1, <2>2, <2>3 DEF QuitLast
<1>6. CASE SendLine
  <2>1. /\ UNCHANGED <<ueof, stdin, ignoreuser, byuser>>
        /\ s_outQ' = Tail(s_outQ)
        /\ s_quitat' = IF Head(s_outQ).quit THEN 0 ELSE s_quitat
    BY <1>6 DEF SendLine, user
  <2>2. /\ s_outQ \in Seq(Entry) /\ s_outQ # <<>> /\ Len(s_outQ) \in Nat \ {0}
        /\ Head(s_outQ) = s_outQ[1]
    BY <1>6, SendType, EmptySeq
  <2>3. /\ s_outQ' \in Seq(Entry) /\ Len(s_outQ') = Len(s_outQ) - 1
        /\ \A i \in 1..Len(s_outQ') : s_outQ'[i] = s_outQ[i + 1]
    BY <2>1, <2>2, HeadTailProperties
  <2>4. ~byuser => ~(s_quitat >= 0)
    BY <2>2 DEF QuitLast
  <2>5. ASSUME ~byuser, s_quitat' >= 0 PROVE ueof = "seen" /\ s_outQ' = <<>>
    <3>1. s_outQ[1].quit
      BY <2>1, <2>2, <2>4, <2>5
    <3>2. 1 \in 1..Len(s_outQ)
      BY <2>2
    <3>3. ueof = "seen" /\ 1 = Len(s_outQ)
      BY <2>5, <3>1, <3>2 DEF QuitLast
    <3>4. Len(s_outQ') = 0
      <4>1. Len(s_outQ) = 1 /\ Len(s_outQ') = Len(s_outQ) - 1
        BY <2>3, <3>3
      <4> QED BY <4>1
    <3>5. s_outQ' = <<>>
      <4>1. s_outQ' \in Seq(Entry)
        BY <2>3
      <4> QED BY <3>4, <4>1, EmptySeq
    <3> QED BY <3>3, <3>5
  <2>6. ASSUME ~byuser, NEW i \in 1..Len(s_outQ'), s_outQ'[i].quit
        PROVE  ueof = "seen" /\ i = Len(s_outQ')
    <3>1. i + 1 \in 1..Len(s_outQ) /\ s_outQ[i + 1].quit
      BY <2>2, <2>3, <2>6
    <3>2. ueof = "seen" /\ i + 1 = Len(s_outQ)
      BY <2>6, <3>1 DEF QuitLast
    <3> QED BY <2>3, <3>2
  <2> QED BY <2>1, <2>5, <2>6 DEF QuitLast
<1> QED BY <1>1, <1>2, <1>3, <1>4, <1>5, <1>6, QuitSteps

-----------------------------------------------------------------------------
(* The inductive invariant holds at first and is preserved by every step.   *)
LEMMA InvHolds ==
  /\ Init => IInv
  /\ IInv /\ [Next]_vars => IInv'
<1>1. ASSUME Init PROVE Numbered /\ Beating /\ QuitLast
  <2>1. /\ written = <<>> /\ s_outQ = <<>> /\ queued = 0 /\ s_gotpong /\ pc = "read"
        /\ ~ignoreuser /\ ueof = "no" /\ s_quitat = -1
    BY <1>1, Zenon DEF Init
  <2>2. Len(<<>>) = 0
    BY EmptySeq
  <2>3. Numbered
    BY <2>1, <2>2 DEF Numbered
  <2>4. Beating
    BY <2>1 DEF Beating
  <2>5. QuitLast
    BY <2>1, <2>2 DEF QuitLast
  <2> QED BY <2>3, <2>4, <2>5
<1> QED BY <1>1, TypeInv, NumberedStep, BeatingStep, QuitLastStep DEF IInv

(* Whatever server, user and clock do, each variable of icat has its type.  *)
THEOREM TypeCorrect == Spec => []IcatTypeOK
<1>1. IInv => IcatTypeOK
  BY DEF IInv
<1> QED BY <1>1, InvHolds, PTL DEF Spec

(* Each line queued by icat_serv_printf is written once and in order, or    *)
(* waits, over any number of failed writes and reconnections.               *)
THEOREM OnceCorrect == Spec => []EachLineOnce
<1>1. IInv => EachLineOnce
  BY NumberedIsOnce DEF IInv
<1> QED BY <1>1, InvHolds, PTL DEF Spec

(* The QUIT that icat_core_run queues at the end of the user's input cuts   *)
(* off no line that the user has ended with a newline.                      *)
THEOREM SaidCorrect == Spec => []AllSaid
<1>1. IInv => AllSaid
  BY DEF IInv, QuitLast, AllSaid
<1> QED BY <1>1, InvHolds, PTL DEF Spec

(* do_heartbeat gives a connection up only for a PING sent on it and not    *)
(* answered.                                                                *)
THEOREM BeatCorrect == Spec => HeartbeatJust
<1>1. IInv /\ [Next]_vars => [HeartbeatTimeout => pinged = "waiting"]_vars
  BY Zenon DEF IInv, Beating, HeartbeatTimeout
<1> QED BY <1>1, InvHolds, PTL DEF Spec, HeartbeatJust
=============================================================================
