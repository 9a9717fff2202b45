-------------------------------- MODULE Icat --------------------------------
(***************************************************************************)
(* icat, netcat for IRC (src/icat_core.c, icat_serv.c, icat_user.c): the     *)
(* main loop that reads a message from the server and a line from the user, *)
(* queues what the user says, sends it no faster than flood protection      *)
(* allows, asks the server for a sign of life, reconnects, and ends after a *)
(* QUIT.                                                                    *)
(*                                                                          *)
(* Time is counted down: a variable that is an absolute time in the code is *)
(* here the time that is left until it.  The server, the user and the clock *)
(* take their steps between any two steps of the loop.                      *)
(***************************************************************************)
EXTENDS Integers, Sequences

CONSTANTS
  Settings,   \* g_sett: records of heartbeats wanted, reconnection wanted, TLS
  Free,       \* -F: lines sent before flood protection sets in
  Hbeat,      \* -B: the time between heartbeats
  LineDelay,  \* -T: the time between lines
  WaitQuit,   \* -w: how long the server may take to close after a QUIT
  CfWait,     \* -W: the pause after a failed connection attempt
  SslCap,     \* the longest sleep on a TLS connection
  MaxLines,   \* bound: lines the user writes
  MaxIn       \* bound: messages of the server not yet read

ASSUME IcatAssumption ==
  /\ Settings \subseteq [hbeat : BOOLEAN, reconnect : BOOLEAN, ssl : BOOLEAN]
  /\ Free \in Nat /\ MaxLines \in Nat /\ MaxIn \in Nat
  /\ {Hbeat, LineDelay, WaitQuit, CfWait, SslCap} \subseteq Nat \ {0}

VARIABLES
  sett,        \* the settings
  (* the server's and the user's side *)
  up,          \* the library's context is online
  closed,      \* the server has closed the connection
  inq,         \* messages on their way from the server
  asked,       \* a PING of ours that the server has not answered
  full,        \* the server has not read what we wrote, there is room for no more
  stdin,       \* lines the user has written and icat has not read
  rest,        \* what follows the last newline: "none", "new", or "read" by icat
  ueof,        \* end of the user's input: "no", "yes", "seen"
  (* icat_serv.c *)
  s_on, s_outQ,
  s_nexthb, s_nextsend,   \* time left; -1 is the initial 0, long past
  s_quitat,               \* time since the QUIT was sent; -1 before
  s_gotpong, freelines,
  (* icat_core_run *)
  pc, idle, ignoreuser, nextop,
  tquit,       \* whether s_quitat was set when it looked
  to,          \* the timeout of its select(2), -1 for none
  (* history *)
  queued,      \* the number of lines queued
  byuser,      \* one of them is a QUIT of the user's own
  written,     \* the lines written to the server
  pinged,      \* on this connection: "no", "waiting", "answered"
  why          \* why icat has ended

peer == <<up, closed, inq, asked, full>>
user == <<stdin, rest, ueof>>
serv == <<s_on, s_outQ, s_nexthb, s_nextsend, s_quitat, s_gotpong, freelines>>
core == <<pc, idle, ignoreuser, nextop, tquit, to>>
past == <<queued, byuser, written, pinged, why>>
vars == <<sett, peer, user, serv, core, past>>

Line == {"text", "blank", "quit"}
Msg  == {"PING", "PONG", "other", "empty"}   \* "empty": only line delimiters

Entry == [id : Nat, quit : BOOLEAN]

PeerOK ==
  /\ up \in BOOLEAN /\ closed \in BOOLEAN /\ asked \in BOOLEAN
  /\ inq \in Seq(Msg) /\ Len(inq) <= MaxIn /\ full \in BOOLEAN

UserOK ==
  stdin \in Seq(Line) /\ rest \in {"none", "new", "read"} /\ ueof \in {"no", "yes", "seen"}

ServOK ==
  /\ s_on \in BOOLEAN /\ s_outQ \in Seq(Entry)
  /\ s_nexthb \in 0..Hbeat /\ s_nextsend \in -1..LineDelay
  /\ s_quitat \in -1..WaitQuit + 1 /\ s_gotpong \in BOOLEAN /\ freelines \in 0..Free

CoreOK ==
  /\ pc \in {"read", "user", "check", "sendq", "beat", "idle", "select", "sleep", "done"}
  /\ idle \in BOOLEAN /\ ignoreuser \in BOOLEAN /\ nextop \in 0..CfWait
  /\ tquit \in BOOLEAN /\ to \in Int /\ to >= -1

PastOK ==
  /\ queued \in Nat /\ byuser \in BOOLEAN /\ written \in Seq(Nat)
  /\ pinged \in {"no", "waiting", "answered"}
  /\ why \in {"", "interrupted", "closed", "waitquit", "offline"}

IcatTypeOK == sett \in Settings /\ PeerOK /\ UserOK /\ ServOK /\ CoreOK /\ PastOK

(* icat_serv_init has connected; the JOIN it sent may have failed.          *)
Init ==
  /\ sett \in Settings
  /\ up \in BOOLEAN /\ closed = FALSE /\ inq = <<>> /\ asked = FALSE
  /\ full \in BOOLEAN /\ (full => up)
  /\ stdin = <<>> /\ rest = "none" /\ ueof = "no"
  /\ s_on = TRUE /\ s_outQ = <<>>
  /\ s_nexthb = (IF sett.hbeat THEN Hbeat ELSE 0) /\ s_nextsend = -1
  /\ s_quitat = -1 /\ s_gotpong = TRUE /\ freelines = Free
  /\ pc = "read" /\ idle = TRUE /\ ignoreuser = FALSE /\ nextop = 0
  /\ tquit = FALSE /\ to = -1
  /\ queued = 0 /\ byuser = FALSE /\ written = <<>> /\ pinged = "no" /\ why = ""

-----------------------------------------------------------------------------
(* The server, the user, the clock *)

SrvSend(m) ==
  /\ up /\ ~closed /\ Len(inq) < MaxIn
  /\ m = "PONG" => asked
  /\ inq' = Append(inq, m)
  /\ asked' = (asked /\ m # "PONG")
  /\ UNCHANGED <<sett, up, closed, full, user, serv, core, past>>

SrvClose ==
  /\ up /\ ~closed
  /\ closed' = TRUE
  /\ UNCHANGED <<sett, up, inq, asked, full, user, serv, core, past>>

SrvReads ==
  /\ full
  /\ full' = FALSE
  /\ UNCHANGED <<sett, up, closed, inq, asked, user, serv, core, past>>

(* A line and its newline; a part written before is its beginning.          *)
UserLine(l) ==
  /\ ueof = "no" /\ queued + Len(stdin) < MaxLines
  /\ stdin' = Append(stdin, l) /\ rest' = "none"
  /\ UNCHANGED <<sett, peer, ueof, serv, core, past>>

UserPart ==
  /\ ueof = "no"
  /\ rest' = "new"
  /\ UNCHANGED <<sett, peer, stdin, ueof, serv, core, past>>

UserEof ==
  /\ ueof = "no"
  /\ ueof' = "yes"
  /\ UNCHANGED <<sett, peer, stdin, rest, serv, core, past>>

Less(t) == IF t > 0 THEN t - 1 ELSE t

Tick ==
  /\ s_nexthb' = Less(s_nexthb) /\ s_nextsend' = Less(s_nextsend)
  /\ nextop' = Less(nextop) /\ to' = Less(to)
  /\ s_quitat' = IF s_quitat \in 0..WaitQuit THEN s_quitat + 1 ELSE s_quitat
  /\ UNCHANGED <<sett, peer, user, s_on, s_outQ, s_gotpong, freelines,
                 pc, idle, ignoreuser, tquit, past>>

-----------------------------------------------------------------------------
(* A write to the server that fails takes the connection with it.           *)
LoseConnection ==
  up' = FALSE /\ closed' = FALSE /\ inq' = <<>> /\ asked' = FALSE /\ full' = FALSE

(* icat_serv_printf: append to the queue.                                   *)
Queue(quit) ==
  /\ queued' = queued + 1
  /\ s_outQ' = Append(s_outQ, [id |-> queued + 1, quit |-> quit])

-----------------------------------------------------------------------------
(* icat_core_run: a message from the server *)

End(reason) ==
  /\ pc' = "done" /\ why' = reason
  /\ UNCHANGED <<sett, peer, user, serv, idle, ignoreuser, nextop, tquit, to,
                 queued, byuser, written, pinged>>

Interrupted == pc = "read" /\ End("interrupted")

NotOnline ==
  /\ pc = "read" /\ ~s_on
  /\ pc' = "user" /\ idle' = TRUE
  /\ UNCHANGED <<sett, peer, user, serv, ignoreuser, nextop, tquit, to, past>>

ReadNothing ==
  /\ pc = "read" /\ s_on /\ up /\ inq = <<>> /\ ~closed
  /\ pc' = "user" /\ idle' = TRUE
  /\ UNCHANGED <<sett, peer, user, serv, ignoreuser, nextop, tquit, to, past>>

(* lsi_io_read takes line delimiters and goes on reading: it returns with a *)
(* message, or when there is nothing to be read.                            *)
ReadDelims ==
  /\ pc = "read" /\ s_on /\ up /\ inq # <<>> /\ Head(inq) = "empty"
  /\ inq' = Tail(inq)
  /\ UNCHANGED <<sett, up, closed, asked, full, user, serv, core, past>>

(* icat_serv_read; handle_PING answers, which takes room for the PONG, and  *)
(* handle_PONG notes.                                                       *)
ReadMsg ==
  /\ pc = "read" /\ s_on /\ up /\ inq # <<>> /\ Head(inq) # "empty"
  /\ Head(inq) = "PING" => ~full
  /\ inq' = Tail(inq)
  /\ full' \in IF Head(inq) = "PING" THEN BOOLEAN ELSE {full}
  /\ s_gotpong' = (s_gotpong \/ Head(inq) = "PONG")
  /\ pinged' = IF Head(inq) = "PONG" THEN "answered" ELSE pinged
  /\ pc' = "user" /\ idle' = FALSE
  /\ UNCHANGED <<sett, up, closed, asked, user, s_on, s_outQ, s_nexthb, s_nextsend,
                 s_quitat, freelines, ignoreuser, nextop, tquit, to,
                 queued, byuser, written, why>>

(* End of file, an error, the PONG cannot be written, or the connection was *)
(* lost before, when the JOIN was written.  The loop starts over.           *)
ReadFails ==
  /\ pc = "read" /\ s_on
  /\ LoseConnection
  /\ s_on' = FALSE
  /\ UNCHANGED <<sett, user, s_outQ, s_nexthb, s_nextsend, s_quitat, s_gotpong,
                 freelines, core, past>>

-----------------------------------------------------------------------------
(* A line from the user *)

(* handle_usermsg.  What follows the line may come in with it.              *)
ReadUser ==
  /\ pc = "user" /\ ~ignoreuser /\ stdin # <<>>
  /\ stdin' = Tail(stdin)
  /\ rest' \in IF rest = "new" THEN {"new", "read"} ELSE {rest}
  /\ IF Head(stdin) = "blank" THEN UNCHANGED <<s_outQ, queued>>
                              ELSE Queue(Head(stdin) = "quit")
  /\ byuser' = (byuser \/ Head(stdin) = "quit")
  /\ pc' = "check" /\ idle' = FALSE
  /\ UNCHANGED <<sett, peer, ueof, s_on, s_nexthb, s_nextsend, s_quitat, s_gotpong,
                 freelines, ignoreuser, nextop, tquit, to, written, pinged, why>>

ReadUserEof_First ==   \* faulty: lines that wait are not looked for
  /\ pc = "user" /\ ~ignoreuser /\ ueof # "no"
  /\ ueof' = "seen" /\ ignoreuser' = TRUE
  /\ Queue(TRUE)
  /\ pc' = "check"
  /\ UNCHANGED <<sett, peer, stdin, rest, s_on, s_nexthb, s_nextsend, s_quitat, s_gotpong,
                 freelines, idle, nextop, tquit, to, byuser, written, pinged, why>>

(* Nothing more can be read.  What icat has read since the last newline is   *)
(* no line and is dropped.                                                  *)
ReadUserEof ==
  /\ pc = "user" /\ ~ignoreuser /\ stdin = <<>> /\ rest # "new" /\ ueof # "no"
  /\ ueof' = "seen" /\ ignoreuser' = TRUE
  /\ Queue(TRUE)
  /\ pc' = "check"
  /\ UNCHANGED <<sett, peer, stdin, rest, s_on, s_nexthb, s_nextsend, s_quitat, s_gotpong,
                 freelines, idle, nextop, tquit, to, byuser, written, pinged, why>>

(* Not yet a line.                                                          *)
NoUser ==
  /\ pc = "user"
  /\ \/ ignoreuser /\ UNCHANGED rest
     \/ /\ ~ignoreuser /\ stdin = <<>> /\ (ueof = "no" \/ rest = "new")
        /\ rest' = IF rest = "new" THEN "read" ELSE rest
  /\ pc' = "check"
  /\ UNCHANGED <<sett, peer, stdin, ueof, serv, idle, ignoreuser, nextop, tquit, to, past>>

-----------------------------------------------------------------------------
(* Is it time to end? *)

Closed == pc = "check" /\ s_quitat >= 0 /\ ~s_on /\ End("closed")

Waited_Closed ==   \* faulty: only if the server has closed the connection
  pc = "check" /\ s_quitat > WaitQuit /\ s_on /\ closed /\ End("waitquit")

Waited == pc = "check" /\ s_quitat > WaitQuit /\ s_on /\ End("waitquit")

Offline ==
  /\ pc = "check" /\ s_quitat = -1 /\ ~s_on
  /\ ~sett.reconnect \/ ueof = "seen"
  /\ End("offline")

(* No.  Unless a failed connection attempt is too recent, operate.          *)
GoOn ==
  /\ pc = "check"
  /\ IF s_quitat >= 0 THEN s_on /\ s_quitat <= WaitQuit
                      ELSE s_on \/ (sett.reconnect /\ ueof # "seen")
  /\ tquit' = (s_quitat >= 0)
  /\ pc' = IF nextop = 0 THEN "sendq" ELSE "idle"
  /\ UNCHANGED <<sett, peer, user, serv, idle, ignoreuser, nextop, to, past>>

-----------------------------------------------------------------------------
(* icat_serv_operate *)

(* tryconnect: we are logged on, and the JOIN is written or not.            *)
Reconnect_StaleBeat ==   \* faulty: the last connection's heartbeat goes on
  /\ pc = "sendq" /\ ~s_on
  /\ s_on' = TRUE
  /\ up' \in BOOLEAN /\ closed' = FALSE /\ inq' = <<>> /\ asked' = FALSE
  /\ full' \in IF up' THEN BOOLEAN ELSE {FALSE}
  /\ pinged' = "no"
  /\ pc' = "idle"
  /\ UNCHANGED <<sett, user, s_outQ, s_nexthb, s_gotpong, s_nextsend, s_quitat,
                 freelines, idle, ignoreuser, nextop, tquit, to, queued, byuser, written, why>>

Reconnect ==
  /\ pc = "sendq" /\ ~s_on
  /\ s_on' = TRUE
  /\ up' \in BOOLEAN /\ closed' = FALSE /\ inq' = <<>> /\ asked' = FALSE
  /\ full' \in IF up' THEN BOOLEAN ELSE {FALSE}
  /\ s_nexthb' = (IF sett.hbeat THEN Hbeat ELSE 0) /\ s_gotpong' = TRUE
  /\ pinged' = "no"
  /\ pc' = "idle"
  /\ UNCHANGED <<sett, user, s_outQ, s_nextsend, s_quitat, freelines,
                 idle, ignoreuser, nextop, tquit, to, queued, byuser, written, why>>

ReconnectFails ==
  /\ pc = "sendq" /\ ~s_on
  /\ pc' = "idle" /\ idle' = FALSE
  /\ nextop' = CfWait
  /\ UNCHANGED <<sett, peer, user, serv, ignoreuser, tquit, to, past>>

(* process_sendq                                                            *)
SendDue == s_outQ # <<>> /\ (freelines > 0 \/ s_nextsend <= 0)

NothingToSend ==
  /\ pc = "sendq" /\ s_on /\ ~SendDue
  /\ pc' = "beat"
  /\ UNCHANGED <<sett, peer, user, serv, idle, ignoreuser, nextop, tquit, to, past>>

SendLine ==
  /\ pc = "sendq" /\ s_on /\ up /\ ~full /\ SendDue
  /\ full' \in BOOLEAN
  /\ s_outQ' = Tail(s_outQ)
  /\ written' = Append(written, Head(s_outQ).id)
  /\ s_quitat' = IF Head(s_outQ).quit THEN 0 ELSE s_quitat
  /\ freelines' = Less(freelines)
  /\ s_nextsend' = LineDelay
  /\ pc' = "beat"
  /\ UNCHANGED <<sett, up, closed, inq, asked, user, s_on, s_nexthb, s_gotpong,
                 idle, ignoreuser, nextop, tquit, to, queued, byuser, pinged, why>>

(* A line that could not be written stays in the queue.                     *)
SendFails_Drops ==   \* faulty: it does not
  /\ pc = "sendq" /\ s_on /\ SendDue
  /\ LoseConnection
  /\ s_on' = FALSE
  /\ s_outQ' = Tail(s_outQ)
  /\ pc' = "idle" /\ idle' = FALSE
  /\ UNCHANGED <<sett, user, s_nexthb, s_nextsend, s_quitat, s_gotpong, freelines,
                 ignoreuser, nextop, tquit, to, past>>

SendFails ==
  /\ pc = "sendq" /\ s_on /\ SendDue
  /\ LoseConnection
  /\ s_on' = FALSE
  /\ pc' = "idle" /\ idle' = FALSE
  /\ UNCHANGED <<sett, user, s_outQ, s_nexthb, s_nextsend, s_quitat, s_gotpong,
                 freelines, ignoreuser, nextop, tquit, to, past>>

(* do_heartbeat                                                             *)
BeatDue == sett.hbeat /\ s_nexthb = 0

NoHeartbeat ==
  /\ pc = "beat" /\ ~BeatDue
  /\ pc' = "idle"
  /\ UNCHANGED <<sett, peer, user, serv, idle, ignoreuser, nextop, tquit, to, past>>

Heartbeat ==
  /\ pc = "beat" /\ BeatDue /\ s_gotpong /\ up /\ ~full
  /\ full' \in BOOLEAN
  /\ s_gotpong' = FALSE /\ s_nexthb' = Hbeat
  /\ asked' = TRUE /\ pinged' = "waiting"
  /\ pc' = "idle"
  /\ UNCHANGED <<sett, up, closed, inq, user, s_on, s_outQ, s_nextsend, s_quitat,
                 freelines, idle, ignoreuser, nextop, tquit, to, queued, byuser, written, why>>

HeartbeatFails ==
  /\ pc = "beat" /\ BeatDue /\ s_gotpong
  /\ s_gotpong' = FALSE /\ s_nexthb' = Hbeat
  /\ LoseConnection
  /\ s_on' = FALSE
  /\ pc' = "idle" /\ idle' = FALSE
  /\ UNCHANGED <<sett, user, s_outQ, s_nextsend, s_quitat, freelines,
                 ignoreuser, nextop, tquit, to, past>>

(* No sign of life: irc_reset.                                              *)
HeartbeatTimeout ==
  /\ pc = "beat" /\ BeatDue /\ ~s_gotpong
  /\ LoseConnection
  /\ s_on' = FALSE
  /\ pc' = "idle" /\ idle' = FALSE
  /\ UNCHANGED <<sett, user, s_outQ, s_nexthb, s_nextsend, s_quitat, s_gotpong, freelines,
                 ignoreuser, nextop, tquit, to, past>>

-----------------------------------------------------------------------------
(* Sleeping *)

NotIdle ==
  /\ pc = "idle" /\ ~idle
  /\ pc' = "read"
  /\ UNCHANGED <<sett, peer, user, serv, idle, ignoreuser, nextop, tquit, to, past>>

(* icat_serv_attention_at: the time left, or -1 if there is nothing to wait *)
(* for.  That is also what an s_nextsend never set looks like: its time, 0, *)
(* is the value that stands for no time.                                    *)
Attention ==
  CASE s_outQ = <<>> /\ ~sett.hbeat -> -1
    [] s_outQ = <<>> /\ sett.hbeat  -> s_nexthb
    [] s_outQ # <<>> /\ ~sett.hbeat -> s_nextsend
    [] s_outQ # <<>> /\ sett.hbeat  -> IF s_nextsend < s_nexthb THEN s_nextsend ELSE s_nexthb

Timeout == IF tquit THEN (IF s_quitat > WaitQuit THEN 0 ELSE WaitQuit - s_quitat) ELSE Attention

Attend ==
  /\ pc = "idle" /\ idle /\ s_on /\ Timeout = 0
  /\ pc' = "read"
  /\ UNCHANGED <<sett, peer, user, serv, idle, ignoreuser, nextop, tquit, to, past>>

Select_Patient ==   \* faulty: nothing but messages and lines wakes it
  /\ pc = "idle" /\ idle /\ s_on /\ Timeout # 0
  /\ to' = -1
  /\ pc' = "select"
  /\ UNCHANGED <<sett, peer, user, serv, idle, ignoreuser, nextop, tquit, past>>

Select ==
  /\ pc = "idle" /\ idle /\ s_on /\ Timeout # 0
  /\ to' = IF sett.ssl /\ Timeout > SslCap THEN SslCap ELSE Timeout
  /\ pc' = "select"
  /\ UNCHANGED <<sett, peer, user, serv, idle, ignoreuser, nextop, tquit, past>>

(* The socket or the user's end is readable, or time is up.                 *)
Wake ==
  /\ pc = "select"
  /\ \/ to = 0
     \/ inq # <<>> \/ closed \/ ~up
     \/ ~ignoreuser /\ (stdin # <<>> \/ rest = "new" \/ ueof # "no")
  /\ pc' = "read" /\ to' = -1
  /\ UNCHANGED <<sett, peer, user, serv, idle, ignoreuser, nextop, tquit, past>>

SelectFails ==
  /\ pc = "select"
  /\ pc' = "sleep" /\ to' = -1
  /\ UNCHANGED <<sett, peer, user, serv, idle, ignoreuser, nextop, tquit, past>>

Sleep ==
  /\ pc = "idle" /\ idle /\ ~s_on
  /\ pc' = "sleep"
  /\ UNCHANGED <<sett, peer, user, serv, idle, ignoreuser, nextop, tquit, to, past>>

Slept ==
  /\ pc = "sleep"
  /\ pc' = "read"
  /\ UNCHANGED <<sett, peer, user, serv, idle, ignoreuser, nextop, tquit, to, past>>

-----------------------------------------------------------------------------
(* lsi_b_write and lsi_b_write_ssl go on trying until there is room for all *)
(* of it, or an error.                                                      *)
Blocked ==
  /\ full
  /\ \/ pc = "read" /\ s_on /\ inq # <<>> /\ Head(inq) = "PING"
     \/ pc = "sendq" /\ s_on /\ SendDue
     \/ pc = "beat" /\ BeatDue /\ s_gotpong

Loop ==
  \/ NotOnline \/ ReadNothing \/ ReadDelims \/ ReadMsg \/ ReadFails
  \/ ReadUser \/ ReadUserEof \/ NoUser
  \/ Closed \/ Waited \/ Offline \/ GoOn
  \/ NothingToSend \/ SendLine \/ SendFails
  \/ NoHeartbeat \/ Heartbeat \/ HeartbeatFails \/ HeartbeatTimeout
  \/ NotIdle \/ Attend \/ Select \/ Wake \/ Sleep \/ Slept

Others ==
  \/ \E m \in Msg : SrvSend(m)
  \/ SrvClose \/ SrvReads
  \/ \E l \in Line : UserLine(l)
  \/ UserPart \/ UserEof
  \/ Interrupted \/ SelectFails
  \/ Reconnect \/ ReconnectFails

Next == Loop \/ Others \/ Tick

(* The program runs, except in a write that finds no room and in            *)
(* irc_connect, and time passes.  Nothing says that the server reads, or    *)
(* that it ever stops to send line delimiters.                              *)
Spec == Init /\ [][Next]_vars /\ WF_vars(Loop /\ ~Blocked) /\ WF_vars(Tick)

-----------------------------------------------------------------------------
(* Every line queued is written exactly once and in order, across failed    *)
(* writes and reconnections, or it is still waiting: icat_serv.c frees a    *)
(* line only when irc_write has taken it.                                   *)
EachLineOnce ==
  written \o [i \in 1..Len(s_outQ) |-> s_outQ[i].id] = [i \in 1..queued |-> i]

(* icat gives up a connection for want of a PONG only if it sent a PING on  *)
(* this very connection and has since read no answer.                       *)
HeartbeatJust ==
  [][HeartbeatTimeout => pinged = "waiting"]_vars

(* The QUIT that icat queues at the end of the user's input cuts no line    *)
(* off: when icat ends after it, every line the user ended with a newline   *)
(* has been written.  What follows the last newline is lost:                *)
(* icat_user_canread drops it at the end of the input.                      *)
AllSaid ==
  pc = "done" /\ why # "interrupted" /\ s_quitat >= 0 /\ ~byuser =>
    ueof = "seen" /\ stdin = <<>> /\ s_outQ = <<>>

(* What a call needs to return, and the code has no timeout for: the server *)
(* reads again and again (lsi_b_write), and does not go on for ever sending *)
(* line delimiters (lsi_io_read).                                           *)
ServerServes ==
  /\ []<>~full
  /\ <>[](\A i \in 1..Len(inq) : inq[i] # "empty")

(* While we are online with a server that reads, the queue moves: the lines *)
(* that wait, of which the user writes no more than MaxLines, are all       *)
(* written in the end, whatever the server sends or keeps to itself, once a *)
(* first line has been written.                                             *)
QueueMoves ==
  ServerServes =>
    ((s_outQ # <<>> /\ s_on /\ s_nextsend >= 0) ~> (s_outQ = <<>> \/ ~s_on \/ pc = "done"))

(* After a QUIT icat ends, if it has heartbeats, whether a server that      *)
(* reads closes the connection or not.                                      *)
QuitEnds == ServerServes => ((s_quitat >= 0 /\ sett.hbeat) ~> pc = "done")

=============================================================================
