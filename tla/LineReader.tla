----------------------------- MODULE LineReader -----------------------------
(***************************************************************************)
(* Reading lines: lsi_io_read (libsrsirc/io.c) with the buffer it keeps      *)
(* between calls, the timeouts of the system call wrappers below it         *)
(* (platform/base_net.c), and what lsi_conn_read (libsrsirc/conn.c) makes    *)
(* of its result.  A call is a sequence of steps, so that characters arrive *)
(* and the server closes the connection in the middle of one.               *)
(***************************************************************************)
EXTENDS Integers, Sequences

CONSTANTS
  Char,      \* the characters the server may send
  Delim,     \* those that end a line: CR and LF
  Nul,       \* what io.c overwrites delimiters with
  Size,      \* WORKBUF_SZ; workbuf has one byte more
  Timeouts,  \* the timeouts the application uses: "none" (0), "poll" (1), "some"
  MaxSent    \* bound: the characters sent on one connection

ASSUME ReaderAssumption ==
  /\ Delim \subseteq Char /\ Nul \notin Char
  /\ Size \in Nat \ {0}
  /\ Timeouts \subseteq {"none", "poll", "some"}
  /\ MaxSent \in Nat

VARIABLES
  sent,     \* what the server has sent on this connection
  open,     \* the server has not closed it
  tls,      \* it uses TLS
  got,      \* how much of it has been read from the socket
  workbuf,  \* rctx->workbuf
  wptr,     \* rctx->wptr, the first character not taken
  eptr,     \* rctx->eptr, behind the last character read
  online,   \* ctx->online
  eof,      \* ctx->eof
  pc,       \* where lsi_io_read is
  to,       \* its timeout
  ret,      \* what came of the last call, or why the connection was lost
  lines     \* the lines returned on this connection

socket == <<sent, open, tls, got>>
rctx   == <<workbuf, wptr, eptr>>
vars   == <<socket, rctx, online, eof, pc, to, ret, lines>>

Pc == {"out",    \* not in lsi_io_read
       "find",   \* looking for a delimiter
       "read",   \* about to read from the socket
       "wait"}   \* waiting for a TLS connection's socket

Ret == {"none", "line", "timeout", "toolong", "malformed", "eof", "error",
        "reset", "refused"}

TypeOK ==
  /\ sent \in Seq(Char) /\ open \in BOOLEAN /\ tls \in BOOLEAN /\ got \in 0..Len(sent)
  /\ workbuf \in [0..Size -> Char \cup {Nul}]
  /\ eptr \in 0..Size /\ wptr \in 0..eptr
  /\ online \in BOOLEAN /\ eof \in BOOLEAN
  /\ pc \in Pc /\ to \in {"none", "poll", "some"} /\ ret \in Ret
  /\ lines \in Seq(Seq(Char))

Init ==
  /\ sent = <<>> /\ open = FALSE /\ tls = FALSE /\ got = 0
  /\ workbuf = [i \in 0..Size |-> Nul] /\ wptr = 0 /\ eptr = 0
  /\ online = FALSE /\ eof = FALSE
  /\ pc = "out" /\ to = "none" /\ ret = "none"
  /\ lines = <<>>

-----------------------------------------------------------------------------
(* The connection *)

(* lsi_conn_connect; the eof flag is not touched.                           *)
Connect ==
  /\ pc = "out" /\ ~online
  /\ online' = TRUE /\ open' = TRUE /\ tls' \in BOOLEAN
  /\ UNCHANGED <<sent, got, rctx, eof, pc, to, ret, lines>>

Send(c) ==
  /\ online /\ open /\ Len(sent) < MaxSent
  /\ sent' = Append(sent, c)
  /\ UNCHANGED <<open, tls, got, rctx, online, eof, pc, to, ret, lines>>

Close ==
  /\ online /\ open
  /\ open' = FALSE
  /\ UNCHANGED <<sent, tls, got, rctx, online, eof, pc, to, ret, lines>>

(* lsi_conn_reset, for reason why.                                          *)
Reset_KeepsBuffer(why) ==   \* faulty: what is in the buffer stays
  /\ UNCHANGED rctx
  /\ sent' = <<>> /\ open' = FALSE /\ tls' = FALSE /\ got' = 0 /\ lines' = <<>>
  /\ online' = FALSE
  /\ pc' = "out" /\ ret' = why
  /\ UNCHANGED to

Reset(why) ==
  /\ wptr' = 0 /\ eptr' = 0 /\ UNCHANGED workbuf
  /\ sent' = <<>> /\ open' = FALSE /\ tls' = FALSE /\ got' = 0 /\ lines' = <<>>
  /\ online' = FALSE
  /\ pc' = "out" /\ ret' = why
  /\ UNCHANGED to

(* The end of lsi_conn_read when lsi_io_read fails.                         *)
Fail(why) == Reset(why) /\ eof' = (why = "eof")

(* irc_reset, by the application.                                           *)
irc_reset == pc = "out" /\ online /\ Reset("reset") /\ UNCHANGED eof

(* irc_read, when a handler of the line says CANT_PROCEED.                  *)
Refused == pc = "out" /\ online /\ ret = "line" /\ Reset("refused") /\ UNCHANGED eof

(* lsi_conn_write_raw fails.                                                *)
WriteFails == pc = "out" /\ online /\ Reset("error") /\ eof' = FALSE

-----------------------------------------------------------------------------
(* lsi_io_read *)

(* The characters between wptr and eptr, and the delimiters among them.     *)
Unread == wptr..eptr - 1
Delims == {i \in Unread : workbuf[i] \in Delim}

First(D) == CHOOSE i \in D : \A j \in D : i <= j

(* Behind the delimiters at wptr.                                           *)
Skipped == IF Delims = Unread THEN eptr ELSE First(Unread \ Delims)

(* It begins by skipping delimiters, and if nothing is left it takes the    *)
(* opportunity to start over at the beginning of the buffer.                *)
Call(t) ==
  /\ pc = "out" /\ online
  /\ pc' = "find" /\ to' = t
  /\ wptr' = IF Skipped = eptr THEN 0 ELSE Skipped
  /\ eptr' = IF Skipped = eptr THEN 0 ELSE eptr
  /\ UNCHANGED <<socket, workbuf, online, eof, ret, lines>>

(* find_delim marks the end of the buffer.                                  *)
Marked == [workbuf EXCEPT ![eptr] = Nul]

(* A delimiter ends an empty line: look for the next.                       *)
EmptyLine ==
  /\ pc = "find" /\ Delims # {} /\ First(Delims) = wptr
  /\ workbuf' = Marked
  /\ wptr' = wptr + 1
  /\ UNCHANGED <<socket, eptr, online, eof, pc, to, ret, lines>>

(* A line is found.  Its delimiter is overwritten, and what is before it    *)
(* is taken apart and returned.                                             *)
Line ==
  LET d == First(Delims) IN
  /\ pc = "find" /\ Delims # {} /\ d > wptr
  /\ workbuf' = [Marked EXCEPT ![d] = Nul]
  /\ wptr' = d + 1
  /\ lines' = Append(lines, [i \in 1..d - wptr |-> workbuf[wptr + i - 1]])
  /\ pc' = "out" /\ ret' = "line"
  /\ UNCHANGED <<socket, eptr, online, eof, to>>

(* Or it cannot be taken apart.                                             *)
Malformed ==
  /\ pc = "find" /\ Delims # {} /\ First(Delims) > wptr
  /\ Fail("malformed")

(* There is no delimiter: read_more.                                        *)
NeedMore == pc = "find" /\ Delims = {}

Room ==
  /\ NeedMore /\ eptr < Size
  /\ workbuf' = Marked
  /\ pc' = "read"
  /\ UNCHANGED <<socket, wptr, eptr, online, eof, to, ret, lines>>

(* The buffer is full: move what is unread to its front.                    *)
Shift_Short ==   \* faulty: one character too few
  /\ NeedMore /\ eptr = Size /\ wptr > 0
  /\ workbuf' = [i \in 0..Size |-> IF i < eptr - wptr - 1 THEN Marked[wptr + i] ELSE Marked[i]]
  /\ wptr' = 0 /\ eptr' = eptr - wptr
  /\ pc' = "read"
  /\ UNCHANGED <<socket, online, eof, to, ret, lines>>

Shift ==
  /\ NeedMore /\ eptr = Size /\ wptr > 0
  /\ workbuf' = [i \in 0..Size |-> IF i < eptr - wptr THEN Marked[wptr + i] ELSE Marked[i]]
  /\ wptr' = 0 /\ eptr' = eptr - wptr
  /\ pc' = "read"
  /\ UNCHANGED <<socket, online, eof, to, ret, lines>>

(* It is full of unread characters.                                         *)
TooLong_Early ==   \* faulty: whatever wptr is
  NeedMore /\ eptr = Size /\ Fail("toolong")

TooLong == NeedMore /\ eptr = Size /\ wptr = 0 /\ Fail("toolong")

-----------------------------------------------------------------------------
(* read_wrap: lsi_b_read, or lsi_b_read_ssl *)

Available == Len(sent) - got

(* n characters are read.                                                   *)
ReadSome_Over(n) ==   \* faulty: into the last byte, which is for the mark
  /\ pc = "read"
  /\ n \in 1..Available /\ n <= Size + 1 - eptr
  /\ workbuf' = [i \in 0..Size |->
                   IF i \in eptr..eptr + n - 1 THEN sent[got + i - eptr + 1] ELSE workbuf[i]]
  /\ eptr' = eptr + n /\ got' = got + n
  /\ pc' = "find"
  /\ UNCHANGED <<sent, open, tls, wptr, online, eof, to, ret, lines>>

ReadSome(n) ==
  /\ pc = "read"
  /\ n \in 1..Available /\ n <= Size - eptr
  /\ workbuf' = [i \in 0..Size |->
                   IF i \in eptr..eptr + n - 1 THEN sent[got + i - eptr + 1] ELSE workbuf[i]]
  /\ eptr' = eptr + n /\ got' = got + n
  /\ pc' = "find"
  /\ UNCHANGED <<sent, open, tls, wptr, online, eof, to, ret, lines>>

Timeout ==
  /\ pc' = "out" /\ ret' = "timeout"
  /\ UNCHANGED <<socket, rctx, online, eof, to, lines>>

(* select(2) finds nothing to read.  With a timeout other than 0 and 1 it   *)
(* may not even be called, when the timeout has expired before.             *)
ReadTimeout ==
  /\ pc = "read" /\ to # "none"
  /\ to = "poll" => Available = 0 /\ open
  /\ Timeout

ReadEof == pc = "read" /\ Available = 0 /\ ~open /\ Fail("eof")

ReadError == pc = "read" /\ Fail("error")

(* SSL_read wants more data, and lsi_b_read_ssl waits for the socket.       *)
TlsWait ==
  /\ pc = "read" /\ tls /\ Available = 0 /\ open
  /\ pc' = "wait"
  /\ UNCHANGED <<socket, rctx, online, eof, to, ret, lines>>

(* There is something; SSL_read is called again, if the deadline has not    *)
(* passed.  Without a timeout the deadline is 0, which has passed.          *)
TlsRetry ==
  /\ pc = "wait" /\ (Available > 0 \/ ~open) /\ to # "none"
  /\ pc' = "read"
  /\ UNCHANGED <<socket, rctx, online, eof, to, ret, lines>>

TlsTimeout_Blocks ==   \* faulty: no deadline, no timeout, no way out
  pc = "wait" /\ to # "none" /\ Timeout

TlsTimeout ==
  /\ pc = "wait"
  /\ to = "none" => Available > 0 \/ ~open
  /\ Timeout

-----------------------------------------------------------------------------
Find == EmptyLine \/ Line \/ Malformed \/ Room \/ Shift \/ TooLong

Read ==
  \/ \E n \in 1..Size : ReadSome(n)
  \/ ReadTimeout \/ ReadEof \/ ReadError
  \/ TlsWait \/ TlsRetry \/ TlsTimeout

App == \/ Connect \/ irc_reset \/ Refused \/ WriteFails
       \/ \E t \in Timeouts : Call(t)

Peer == (\E c \in Char : Send(c)) \/ Close

Next == Find \/ Read \/ App \/ Peer

Spec == Init /\ [][Next]_vars

(* lsi_io_read runs; the application calls again; and its timeouts do not   *)
(* for ever expire before the first look at the socket.                     *)
FairSpec ==
  /\ Spec
  /\ WF_vars(Find) /\ WF_vars(Read) /\ SF_vars(\E n \in 1..Size : ReadSome(n))
  /\ WF_vars(\E t \in Timeouts : Call(t))

-----------------------------------------------------------------------------
(* Whatever the pieces, the timeouts and the moves of the buffer, the lines *)
(* returned are the lines sent (module LineStream).                         *)
LS == INSTANCE LineStream WITH pos <- got - (eptr - wptr)

ImplementsLineStream == LS!Spec

(* "input too long" is said of nothing but a line that does not fit into    *)
(* the buffer: of what has been sent, the next Size characters are in one   *)
(* line.                                                                    *)
TooLongIsTooLong ==
  [][pc = "find" /\ pc' = "out" /\ ret' = "toolong" =>
       /\ Len(sent) >= got - (eptr - wptr) + Size
       /\ \A i \in 1..Size : sent[got - (eptr - wptr) + i] \notin Delim]_vars

(* Every delimiter sent is got past in the end, and with it the line before *)
(* it, unless the connection is lost.                                       *)
LinesArrive ==
  \A k \in 1..MaxSent :
    (k <= Len(sent) /\ sent[k] \in Delim) ~> (got - (eptr - wptr) >= k \/ ~online)

=============================================================================
