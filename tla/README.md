# A TLA+ verification of libsrsirc

libsrsirc is a C library for IRC clients.  An application creates a context
(`irc_init`), connects and logs on (`irc_connect`), and then calls `irc_read`
in a loop: each call reads one line, takes it apart, and hands it to the
handlers registered for its command before the application sees it.  There are
no threads.  What makes the library hard is the other side: a server and a
network that decide what arrives, in which pieces and in which order, memory
that may run out at any allocation, and a context that outlives its
connections.

## Inventory

| Part | State | Operations | What makes it correct |
|---|---|---|---|
| Channel and user tracking: `ucbase.c`, `irc_track.c` | maps `ctx->users` and `ctx->chans`, user objects shared by reference count, `endofnames`, tags | one handler per message (JOIN, 353, 366, PART, KICK, QUIT, NICK, MODE, 352, TOPIC, ...), tagging, teardown | no reference to a freed object, counts never too low, rosters are the server's |
| String maps: `skmap.c`, `bucklist.c` | 256 hash buckets of singly linked nodes, iterator position, count | put, get, del, first/next, del_iter | a finite map; an iteration visits each entry once |
| Case mapping: `cmap.c` | tables | lookup | equality of names |
| Context and logon: `irc.c`, `irc_msghnd.c`, `v3.c` | nickname, server information, flags, capabilities | irc_connect and its handlers, irc_reset, irc_dispose, irc_read | logon ends, in the state the server agrees with; nothing of an old session survives |
| Dispatch: `msg.c` | arrays of handlers and user handlers | register, unregister, dispatch | every handler registered is called once |
| Line reader: `io.c` | buffer, read and end pointers | lsi_io_read, lsi_io_write | lines are those sent, whatever the pieces and timeouts |
| Connection: `conn.c`, `common.c`, `px.c` | socket, TLS handle, online, eof | connect (direct, HTTP, SOCKS4, SOCKS5), read, write, reset | flags agree with the socket, no descriptor leaks, timeouts are kept |
| Utilities, getters and setters: `util.c`, `irc_getset.c` | none, or one field | pure functions | parsing |
| Platform layer, logger | | wrappers of system calls | |
| icat, iwat, helloworld | icat: two line queues, reconnection and flood timers | main loops | icat: each line is sent once, in order |

The parts interact by calls only.  `irc_read` (`irc.c`) calls `lsi_conn_read`
(`conn.c`), which calls `lsi_io_read` (`io.c`), and then `lsi_msg_handle`
(`msg.c`), which calls the core handlers (`irc_msghnd.c`, `v3.c`) and the
tracking handlers (`irc_track.c`, over `ucbase.c`).  Any of them can end the
connection: by failing, or by returning a `CANT_PROCEED` result, on which
`irc_read` calls `irc_reset`.  All state hangs off the context.

What is hard to test is listed in `PROJECT.json` under "hazards", each at its
line.

## Modules

### Tracking

| Module | What it is |
|---|---|
| `UcBase` | the operations of `ucbase.c` as action fragments over the two maps and the heap of user objects |
| `Track` | the handlers of `irc_track.c`, tagging, and the life of the context, with a server that may say anything; `Spec` |
| `TrackServer` | `Track` composed with a server that tells the truth, an ordered connection and an application; `SafeSpec`, and `ServerSpec` with fairness |
| `TrackTags` | `TrackServer` with a record of the users that were tagged |
| `Roster` | what tracking promises, in terms of sets; `TrackServer` implements it |
| `TrackProofs` | theorems about `Track`, and what each operation and handler of the tracker does to the rosters |
| `TrackServerProofs` | theorems about `TrackServer` and `TrackTags` |
| `MCTrack`, `MCTrackServer`, `MCTrackTags` | instances for TLC |

How the state corresponds to the code:

- `users` is `ctx->users` and `chans` is `ctx->chans`; their domains are the
  keys.  The maps compare names through a table that folds case, so two
  spellings are one key: `NickKey` and `ChanKey` send a name to the
  representative of its key.  The instances have a nickname `A` that is
  another spelling of `a`.
- `uobj` is the heap of user objects: its domain is the set of objects that
  are allocated.  A membership object (`memb`) points to a user object, so
  "use after free" is a `memb` whose `u` is not in `DOMAIN uobj`.
- `owned` counts the autofree tags the library has been given and has not
  freed.
- `names` holds what is left of the 353 in progress, and `phase` says whether
  `irc_connect` or `irc_dispose` is tearing the base down.  Those are the two
  loops broken up into steps: the first because an allocation can fail at each
  name, the second because it frees what other channels still point to.
  Nothing else interrupts a handler: the library is single-threaded.
- A handler that reports an allocation failure makes `irc_read` reset the
  connection (`GiveUp`); the rosters stay until the next `irc_connect`, as in
  the code.  Which allocations may fail is the constant `FailSites`.
- `dangling` says that `ctx->chans` points to a map that is gone: when the map
  of users cannot be allocated, `lsi_ucb_init` disposes of the map of channels
  and keeps the pointer (`handle_005_Fails`).  The next `irc_connect` or
  `irc_dispose` walks it.  What happens then, and when `lsi_ucb_clear` comes by a
  user it has freed already (`UseFreed`), is undefined: `phase` is `"broken"`
  and the model ends.

Abstracted here: modes other than prefixes, and topics (module `ChanModes` has
both); hosts and real names; the contents of tags; the characters of names;
hashing (module `SkMap` has it).  A failure to allocate the copies of a nickname
is the failure of the object it belongs to.  The state of the registered
handlers is `tracking`; that registering them can fail inside `irc_connect` is
not modelled.

Four remarks on faithfulness:

- `irc_connect` on a context that is online tears tracking down before
  `lsi_conn_connect` refuses; `Track` does the same (action `irc_connect`), and
  `TrackServer` has an application that connects only when offline.
- `lsi_ucb_clear` returns at once when there are no channels, leaving the
  users; `lsi_trk_deinit` in `Track` does so, and `ObjectsFreed` shows that
  with an honest server there are none.
- `lsi_ucb_drop_user` removes the membership objects found under the user's
  key in every channel, whoever they point to.  That they point to that user is
  not assumed but proved (`RefInv`).
- `h_353` starts a new list at the first 353 after a 366, whatever its channel.
  A server that ends the lists of several channels with a single 366 makes the
  lists of all but the first be added to the old ones, and `NchansExact` fails
  in `MCTrackServer` with `AppNames = {"all"}`; the run has a server that ends
  each list.  The answer to a NAMES also forgets a channel's members before it
  adds them again, and with them the tags of users seen nowhere else:
  `TagPersists` holds in `MCTrackTags` because nobody asks.

### Channel modes and topics

| Module | What it is |
|---|---|
| `ChanModes` | how a MODE is taken apart (`lsi_ut_parse_MODE`), the handlers of MODE, 324, 332, 333 and TOPIC, and the array they keep the modes in; with a server that knows the truth |
| `MCChanModes` | an instance for TLC |
| `ChanModesProofs` | a theorem about `ChanModes` |

`modes` is the array `chan.modes`: a sequence of `modes_sz` slots, each a letter
with its argument or `Null`.  `classes` is `m005chanmodes`, as
`handle_005_CHANMODES` makes it of what the server has announced (`ann`).  A
MODE on its way carries the mode string and the arguments as the wire has them
(`Wire`) next to the changes the server made, so that `ParsedRight` can compare
what `lsi_ut_parse_MODE` finds in the one with the other.  There is one
channel; its members are the business of `Track`, and their prefixes are a set
here.  An allocation that fails ends the connection (`Handled`), like
everywhere in the tracker, but the loop over the changes goes on first.

The history variable `again` has the letters whose value the server has
replaced since the last 324: `+l 20` after `+l 10` leaves both in the array, and
`ModesMatch` speaks of the others.  `Straight` excludes a `CHANMODES` with an
empty list before one that is not, because `strtok` passes over it.

### String maps

| Module | What it is |
|---|---|
| `SkMap` | `skmap.c` and the lists of its buckets, `bucklist.c`, node by node, with the iterators; an allocator that may fail and reuses addresses |
| `Dict` | what they promise: a finite map that can be walked while it changes |
| `SkMapProofs` | theorems about `SkMap` |
| `MCSkMap` | an instance for TLC |

A node is an address with a record; a list is its `head` and the `next` of its
nodes, and `iter` and `prev` are the two iterators each list has.  `dup` is the
set of the copies of keys that are allocated, by the address of the node they
were made with.  `made` are the buckets that have a list.  `Hash` and `KeyRep`
stand for the hash and for the case mapping; `pfxeq`, in spite of its name,
compares folded names to the end of both.

The interface of the maps allows a caller to change a map while it walks it,
which no caller in the repository does.  The iterators then may point to what is
gone: `stale` says which of them must not be used, and the model's caller starts
a new walk instead of using one.  What the code would do otherwise is under
"Where the code and its documentation disagree".

`Dict` has one entry per folded key; `put`, `del` and `clear` change it, and a
walk has a current key and a set of those still to come.  An element put in
during a walk may be visited or not.

### Connecting

| Module | What it is |
|---|---|
| `Connect` | `lsi_conn_connect` and `lsi_conn_reset` (`conn.c`), `lsi_com_consocket` (`common.c`), `px.c`, and the TLS handshake of `base_net.c`, with the process's table of descriptors and a clock |
| `ConnectProofs` | theorems about `Connect` |
| `MCConnect` | instances for TLC |

`pc` is where `lsi_conn_connect` is: in the resolver, at the head of the loop
over the addresses, in `select(2)`, about to talk to the proxy, in one of the
loops that read its answer, or in the TLS handshake.  `sck`, `shnd` and `online`
are the fields of the context; `cur` is the socket of `tryhost`.  `fds` is the
table of the process: which descriptors are open, and whether the library or the
application has opened them.  A new one is the lowest that is free, as in
POSIX, which is what makes a descriptor that is closed twice, or made up,
another one's.

Times are counted down, and time passes only where the code waits.  The two
timeouts are combined as the code does it, in which 0 and "no timeout" are the
same number.  A proxy's answer is a number of bytes that have not been read
(`rem`), of which some have arrived (`rx`); `need` and `c` are the part being
read and how much of it has been.  `grant` is what it says.  Where the code
stores the second piece of an answer behind its buffer (`torn`), it may say
anything.  The address in a SOCKS5 answer has up to 258 bytes, and `resp`, into
which it is read, has 128 (`RespBuf`): a read that goes over its end is undefined
behaviour, and the model ends there (`ProxyOverruns`).

Abstracted: what is in a request, addresses, and the resolver, which finds some
number of them.  Writing a request succeeds or fails.  Lengths of answers are
constants: 8 for SOCKS4, 2, 4 and the length of an address for SOCKS5, and a
buffer of 256 for HTTP.

### Reading lines

| Module | What it is |
|---|---|
| `LineReader` | `lsi_io_read` with its buffer and pointers, the calls of `lsi_conn_read` around it, the plain and the TLS read of the platform layer below it, and a server that sends characters and closes |
| `LineStream` | what reading promises: the lines of a stream, one after the other |
| `LineReaderProofs` | theorems about `LineReader` |
| `MCLineReader` | an instance for TLC |

`workbuf`, `wptr` and `eptr` are `ctx->con->rctx`, the pointers as indices.
`sent` is what the server has sent on this connection and `got` how much of it
has been read from the socket: the rest is in the kernel.  `tls` says whether
this connection is a TLS connection; each may be either.  `pc` is where
`lsi_io_read` is, since characters arrive while it runs: between calls,
looking for a delimiter, about to read, or (TLS only) waiting for the socket.
`to` is the timeout of the call: `"none"` is 0, `"poll"` is 1 (which `irc.h`
says may expire before the socket is looked at), `"some"` is any other.  A read
takes any number of the characters that are there and fit.  `lines` is what has
been returned.  Taking a line apart is reduced to its result, a line or
`"malformed"`.

### Logon

| Module | What it is |
|---|---|
| `Logon` | `irc_connect` and `irc_read` with the handlers of `irc_msghnd.c` and `v3.c`; the settings for SASL, STARTTLS and TLS |
| `LogonServer` | `Logon` composed with a server and an application; `Spec`, `FairSpec`, the properties |
| `LogonProofs` | theorems about `LogonServer` |
| `MCLogon` | instances for TLC |

`caps` is `ctx->v3caps`, from the names of the capabilities wanted to their
flags; `progress` holds the three local variables of `irc_connect`; `pc` says
whether the client is offline, in the loop of `irc_connect` or through with it.
`c2s` and `s2c` are the messages on their way and `tls` is the server's end of
the connection.  A message is its command and, where they matter, a nickname
or a set of capabilities.  The loop of `irc_connect` and `irc_read` handle a
message alike (`Proceed`, `CantProceed`), except that the handlers are told
whether this is logon.  Each handler that writes may find that writing fails
(`Reply`); `Lost` is everything else that ends a connection, the hard timeout
included.

The server is not part of the library.  It answers what it is sent, in order;
it may not know of capabilities, support none, refuse what it offered, split
its `CAP LS`, ask for a PONG, reject us, have our nickname in use, shorten it,
and change it later.  It waits for a TLS handshake after its 670, and plain
text of ours that arrives then spoils it.

Two constants describe the application.  With `Renews` it calls `irc_set_sasl`
and `irc_set_starttls` anew before each `irc_connect`, which is the only way
the flags of the capabilities are cleared.  With `Settled`, once it has asked
for STARTTLS before anything else (mode 2), it asks for nothing else:
`starttls_first` is cleared by nothing, and with mode 1 after mode 2 the answer
to the STARTTLS of the negotiation is taken for the early one, no CAP END is
sent and logon waits for its timeout.

Not in these modules: dumb mode; service logon (`send_logon` looks at
`ctx->service`, which `irc_connect` has just reset, so SERVICE is never sent);
`irc_connect` on a connected context; 002, 003, 005, 383, 465, 466, 484, ERROR
and MODE, which store what they say or end the connection as 464 does; the
server that does not know STARTTLS (421), after which mode 2 waits for its
timeout.

### icat

| Module | What it is |
|---|---|
| `Icat` | the main loop of `icat_core.c` with the queue, flood protection, heartbeat and reconnection of `icat_serv.c`, and the end of the user's input |
| `IcatProofs` | theorems about `Icat` |
| `MCIcat` | an instance for TLC |

`pc` is where the loop is: reading from the server, from the user, deciding
whether to end, the two halves of `icat_serv_operate`, or sleeping.  The
variables `s_...` are those of `icat_serv.c`, and those of `icat_core_run` have
its names; an absolute time is the time left until it, and -1 the initial 0,
which is long past.  `s_outQ` is the queue; an entry is the number it got when
it was queued and whether it is a QUIT.  The server, the user and the clock take
steps between any two of the loop.  A write that fails takes the connection with
it, as in `irc_write`.

A line of the user is text, blank (which queues nothing) or a QUIT.  `stdin` are
the lines, each with its newline, that wait to be read, and `rest` is what the
user has written after the last newline: icat reads it, keeps it in `s_inbuf`
until a newline comes, and drops it if the input ends first
(`icat_user_canread` says no at end of file, whatever is in the buffer).

`full` says that the server has not read what we wrote and that there is no room
for more.  A write then does not return: `lsi_b_write` tries again without end,
and `lsi_b_write_ssl` calls `select` without a timeout (`Blocked`).  Only the
server can change that, by reading or by a failing connection.  A message of
nothing but line delimiters (`"empty"`) is taken by `lsi_io_read`, which then
goes on reading (`ReadDelims`).

Abstracted: what lines and messages say, the options, the destination in
`trgmode`, the pieces in which lines are read, and lines longer than icat's
buffers.

## Runs

| Run | Shows | Bounds |
|---|---|---|
| `MCTrack` | type correctness; no dangling reference, no count too low; any server, any allocation failing, those of a rename included | 3 nicknames (2 keys), 2 channels, 3 objects, lists of up to 2 names |
| `MCTrackServer` | rosters and nicknames agree with the server whenever everything has been read, allocation failures and the reconnections that follow included; counts exact; nobody dangles; teardown leaves no user and frees none twice, in sessions whose renames do not run out of memory; implements `Roster` | 3 nicknames, 2 channels, 3 messages on their way, lines of 2 names |
| `MCTrackServerLive` | convergence; member prefixes stay sorted and true | 2 nicknames, 1 channel, symbols `op` and `voice`, both kinds of NAMES, lines of 1 name |
| `MCTrackTags` | tags stay and are not freed early | 2 nicknames, 2 channels, no NAMES |
| `MCChanModes` | a mode string is taken apart as it was put together; when everything has been read, the modes and the topic are the server's | 5 letters and one unknown, 2 announcements, 5 bursts of up to 3 changes, 2 slots at first, 2 messages on their way |
| `MCSkMap` | implements `Dict`; each node and key copy has one owner; the count | 5 keys (4 folded), 3 of them in one of 2 buckets, 3 nodes, 2 values |
| `MCConnect` | no descriptor is lost or closed that is the application's; TLS is kept; the hard timeout is; all addresses are tried; IRC starts where the proxy's answer ends | descriptors 0 to 2, up to 3 addresses, 10 settings, timeouts up to 4, answers of 2 to 5 bytes, 3 of which fit into `resp` |
| `MCLineReader` | implements `LineStream`; only a line that does not fit is too long; every line arrives | plain and TLS; a letter and a delimiter, a buffer of 3, 5 characters sent, calls with and without a timeout |
| `MCLogon` | a logon that succeeds has what it must have, SASL through, TLS agreed and the right nickname; nothing is asked for that is not offered; logon ends | 2 nicknames, any settings, any server, reconnections |
| `MCIcat` | each line is written once, in order, across reconnections; no line is cut off by the QUIT; a heartbeat is waited for only where it was sent; with a server that reads, the queue is worked off and icat ends | 2 lines and the QUIT, 1 message unread, all delays 1; heartbeats and reconnections, or neither |
| `MCLogonStale` | a place where the code does not do what its documentation says | as `MCLogon` |
| `MCConnectGivesUp` | another | as `MCConnect` |

Two channels are needed for an object to be shared and for one reference to go
while another stays; two keys for one user to take the place of another; a
third spelling for a rename that changes only case; three objects so that the
heap is never the limit, except where a run lets it be.  A `353` of one name
per line makes a list span several messages.  Three messages on their way let a
change overtake a list: a JOIN of ours, the lines and the 366 are one burst.
`MaxRefs` and `MaxTags` bound counts that a server that repeats itself, or an
application that keeps tagging, would let grow without end.

Two slots let the array of modes grow twice under the bursts; a burst has a mode
of each class that is set and one that is unset, among them the middle one of
three.  The bound on replaced values (`Effective`) keeps the array finite.
Three nodes in one bucket have a first, a middle and a last to be deleted under
an iterator, and a fourth insertion finds no memory; the second bucket is there
for a walk to go on to.  Three descriptors are one for the application and one
more than the library needs, so that what it closes is handed out again; an
application keeps one free for the library.  Three addresses do not divide a
hard timeout of 4 evenly; the settings include a soft timeout above the hard
one, each without the other, and each kind of proxy with and without TLS where
that makes a difference.  The lengths of a proxy's answers are scaled: what
counts is that each can come in two pieces, that an HTTP answer is shorter
than the buffer, fills it or exceeds it, and that the address of a SOCKS5 answer
(2, 3 or 5) fits into `RespBuf` or does not.

A buffer of three characters holds a line and part of the next, or a line that
does not fit; five characters are enough to fill it, take a line from its
front, move what is left and fill it again.  Two nicknames let the first be in
use and the second too, which is when the callback gives up.  In `LogonServer`
the conversation of logon is bounded by itself; `MaxQ` bounds the nickname
changes on their way after it, and two let one of the server's cross one of
ours.  Two lines are one past flood protection's free one,
and the QUIT waits behind them.  Delays of 1 make every order of the timers'
ends possible; what they leave out is the shortened sleep on a TLS connection,
which only wakes the loop sooner.

The runs of `Track`, `TrackServer`, `ChanModes`, `SkMap`, `Connect`,
`LineReader` and `Icat` say `CHECK_DEADLOCK FALSE`: after `irc_dispose` there is
no context to call anything on, a full message queue stops the server, and so
does the bound on the characters sent; a map's walk ends; icat ends, and
`BindFails` ends the process.  `MCLogon` and `MCLogonStale` check for deadlock.

Fairness is stated in four places, each the specification of a run.
`ServerSpec` (tracking): the application keeps calling `irc_read` while there
is something to read, and the loop over a list of names goes on.  Both are what
a program that uses the library must do.  Nothing is assumed of the server but
that it sends messages, and not delimiters without end: `Converges` speaks of the behaviours in which it falls silent.  `FairSpec` of
`LineReader`: a call that has been made goes on, and the application calls
again.  A read with a timeout may expire each time before it looks at the
socket, and then nothing need ever arrive; strong fairness of reading some
characters says that this does not go on for ever.  `FairSpec` of
`LogonServer`: `irc_connect` goes on reading, which its loop does, and the
server answers what it is sent and welcomes us when it can.  There, in contrast,
the server is needed: no client logs on alone.  The hard timeout is part of
`Lost` and has no fairness, so that `Returns` says logon ends without it.
`Spec` of `Icat`: time passes, and the loop goes on wherever its calls return.
They do not always: a write that finds no room waits for the server
(`base_net.c:442`, `470-473`, `578`), and the fairness is that of
`Loop /\ ~Blocked`; `irc_connect` is outside of `Loop` altogether, so that
nothing makes it return, let alone succeed (both properties are about a
connection that is there); and reading can go on for ever while
only delimiters arrive (`io.c:64-81`), which is a loop of steps here.  So
`QueueMoves` and `QuitEnds` have a hypothesis about the server, `ServerServes`:
there is room for a write again and again, and it does not send delimiters for
ever.  Whether it answers, and whether it closes the connection, is left open.
That what reads icat's standard output does read is assumed too.

## Proofs

`TrackProofs` proves about `Track!Spec`, for any sets of names, any
identification of names by the maps, any finite heap, any server and any
allocation failures:

| Theorem | Statement |
|---|---|
| `TypeCorrect` | `Spec => []TypeOK` |
| `RefCorrect` | `Spec => []RefInv` |
| `MembersCorrect` | `Spec => []MembInv` |
| `FreeCorrect` | if renames do not run out of memory, `Spec => []FreedOnce` |
| `TagsCorrect` | if renames do not run out of memory, `Spec => []TagsAlive` |

Assumed of the constants: the named assumptions of `UcBase` and `Track` (keys
are idempotent, no prefix symbol stands both before and after another one in the
list of a 005, the failure sites are known ones, channels and objects are finite
sets).

That no membership object dangles (`MembLive`) is not inductive: an object is
freed when its count drops from one, so one has to know that the count is at
least the number of channels that point to the object (`NchansEnough`). For that
to survive a channel being cleared, which releases each object once, no channel
may point to an object twice (`OncePerChan`). For that to survive a JOIN or a
list, which find the object by its key in the user map, a user in the map must
be a member only under that key (`KeysAgree`), and for that to survive a NICK
the user map must find each object under the key of its own nickname
(`UsersLive`). The conjunction is `RefInv`. The last two fail after a rename
that runs out of memory, but then the connection has been reset, and the
handlers that need them do not run before `irc_connect` has torn the maps down,
which is why `RefInv` asks for them only while we are online or such a failure
is excluded. That teardown meets nothing freed but a channel map that
`lsi_ucb_init` has left dangling (`FreedOnce`) needs what is left in the user map
to be live, for which renames must not fail. The proof adds two facts about control: names are left over only while we are online
(`NamesOnline`), and the types of the variables. There is one lemma per
operation of `ucbase.c` and one per action.

An autofree tag belongs to one owner at a time.  `TagsAlive` counts them: with
what `RefInv` says each step that frees owners subtracts no more than their own
tags (`FewerTags`), since an object is freed only when it is there and by the
last channel that points to it.

`TrackServerProofs` proves about `TrackServer!SafeSpec`, for any nicknames and
channels and any identification of nicknames by the maps, any number of names in
a 353 and of messages on their way, and any allocation failures but those of a
rename:

| Theorem | Statement |
|---|---|
| `ViewCorrect` | `SafeSpec => []ViewMatches` |
| `RosterCorrect` | `SafeSpec => ImplementsRoster`, the refinement |
| `NchansCorrect` | `SafeSpec => []NchansExact` |
| `DanglesCorrect` | `SafeSpec => []NobodyDangles` |
| `DisposeCorrect` | `SafeSpec => []ObjectsFreed` |
| `AutofreeCorrect` | `SafeSpec => []TagsAlive` |
| `TagsPersist` | `TagsSpec => []TagPersists`, of `TrackTags` |
| `PrefixesCorrect` | `SafeSpec => []PrefixesTrue` |

Each has the hypothesis `Assumed`, which is what `MCTrackServer` has too: renames
do not run out of memory, and no NAMES is sent for all channels at once.  What
goes wrong otherwise is said under "Tracking" and under "Where the code and its
documentation disagree".  Assumed of the server, beside what its actions say, is
that it writes the name of a channel in one way only and that it orders the
prefix symbols (`ServerAssumption`).

The proof has two halves.  The last part of `TrackProofs` is about the tracker
alone.  It strengthens `RefInv` to `Tidy`, in which nothing is superfluous: every object is
in the user map, every member is, and counts are exact.  Under `Tidy` the three
structures say no more than sets do, and there is a lemma for each operation and
handler that says what it does to those sets: a member more, a member less,
another name.  Each handler is shown to be a step of `Roster` (or none) and to
preserve `Tidy` if its message makes sense: a rename to a nickname that somebody
else has, for instance, would not.  So the second half is about the messages.

What tracker and server know is a view: our nickname, the members of each of our
channels, and whether the next 353 starts a new list.  Each kind of message has
a relation between the view it is sent in and the view after it (`Joins`,
`Lists`, `Parts`, `Renames`, ...), which says also when it makes sense.  A
sequence of messages leads from one view to another (`Leads`) if there are views
between them, one for each place, and no two nicknames of a view are the same to
the maps.  The invariant is that the messages on their way lead from what the
tracker knows to what is the case (`Synced`).  A step of the server appends
messages that lead on from its old view to its new one (`Informs`); a step of the
tracker removes the first message and makes the change it stands for.  When none
is left the two views are equal, and that is `ViewMatches`.

Two things complicate it.  A 353 is worked off name by name, and each may fail:
the names still to be added count as known (`Pending`, `PendOk`).  And messages
may come to a context that does not track: the 005 that switches tracking on is
the first of a connection, and if memory runs out in it nothing is tracked until
the connection ends (`Session`, `Told`).

`TagsPersist` needs to know more of the views on the way.  A tag is kept in the
user object, which is freed as soon as no channel has the user, so it is not
enough that the user is there in the end: none of the views that lead there may
lack the user.  `Leads` therefore has a set of keys `T` that every view between
must share a channel with (`Spares`; the other theorems take the empty set), and
the invariant is that it does for the users on record, who are known and tagged
(`Held`).  A step of the server appends messages that spare those who share a
channel with us before and after it (`Leading`): for the answer to a JOIN that is
because they are in another channel, and the channel joined is empty when its
list begins (`Elsewhere`).  The answer to a NAMES does not: the first 353
forgets the members.  So the theorem assumes that none is sent, and that the
application does not take tags away (`TagsAssumed`).

`PrefixesCorrect` has two parts. That the symbols of a member are sorted is
inductive by itself, whatever the server says (`AllSorted`): a symbol goes in
where the stronger ones end, and taking one out leaves the rest in order
(`InsertSorted`, `RemoveSorted`, `SortedStep`). That the server has given them
all is a matter of the messages. A 353 shows only the strongest symbol of a
member, so the tracker need not have all that the server gave, and here what the
two know cannot be the same view. It is a bound instead: for each channel and
nickname a set of symbols that the member, or the name of a 353 still to be
worked off, may have (`Bounded`). Each kind of message says how the bound may
change (`Allows`): a MODE adds a symbol to it or takes one out, a rename moves a
set to another nickname, for those whom a JOIN, PART, KICK or QUIT is about it
starts anew, and everywhere else it may only grow (`More`). The invariant
`Promised` is that there is a bound for what the tracker has which the messages
on their way turn into what the server has given (`Grants`); a step of the
server appends messages that cover what it does (`Covers`). In a channel we are
not in nothing is kept and anything is expected (`Syms`). When everything has
been read, the bound is the server's, and that both speak of the same members is
`ViewCorrect` (lemma `ViewNowMatches`).

`LineReaderProofs` proves about `LineReader!Spec`, for a buffer of any size, any
alphabet, connections plain or TLS, and any timeouts:

| Theorem | Statement |
|---|---|
| `TypeCorrect` | `Spec => []TypeOK` |
| `LinesCorrect` | `Spec => ImplementsLineStream`, the refinement |
| `TooLongCorrect` | `Spec => TooLongIsTooLong` |

The invariant is that the unread part of the buffer is what was last read from
the socket (`BufMatches`).  A line found between two delimiters in the buffer
is then a line of the stream; the places where it could go wrong are the move
of the data to the front of the buffer (`Shift`) and the end of a connection
(`Reset`).

`IcatProofs` proves about `Icat!Spec`, for any settings and delays:

| Theorem | Statement |
|---|---|
| `TypeCorrect` | `Spec => []IcatTypeOK` |
| `OnceCorrect` | `Spec => []EachLineOnce` |
| `SaidCorrect` | `Spec => []AllSaid` |
| `BeatCorrect` | `Spec => HeartbeatJust` |

Lines are numbered as they are queued, so that "once and in order" is that what
has been written and what waits are the numbers from one on (`Numbered`).  A
heartbeat without an answer is one of this connection (`Beating`): that holds
because `icat_serv.c` sets `s_gotpong` when it connects, not when it is
disconnected, which is why it is said only while `s_on`.  For `AllSaid` one has
to know where a QUIT can be in the queue: one that icat has put there is the
last entry, and every line has been read by then (`QuitLast`).  What follows the
last newline is no line, and is lost.

`ConnectProofs` proves about `Connect!Spec`, for any settings and timeouts, any
number of descriptors and addresses, and answers of any lengths (an address that
goes over the end of `resp` ends the model, so that `StreamCorrect` speaks of
those that fit, and of SOCKS4 answers and greetings that come in one piece):

| Theorem | Statement |
|---|---|
| `TypeCorrect` | `Spec => []ConnectTypeOK` |
| `OwnCorrect` | `Spec => []OwnDescriptors` |
| `TlsCorrect` | `Spec => []TlsKept` |
| `HardCorrect` | `Spec => []HardKept` |
| `StreamCorrect` | `Spec => []StreamStarts` |
| `AllTriedCorrect` | `Spec => AllTried` |

The invariant says, for each place of `lsi_conn_connect`, which descriptors are
the library's and where it keeps them (`Own`); that there is no handle before
the handshake (`Tls`), which is due to one assignment, since a failed attempt
leaves the old handle where it was; that `select(2)` does not wait longer than
until the hard timeout, for which the stretched soft timeout must not become 0
by rounding (`Timed`, lemma `StretchedIs`); and what is left of the proxy's
answer in each of the loops that read it (`Stream`).  For `AllTried` the
addresses tried must have had no more than the stretched soft timeout each
(`Pace`), and the stretched timeouts of all of them, rounded down, must fit into
the hard one (`StretchedFits`).  That there is a lowest
free descriptor is an instance of the well-foundedness of the natural numbers
(lemma `LowestFree`).

`LogonProofs` proves about `LogonServer!Spec`, for any nicknames, any callback,
and with no bound on the messages on their way but `MaxQ`, which is any number:

| Theorem | Statement |
|---|---|
| `TypeCorrect` | `Spec => []LogonTypeOK` |
| `MustHaveCorrect` | if `Renews`, `Spec => []MustHave` |
| `SaslCorrect` | `Spec => []SaslDone` |
| `AskCorrect` | if `Renews`, `Spec => []AskOffered` |
| `TlsCorrect` | `Spec => []TlsAgrees` |
| `NickCorrect` | `Spec => []NickAgrees` |

What the client knows, it knows from messages, so the invariant speaks of those
on their way: a `CAP LS` names only what the server supports, a `CAP ACK` what
it has enabled, and a 903 means SASL is through (`TrueMsg`).  The flags of the
capabilities then say no more than the server has done on this connection
(`FlagsTrue`), which is where `Renews` is needed.  The check for must-have
capabilities is made at 001, but logon is complete at 004: so a 004 on its way
must have a 001 before it, or the check has been passed (`Ordered`, `Passed`).
Lemma `ProceedInv` says once what handling a message does to all of this, and
each handler only has to meet its conditions.  For `NickAgrees` the messages on
their way must lead from the nickname the client knows to the one the server has
(`Leads`: there is a nickname for each place in the queue, and each 001, NICK or
004 takes one to the next), and while we register, where a nickname refused is
followed by another, only a single one is under way (`NickInv`).

`ChanModesProofs` proves about `ChanModes!Spec`, for any modes, topics and setters
and any number of messages on their way:

| Theorem | Statement |
|---|---|
| `TopicIsTrue` | `Spec => []TopicMatches` |

A topic comes in two pieces, the text and who has set it, by three kinds of
message.  What matters of a message is what it makes of the view of these
(`After`).  The invariant is that the messages on their way, one after the
other, lead from the tracker's view to one that is true (`Leads`, `IsTrue`).

`SkMapProofs` proves about `SkMap!Spec`, for any keys and any identification of
them, any hash and number of buckets, any finite set of addresses, and failing
allocations:

| Theorem | Statement |
|---|---|
| `CountCorrect` | `Spec => []CountExact` |
| `MemoryCorrect` | `Spec => []MemoryOwned` |
| `DictCorrect` | `Spec => ImplementsDict`, the refinement |

What is in a map is what one finds by following `next` from the heads of the
lists, which is a recursive function.  The invariant makes induction over it
unnecessary: there is a ranking of the nodes, each node having one more than its
successor (`Ranked`), so that lists end and two of them do not run into each
other.  From the ranking alone it follows that a list is its head together with
the nodes of the same bucket of lower rank (lemma `FromTails`), which is a
set, not a recursion.  To that are added: each bucket has a list of its own
(`HeadsOk`), the iterators point into the list they belong to unless they are
stale (`WalkOk`), no two nodes of a bucket have the same folded key
(`KeysDiffer`), each node has the copy of its key (`Owned`), and the count
(`Counted`).  Each operation comes with a lemma that gives the ranking after it.

Assumed of the constants, here and there: the named assumptions of the modules.

Left to TLC, because it is out of the prover's reach: liveness under fairness
(`Converges`, `LinesArrive`, `Returns`, `QueueMoves`, `QuitEnds`).  Of
`ChanModes`, `ModesTypeOK`, `ParsedRight` and `ModesMatch` are only
model-checked: they speak of what recursive functions compute (the changes of a
MODE applied one after the other), which takes induction over data.

## Where the code and its documentation disagree

Two disagreements are runs:

- `MCLogonStale`: a capability of the connection before counts for this one.
- `MCConnectGivesUp`: a hard timeout between two addresses makes up descriptor
  0.  `irc_connect` looks at the same timeout when it begins to wait for the 004
  (`irc.c:297`), so that the call mostly fails still; but it has written its logon
  to a descriptor that is not its own by then, and closes it.

Modelling came across others, which the modules have as the code does them; the
properties exclude them where they say so.  Paths are under `src/`.

In the library:

- `libsrsirc/common.c:69`: the time to wait for an address is the lesser of the
  soft timeout and what is left of the hard one, and each is 0 if there is none.
  With only one of them set, `select` waits without end.  `irc_ext.h:395-396`
  says that a hard timeout overrules a soft timeout of 0.
- `libsrsirc/common.c:94`: a local address that cannot be bound ends the process.
- `libsrsirc/conn.c:227`: if what follows a TLS handshake fails, the handle
  stays, and is lost at the next connection; so is one made before
  `irc_set_ssl(false)` (line 91).
- `libsrsirc/px.c:143`, `201`: the second piece of an answer is stored behind
  the buffer.  `px.c:65`: an HTTP answer that exceeds the buffer is taken for
  complete.  `px.c:237`: the address of an IPv4 host takes 16 bytes of a SOCKS5
  request.  `px.c:313`: the address of a SOCKS5 answer may have twice the length
  of the buffer it is read into.
- `platform/base_net.c:549`: a TLS read without a timeout returns 0 as if one had
  expired, when the first look finds no data (`irc.h:243`).  `base_net.c:431`: a
  write to a full socket is tried again without a pause or a limit.
- `libsrsirc/io.c:81`: a call does not return while only delimiters arrive.
- The end-of-file flag is cleared by nothing but `lsi_conn_init` and by failures
  of other kinds; it outlives a new connection (`irc_ext.h:619`).
- `libsrsirc/irc.c:339`: SASL that need not succeed, on a server that does not
  offer it, leaves `irc_connect` waiting after the 004 (`irc.h:167`).
  `irc.c:246`: `irc_connect` on a context that is online destroys the rosters
  before it refuses.  `irc.c:441`: SERVICE is never sent.  `irc_getset.c:286`:
  `starttls_first` is never cleared.
- `libsrsirc/ucbase.c:40`: when the map of users cannot be allocated,
  `lsi_ucb_init` leaves a pointer to the map of channels it has freed, and the
  next `irc_connect` or `irc_dispose` walks that map and frees it again
  (`irc.h:139-141`).  In `Track` that is `dangling`; its teardown is `UseFreed`,
  after which nothing is said.
- `libsrsirc/ucbase.c:629`: when a rename cannot put the user under the new
  nickname, the object has the new nickname and the user map has it under the old
  one; teardown frees it with its last membership, does not find it in the map,
  and frees it again when it comes to the users.  `MCTrack` has such renames,
  `FreedOnce` excludes them.  Line 623: a rename that runs out of memory for the
  new nickname is not reported at all.
- `libsrsirc/ucbase.c:497`: the autofree tag of a channel we are on is not freed
  by `irc_dispose` (`irc_track.h:98-99`).
- `libsrsirc/irc_track.c:397`: a TOPIC leaves the time of the one before
  (`irc_track.h:24-26`).  A 324 forgets the bans, since it lists none; a NAMES
  forgets tags.  `irc_track.c:241`: `strchr` finds the terminating NUL among the
  prefix symbols.
- `libsrsirc/ucbase.c:337`: `+l 20` over `+l 10` keeps both, and `-l` drops one.
- `libsrsirc/irc_msghnd.c:335`: `strtok` passes over an empty list of CHANMODES.
  `irc_msghnd.c:286`: the case mapping may change under maps that have been
  filled.  `cmap.c:15`: keys end at `!` and `@`.
- `libsrsirc/msg.c:117`: a handler that registers handlers may have the array
  replaced that is being walked.
- `libsrsirc/bucklist.c:264`: after a deletion through the iterator a second one
  uses a node that is gone.  `skmap.c:100`: clearing a map does not end a walk.
  `skmap.c:256`: such a deletion does not change the count, nor free the copy of
  the key.  No caller in the library meets any of these.

In icat:

- `src/icat_serv.c:251`: the time of the next line is 0 before the first, which
  the caller takes for "none", and which is less than the time of the next
  heartbeat if there is one; `select` then waits without end for something else,
  with or without heartbeats.  `src/icat_core.c:175`: whether a QUIT has been sent is
  looked at before it is, so that `-w` is not honoured without heartbeats unless
  something else happens.  (`QueueMoves` and `QuitEnds` say so.)
- `src/icat_core.c:253`: a line of blanks makes `strtok` return NULL in
  `trgmode`.  `src/icat_user.c:55`: an overlong line fills the buffer to its end.
- `src/icat_user.c:74-90`: a last line without a newline is dropped at the end of
  the input.  `AllSaid` speaks of lines that end with one.

## Not modelled

See "components" in `PROJECT.json`; each part that is left out is there with
its reason.  In the tracker: the user details of 352 and 311, the time of 329,
and the getters, which only read.  In icat: options and the buffer of
`icat_user.c`.  `util.c` but for modes, `cmap.c` and most of the platform layer
are pure functions on strings or wrappers of single calls; the logger prints.

## Plan

Done of the plan so far: tracking, reading lines, logon, connecting with
proxies, string maps, modes and topics, icat.  What is left, in this order:

1. `Dispatch` (`msg.c`): handlers that register handlers while an array of them
   is walked, core handlers before the tracker's and the user's, and a failure
   in the middle.
2. Parsing (`util.c`, `irc_msghnd.c` for the rest of 005) as operators, against
   reference definitions; the requests of `px.c`; and a tracker whose case
   mapping changes with a 005.
3. The composition of `Connect` with `Logon`, for a hard timeout that covers
   both.
