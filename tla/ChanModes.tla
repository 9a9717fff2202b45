----------------------------- MODULE ChanModes -----------------------------
(***************************************************************************)
(* The modes and the topic of a channel as the tracker keeps them:          *)
(* lsi_ut_parse_MODE takes a mode string apart (util.c), the h_ handlers of *)
(* irc_track.c apply it to the array chan.modes (ucbase.c), whose entries   *)
(* are packed and which doubles when it is full, and the classes of modes   *)
(* come from the CHANMODES of a 005 (irc_msghnd.c).  They are composed with *)
(* a server that knows the truth and with the messages on their way.        *)
(*                                                                          *)
(* There is one channel.  Who is on it is the business of module Track, and *)
(* the order of a member's prefix symbols of module UcBase: here a member   *)
(* has a set of prefix modes.                                               *)
(***************************************************************************)
EXTENDS SequencesExt

CONSTANTS
  Announced,  \* what CHANMODES may say: sequences of four sets of letters
  PfxLetter,  \* the letters of the PREFIX of the 005
  Bursts,     \* bound: the changes a MODE may carry, sequences of Change
  Change,     \* those: records of on, l and arg, NoArg without an argument
  NoArg,
  Star,       \* "*", for an argument that is not there
  Topics,     \* the texts of topics
  Members,    \* the members that set them
  FirstSlots, \* what modes_sz is for a new channel: 16
  MayFail,    \* memory may run out
  MaxNet      \* bound: messages on their way

ASSUME ChanModesAssumption ==
  /\ \A s \in Announced : Len(s) = 4
  /\ \A x \in Change : x.on \in BOOLEAN
  /\ Bursts \subseteq Seq(Change) \ {<<>>}
  /\ FirstSlots \in Nat \ {0} /\ MayFail \in BOOLEAN /\ MaxNet \in Nat

(* NULL, in an array of modes and for a text.                               *)
Null   == [l |-> "NULL", arg |-> "NULL"]
NoText == "NULL"

VARIABLES
  ann,      \* the classes of the modes, as the server announced them
  classes,  \* ctx->m005chanmodes
  net,      \* the messages on their way to us
  online,   \* we are connected
  known,    \* the channel is in ctx->chans
  modes,    \* its modes, of length modes_sz
  pfx,      \* the prefix modes of its members: pairs of nickname and letter
  topic, topicnick, tstopic,
  (* the server *)
  joined,   \* we are on the channel
  srvmodes, \* the modes of the channel
  srvpfx,
  srvtopic, \* text, by, at
  said,     \* the modes it has told us of
  again     \* history: the letters it has set to another value since

cview == <<known, modes, pfx, topic, topicnick, tstopic>>
srv   == <<joined, srvmodes, srvpfx, srvtopic, said, again>>
vars  == <<ann, classes, net, online, cview, srv>>

Letters == {x.l : x \in Change}
Mode    == {[l |-> x.l, arg |-> x.arg] : x \in Change}
           \cup {[l |-> k, arg |-> a] : k \in Letters, a \in {NoArg, Star}}
           \cup {[l |-> x.l, arg |-> y.arg] : x, y \in Change}
NoTopic == [text |-> "", by |-> NoText, at |-> 0]

(* Each variable has its type; the array has grown by doublings, and has no *)
(* gap between its entries: the first free slot is behind the last mode,    *)
(* which is the one a dropped one is replaced by.                           *)
ModesTypeOK ==
  /\ ann \in Announced
  /\ classes \in [1..4 -> SUBSET UNION {UNION Range(s) : s \in Announced}]
  /\ Len(net) <= MaxNet + 2
  /\ online \in BOOLEAN /\ known \in BOOLEAN
  /\ modes \in Seq(Mode \cup {Null})
  /\ known => \E k \in 0..Len(modes) : Len(modes) = FirstSlots * 2^k
  /\ \A i, j \in 1..Len(modes) : i < j /\ modes[j] # Null => modes[i] # Null
  /\ topic \in Topics \cup {NoText} /\ topicnick \in Members \cup {NoText}
  /\ srvmodes \subseteq Mode /\ said \subseteq Mode /\ again \subseteq Letters
  /\ tstopic \in 0..1 /\ joined \in BOOLEAN

-----------------------------------------------------------------------------
(* The 005 *)

(* handle_005_CHANMODES: strtok(3) passes over an empty list, so that those *)
(* behind it move up a class.                                               *)
Learn_Backwards(s) ==   \* faulty: the classes from the end
  [z \in 1..4 |-> s[5 - z]]

Learn(s) ==
  LET lists == SelectSeq(s, LAMBDA x : x # {})
  IN [z \in 1..4 |-> IF z <= Len(lists) THEN lists[z] ELSE {}]

(* lsi_ut_classify_chanmode: the first class that has the letter, or 0.     *)
Class(k) ==
  IF \E z \in 1..4 : k \in classes[z]
  THEN CHOOSE z \in 1..4 : k \in classes[z] /\ \A y \in 1..(z - 1) : k \notin classes[y]
  ELSE 0

Init ==
  /\ ann \in Announced /\ classes = Learn(ann)
  /\ net = <<>> /\ online = TRUE
  /\ known = FALSE /\ modes = <<>> /\ pfx = {}
  /\ topic = NoText /\ topicnick = NoText /\ tstopic = 0
  /\ joined = FALSE /\ srvmodes = {} /\ srvpfx = {} /\ srvtopic = NoTopic
  /\ said = {} /\ again = {}

-----------------------------------------------------------------------------
(* lsi_ut_parse_MODE *)

TakesArg_Unset(k, on) ==   \* faulty: class C has an argument when unset, too
  Class(k) \in 1..3 \/ k \in PfxLetter

TakesArg(k, on) ==
  \/ Class(k) \in {1, 2}
  \/ Class(k) = 3 /\ on
  \/ Class(k) = 0 /\ k \in PfxLetter

(* A letter that is neither a mode nor a prefix is passed over; it is taken *)
(* to have no argument.                                                     *)
ParseMODE(str, args) ==
  LET read[i \in 0..Len(str)] ==
        IF i = 0 THEN [on |-> TRUE, used |-> 0, out |-> <<>>]
        ELSE LET p == read[i - 1]
                 k == str[i]
                 u == IF TakesArg(k, p.on) THEN p.used + 1 ELSE p.used
                 a == IF u = p.used THEN NoArg
                      ELSE IF u > Len(args) THEN Star ELSE args[u]
             IN IF k \in {"+", "-"} THEN [p EXCEPT !.on = (k = "+")]
                ELSE IF Class(k) = 0 /\ k \notin PfxLetter THEN p
                ELSE [on |-> p.on, used |-> u,
                      out |-> Append(p.out, [on |-> p.on, l |-> k, arg |-> a])]
  IN read[Len(str)].out

-----------------------------------------------------------------------------
(* The array of modes *)

Nulls(n) == [i \in 1..n |-> Null]
Taken(a) == {i \in DOMAIN a : a[i] # Null}
Entries(a) == {a[i] : i \in Taken(a)}

(* lsi_ucb_add_chanmode: the first free slot, or that behind the old ones.  *)
(* `how` tells what runs out of memory: "grow" the bigger array, "copy" the *)
(* copy of the string.                                                      *)
Grown(a) == a \o Nulls(Len(a))

AddFails(a, how) == how = "copy" \/ (how = "grow" /\ Taken(a) = DOMAIN a)

AddChanmode(a, e, how) ==
  IF how = "grow" /\ Taken(a) = DOMAIN a THEN a
  ELSE LET b == IF Taken(a) = DOMAIN a THEN Grown(a) ELSE a
           i == CHOOSE i \in DOMAIN b : b[i] = Null /\ \A j \in 1..(i - 1) : b[j] # Null
       IN IF how = "copy" THEN b ELSE [b EXCEPT ![i] = e]

(* lsi_ucb_drop_chanmode: a mode of a list must match in full, another in   *)
(* its letter.  The last entry moves into the gap.                          *)
DropChanmode_Letter(a, e) ==   \* faulty: the first ban goes, whichever it is
  LET hits == {i \in Taken(a) : a[i].l = e.l}
      at   == CHOOSE i \in hits : \A j \in hits : i <= j
      last == CHOOSE i \in Taken(a) : \A j \in Taken(a) : j <= i
  IN IF hits = {} THEN a ELSE [a EXCEPT ![at] = a[last], ![last] = Null]

DropChanmode(a, e) ==
  LET hits == {i \in Taken(a) : a[i].l = e.l /\ (Class(e.l) = 1 => a[i] = e)}
      at   == CHOOSE i \in hits : \A j \in hits : i <= j
      last == CHOOSE i \in Taken(a) : \A j \in Taken(a) : j <= i
  IN IF Class(e.l) = 0 \/ hits = {} THEN a
     ELSE [a EXCEPT ![at] = a[last], ![last] = Null]

-----------------------------------------------------------------------------
(* The handlers *)

(* irc_read: when a handler has run out of memory the connection is reset.  *)
Handled(err) ==
  /\ net' = IF err THEN <<>> ELSE Tail(net)
  /\ online' = (online /\ ~err)
  /\ joined' = (joined /\ ~err)
  /\ UNCHANGED <<ann, classes, srvmodes, srvpfx, srvtopic, said, again>>

Next_(cmd) == online /\ net # <<>> /\ Head(net).cmd = cmd

Outcome == IF MayFail THEN {"ok", "grow", "copy"} ELSE {"ok"}

(* The parsed changes applied one after the other, up to each of them: the  *)
(* array, the members' prefixes and whether memory ran out.  A failure does *)
(* not end the loop.                                                        *)
Applied(chs, a, p, how) ==
  LET upto[i \in 0..Len(chs)] ==
        IF i = 0 THEN [modes |-> a, pfx |-> p, err |-> FALSE]
        ELSE LET r == upto[i - 1]
                 x == chs[i]
                 e == [l |-> x.l, arg |-> x.arg]
             IN IF x.l \in PfxLetter
                THEN [r EXCEPT !.pfx = IF x.on THEN @ \cup {<<x.arg, x.l>>}
                                       ELSE @ \ {<<x.arg, x.l>>}]
                ELSE IF x.on
                THEN [r EXCEPT !.modes = AddChanmode(@, e, how[i]),
                               !.err = @ \/ AddFails(r.modes, how[i])]
                ELSE [r EXCEPT !.modes = DropChanmode(@, e)]
  IN upto[Len(chs)]

(* An unknown channel, or no memory to parse the modes.                     *)
IgnoredMode ==
  /\ UNCHANGED cview
  /\ \/ ~known /\ Handled(FALSE)
     \/ known /\ MayFail /\ Handled(TRUE)

h_MODE_chanmode ==
  /\ Next_("MODE")
  /\ LET chs == ParseMODE(Head(net).str, Head(net).args) IN
     \/ IgnoredMode
     \/ /\ known
        /\ \E how \in [DOMAIN chs -> Outcome] :
             LET r == Applied(chs, modes, pfx, how) IN
             /\ modes' = r.modes /\ pfx' = r.pfx
             /\ Handled(r.err)
        /\ UNCHANGED <<known, topic, topicnick, tstopic>>

(* lsi_ucb_clear_chanmodes keeps the array.                                 *)
ClearChanmodes_First(a) == [a EXCEPT ![1] = Null]   \* faulty: one mode

ClearChanmodes(a) == Nulls(Len(a))

h_324 ==
  /\ Next_("324")
  /\ LET chs == ParseMODE(Head(net).str, Head(net).args) IN
     \/ IgnoredMode
     \/ /\ known
        /\ \E how \in [DOMAIN chs -> Outcome] :
             LET r == Applied(chs, ClearChanmodes(modes), {}, how) IN
             modes' = r.modes /\ Handled(r.err)
        /\ UNCHANGED <<known, pfx, topic, topicnick, tstopic>>

(* The old text is freed before the new one is copied.                      *)
h_332 ==
  /\ Next_("332")
  /\ \/ ~known /\ Handled(FALSE) /\ UNCHANGED cview
     \/ /\ known /\ topic' = Head(net).text /\ Handled(FALSE)
        /\ UNCHANGED <<known, modes, pfx, topicnick, tstopic>>
     \/ /\ known /\ MayFail /\ topic' = NoText /\ Handled(TRUE)
        /\ UNCHANGED <<known, modes, pfx, topicnick, tstopic>>

h_333 ==
  /\ Next_("333")
  /\ \/ ~known /\ Handled(FALSE) /\ UNCHANGED cview
     \/ /\ known /\ Handled(FALSE)
        /\ topicnick' = Head(net).by /\ tstopic' = Head(net).at
        /\ UNCHANGED <<known, modes, pfx, topic>>
     \/ /\ known /\ MayFail /\ topicnick' = NoText /\ Handled(TRUE)
        /\ UNCHANGED <<known, modes, pfx, topic, tstopic>>

(* The time of the topic stays what it was.                                 *)
h_TOPIC_KeepsNick ==   \* faulty: who set it stays, too
  /\ Next_("TOPIC") /\ Handled(FALSE)
  /\ topic' = IF known THEN Head(net).text ELSE topic
  /\ UNCHANGED <<known, modes, pfx, topicnick, tstopic>>

h_TOPIC ==
  /\ Next_("TOPIC")
  /\ \/ ~known /\ Handled(FALSE) /\ UNCHANGED cview
     \/ /\ known /\ Handled(FALSE)
        /\ topic' = Head(net).text /\ topicnick' = Head(net).by
        /\ UNCHANGED <<known, modes, pfx, tstopic>>
     \/ /\ known /\ MayFail /\ Handled(TRUE)
        /\ topic' \in {NoText, Head(net).text} /\ topicnick' = NoText
        /\ UNCHANGED <<known, modes, pfx, tstopic>>

NewChan(p) ==
  /\ known' = TRUE /\ modes' = Nulls(FirstSlots) /\ pfx' = p
  /\ topic' = NoText /\ topicnick' = NoText /\ tstopic' = 0

NoChan ==
  /\ known' = FALSE /\ modes' = <<>> /\ pfx' = {}
  /\ topic' = NoText /\ topicnick' = NoText /\ tstopic' = 0

(* Our own JOIN, with the list of names that comes with it, and our PART.   *)
h_JOIN == Next_("JOIN") /\ NewChan(Head(net).pfx) /\ Handled(FALSE)
h_PART == Next_("PART") /\ NoChan /\ Handled(FALSE)

(* What we have stays to be looked at until irc_connect drops it.           *)
irc_connect ==
  /\ ~online /\ online' = TRUE
  /\ NoChan
  /\ UNCHANGED <<ann, classes, net, srv>>

-----------------------------------------------------------------------------
(* The server *)

(* A mode string has a sign where the direction changes.                    *)
Wire(cmd, chs) ==
  [cmd |-> cmd, chs |-> chs,
   str |-> FlattenSeq([i \in DOMAIN chs |->
             LET sign == IF chs[i].on THEN "+" ELSE "-" IN
             IF i > 1 /\ chs[i].on = chs[i - 1].on
             THEN <<chs[i].l>> ELSE <<sign, chs[i].l>>]),
   args |-> LET with == SelectSeq(chs, LAMBDA x : x.arg # NoArg)
            IN [i \in DOMAIN with |-> with[i].arg]]

OfClass(k, z) == k \in ann[z]

(* A change of a set of modes.  Modes of lists have one entry per argument. *)
Changed(ms, x) ==
  LET e    == [l |-> x.l, arg |-> x.arg]
      rest == {d \in ms : d.l # x.l \/ (OfClass(x.l, 1) /\ d # e)}
  IN IF x.l \in PfxLetter THEN ms ELSE IF x.on THEN rest \cup {e} ELSE rest

ChangedPfx(p, x) ==
  IF x.l \notin PfxLetter THEN p
  ELSE IF x.on THEN p \cup {<<x.arg, x.l>>} ELSE p \ {<<x.arg, x.l>>}

AllChanged(ms, chs)    == FoldLeft(Changed, ms, chs)
AllChangedPfx(p, chs)  == FoldLeft(ChangedPfx, p, chs)

(* The letters whose value another one replaces.                            *)
Replaced(ms, chs) ==
  {k \in Letters : \E i \in DOMAIN chs :
     /\ chs[i].l = k /\ chs[i].on /\ (OfClass(k, 2) \/ OfClass(k, 3))
     /\ \E e \in AllChanged(ms, SubSeq(chs, 1, i - 1)) : e.l = k}

(* The server tells only of changes that are some.  A bound: it replaces a   *)
(* value at most once before the next 324, as each time leaves one more     *)
(* entry in our array.                                                      *)
Effective(chs) ==
  /\ Replaced(srvmodes, chs) \cap again = {}
  /\ \A i \in DOMAIN chs :
       LET ms == AllChanged(srvmodes, SubSeq(chs, 1, i - 1))
           p  == AllChangedPfx(srvpfx, SubSeq(chs, 1, i - 1))
       IN Changed(ms, chs[i]) # ms \/ ChangedPfx(p, chs[i]) # p

Sends(m) == net' = IF joined THEN Append(net, m) ELSE net

(* What changes while we are not connected may as well change before we     *)
(* join.                                                                    *)
RoomOnNet == online /\ Len(net) < MaxNet

SrvMode(chs) ==
  /\ RoomOnNet /\ Effective(chs)
  /\ srvmodes' = AllChanged(srvmodes, chs)
  /\ srvpfx' = AllChangedPfx(srvpfx, chs)
  /\ Sends(Wire("MODE", chs))
  /\ said' = AllChanged(said, chs)
  /\ again' = again \cup Replaced(srvmodes, chs)
  /\ UNCHANGED <<ann, classes, online, cview, joined, srvtopic>>

SrvTopic(who, text) ==
  /\ RoomOnNet /\ text # srvtopic.text
  /\ srvtopic' = [text |-> text, by |-> who, at |-> 1]
  /\ Sends([cmd |-> "TOPIC", text |-> text, by |-> who])
  /\ UNCHANGED <<ann, classes, online, cview, joined, srvmodes, srvpfx, said, again>>

TheTopic ==
  IF srvtopic.text = "" THEN <<>>
  ELSE <<[cmd |-> "332", text |-> srvtopic.text],
         [cmd |-> "333", by |-> srvtopic.by, at |-> srvtopic.at]>>

SrvJoin ==
  /\ RoomOnNet /\ ~joined /\ joined' = TRUE
  /\ net' = Append(net, [cmd |-> "JOIN", pfx |-> srvpfx]) \o TheTopic
  /\ said' = {} /\ again' = {}
  /\ UNCHANGED <<ann, classes, online, cview, srvmodes, srvpfx, srvtopic>>

SrvPart ==
  /\ RoomOnNet /\ joined /\ joined' = FALSE
  /\ net' = Append(net, [cmd |-> "PART"])
  /\ UNCHANGED <<ann, classes, online, cview, srvmodes, srvpfx, srvtopic, said, again>>

(* Answers to the application's MODE and TOPIC, whether or not we are on    *)
(* the channel.  A 324 leaves the lists out.                                *)
SrvAnswerMode ==
  LET ms  == {e \in srvmodes : ~OfClass(e.l, 1)}
      all == SetToSeq(ms)
      chs == [i \in DOMAIN all |-> [on |-> TRUE, l |-> all[i].l, arg |-> all[i].arg]]
  IN /\ RoomOnNet
     /\ net' = Append(net, Wire("324", chs))
     /\ said' = ms /\ again' = {}
     /\ UNCHANGED <<ann, classes, online, cview, joined, srvmodes, srvpfx, srvtopic>>

SrvAnswerTopic ==
  /\ RoomOnNet
  /\ net' = net \o TheTopic
  /\ UNCHANGED <<ann, classes, online, cview, srv>>

Lost ==
  /\ online /\ online' = FALSE /\ net' = <<>> /\ joined' = FALSE
  /\ UNCHANGED <<ann, classes, cview, srvmodes, srvpfx, srvtopic, said, again>>

Next ==
  \/ h_MODE_chanmode \/ h_324 \/ h_332 \/ h_333 \/ h_TOPIC
  \/ h_JOIN \/ h_PART \/ irc_connect
  \/ \E chs \in Bursts : SrvMode(chs)
  \/ \E who \in Members, text \in Topics : SrvTopic(who, text)
  \/ SrvJoin \/ SrvPart \/ SrvAnswerMode \/ SrvAnswerTopic \/ Lost

Spec == Init /\ [][Next]_vars

-----------------------------------------------------------------------------
(* Properties *)

(* No list of CHANMODES is empty before one that is not.                    *)
Straight == \A z \in 1..3 : ann[z] = {} => ann[z + 1] = {}

Settled == online /\ known /\ joined /\ net = <<>>

(* Without an empty list among the classes of the 005, taking a mode string *)
(* apart gives the changes the server made, each with its own argument:     *)
(* lsi_ut_parse_MODE undoes what the server did, up to the letters that     *)
(* were never announced.                                                    *)
ParsedRight ==
  Straight => \A i \in DOMAIN net :
    net[i].cmd \in {"MODE", "324"} =>
      ParseMODE(net[i].str, net[i].args)
        = SelectSeq(net[i].chs, LAMBDA x : Class(x.l) # 0 \/ x.l \in PfxLetter)

(* When nothing is on its way, the modes of the channel are those the       *)
(* server has told of since we joined or since the last 324, each of them   *)
(* once, except where a value took the place of another: whatever changed   *)
(* while we were away, however the array grew and was packed.               *)
ModesMatch ==
  Straight /\ Settled =>
    LET of(S) == {e \in S : e.l \notin again /\ Class(e.l) # 0} IN
    /\ of(Entries(modes)) = of(said)
    /\ \A i, j \in Taken(modes) :
         i # j /\ modes[i] = modes[j] => modes[i].l \in again
    /\ pfx = srvpfx

(* When nothing is on its way the topic is the channel's, and so is the     *)
(* nickname of who set it.                                                  *)
TopicMatches ==
  Settled =>
    /\ topic = srvtopic.text \/ (topic = NoText /\ srvtopic.text = "")
    /\ srvtopic.text # "" => topicnick = srvtopic.by

=============================================================================
