-------------------------- MODULE LineReaderProofs --------------------------
(***************************************************************************)
(* Proofs about module LineReader, for a buffer of any size, any alphabet,  *)
(* and any sequence of timeouts: the types of the variables, and that the   *)
(* lines returned are the lines sent.                                       *)
(***************************************************************************)
EXTENDS LineReader, WellFoundedInduction, TLAPS

(* Where the character at wptr is in what the server has sent.              *)
Pos == got - (eptr - wptr)

(* What is unread in the buffer is what was last read from the socket.      *)
BufMatches ==
  /\ eptr - wptr <= got
  /\ \A i \in Unread : workbuf[i] = sent[Pos + (i - wptr) + 1]

Inv == TypeOK /\ BufMatches

-----------------------------------------------------------------------------
(* The pointers are numbers in order.                                       *)
LEMMA Pointers ==
  ASSUME TypeOK
  PROVE  /\ Size \in Nat /\ wptr \in Nat /\ eptr \in Nat /\ got \in Nat
         /\ wptr <= eptr /\ eptr <= Size
<1>1. eptr \in 0..Size /\ wptr \in 0..eptr /\ got \in 0..Len(sent) /\ Len(sent) \in Nat
  BY DEF TypeOK
<1> QED BY <1>1, ReaderAssumption

(* A set of buffer positions has a first one.                               *)
LEMMA FirstIsLeast ==
  ASSUME NEW D \in SUBSET Nat, D # {}
  PROVE  First(D) \in D /\ \A j \in D : First(D) <= j
<1>1. PICK m \in D : \A j \in D : <<j, m>> \notin OpToRel(<, Nat)
  BY NatLessThanWellFounded, WFMin
<1>2. \A j \in D : ~(j < m)
  BY <1>1, Zenon DEF OpToRel
<1>3. \A j \in D : m <= j
  BY <1>2
<1> QED BY <1>3 DEF First

(* The delimiter found in the buffer, if there is one: it is unread, and    *)
(* nothing before it is a delimiter.                                        *)
LEMMA DelimFound ==
  ASSUME TypeOK, Delims # {}
  PROVE  /\ First(Delims) \in wptr..eptr - 1
         /\ workbuf[First(Delims)] \in Delim
         /\ \A i \in wptr..First(Delims) - 1 : workbuf[i] \notin Delim
<1>1. Delims \in SUBSET Nat
  BY ReaderAssumption DEF TypeOK, Delims, Unread
<1>2. PICK d : d = First(Delims) /\ d \in Delims /\ \A j \in Delims : d <= j
  BY <1>1, FirstIsLeast
<1>3. d \in wptr..eptr - 1 /\ workbuf[d] \in Delim
  BY <1>2 DEF Delims, Unread
<1>4. ASSUME NEW i \in wptr..d - 1 PROVE workbuf[i] \notin Delim
  <2>1. i \in Unread /\ ~(d <= i)
    BY <1>3, ReaderAssumption DEF TypeOK, Unread
  <2> QED BY <1>2, <2>1 DEF Delims
<1> QED BY <1>2, <1>3, <1>4

(* What is skipped at the beginning of a call is delimiters.                *)
LEMMA DelimsSkipped ==
  ASSUME TypeOK
  PROVE  /\ Skipped \in wptr..eptr
         /\ \A i \in wptr..Skipped - 1 : workbuf[i] \in Delim
<1>1. CASE Delims = Unread
  <2>1. Skipped = eptr
    BY <1>1 DEF Skipped
  <2>2. \A i \in wptr..eptr - 1 : workbuf[i] \in Delim
    BY <1>1 DEF Unread, Delims
  <2> QED BY <2>1, <2>2, Pointers
<1>2. CASE Delims # Unread
  <2>1. Unread \ Delims \in SUBSET Nat /\ Unread \ Delims # {}
    BY <1>2, ReaderAssumption DEF TypeOK, Unread, Delims
  <2>2. PICK f : /\ f = Skipped /\ f \in Unread \ Delims
                 /\ \A j \in Unread \ Delims : f <= j
    BY <1>2, <2>1, FirstIsLeast DEF Skipped
  <2>3. f \in wptr..eptr
    BY <2>2, ReaderAssumption DEF TypeOK, Unread
  <2>4. ASSUME NEW i \in wptr..f - 1 PROVE workbuf[i] \in Delim
    <3>1. i \in Unread /\ ~(f <= i)
      BY <2>2, <2>3, ReaderAssumption DEF TypeOK, Unread
    <3> QED BY <2>2, <3>1 DEF Delims
  <2> QED BY <2>2, <2>3, <2>4
<1> QED BY <1>1, <1>2

(* After lsi_conn_reset.                                                    *)
LEMMA ResetInv ==
  ASSUME Inv, NEW why \in Ret, Reset(why), eof' \in BOOLEAN
  PROVE  Inv'
<1>1. <<>> \in Seq(Char) /\ <<>> \in Seq(Seq(Char)) /\ Len(<<>>) = 0
  OBVIOUS
<1>2. TypeOK'
  BY <1>1, ReaderAssumption DEF Inv, TypeOK, Reset, Pc, Ret
<1>3. BufMatches'
  BY DEF BufMatches, Unread, Pos, Reset
<1> QED BY <1>2, <1>3 DEF Inv

LEMMA FailInv ==
  ASSUME Inv, NEW why \in Ret, Fail(why)
  PROVE  Inv'
BY ResetInv DEF Fail

-----------------------------------------------------------------------------
(* The steps of lsi_io_read: each preserves the invariant, and takes        *)
(* delimiters, a line, or nothing.                                          *)

(* The character at position i of what was sent is in the buffer.           *)
LEMMA BufAt ==
  ASSUME Inv, NEW i \in Pos + 1..got
  PROVE  wptr + (i - Pos) - 1 \in Unread /\ sent[i] = workbuf[wptr + (i - Pos) - 1]
<1> DEFINE k == wptr + (i - Pos) - 1
<1>1. k \in Unread /\ Pos + (k - wptr) + 1 = i
  BY ReaderAssumption DEF Inv, TypeOK, Unread, Pos
<1>2. workbuf[k] = sent[Pos + (k - wptr) + 1]
  BY <1>1 DEF Inv, BufMatches
<1> QED BY <1>1, <1>2

LEMMA CallInv ==
  ASSUME Inv, NEW t \in Timeouts, Call(t)
  PROVE  /\ Inv' /\ UNCHANGED <<sent, lines>>
         /\ Pos' \in Pos..Len(sent)
         /\ \A i \in Pos + 1..Pos' : sent[i] \in Delim
<1>1. PICK w : w = Skipped
  OBVIOUS
<1>2. w \in wptr..eptr /\ \A i \in wptr..w - 1 : workbuf[i] \in Delim
  BY <1>1, DelimsSkipped DEF Inv
<1>3. /\ wptr' = IF w = eptr THEN 0 ELSE w
      /\ eptr' = IF w = eptr THEN 0 ELSE eptr
      /\ pc' = "find" /\ to' = t
      /\ UNCHANGED <<sent, open, tls, got, workbuf, online, eof, ret, lines>>
  BY <1>1 DEF Call, socket
<1>4. TypeOK'
  BY <1>2, <1>3, ReaderAssumption DEF Inv, TypeOK, Pc
<1>5. Pos' = Pos + (w - wptr)
  BY <1>2, <1>3, ReaderAssumption DEF Inv, TypeOK, Pos
<1>6. BufMatches'
  <2>1. CASE w = eptr
    BY <1>2, <1>3, <2>1, ReaderAssumption DEF Inv, TypeOK, BufMatches, Unread
  <2>2. CASE w # eptr
    <3>1. wptr' = w /\ eptr' = eptr
      BY <1>3, <2>2
    <3>2. ASSUME NEW i \in w..eptr - 1 PROVE workbuf[i] = sent[Pos + (w - wptr) + (i - w) + 1]
      <4>1. i \in Unread /\ Pos + (w - wptr) + (i - w) + 1 = Pos + (i - wptr) + 1
        BY <1>2, ReaderAssumption DEF Inv, TypeOK, Unread, Pos
      <4> QED BY <4>1 DEF Inv, BufMatches
    <3> QED BY <1>2, <1>3, <1>5, <3>1, <3>2, ReaderAssumption DEF Inv, TypeOK, BufMatches, Unread
  <2> QED BY <2>1, <2>2
<1>7. ASSUME NEW i \in Pos + 1..Pos' PROVE sent[i] \in Delim
  <2>1. i \in Pos + 1..got /\ wptr + (i - Pos) - 1 \in wptr..w - 1
    BY <1>2, <1>5, ReaderAssumption DEF Inv, TypeOK, Pos
  <2> QED BY <1>2, <2>1, BufAt
<1>8. Pos' \in Pos..Len(sent)
  BY <1>2, <1>5, ReaderAssumption DEF Inv, TypeOK, BufMatches, Pos
<1> QED BY <1>3, <1>4, <1>6, <1>7, <1>8 DEF Inv

LEMMA EmptyLineInv ==
  ASSUME Inv, EmptyLine
  PROVE  /\ Inv' /\ UNCHANGED <<sent, lines>>
         /\ Pos' \in Pos..Len(sent)
         /\ \A i \in Pos + 1..Pos' : sent[i] \in Delim
<1>1. /\ wptr \in wptr..eptr - 1 /\ workbuf[wptr] \in Delim
      /\ workbuf' = [workbuf EXCEPT ![eptr] = Nul]
      /\ wptr' = wptr + 1 /\ eptr' = eptr
      /\ UNCHANGED <<sent, open, tls, got, online, eof, pc, to, ret, lines>>
  BY DelimFound, ReaderAssumption DEF Inv, TypeOK, EmptyLine, Marked, socket
<1>2. TypeOK'
  BY <1>1, ReaderAssumption DEF Inv, TypeOK
<1>3. Pos' = Pos + 1
  BY <1>1, ReaderAssumption DEF Inv, TypeOK, Pos
<1>4. BufMatches'
  <2>1. ASSUME NEW i \in wptr + 1..eptr - 1
        PROVE  workbuf'[i] = sent[Pos + 1 + (i - (wptr + 1)) + 1]
    <3>1. /\ i \in Unread /\ i # eptr /\ i \in 0..Size
          /\ Pos + 1 + (i - (wptr + 1)) + 1 = Pos + (i - wptr) + 1
      BY <1>1, ReaderAssumption DEF Inv, TypeOK, Unread, Pos
    <3>2. workbuf'[i] = workbuf[i]
      BY <1>1, <3>1 DEF Inv, TypeOK
    <3> QED BY <3>1, <3>2 DEF Inv, BufMatches
  <2> QED BY <1>1, <1>3, <2>1, ReaderAssumption DEF Inv, TypeOK, BufMatches, Unread
<1>5. ASSUME NEW i \in Pos + 1..Pos' PROVE sent[i] \in Delim
  <2>1. i \in Pos + 1..got /\ wptr + (i - Pos) - 1 = wptr
    BY <1>1, <1>3, ReaderAssumption DEF Inv, TypeOK, Pos
  <2> QED BY <1>1, <2>1, BufAt
<1>6. Pos' \in Pos..Len(sent)
  BY <1>1, <1>3, ReaderAssumption DEF Inv, TypeOK, BufMatches, Pos
<1> QED BY <1>1, <1>2, <1>4, <1>5, <1>6 DEF Inv

LEMMA LineInv ==
  ASSUME Inv, Line
  PROVE  /\ Inv' /\ UNCHANGED sent
         /\ \E n \in 1..Len(sent) :
              /\ Pos + n < Len(sent)
              /\ \A i \in Pos + 1..Pos + n : sent[i] \notin Delim
              /\ sent[Pos + n + 1] \in Delim
              /\ Pos' = Pos + n + 1
              /\ lines' = Append(lines, SubSeq(sent, Pos + 1, Pos + n))
<1>1. PICK d : d = First(Delims)
  OBVIOUS
<1>2. /\ d \in wptr + 1..eptr - 1
      /\ workbuf[d] \in Delim
      /\ \A i \in wptr..d - 1 : workbuf[i] \notin Delim
  BY <1>1, DelimFound, ReaderAssumption DEF Inv, TypeOK, Line
<1>3. /\ workbuf' = [[workbuf EXCEPT ![eptr] = Nul] EXCEPT ![d] = Nul]
      /\ wptr' = d + 1 /\ eptr' = eptr
      /\ pc' = "out" /\ ret' = "line"
      /\ UNCHANGED <<sent, open, tls, got, online, eof, to>>
  BY <1>1 DEF Line, Marked, socket
<1>3a. PICK n, text : /\ n = d - wptr
                      /\ text = [i \in 1..n |-> workbuf[wptr + i - 1]]
                      /\ lines' = Append(lines, text)
  BY <1>1 DEF Line
<1>4. /\ n \in 1..Len(sent) /\ Pos \in Nat /\ Pos + n + 1 <= got
      /\ Pos' = Pos + n + 1
  BY <1>2, <1>3, <1>3a, ReaderAssumption DEF Inv, TypeOK, BufMatches, Pos
<1>5. ASSUME NEW i \in 1..n PROVE workbuf[wptr + i - 1] = sent[Pos + i]
  <2>1. Pos + i \in Pos + 1..got /\ wptr + ((Pos + i) - Pos) - 1 = wptr + i - 1
    BY <1>2, <1>4, <1>3a, ReaderAssumption DEF Inv, TypeOK
  <2> QED BY <2>1, BufAt
<1>6. text = SubSeq(sent, Pos + 1, Pos + n)
  <2>1. SubSeq(sent, Pos + 1, Pos + n) = [i \in 1..n |-> sent[Pos + i]]
    BY <1>4, ReaderAssumption DEF Inv, TypeOK
  <2> QED BY <1>5, <1>3a, <2>1
<1>7. text \in Seq(Char)
  <2>1. SubSeq(sent, Pos + 1, Pos + n) \in Seq(Char)
    BY <1>4, ReaderAssumption DEF Inv, TypeOK
  <2> QED BY <1>6, <2>1
<1>8. ASSUME NEW i \in Pos + 1..Pos + n PROVE sent[i] \notin Delim
  <2>1. i \in Pos + 1..got /\ wptr + (i - Pos) - 1 \in wptr..d - 1
    BY <1>2, <1>4, <1>3a, ReaderAssumption DEF Inv, TypeOK
  <2> QED BY <1>2, <2>1, BufAt
<1>9. sent[Pos + n + 1] \in Delim
  <2>1. PICK e : e = Pos + n + 1
    OBVIOUS
  <2>2. e \in Pos + 1..got /\ wptr + (e - Pos) - 1 = d
    BY <1>2, <1>4, <1>3a, <2>1, ReaderAssumption DEF Inv, TypeOK
  <2>3. sent[e] = workbuf[d]
    BY <2>2, BufAt
  <2> QED BY <1>2, <2>1, <2>3
<1>10. TypeOK'
  <2>1. lines' \in Seq(Seq(Char))
    BY <1>7, <1>3a DEF Inv, TypeOK
  <2>2. workbuf' \in [0..Size -> Char \cup {Nul}]
    BY <1>3 DEF Inv, TypeOK
  <2> QED BY <1>2, <1>3, <2>1, <2>2, ReaderAssumption DEF Inv, TypeOK, Pc, Ret
<1>11. BufMatches'
  <2>1. ASSUME NEW i \in d + 1..eptr - 1
        PROVE  workbuf'[i] = sent[Pos + n + 1 + (i - (d + 1)) + 1]
    <3>1. /\ i \in Unread /\ i # eptr /\ i # d /\ i \in 0..Size
          /\ Pos + n + 1 + (i - (d + 1)) + 1 = Pos + (i - wptr) + 1
      BY <1>2, <1>4, <1>3a, ReaderAssumption DEF Inv, TypeOK, Unread
    <3>2. workbuf'[i] = workbuf[i]
      BY <1>3, <3>1 DEF Inv, TypeOK
    <3> QED BY <3>1, <3>2 DEF Inv, BufMatches
  <2>2. eptr - (d + 1) <= got
    BY <1>2, <1>4, <1>3a, ReaderAssumption DEF Inv, TypeOK, Pos
  <2> QED BY <1>3, <1>4, <1>3a, <2>1, <2>2 DEF BufMatches, Unread
<1>12. /\ Pos + n < Len(sent)
       /\ lines' = Append(lines, SubSeq(sent, Pos + 1, Pos + n))
  <2>1. Pos + n < Len(sent)
    BY <1>4, ReaderAssumption DEF Inv, TypeOK
  <2> QED BY <1>6, <1>3a, <2>1, Zenon
<1>13. Inv' /\ UNCHANGED sent
  BY <1>3, <1>10, <1>11 DEF Inv
<1> QED BY <1>4, <1>8, <1>9, <1>12, <1>13

(* Steps that only move what is in the buffer, or read more into it.        *)
LEMMA RoomInv ==
  ASSUME Inv, Room
  PROVE  Inv' /\ UNCHANGED <<sent, lines>> /\ Pos' = Pos
<1>1. /\ workbuf' = [workbuf EXCEPT ![eptr] = Nul]
      /\ pc' = "read"
      /\ UNCHANGED <<sent, open, tls, got, wptr, eptr, online, eof, to, ret, lines>>
  BY DEF Room, Marked, socket
<1>2. TypeOK' /\ Pos' = Pos
  BY <1>1, ReaderAssumption DEF Inv, TypeOK, Pc, Pos
<1>3. ASSUME NEW i \in Unread PROVE workbuf'[i] = workbuf[i]
  BY <1>1, ReaderAssumption DEF Inv, TypeOK, Unread
<1> QED BY <1>1, <1>2, <1>3 DEF Inv, BufMatches, Unread

LEMMA ShiftInv ==
  ASSUME Inv, Shift
  PROVE  Inv' /\ UNCHANGED <<sent, lines>> /\ Pos' = Pos
<1>1. workbuf' = [i \in 0..Size |-> IF i < eptr - wptr THEN Marked[wptr + i] ELSE Marked[i]]
  BY DEF Shift
<1> DEFINE m == eptr - wptr
<1>0. /\ wptr' = 0 /\ eptr' = m /\ pc' = "read" /\ m \in 0..Size /\ m <= got
      /\ UNCHANGED <<sent, open, tls, got, online, eof, to, ret, lines>>
  BY ReaderAssumption DEF Shift, socket, Inv, TypeOK, BufMatches
<1>2. Marked \in [0..Size -> Char \cup {Nul}]
  BY DEF Inv, TypeOK, Marked
<1>3. TypeOK'
  <2>1. ASSUME NEW i \in 0..Size, i < eptr - wptr PROVE wptr + i \in 0..Size
    BY <2>1, ReaderAssumption DEF Inv, TypeOK
  <2>2. workbuf' \in [0..Size -> Char \cup {Nul}]
    BY <1>1, <1>2, <2>1
  <2> HIDE DEF m
  <2> QED BY <1>0, <2>2, ReaderAssumption DEF Inv, TypeOK, Pc
<1>4. Pos' = Pos
  BY <1>0, ReaderAssumption DEF Inv, TypeOK, Pos
<1>5. ASSUME NEW i \in 0..eptr - wptr - 1 PROVE workbuf'[i] = sent[Pos + (i - 0) + 1]
  <2>1. /\ i \in 0..Size /\ i < eptr - wptr
        /\ wptr + i \in Unread /\ wptr + i # eptr /\ wptr + i \in 0..Size
        /\ Pos + ((wptr + i) - wptr) + 1 = Pos + (i - 0) + 1
    BY ReaderAssumption DEF Inv, TypeOK, Unread, Pos
  <2>2. workbuf'[i] = Marked[wptr + i]
    BY <1>1, <2>1
  <2>3. Marked[wptr + i] = workbuf[wptr + i]
    BY <2>1 DEF Inv, TypeOK, Marked
  <2> QED BY <2>1, <2>2, <2>3 DEF Inv, BufMatches
<1>6. BufMatches'
  BY <1>0, <1>4, <1>5, ReaderAssumption DEF Inv, TypeOK, BufMatches, Unread
<1> QED BY <1>0, <1>3, <1>4, <1>6 DEF Inv

LEMMA ReadSomeInv ==
  ASSUME Inv, NEW n \in 1..Size, ReadSome(n)
  PROVE  Inv' /\ UNCHANGED <<sent, lines>> /\ Pos' = Pos
<1>1. /\ n \in 1..Len(sent) - got /\ n <= Size - eptr
      /\ workbuf' = [i \in 0..Size |->
            IF i \in eptr..eptr + n - 1 THEN sent[got + i - eptr + 1] ELSE workbuf[i]]
      /\ eptr' = eptr + n /\ got' = got + n /\ pc' = "find"
      /\ UNCHANGED <<sent, open, tls, wptr, online, eof, to, ret, lines>>
  BY DEF ReadSome, Available
<1>2. TypeOK'
  <2>1. ASSUME NEW i \in 0..Size, i \in eptr..eptr + n - 1
        PROVE  sent[got + i - eptr + 1] \in Char
    <3>1. got + i - eptr + 1 \in 1..Len(sent)
      BY <1>1, <2>1, ReaderAssumption DEF Inv, TypeOK
    <3> QED BY <3>1 DEF Inv, TypeOK
  <2>2. workbuf' \in [0..Size -> Char \cup {Nul}]
    BY <1>1, <2>1 DEF Inv, TypeOK
  <2> QED BY <1>1, <2>2, ReaderAssumption DEF Inv, TypeOK, Pc
<1>3. Pos' = Pos
  BY <1>1, ReaderAssumption DEF Inv, TypeOK, Pos
<1>4. ASSUME NEW i \in wptr..eptr + n - 1 PROVE workbuf'[i] = sent[Pos + (i - wptr) + 1]
  <2>1. i \in 0..Size
    BY <1>1, ReaderAssumption DEF Inv, TypeOK
  <2>2. CASE i \in eptr..eptr + n - 1
    <3>1. Pos + (i - wptr) + 1 = got + i - eptr + 1
      BY ReaderAssumption DEF Inv, TypeOK, Pos
    <3> QED BY <1>1, <2>1, <2>2, <3>1
  <2>3. CASE i \notin eptr..eptr + n - 1
    <3>1. i \in Unread
      BY <1>1, <2>3, ReaderAssumption DEF Inv, TypeOK, Unread
    <3> QED BY <1>1, <2>1, <2>3, <3>1 DEF Inv, BufMatches
  <2> QED BY <2>2, <2>3
<1>5. BufMatches'
  <2>1. eptr + n - wptr <= got + n
    BY <1>1, ReaderAssumption DEF Inv, TypeOK, BufMatches
  <2>2. eptr' = eptr + n /\ got' = got + n /\ wptr' = wptr /\ sent' = sent
    BY <1>1
  <2>3. \A i \in wptr..eptr + n - 1 : workbuf'[i] = sent[Pos + (i - wptr) + 1]
    BY <1>4
  <2>4. /\ eptr \in Int /\ wptr \in Int /\ got \in Int /\ Pos \in Int
        /\ eptr' \in Int /\ wptr' \in Int /\ got' \in Int
    BY <2>2, ReaderAssumption DEF Inv, TypeOK, Pos
  <2>5. \A i \in wptr'..eptr' - 1 : workbuf'[i] = sent'[Pos' + (i - wptr') + 1]
    BY <1>3, <2>2, <2>3, <2>4
  <2> QED BY <2>1, <2>2, <2>4, <2>5 DEF BufMatches, Unread
<1> QED BY <1>1, <1>2, <1>3, <1>5 DEF Inv

(* Steps that change neither the buffer nor what was sent and read.         *)
LEMMA IdleInv ==
  ASSUME Inv, UNCHANGED <<sent, got, workbuf, wptr, eptr, lines>>,
         open' \in BOOLEAN, tls' \in BOOLEAN, online' \in BOOLEAN, eof' = eof,
         pc' \in Pc, to' = to, ret' \in Ret
  PROVE  Inv' /\ Pos' = Pos
<1>1. TypeOK' /\ Pos' = Pos
  BY DEF Inv, TypeOK, Pos
<1>2. BufMatches'
  BY <1>1 DEF Inv, BufMatches, Unread
<1> QED BY <1>1, <1>2 DEF Inv

LEMMA SendInv ==
  ASSUME Inv, NEW c \in Char, Send(c)
  PROVE  Inv' /\ sent' = Append(sent, c) /\ Pos' = Pos /\ lines' = lines
<1>1. /\ sent' = Append(sent, c)
      /\ UNCHANGED <<open, tls, got, workbuf, wptr, eptr, online, eof, pc, to, ret, lines>>
  BY DEF Send, rctx
<1>2. /\ sent' \in Seq(Char) /\ Len(sent') = Len(sent) + 1
      /\ \A i \in 1..Len(sent) : sent'[i] = sent[i]
  BY <1>1 DEF Inv, TypeOK
<1>3. TypeOK' /\ Pos' = Pos
  BY <1>1, <1>2, ReaderAssumption DEF Inv, TypeOK, Pos
<1>4. ASSUME NEW i \in Unread PROVE workbuf[i] = sent'[Pos + (i - wptr) + 1]
  <2>1. PICK k : k = Pos + (i - wptr) + 1
    OBVIOUS
  <2>2. k \in 1..Len(sent)
    BY <2>1, ReaderAssumption DEF Inv, TypeOK, BufMatches, Unread, Pos
  <2> QED BY <1>2, <2>1, <2>2 DEF Inv, BufMatches
<1>5. BufMatches'
  BY <1>1, <1>3, <1>4 DEF Inv, BufMatches, Unread
<1> QED BY <1>1, <1>3, <1>5 DEF Inv

-----------------------------------------------------------------------------
(* The invariant, and the refinement *)

LEMMA InitInv ==
  ASSUME Init PROVE Inv
<1>1. <<>> \in Seq(Char) /\ <<>> \in Seq(Seq(Char)) /\ Len(<<>>) = 0
  OBVIOUS
<1>2. TypeOK
  BY <1>1, ReaderAssumption DEF Init, TypeOK, Pc, Ret
<1>3. BufMatches
  BY DEF Init, BufMatches, Unread
<1> QED BY <1>2, <1>3 DEF Inv

(* What a step means to LineStream.                                         *)
LEMMA LoseStep ==
  ASSUME NEW why, Reset(why)
  PROVE  LS!Lose
BY DEF Reset, LS!Lose

LEMMA SkipStep ==
  ASSUME Inv, UNCHANGED <<sent, lines>>, Pos' \in Pos..Len(sent),
         \A i \in Pos + 1..Pos' : sent[i] \in Delim
  PROVE  LS!Skip \/ UNCHANGED LS!vars
<1>1. Pos \in Int
  BY ReaderAssumption DEF Inv, TypeOK, Pos
<1> QED BY <1>1 DEF LS!Skip, LS!vars, Pos

LEMMA StutterStep ==
  ASSUME UNCHANGED <<sent, lines>>, Pos' = Pos
  PROVE  UNCHANGED LS!vars
BY DEF LS!vars, Pos

LEMMA NextInv ==
  ASSUME Inv, [Next]_vars
  PROVE  Inv' /\ [LS!Next]_LS!vars
<1>1. ASSUME NEW why \in Ret, Fail(why)
      PROVE  Inv' /\ LS!Next
  BY <1>1, FailInv, LoseStep DEF Fail, LS!Next
<1>2. ASSUME NEW why \in Ret, Reset(why), eof' \in BOOLEAN
      PROVE  Inv' /\ LS!Next
  BY <1>2, ResetInv, LoseStep DEF LS!Next
<1>3. CASE EmptyLine
  BY <1>3, EmptyLineInv, SkipStep DEF LS!Next
<1>4. CASE Line
  <2>1. Inv' /\ \E n \in 1..Len(sent) : LS!Take(n)
    BY <1>4, LineInv DEF LS!Take, Pos
  <2> QED BY <2>1 DEF LS!Next
<1>5. CASE Malformed
  BY <1>1, <1>5 DEF Malformed, Ret
<1>6. CASE Room
  BY <1>6, RoomInv, StutterStep
<1>7. CASE Shift
  BY <1>7, ShiftInv, StutterStep
<1>8. CASE TooLong
  BY <1>1, <1>8 DEF TooLong, Ret
<1>9. CASE \E n \in 1..Size : ReadSome(n)
  BY <1>9, ReadSomeInv, StutterStep
<1>10. CASE ReadTimeout \/ TlsWait \/ TlsRetry \/ TlsTimeout \/ Connect \/ Close
  <2>1. /\ UNCHANGED <<sent, got, workbuf, wptr, eptr, lines>>
        /\ open' \in BOOLEAN /\ tls' \in BOOLEAN /\ online' \in BOOLEAN /\ eof' = eof
        /\ pc' \in Pc /\ to' = to /\ ret' \in Ret
    BY <1>10 DEF Inv, TypeOK, ReadTimeout, TlsWait, TlsRetry, TlsTimeout, Connect, Close,
                 Timeout, socket, rctx, Pc, Ret
  <2> QED BY <2>1, IdleInv, StutterStep
<1>11. CASE ReadEof \/ ReadError
  BY <1>1, <1>11 DEF ReadEof, ReadError, Ret
<1>12. CASE irc_reset \/ Refused \/ WriteFails
  BY <1>2, <1>12 DEF irc_reset, Refused, WriteFails, Inv, TypeOK, Ret
<1>13. CASE \E t \in Timeouts : Call(t)
  BY <1>13, CallInv, SkipStep DEF LS!Next
<1>14. CASE \E c \in Char : Send(c)
  <2>1. PICK c \in Char : Send(c)
    BY <1>14
  <2>2. Inv' /\ sent' = Append(sent, c) /\ Pos' = Pos /\ lines' = lines
    BY <2>1, SendInv
  <2>3. LS!Send(c)
    BY <2>2 DEF LS!Send, Pos
  <2> QED BY <2>2, <2>3 DEF LS!Next
<1>15. CASE UNCHANGED vars
  <2>1. /\ UNCHANGED <<sent, got, workbuf, wptr, eptr, lines>>
        /\ open' \in BOOLEAN /\ tls' \in BOOLEAN /\ online' \in BOOLEAN /\ eof' = eof
        /\ pc' \in Pc /\ to' = to /\ ret' \in Ret
    BY <1>15 DEF Inv, TypeOK, vars, socket, rctx
  <2> QED BY <2>1, IdleInv, StutterStep
<1> QED
  BY <1>3, <1>4, <1>5, <1>6, <1>7, <1>8, <1>9, <1>10, <1>11, <1>12, <1>13, <1>14, <1>15
  DEF Next, Find, Read, App, Peer

(* The variables have their types: in particular eptr never gets past the   *)
(* buffer, nor wptr past eptr.                                              *)
THEOREM TypeCorrect == Spec => []TypeOK
<1>1. Init => Inv
  BY InitInv
<1>2. Inv /\ [Next]_vars => Inv'
  BY NextInv
<1>3. Inv => TypeOK
  BY DEF Inv
<1> QED BY <1>1, <1>2, <1>3, PTL DEF Spec

(* The lines lsi_io_read returns are the lines the server sent.             *)
THEOREM LinesCorrect == Spec => ImplementsLineStream
<1>1. Init => Inv /\ LS!Init
  <2>1. Init => LS!Init
    BY DEF Init, LS!Init
  <2> QED BY <2>1, InitInv
<1>2. Inv /\ [Next]_vars => Inv' /\ [LS!Next]_LS!vars
  BY NextInv
<1> QED BY <1>1, <1>2, PTL DEF Spec, ImplementsLineStream, LS!Spec

(* A line that fits into the buffer is never refused as too long.           *)
THEOREM TooLongCorrect == Spec => TooLongIsTooLong
<1> DEFINE Says == pc = "find" /\ pc' = "out" /\ ret' = "toolong" =>
                     /\ Len(sent) >= got - (eptr - wptr) + Size
                     /\ \A i \in 1..Size : sent[got - (eptr - wptr) + i] \notin Delim
<1>1. Init => Inv
  BY InitInv
<1>2. Inv /\ [Next]_vars => Inv' /\ [Says]_vars
  <2> SUFFICES ASSUME Inv, Next, pc = "find", pc' = "out", ret' = "toolong"
               PROVE  /\ Len(sent) >= got - (eptr - wptr) + Size
                      /\ \A i \in 1..Size : sent[got - (eptr - wptr) + i] \notin Delim
    BY NextInv
  <2>1. TooLong
    BY DEF Next, Find, Read, App, Peer, EmptyLine, Line, Malformed, Room, Shift, Fail, Reset,
           ReadSome, ReadTimeout, ReadEof, ReadError, TlsWait, TlsRetry, TlsTimeout, Connect,
           irc_reset, Refused, WriteFails, Call, Send, Close
  <2>2. eptr = Size /\ wptr = 0 /\ Delims = {}
    BY <2>1 DEF TooLong, NeedMore
  <2>3. Len(sent) >= Pos + Size
    BY <2>2, ReaderAssumption DEF Inv, TypeOK, Pos
  <2>4. ASSUME NEW i \in 1..Size PROVE sent[Pos + i] \notin Delim
    <3>1. PICK k : k = Pos + i
      OBVIOUS
    <3>2. k \in Pos + 1..got /\ wptr + (k - Pos) - 1 = i - 1
      BY <2>2, <3>1, ReaderAssumption DEF Inv, TypeOK, Pos
    <3>3. i - 1 \in Unread /\ sent[k] = workbuf[i - 1]
      BY <3>2, BufAt
    <3> QED BY <2>2, <3>1, <3>3 DEF Delims
  <2> QED BY <2>3, <2>4 DEF Pos
<1> QED BY <1>1, <1>2, PTL DEF Spec, TooLongIsTooLong

=============================================================================
