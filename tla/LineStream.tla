----------------------------- MODULE LineStream -----------------------------
(***************************************************************************)
(* What reading lines from a connection promises: the lines taken are, in   *)
(* order and complete, the runs of other characters between the delimiters  *)
(* in what the server has sent on this connection.  Nothing is said of      *)
(* buffers, timeouts, or the pieces in which it all arrives.                *)
(***************************************************************************)
EXTENDS Integers, Sequences

CONSTANTS Char, Delim

VARIABLES
  sent,   \* what the server has sent on this connection
  pos,    \* how much of it has been taken, lines and delimiters
  lines   \* the lines taken

vars == <<sent, pos, lines>>

Init == sent = <<>> /\ pos = 0 /\ lines = <<>>

Send(c) == sent' = Append(sent, c) /\ UNCHANGED <<pos, lines>>

(* Delimiters are passed over.                                              *)
Skip ==
  /\ pos' \in pos + 1..Len(sent)
  /\ \A i \in pos + 1..pos' : sent[i] \in Delim
  /\ UNCHANGED <<sent, lines>>

(* The next n characters are a line, and a delimiter follows.               *)
Take(n) ==
  /\ pos + n < Len(sent)
  /\ \A i \in pos + 1..pos + n : sent[i] \notin Delim
  /\ sent[pos + n + 1] \in Delim
  /\ pos' = pos + n + 1
  /\ lines' = Append(lines, SubSeq(sent, pos + 1, pos + n))
  /\ UNCHANGED sent

(* The connection is lost; the next one starts with nothing.                *)
Lose == sent' = <<>> /\ pos' = 0 /\ lines' = <<>>

Next ==
  \/ \E c \in Char : Send(c)
  \/ Skip
  \/ \E n \in 1..Len(sent) : Take(n)
  \/ Lose

Spec == Init /\ [][Next]_vars

=============================================================================
