---------------------------- MODULE MCChanModes ----------------------------
(***************************************************************************)
(* An instance of ChanModes for TLC: a list, a mode of each other class, a  *)
(* prefix and a letter the server has not announced.                        *)
(***************************************************************************)
EXTENDS ChanModes

MCAnnounced ==
  {<<{"b"}, {"k"}, {"l"}, {"n"}>>, <<{"b"}, {}, {"l"}, {"n"}>>}

MCChange ==
  [on : BOOLEAN, l : {"b"}, arg : {"x", "y"}]
  \cup [on : BOOLEAN, l : {"k"}, arg : {"x"}]
  \cup [on : {TRUE}, l : {"l"}, arg : {"x", "y"}]
  \cup [on : {FALSE}, l : {"l"}, arg : {NoArg}]
  \cup [on : BOOLEAN, l : {"n", "z"}, arg : {NoArg}]
  \cup [on : BOOLEAN, l : {"o"}, arg : {"x"}]

Set(k, a) == [on |-> TRUE, l |-> k, arg |-> a]
Unset(k, a) == [on |-> FALSE, l |-> k, arg |-> a]

MCBursts ==
  {<<Set("b", "x"), Set("b", "y")>>,
   <<Unset("b", "x"), Set("k", "x"), Set("n", NoArg)>>,
   <<Set("l", "y"), Unset("k", "x")>>,
   <<Set("l", "x"), Unset("n", NoArg), Unset("b", "y")>>,
   <<Unset("l", NoArg), Set("z", NoArg), Set("o", "x")>>}
=============================================================================
