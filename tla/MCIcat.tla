------------------------------- MODULE MCIcat -------------------------------
(***************************************************************************)
(* Instances of Icat for TLC.                                               *)
(***************************************************************************)
EXTENDS Icat

MCSettings ==
  {[hbeat |-> TRUE, reconnect |-> TRUE, ssl |-> FALSE],
   [hbeat |-> FALSE, reconnect |-> FALSE, ssl |-> FALSE]}
=============================================================================
