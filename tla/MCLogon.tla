------------------------------ MODULE MCLogon ------------------------------
(***************************************************************************)
(* Instances of LogonServer for TLC.  When both nicknames are taken the     *)
(* callback gives up.                                                       *)
(***************************************************************************)
EXTENDS LogonServer

CONSTANTS n1, n2

MCMutNick == [n \in Nick |-> IF n = n1 THEN n2 ELSE NoNick]
=============================================================================
