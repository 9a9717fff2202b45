---------------------------- MODULE MCLineReader ----------------------------
(***************************************************************************)
(* Instances of LineReader for TLC: two letters and a delimiter.            *)
(***************************************************************************)
EXTENDS LineReader

CONSTANTS x, y, lf
=============================================================================
