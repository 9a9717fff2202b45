------------------------------ MODULE MCTrack ------------------------------
(***************************************************************************)
(* Instances of Track for TLC.  "A" is another way to write "a": the maps   *)
(* take the two for the same nickname.                                      *)
(***************************************************************************)
EXTENDS Track, TLC

CONSTANTS a, A, b, c1, c2, op, voice

MCNickKey == [n \in Nick |-> IF n = A THEN a ELSE n]
MCChanKey == [c \in Chan |-> c]
MCStronger == [s \in Sym |-> IF s = voice THEN {op} \cap Sym ELSE {}]

Plain(n) == [nick |-> n, pfx |-> <<>>]
MCNameLists == {<<Plain(n)>> : n \in Nick} \cup {<<Plain(a), Plain(n)>> : n \in Nick \ {a}}

ChanSymmetry == Permutations({c1, c2})
=============================================================================
