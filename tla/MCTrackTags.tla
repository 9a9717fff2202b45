---------------------------- MODULE MCTrackTags ----------------------------
(***************************************************************************)
(* Instances of TrackTags for TLC.    "A" is another way to write "a".      *)
(***************************************************************************)
EXTENDS TrackTags

CONSTANTS a, A, b, d, c1, c2, op, voice

MCNickKey == [n \in Nick |-> IF n = A THEN a ELSE n]
MCChanKey == [c \in Chan |-> c]
MCStronger == [s \in Sym |-> IF s = voice THEN {op} \cap Sym ELSE {}]

ChanSymmetry == Permutations({c1, c2})
=============================================================================
