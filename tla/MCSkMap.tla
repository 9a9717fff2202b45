------------------------------ MODULE MCSkMap ------------------------------
(***************************************************************************)
(* An instance of SkMap for TLC.  kA is another way to write ka; ka, kb    *)
(* and ke share a bucket, kc has its own.                                  *)
(***************************************************************************)
EXTENDS SkMap, TLC

CONSTANTS ka, kA, kb, ke, kc, n1, n2, n3

MCKeyRep == [k \in Key |-> IF k = kA THEN ka ELSE k]
MCHash == [k \in Key |-> IF k = kc THEN 1 ELSE 0]

NodeSymmetry == Permutations(Node)
=============================================================================
