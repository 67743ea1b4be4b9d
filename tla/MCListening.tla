---- MODULE MCListening ----
(* The read path of one phone on a small instance.                         *)
EXTENDS Listening

CONSTANTS c1, c2

MCCalls == {c1, c2}

MCKeys == 1 .. 2

MCSymmetry == Permutations(MCCalls)
====
