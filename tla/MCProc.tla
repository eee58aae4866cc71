------------------------------- MODULE MCProc -------------------------------
(* Instances of Proc for TLC. *)
EXTENDS Proc, TLC

CONSTANTS c1, c2

MCCpu2 == {c1, c2}
MCKill == {1, 2}

MCSymmetry == Permutations(MCCpu2)
=============================================================================
