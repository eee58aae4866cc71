------------------------------- MODULE MCLog -------------------------------
(* Instances of Log for TLC. *)
EXTENDS Log, TLC

CONSTANTS p1, p2, p3, b1, b2, b3, b4, zero, one

MCProc3 == {p1, p2, p3}
MCBlock2 == {b1, b2}
MCBlock4 == {b1, b2, b3, b4}
MCZero == {zero}
MCBinary == {zero, one}

\* Processes are interchangeable; values are not: mkfs writes zero.
MCSymmetry3 == Permutations(MCProc3)
=============================================================================
