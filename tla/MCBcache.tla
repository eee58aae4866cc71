------------------------------ MODULE MCBcache ------------------------------
(* Instances of the buffer cache for TLC. *)
EXTENDS Bcache, TLC

CONSTANTS p1, p2, b1, b2, b3, zero, one

MCProc2 == {p1, p2}
MCBlock3 == {b1, b2, b3}
MCBinary == {zero, one}

\* b1 is a log or an indirect block, the others are read under it.
MCNested == {<<b1, b2>>, <<b1, b3>>}

MCSymmetry == Permutations(MCProc2) \cup Permutations({b2, b3})
=============================================================================
