---------------------------- MODULE MCVirtioDisk ----------------------------
(* Instances of the disk driver for TLC. *)
EXTENDS VirtioDisk, TLC

CONSTANTS p1, p2, p3, s1, s2, s3, zero, one

MCProc3 == {p1, p2, p3}
MCSector3 == {s1, s2, s3}
MCBinary == {zero, one}

\* Processes and sectors are interchangeable; the disk starts with zeros.
MCSymmetry == Permutations(MCProc3) \cup Permutations(MCSector3)
=============================================================================
