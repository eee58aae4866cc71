------------------------------- MODULE MCPipe -------------------------------
(* An instance of Pipe for TLC. *)
EXTENDS Pipe

CONSTANTS r1, r2, w1, w2, a, b

MCReader == {r1, r2}
MCWriter == {w1, w2}
MCByte == {a, b}

\* One reader, which may be killed, and two writers.
OneReader == {r1}
OneShape == {{r1, w1, w2}}

\* Two processes share one of the ends.
MCHolders == {{r1, r2, w1}, {r1, w1, w2}}
=============================================================================
