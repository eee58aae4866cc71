--------------------------- MODULE LineDiscipline ---------------------------
(***************************************************************************)
(* What the console promises of its input: a line is edited until it is    *)
(* ended or the buffer is full, and only then can it be read, from its     *)
(* first character on.                                                     *)
(***************************************************************************)
EXTENDS Naturals, Sequences

CONSTANTS Stored,     \* characters that are kept
          Ends,       \* those of them that end a line
          Capacity

VARIABLES ready,      \* characters that can be read
          line        \* the line that is being edited

Init == ready = <<>> /\ line = <<>>

Type(c) ==
  /\ Len(ready) + Len(line) < Capacity
  /\ IF c \in Ends \/ Len(ready) + Len(line) + 1 = Capacity
       THEN ready' = ready \o Append(line, c) /\ line' = <<>>
       ELSE line' = Append(line, c) /\ UNCHANGED ready

Erase == /\ line # <<>>
         /\ line' = SubSeq(line, 1, Len(line) - 1)
         /\ UNCHANGED ready

Read == /\ ready # <<>>
        /\ ready' = Tail(ready)
        /\ UNCHANGED line

Next == (\E c \in Stored : Type(c)) \/ Erase \/ Read

Spec == Init /\ [][Next]_<<ready, line>>
=============================================================================
