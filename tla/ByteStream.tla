----------------------------- MODULE ByteStream -----------------------------
(* What a pipe promises: a bounded first-in first-out queue of bytes. *)
EXTENDS Naturals, Sequences

CONSTANTS Byte, Capacity

VARIABLE queue

Init == queue = <<>>

Put(ch) == /\ Len(queue) < Capacity
           /\ queue' = Append(queue, ch)

Take == /\ queue # <<>>
        /\ queue' = Tail(queue)

Next == Take \/ \E ch \in Byte : Put(ch)

Spec == Init /\ [][Next]_queue
=============================================================================
