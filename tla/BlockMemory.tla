----------------------------- MODULE BlockMemory -----------------------------
(***************************************************************************)
(* What the buffer cache promises: one copy of every disk block, which one *)
(* process at a time may hold, read and write.                             *)
(***************************************************************************)
CONSTANTS Proc, Block, Value, Zero

VARIABLES mem,       \* contents of each block
          holders    \* the processes that hold each block

vars == <<mem, holders>>

Init == /\ mem = [k \in Block |-> Zero]
        /\ holders = [k \in Block |-> {}]

Hold(p, k) == /\ holders[k] = {}
              /\ holders' = [holders EXCEPT ![k] = {p}]
              /\ UNCHANGED mem

Write(p, k, v) == /\ holders[k] = {p}
                  /\ mem' = [mem EXCEPT ![k] = v]
                  /\ UNCHANGED holders

Drop(p, k) == /\ holders[k] = {p}
              /\ holders' = [holders EXCEPT ![k] = {}]
              /\ UNCHANGED mem

Next == \E p \in Proc, k \in Block :
          Hold(p, k) \/ Drop(p, k) \/ \E v \in Value : Write(p, k, v)

Spec == Init /\ [][Next]_vars
=============================================================================
