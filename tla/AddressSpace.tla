--------------------------- MODULE AddressSpace ---------------------------
(***************************************************************************)
(* What kernel/vm.c, exec.c and sbrk promise to user programs: a process   *)
(* has sz bytes of memory, in pages that hold zero until something else is *)
(* stored there, a forked child has a copy, exec either replaces the whole *)
(* memory or changes nothing, and no process sees another one's stores.    *)
(***************************************************************************)
EXTENDS Naturals, Sequences, SequencesExt

CONSTANTS Proc, PGSIZE, Value,
          Images    \* the memories exec can start a program with

VARIABLE space      \* [live, sz, page] of each process

None == [live |-> FALSE, sz |-> 0, page |-> <<>>]

Pages(sz) == (sz + PGSIZE - 1) \div PGSIZE

\* The memory of size sz that agrees with pg as far as both go.
Resize(pg, sz) == [k \in 1..Pages(sz) |-> IF k <= Len(pg) THEN pg[k] ELSE "zero"]

Init == \E p \in Proc, im \in Images :
          space = [q \in Proc |-> IF q = p THEN im ELSE None]

Sbrk(p, sz) ==
  /\ space[p].live
  /\ space' = [space EXCEPT ![p].sz = sz, ![p].page = Resize(@, sz)]

\* A store, or a copy of the kernel to user memory that reached these pages.
Store(p, pages, v) ==
  /\ space[p].live
  /\ space' = [space EXCEPT ![p].page =
                 [k \in DOMAIN @ |-> IF k \in pages THEN v ELSE @[k]]]

Fork(p, q) ==
  /\ space[p].live /\ ~space[q].live
  /\ space' = [space EXCEPT ![q] = space[p]]

Exec(p) ==
  /\ space[p].live
  /\ \E im \in Images : space' = [space EXCEPT ![p] = im]

Exit(p) == space' = [space EXCEPT ![p] = None]

Next == \E p \in Proc :
  \/ \E sz \in 0..(PGSIZE * (Len(space[p].page) + 2)) : Sbrk(p, sz)
  \/ \E v \in Value, S \in SUBSET (DOMAIN space[p].page) : Store(p, S, v)
  \/ \E q \in Proc : Fork(p, q)
  \/ Exec(p) \/ Exit(p)

Spec == Init /\ [][Next]_space
=============================================================================
