------------------------------ MODULE Umalloc -------------------------------
(***************************************************************************)
(* malloc and free of user/umalloc.c, called in any order by one program   *)
(* that may also call sbrk itself.                                         *)
(*                                                                         *)
(* An address counts headers: the heap starts at 1 and base, in the data   *)
(* segment below it, is 0.  hdr holds s.ptr and s.size wherever there is a *)
(* header of a block; everywhere else is what the program left there.      *)
(***************************************************************************)
EXTENDS Integers, FiniteSets

CONSTANTS MinCore,     \* units morecore asks for at least (4096)
          MaxTop,      \* the memory the process can get
          MaxUnits     \* bound: units one malloc asks for, its header included

VARIABLES hdr,         \* ptr and size at an address
          freep,       \* -1: not yet set
          top,         \* the break: sbrk(0)
          blocks,      \* addresses of the blocks malloc returned and free did not get
          foreign,     \* units the program got from sbrk for itself
          failed       \* units malloc returned 0 for at the last call, or 0

vars == <<hdr, freep, top, blocks, foreign, failed>>

Base == 0
Null == -1
Addr == Base..MaxTop
NoHeader == [ptr |-> Null, size |-> 0]

TypeOK ==
  /\ hdr \in [Addr -> [ptr : Addr \cup {Null}, size : 0..MaxTop]]
  /\ freep \in Addr \cup {Null}
  /\ top \in 1..MaxTop
  /\ blocks \subseteq Addr
  /\ foreign \subseteq Addr
  /\ failed \in 0..MaxUnits

Init == /\ hdr = [a \in Addr |-> NoHeader]
        /\ freep = Null
        /\ top = 1
        /\ blocks = {} /\ foreign = {}
        /\ failed = 0

\* The loop of free from p on: the block of the free list after which b goes,
\* at the end of the list if b is above or below all of it.
RECURSIVE Place(_, _, _)
Place(m, b, p) ==
  IF \/ b > p /\ b < m[p].ptr
     \/ p >= m[p].ptr /\ (b > p \/ b < m[p].ptr)
    THEN p
    ELSE Place(m, b, m[p].ptr)

\* Join b with the block that follows it, or link it to that block.
\* Mutant of JoinUpper: it is only linked.
LinkUpper(m, b, next) == [m EXCEPT ![b].ptr = next]
JoinUpper(m, b, next) ==
  IF b + m[b].size = next
    THEN [m EXCEPT ![b] = [ptr |-> m[next].ptr, size |-> m[b].size + m[next].size]]
    ELSE [m EXCEPT ![b].ptr = next]

\* Join p, the block before it, with b, or link p to b.
JoinLower(m, b, p) ==
  IF p + m[p].size = b
    THEN [m EXCEPT ![p] = [ptr |-> m[b].ptr, size |-> m[p].size + m[b].size]]
    ELSE [m EXCEPT ![p].ptr = b]

Insert(m, b, p) == JoinLower(JoinUpper(m, b, m[p].ptr), b, p)

\* The state of the allocator that an operation works on.
Heap == [hdr |-> hdr, freep |-> freep, top |-> top, ret |-> Null, core |-> TRUE]

\* free of the block with its header at b, which p precedes.
FreeAt(s, b, p) == [s EXCEPT !.hdr = Insert(s.hdr, b, p), !.freep = p]
free(s, b) == FreeAt(s, b, Place(s.hdr, b, s.freep))

\* morecore: sbrk succeeds if the memory is there.
Core(nu) == IF nu < MinCore THEN MinCore ELSE nu
Grow(s, nu) == free([s EXCEPT !.hdr[s.top].size = nu, !.top = @ + nu], s.top)
morecore(s, nu) == IF s.top + Core(nu) > MaxTop THEN [s EXCEPT !.core = FALSE]
                   ELSE Grow(s, Core(nu))

\* Cut nunits off the tail of the block at p.
Split(m, p, nunits) == [m EXCEPT ![p].size = @ - nunits,
                                 ![p + m[p].size - nunits].size = nunits]

\* Take the block at p, which prevp precedes, or its tail.
Take(s, p, prevp, nunits) ==
  IF s.hdr[p].size = nunits
    THEN [s EXCEPT !.hdr[prevp].ptr = s.hdr[p].ptr, !.freep = prevp, !.ret = p]
    ELSE [s EXCEPT !.hdr = Split(s.hdr, p, nunits), !.freep = prevp,
                   !.ret = p + s.hdr[p].size - nunits]

\* The loop of malloc.  After morecore it goes on from freep, or gives up.
RECURSIVE Search(_, _, _, _)
RECURSIVE Resume(_, _)
Search(s, p, prevp, nunits) ==
  IF s.hdr[p].size >= nunits THEN Take(s, p, prevp, nunits)
  ELSE IF p = s.freep THEN Resume(morecore(s, nunits), nunits)
  ELSE Search(s, s.hdr[p].ptr, p, nunits)
Resume(s, nunits) ==
  IF s.core THEN Search(s, s.hdr[s.freep].ptr, s.freep, nunits) ELSE s

\* The first call makes the list of base alone.
Started(s) == IF s.freep # Null THEN s
              ELSE [s EXCEPT !.hdr[Base] = [ptr |-> Base, size |-> 0], !.freep = Base]
malloc(s, nunits) == Search(s, s.hdr[s.freep].ptr, s.freep, nunits)

\* The blocks of the free list of m, base excluded.
RECURSIVE Chain(_, _, _)
Chain(m, p, seen) == IF p \in seen THEN seen ELSE Chain(m, m[p].ptr, seen \cup {p})
FreeBlocks(m) == Chain(m, Base, {}) \ {Base}

\* What is left in memory: a block the program has keeps its size; a header
\* that is no longer one may hold anything.
Settled(m, listed, given) ==
  [a \in Addr |-> IF a \in listed THEN m[a]
                  ELSE IF a \in given THEN [m[a] EXCEPT !.ptr = Null]
                  ELSE NoHeader]

Settle(s, given) ==
  /\ hdr' = Settled(s.hdr, FreeBlocks(s.hdr) \cup {Base}, given)
  /\ freep' = s.freep /\ top' = s.top
  /\ blocks' = given

\* The program calls malloc, free with a block it has, and sbrk.
Malloced(s, nunits) ==
  /\ Settle(s, IF s.ret = Null THEN blocks ELSE blocks \cup {s.ret})
  /\ failed' = IF s.ret = Null THEN nunits ELSE 0
  /\ UNCHANGED foreign
Malloc(nunits) == Malloced(malloc(Started(Heap), nunits), nunits)

Free(b) == /\ b \in blocks
           /\ Settle(free(Heap, b), blocks \ {b})
           /\ failed' = 0
           /\ UNCHANGED foreign

Sbrk == /\ top < MaxTop
        /\ top' = top + 1
        /\ foreign' = foreign \cup {top}
        /\ failed' = 0
        /\ UNCHANGED <<hdr, freep, blocks>>

Next == \/ \E nunits \in 1..MaxUnits : Malloc(nunits)
        \/ \E b \in Addr : Free(b)
        \/ Sbrk

Spec == Init /\ [][Next]_vars

-----------------------------------------------------------------------------
(* Properties                                                              *)

Listed == IF freep = Null THEN {} ELSE FreeBlocks(hdr)
Units(b) == b..(b + hdr[b].size - 1)

\* Every unit of the heap is in exactly one block: one the program has, one of
\* the free list, or what it got from sbrk itself.  So no two blocks overlap,
\* none is lost and none is handed out twice.
HeapPartitioned ==
  /\ UNION {Units(b) : b \in blocks \cup Listed} \cup foreign = 1..top-1
  /\ \A b, d \in blocks \cup Listed : b # d => Units(b) \cap Units(d) = {}
  /\ \A b \in blocks \cup Listed : Units(b) \cap foreign = {}

\* The free list is a ring in the order of the addresses, through base, and no
\* two free blocks adjoin: free joined them.
ListCoalesced ==
  freep # Null =>
    /\ freep \in Listed \cup {Base}
    /\ \A b \in Listed \cup {Base} :
         LET above == {d \in Listed : d > b}
         IN  hdr[b].ptr = IF above = {} THEN Base ELSE CHOOSE d \in above : \A x \in above : d <= x
    /\ \A b, d \in Listed : d # b + hdr[b].size

\* malloc fails only if no free block is large enough and the memory is gone.
FailsOnlyWhenFull ==
  failed # 0 => /\ top + Core(failed) > MaxTop
                /\ \A b \in Listed : hdr[b].size < failed

\* malloc, free and morecore keep the heap exact: partitioned, coalesced, and
\* used up before malloc fails.
HeapExact == TypeOK /\ HeapPartitioned /\ ListCoalesced /\ FailsOnlyWhenFull
=============================================================================
