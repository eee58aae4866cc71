-------------------------------- MODULE Vm --------------------------------
(***************************************************************************)
(* Physical pages and user address spaces: kernel/kalloc.c, the user half  *)
(* of kernel/vm.c, kexec, and the parts of proc.c, sysproc.c and trap.c    *)
(* that allocate, grow, copy and free the memory of processes.             *)
(*                                                                         *)
(* A page table is private to its process; only the pages are shared.  An  *)
(* operation is therefore one step, in which kalloc may fail from any      *)
(* point on, since other processes may hold the pages just then: "left" is *)
(* how many pages it can still have.  Operators map the state m to the     *)
(* state after the call and leave results in m.ret and m.ok.               *)
(***************************************************************************)
EXTENDS Naturals, Sequences, FiniteSets, FiniteSetsExt

CONSTANTS Proc,      \* process slots, positive numbers
          NPAGES,    \* physical pages are 1..NPAGES
          PGSIZE,    \* bytes in a page
          W,         \* entries of a page-table page
          USERSTACK, \* pages of user stack
          Progs,     \* what exec may find in the file system
          Value,     \* what user programs store
          MaxSz,     \* bound: the size a process grows to, below the trapframe
          MaxOps     \* bound: operations in all

VARIABLES m, ops
vars == <<m, ops>>

Page == 1..NPAGES
Va == 0..W * W * W - 1              \* virtual pages below MAXVA
TRAMPOLINE == W * W * W - 1
TRAPFRAME == W * W * W - 2
TrampolinePa == NPAGES + 1          \* kernel text, never allocated
Root == <<2, 0>>
\* The page-table pages of a table: level and which part of Va they serve.
Node == {Root} \cup ({1} \X (0..W - 1)) \cup ({0} \X (0..W * W - 1))
NoPte == [pa |-> 0, perm |-> {}]
Up(n) == (n + PGSIZE - 1) \div PGSIZE     \* PGROUNDUP, in pages

-----------------------------------------------------------------------------
(* Physical pages.                                                         *)

Panic(s, why) == [s EXCEPT !.panic = why]

\* Which page of the free list it is does not matter; it is full of junk.
TakePage(s, a) ==
  [s EXCEPT !.free = @ \ {a}, !.mem[a] = "junk", !.left = @ - 1, !.ret = a]
kalloc(s) ==
  IF s.left = 0 \/ s.free = {} THEN [s EXCEPT !.ret = 0] ELSE TakePage(s, Min(s.free))

\* kfree of each page of P; one that is free already would be listed twice.
kfree(s, P) ==
  IF P \cap s.free # {} \/ ~(P \subseteq Page) THEN Panic(s, "kfree")
  ELSE [s EXCEPT !.free = @ \cup P,
                 !.mem = [a \in Page |-> IF a \in P THEN "junk" ELSE @[a]]]

-----------------------------------------------------------------------------
(* Page tables.  Table 0 is the one kexec is building.                     *)

Mapped(s, q, a) == s.pte[q][a].pa # 0      \* PTE_V

\* The page walkaddr finds, 0 if there is none for the user.
walkaddr(s, q, a) ==
  IF a \in Va /\ "U" \in s.pte[q][a].perm THEN s.pte[q][a].pa ELSE 0

StoreNode(s, q, n) ==
  IF s.ret = 0 THEN [s EXCEPT !.ok = FALSE]
  ELSE [s EXCEPT !.node[q][n] = s.ret, !.mem[s.ret] = "table"]
NeedNode(s, q, n) ==
  IF ~s.ok \/ s.node[q][n] # 0 THEN s ELSE StoreNode(kalloc(s), q, n)

\* walk(..., 1): the tables on the way to a exist, unless kalloc failed.
walk(s, q, a) ==
  NeedNode(NeedNode([s EXCEPT !.ok = TRUE], q, <<1, a \div (W * W)>>),
           q, <<0, a \div W>>)

SetLeaf(s, q, a, pa, perm) ==
  IF ~s.ok THEN s
  ELSE IF Mapped(s, q, a) THEN Panic(s, "mappages: remap")
  ELSE [s EXCEPT !.pte[q][a] = [pa |-> pa, perm |-> perm]]
mappages(s, q, a, pa, perm) == SetLeaf(walk(s, q, a), q, a, pa, perm)

\* Pages A that are mapped are unmapped, and freed if do_free.
ClearLeaves(s, q, A) ==
  [s EXCEPT !.pte[q] = [a \in Va |-> IF a \in A THEN NoPte ELSE @[a]]]
uvmunmap(s, q, A, do_free) ==
  ClearLeaves(IF do_free THEN kfree(s, {s.pte[q][a].pa : a \in {a \in A : Mapped(s, q, a)}})
                         ELSE s, q, A)

freewalk(s, q) ==
  IF \E a \in Va : Mapped(s, q, a) THEN Panic(s, "freewalk: leaf")
  ELSE [kfree(s, {s.node[q][n] : n \in Node} \ {0})
          EXCEPT !.node[q] = [n \in Node |-> 0]]

uvmfree(s, q, sz) == freewalk(uvmunmap(s, q, 0..Up(sz) - 1, TRUE), q)

proc_freepagetable(s, q, sz) ==
  uvmfree(uvmunmap(s, q, {TRAMPOLINE, TRAPFRAME}, FALSE), q, sz)

\* What was mapped of a table that could not be completed is undone.
Completed(s, q) ==
  IF s.ok THEN s
  ELSE [uvmfree(uvmunmap(s, q, {TRAMPOLINE}, FALSE), q, 0) EXCEPT !.ok = FALSE]
MapTrapframe(s, q, tf) ==
  IF s.ok THEN mappages(s, q, TRAPFRAME, tf, {"R", "W"}) ELSE s
MapTrampoline(s, q) ==
  IF s.ok THEN mappages(s, q, TRAMPOLINE, TrampolinePa, {"R", "X"}) ELSE s

\* uvmcreate, then the two pages of the kernel; m.ok tells success.
proc_pagetable(s, q, tf) ==
  Completed(MapTrapframe(MapTrampoline(
    NeedNode([s EXCEPT !.ok = TRUE], q, Root), q), q, tf), q)

-----------------------------------------------------------------------------
(* User memory.                                                            *)

\* Page mem, with its new contents, is mapped at a; given back on failure.
KeepOrFree(s, mem) == IF s.ok THEN s ELSE kfree(s, {mem})
MapFilled(s, q, a, mem, what, perm) ==
  IF mem = 0 THEN [s EXCEPT !.ok = FALSE]
  ELSE KeepOrFree(mappages([s EXCEPT !.mem[mem] = what], q, a, mem, perm), mem)
MapNew(s, q, a, what, perm) == MapFilled(s, q, a, s.ret, what, perm)

\* One page of uvmalloc: zeroed.
AllocPage(s, q, a, perm) ==
  IF s.ok THEN MapNew(kalloc(s), q, a, "zero", perm) ELSE s

\* The error paths of uvmalloc and uvmcopy; only pages of A can be mapped.
Undo(s, q, A) == IF s.ok THEN s ELSE uvmunmap(s, q, A, TRUE)

\* Pages first..last-1 are allocated in turn.
uvmalloc(s, q, oldsz, newsz, xperm) ==
  LET first == Up(oldsz)
      turn[k \in 0..TRAPFRAME] ==
        IF k = 0 THEN [s EXCEPT !.ok = TRUE]
        ELSE IF first + k > Up(newsz) THEN turn[k - 1]
        ELSE AllocPage(turn[k - 1], q, first + k - 1, {"R", "U"} \cup xperm)
  IN Undo(turn[TRAPFRAME], q, first..Up(newsz) - 1)

\* Mutant of uvmdealloc: only the size shrinks.
UvmdeallocNot(s, q, oldsz, newsz) == s

uvmdealloc(s, q, oldsz, newsz) == uvmunmap(s, q, Up(newsz)..Up(oldsz) - 1, TRUE)

\* One page of uvmcopy; pages that were never touched are not there to copy.
CopyPage(s, p, q, a) ==
  IF ~s.ok \/ ~Mapped(s, p, a) THEN s
  ELSE MapNew(kalloc(s), q, a, s.mem[s.pte[p][a].pa], s.pte[p][a].perm)

uvmcopy(s, p, q, sz) ==
  LET turn[k \in 0..TRAPFRAME] ==
        IF k = 0 THEN [s EXCEPT !.ok = TRUE]
        ELSE IF k > Up(sz) THEN turn[k - 1] ELSE CopyPage(turn[k - 1], p, q, k - 1)
  IN Undo(turn[TRAPFRAME], q, 0..Up(sz) - 1)

\* m.ok tells whether page a, below the process's size, could be allocated.
vmfault(s, p, addr) ==
  IF addr >= s.sz[p] \/ Mapped(s, p, addr \div PGSIZE) THEN [s EXCEPT !.ok = FALSE]
  ELSE AllocPage([s EXCEPT !.ok = TRUE], p, addr \div PGSIZE, {"R", "W", "U"})

\* Page a of p is there for the kernel to copy from or to.
Resident(s, p, a) ==
  IF ~s.ok \/ walkaddr(s, p, a) # 0 THEN s ELSE vmfault(s, p, a * PGSIZE)

StoreUser(s, q, a, v) ==
  IF ~s.ok \/ "W" \notin s.pte[q][a].perm THEN [s EXCEPT !.ok = FALSE]
  ELSE [s EXCEPT !.mem[s.pte[q][a].pa] = v]

\* The first n pages from page a on, in turn; the copy stops where it fails.
copyout(s, p, a, n, v) ==
  LET turn[k \in 0..n] == IF k = 0 THEN [s EXCEPT !.ok = TRUE]
                          ELSE StoreUser(Resident(turn[k - 1], p, a + k - 1), p, a + k - 1, v)
  IN turn[n]

copyin(s, p, a, n) ==
  LET turn[k \in 0..n] == IF k = 0 THEN [s EXCEPT !.ok = TRUE]
                          ELSE Resident(turn[k - 1], p, a + k - 1)
  IN turn[n]

-----------------------------------------------------------------------------
(* Processes.                                                              *)

FreeTable(s, q) ==
  IF s.node[q][Root] = 0 THEN s
  ELSE [proc_freepagetable(s, q, s.sz[q]) EXCEPT !.sz[q] = 0]

freeproc(s, q) ==
  FreeTable(IF s.tf[q] = 0 THEN s ELSE [kfree(s, {s.tf[q]}) EXCEPT !.tf[q] = 0], q)

\* A trapframe page and a page table.
WithTrapframe(s, q, tf) ==
  IF tf = 0 THEN [s EXCEPT !.ok = FALSE]
  ELSE proc_pagetable([s EXCEPT !.tf[q] = tf, !.mem[tf] = "trapframe"], q, tf)
NewTrapframe(s, q) == WithTrapframe(s, q, s.ret)
allocproc(s, q) == NewTrapframe(kalloc(s), q)

\* kfork: the memory, or nothing.
ForkCopy(s, p, q) == IF s.ok THEN uvmcopy(s, p, q, s.sz[p]) ELSE s
ForkEnd(s, p, q) ==
  IF s.ok THEN [s EXCEPT !.sz[q] = s.sz[p]] ELSE freeproc(s, q)
kfork(s, p, q) == ForkEnd(ForkCopy(allocproc(s, q), p, q), p, q)

Grown(s, p, sz) == IF s.ok THEN [s EXCEPT !.sz[p] = sz] ELSE s

\* More than there is cannot be given back: sz - n wraps and nothing happens.
TooMuch(s, p, n) == n > s.sz[p]

growproc(s, p, n, down) ==
  IF ~down THEN Grown(uvmalloc(s, p, s.sz[p], s.sz[p] + n, {"W"}), p, s.sz[p] + n)
  ELSE IF TooMuch(s, p, n) THEN s
  ELSE [uvmdealloc(s, p, s.sz[p], s.sz[p] - n) EXCEPT !.sz[p] = @ - n]

sys_sbrk(s, p, n, down, lazy) ==
  IF lazy /\ ~down THEN [s EXCEPT !.sz[p] = @ + n] ELSE growproc(s, p, n, down)

-----------------------------------------------------------------------------
(* kexec.  m.xsz is the size of the image it builds in table 0.            *)

SegPages(g) == (g.vaddr \div PGSIZE)..Up(g.vaddr + g.filesz) - 1

loadseg(s, g) ==
  IF \E a \in SegPages(g) : walkaddr(s, 0, a) = 0
    THEN Panic(s, "loadseg: address should exist")
  ELSE [s EXCEPT !.ok = ~g.short,
                 !.mem = [pa \in Page |->
                    IF pa \in {s.pte[0][a].pa : a \in SegPages(g)} THEN "file" ELSE @[pa]]]

SegGrown(s, g, sz) == IF s.ok THEN loadseg([s EXCEPT !.xsz = sz], g) ELSE s
LoadSegment(s, g) ==
  IF ~s.ok \/ g.memsz < g.filesz \/ g.vaddr % PGSIZE # 0
           \/ Max({s.xsz, g.vaddr + g.memsz}) = 0
    THEN [s EXCEPT !.ok = FALSE]
    ELSE SegGrown(uvmalloc(s, 0, s.xsz, g.vaddr + g.memsz, g.perm), g,
                  Max({s.xsz, g.vaddr + g.memsz}))

LoadAll(s, segs) ==
  LET turn[k \in 0..Len(segs)] ==
        IF k = 0 THEN s ELSE LoadSegment(turn[k - 1], segs[k])
  IN turn[Len(segs)]

\* The first of the new pages is the guard (uvmclear).
StackDone(s, base) ==
  IF ~s.ok THEN s
  ELSE [s EXCEPT !.xsz = (base + USERSTACK + 1) * PGSIZE, !.pte[0][base].perm = @ \ {"U"}]
NewStack(s, base) ==
  StackDone(uvmalloc([s EXCEPT !.xsz = base * PGSIZE], 0, base * PGSIZE,
                     (base + USERSTACK + 1) * PGSIZE, {"W"}), base)
ExecStack(s) == IF s.ok THEN NewStack(s, Up(s.xsz)) ELSE s

\* n pages of arguments at the top of the stack.
ExecArgs(s, n) ==
  IF ~s.ok THEN s
  ELSE IF n > USERSTACK THEN [s EXCEPT !.ok = FALSE]
  ELSE copyout(s, 0, Up(s.xsz) - n, n, "args")

NoTable(s) == [s EXCEPT !.node[0] = [n \in Node |-> 0], !.pte[0] = [a \in Va |-> NoPte]]

Install(s, p) ==
  NoTable([s EXCEPT !.node[p] = s.node[0], !.pte[p] = s.pte[0], !.sz[p] = s.xsz])

\* Mutant of Commit: the old image is unmapped with the new size.
CommitNewSize(s, p) == Install(proc_freepagetable(s, p, s.xsz), p)

\* The process changes over to the new image and the old one is freed.
Commit(s, p) == Install(proc_freepagetable(s, p, s.sz[p]), p)

ExecEnd(s, p) ==
  IF s.ok THEN Commit(s, p)
  ELSE IF s.node[0][Root] = 0 THEN s ELSE proc_freepagetable(s, 0, s.xsz)

kexec(s, p, g) ==
  ExecEnd(ExecArgs(ExecStack(LoadAll(
    proc_pagetable([s EXCEPT !.xsz = 0], 0, s.tf[p]), g.segs)), g.args), p)

\* sys_exec fetches each argument string to a page of its own, which it frees
\* however the call ends; the string fetched last may be a bad address.
StoreArg(s) == IF s.ret = 0 THEN [s EXCEPT !.ok = FALSE] ELSE [s EXCEPT !.argv = @ \cup {s.ret}]
FetchArgs(s, n) ==
  LET turn[k \in 0..n] == IF k = 0 THEN [s EXCEPT !.ok = TRUE]
                          ELSE IF turn[k - 1].ok THEN StoreArg(kalloc(turn[k - 1]))
                          ELSE turn[k - 1]
  IN turn[n]
FreeArgs(s) == kfree(s, s.argv)
ExecFetched(s, p, g, good) == IF s.ok /\ good THEN kexec(s, p, g) ELSE s
sys_exec(s, p, g, good) == FreeArgs(ExecFetched(FetchArgs(s, g.args), p, g, good))

-----------------------------------------------------------------------------
(* What processes do.                                                      *)

Blank == [free |-> Page, mem |-> [a \in Page |-> "junk"], left |-> NPAGES,
          node |-> [q \in Proc \cup {0} |-> [n \in Node |-> 0]],
          pte |-> [q \in Proc \cup {0} |-> [a \in Va |-> NoPte]],
          sz |-> [p \in Proc |-> 0], tf |-> [p \in Proc |-> 0],
          xsz |-> 0, argv |-> {}, ret |-> 0, ok |-> TRUE, panic |-> ""]

Ended(s) == [s EXCEPT !.left = 0, !.ret = 0, !.ok = TRUE, !.xsz = 0, !.argv = {}]
Live(p) == m.tf[p] # 0

\* The first process has started its program.
Init ==
  /\ \E g \in Progs : m = Ended(kexec(allocproc(Blank, 1), 1, g)) /\ m.sz[1] > 0
  /\ ops = 0

\* A process makes a call, which kalloc gives at most left pages.  More than
\* the call can need, pages and tables on the way to them, is no other case.
Op(p, left, need) ==
  /\ Live(p) /\ m.panic = "" /\ ops < MaxOps
  /\ left <= need /\ left <= Cardinality(m.free)
  /\ ops' = ops + 1
Given(left) == [m EXCEPT !.left = left]

Sbrk(p, left) ==
  /\ Op(p, left, 6)
  /\ \E n \in 1..PGSIZE + 1, down, lazy \in BOOLEAN :
       /\ down \/ m.sz[p] + n <= MaxSz
       /\ m' = Ended(sys_sbrk(Given(left), p, n, down, lazy))

Fork(p, left) ==
  /\ Op(p, left, NPAGES)
  /\ \E q \in Proc : ~Live(q) /\ m' = Ended(kfork(Given(left), p, q))

Exec(p, left) ==
  /\ Op(p, left, NPAGES)
  /\ \E g \in Progs, good \in BOOLEAN : m' = Ended(sys_exec(Given(left), p, g, good))

\* A read or a write system call with a buffer of two pages.
Copy(p, left) ==
  /\ Op(p, left, 6)
  /\ \E a \in Va :
       \/ \E v \in Value : m' = Ended(copyout(Given(left), p, a, 2, v))
       \/ m' = Ended(copyin(Given(left), p, a, 2))

\* A store instruction, through usertrap if the page is not there; a store
\* that is not allowed kills the process, but the first one must not die.
StoreOrDie(s, p, a, v) == IF s.ok THEN StoreUser(s, p, a, v) ELSE freeproc(s, p)
UserStore(p, left) ==
  /\ Op(p, left, 3)
  /\ \E a \in Va, v \in Value :
       LET there == {"U", "W"} \subseteq m.pte[p][a].perm IN
       /\ there \/ p # 1
       /\ m' = Ended(StoreOrDie(IF there THEN m ELSE vmfault(Given(left), p, a * PGSIZE),
                                p, a, v))

\* exit, and the parent's wait.
Exit(p, left) == Op(p, left, 0) /\ p # 1 /\ m' = Ended(freeproc(m, p))

\* The bound on operations is reached.
Done == ops = MaxOps /\ UNCHANGED vars

Next ==
  \/ \E p \in Proc, left \in 0..NPAGES :
       \/ Sbrk(p, left) \/ Fork(p, left) \/ Exec(p, left)
       \/ Copy(p, left) \/ UserStore(p, left) \/ Exit(p, left)
  \/ Done

Spec == Init /\ [][Next]_vars

-----------------------------------------------------------------------------
(* Correctness.                                                            *)

\* Every variable has its type, and nothing of kexec's table is left behind.
TypeOK ==
  /\ m.free \subseteq Page /\ ops \in 0..MaxOps
  /\ m.sz \in [Proc -> 0..MaxSz] /\ m.tf \in [Proc -> Page \cup {0}]
  /\ \A q \in Proc \cup {0} : \A n \in Node : m.node[q][n] \in Page \cup {0}
  /\ \A q \in Proc \cup {0} : \A a \in Va : m.pte[q][a].pa \in 0..NPAGES + 1

\* No panic: nothing is mapped twice (mappages), no leaf is left when a table
\* is freed (freewalk), no page is freed twice, whichever kalloc fails.
NoPanic == m.panic = ""

Uses(a) ==
  Cardinality({qn \in (Proc \cup {0}) \X Node : m.node[qn[1]][qn[2]] = a})
  + Cardinality({qa \in (Proc \cup {0}) \X (Va \ {TRAPFRAME}) : m.pte[qa[1]][qa[2]].pa = a})
  + Cardinality({p \in Proc : m.tf[p] = a})

\* Every page is free, or is used once: as a trapframe, a page-table page, or a
\* page of one user memory.  No failure of fork, exec, sbrk or a page fault
\* half way leaks a page or leaves one both free and mapped.
PagesExact == \A a \in Page : Uses(a) = IF a \in m.free THEN 0 ELSE 1

\* User pages lie below the size of the process (rounded up), which is what
\* uvmfree and uvmcopy rely on to find them all, and hold no kernel junk; the
\* trapframe and the trampoline are mapped, not for the user.
SpaceWellFormed ==
  \A p \in Proc : Live(p) =>
    /\ \A a \in 0..TRAPFRAME - 1 : Mapped(m, p, a) =>
         a < Up(m.sz[p]) /\ m.mem[m.pte[p][a].pa] # "junk"
    /\ m.pte[p][TRAPFRAME] = [pa |-> m.tf[p], perm |-> {"R", "W"}]
    /\ m.pte[p][TRAMPOLINE] = [pa |-> TrampolinePa, perm |-> {"R", "X"}]

\* Memory is exact after every call, failed half way or not: no panic, no page lost
\* or used twice, none mapped where uvmfree and uvmcopy do not look.
MemoryExact == TypeOK /\ NoPanic /\ PagesExact /\ SpaceWellFormed

\* The memory exec promises to start program g with: the file's pages, zeroes,
\* the guard and the stack, with the arguments on top.
ImageOf(g) ==
  LET text == Max({0} \cup {Up(g.segs[k].vaddr + g.segs[k].memsz) : k \in DOMAIN g.segs})
      n == text + 1 + USERSTACK
  IN [live |-> TRUE, sz |-> n * PGSIZE,
      page |-> [k \in 1..n |->
         IF \E j \in DOMAIN g.segs : k - 1 \in SegPages(g.segs[j]) THEN "file"
         ELSE IF k > n - g.args THEN "args" ELSE "zero"]]

View(p) ==
  [live |-> Live(p), sz |-> m.sz[p],
   page |-> [k \in 1..Up(m.sz[p]) |->
               IF Mapped(m, p, k - 1) THEN m.mem[m.pte[p][k - 1].pa] ELSE "zero"]]

Spaces == [p \in Proc |-> View(p)]

A == INSTANCE AddressSpace WITH
       space <- Spaces, Images <- {ImageOf(g) : g \in Progs}

\* What user programs see, pages that were never touched read as zero, behaves
\* as AddressSpace says: pages that sbrk adds are zero even after a shrink, a
\* fork copies, a failed exec or fork changes nothing, processes are isolated.
AddressSpaceSpec == A!Spec
=============================================================================
