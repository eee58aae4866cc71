# A TLA+ model of xv6

This directory specifies the xv6 kernel in `src/kernel`, with the shell and the
allocator of user programs in `src/user`: what runs concurrently, what may fail
half way and what must survive a crash. It checks the specifications with TLC on
small instances, and proves the most important results with TLAPS for every size.
File and line numbers refer to `src/`.

## The system

| part | state | operations | what makes it hard | what makes it correct |
| --- | --- | --- | --- | --- |
| logging layer (`log.c`) | log header in memory and on disk, log blocks, `outstanding`, `committing` | `begin_op`, `log_write`, `end_op`, `commit`, recovery | a crash between any two disk writes, in one, and during recovery; calls that start during a commit; a log that fills up | the disk is always as some commit left it; nobody sleeps for ever |
| processes (`proc.c`, `trap.c`, `sysproc.c`) | process table, `wait_lock`, each `p->lock`, what each CPU runs | fork, exit, wait, kill, sleep, wakeup, yield, the schedulers | locks passed from thread to thread through `swtch`; wakeups that race sleeps; kills at any moment | a stack is used by one CPU; no wakeup lost; zombies are reaped |
| pipes (`pipe.c`) | ring buffer, two counters, two open flags | read, write, close | several readers and writers on one lock; kills; counters that wrap | bytes in order; nobody sleeps who could go on; no use after free |
| buffer cache (`bio.c`, `sleeplock.c`) | buffers in LRU order, reference counts, sleep locks | `bread`, `bwrite`, `brelse`, `bpin`, `bunpin` | two processes that want one block; recycling | one buffer per block; a locked buffer has one owner |
| disk driver (`virtio_disk.c`) | descriptors, two rings, requests in flight | `virtio_disk_rw`, `virtio_disk_intr` | the device answers out of order and concurrently | each request completes once, descriptors are not leaked |
| spinlocks (`spinlock.c`) | holder, `noff`, `intena` | `acquire`, `release`, `push_off`, `pop_off` | interrupts on the CPU that holds the lock | one holder; interrupts are off while a lock is held and restored after the last |
| files (`file.c`, `sysfile.c`) | file table, descriptors, offsets | open, dup, close, fork, exit, read, write, fstat | shared references | a file is closed once, by its last reference |
| inodes and directories (`fs.c`, `sysfile.c`) | bitmap, inodes, inode table, directories | lookup, create, link, unlink, mkdir, mknod, chdir, truncate, reclaim at boot | `iput` of the last reference, calls in several locked sections, a full disk, crashes | references, links and blocks are exact; directories are a tree |
| console and uart (`console.c`, `uart.c`) | line buffer, transmitter flag, device | `consoleintr`, `consoleread`, `consolewrite`, `uartwrite`, `uartintr`, printing | interrupts against readers, three users of one transmitter | lines arrive whole and in order; a writer's interrupt is not lost |
| memory (`vm.c`, `kalloc.c`, `exec.c`) | page tables, free list | sbrk, fault, copy in and out, fork, exec, exit | failure half way, holes left by lazy growth | no page has two owners, none is lost; each process has a memory of its own |
| clock (`trap.c`, `sysproc.c`) | `ticks` | tick, pause | wrap of `ticks` | a pause ends, not before its time |
| user allocator (`umalloc.c`) | circular free list | malloc, free | splitting, coalescing, others who call sbrk | blocks do not overlap; malloc fails only without memory |
| shell (`sh.c`) | processes, descriptors, pipes | parse, run, redirect, pipe, list, background | ends of pipes left open, calls that fail | the parse follows the grammar; the prompt comes back |

The parts interact as follows. File system calls run between `begin_op` and
`end_op` and write blocks with `log_write`; the log reads and writes them through
the buffer cache, which calls the disk driver. Everything that waits uses
`sleep` and `wakeup` of `proc.c`, under a spinlock. `exit` closes files, which
closes pipes and starts file system calls. The shell is a program on top of
fork, exec, wait, pipes and descriptors.

## Modules

`Log.tla` models `log.c`. Its variables are the disk (`home`, `logd`, `head`),
`log.lh`, `outstanding` and `committing`, the contents and pins of buffers, and
a place (`pc`) for each process. A critical section under `log.lock` is one
step and so is a disk write: `begin_op`, `log_write`, `end_op` are one action
each, `commit()` is `write_log` (one block), `write_head`, `install_trans` (one
block), `clear` and `commit_done`; `recover_from_log` is `read_head`,
`recover_install` and `recover_clear`. `update` is what a file system call does
to a buffer it has locked before it calls `log_write`. The buffer cache appears
by its contract: `recycle` forgets a buffer that nobody holds and nobody
pinned, and `Contents` is what `bread` returns. `crash` loses everything but
the disk, and the block that was being written may hold anything; the header is
the exception, because its used part lies in one sector.

`AtomicDisk.tla` is what the layer promises: writes of calls go to a volatile
copy, a commit makes the copy stable in one step when no call is half done, a
crash returns to the stable state. `Log!Atomicity` maps what recovery would
produce now to `stable` and what `bread` returns now to `volatile`.

`Proc.tla` models `proc.c` and the paths of `trap.c` and `sysproc.c` to it. A
thread is the kernel thread of a process or the scheduler of a CPU; `cur[c]`
says which one CPU `c` runs. `lock[p]` and `wait_lock` are state since they are
held over several steps, `p->lock` even over `swtch`: `scheduler` takes it and
`resume` releases it in the process; `yield`, `sleep` and `zombie` take it and
`scheduler_back` releases it in the scheduler. Scans of the process table
(`wakeup`, `kkill`, `kwait`, `allocproc`, `reparent`) make one step per lock
they take. `kwait` is `wait`, `wait_scan`, `wait_decide` and `sleep`; `kexit`
is `exit`, `reparent`, `wakeup` and `zombie`; `kfork` is `fork_alloc`,
`fork_parent` and `fork_run`. A timer interrupt preempts a thread wherever it
holds no lock. `init` forks and waits and does nothing else (`user/init.c`).

`Pipe.tla` models one pipe, with the processes that share its descriptors. A
step is one turn of a loop of `pipewrite` or `piperead`, so that a kill falls
between the test of `killed` and the `sleep`. `sleep` releases `pi->lock` and
blocks in one step. `Holders` says which processes share the ends at first.
`ByteStream.tla` is the bounded queue it implements.

`Bcache.tla` models `bio.c` and `sleeplock.c`: buffers in LRU order with
reference counts and pins, and processes that go through `bget` (a hit, the
recycling of the least recently used buffer with no reference, or the panic when
there is none), `acquiresleep`, `bread`, changes, `bwrite`, `releasesleep` and
`brelse`. A process has up to two buffers, one in each `Hand`: `write_log` and
`install_trans` hold a log block and a home block, `bmap` and `itrunc` an indirect
block and one of the bitmap. `Nested` has the pairs of blocks that are held
together. A critical section under `bcache.lock`, or under the spinlock of a sleep
lock, is one step, and a panic stops the machine (`panicked`). The
transfer of `bread` and `bwrite` is one step here; `VirtioDisk` is about it.
`BlockMemory.tla` is what processes rely on: one memory of blocks, in which only
the one holder of a block changes it. `Log` uses this contract. A modified
buffer is not released before it is written or pinned, and not unpinned before
it is written: that is how `log_write` and `install_trans` behave.

`VirtioDisk.tla` models `virtio_disk.c` and, as its environment, the device. A
process has one locked buffer and no two have the same sector, as the buffer
cache sees to. `virtio_disk_rw` is `alloc` (or `alloc_fail` and sleep), which
fills descriptors and the avail entry, `publish`, which advances `avail->idx`
and sleeps, and `finish`; `virtio_disk_intr` is `intr_enter` (the
acknowledgement), `intr_loop` and `intr_exit`. `lock` is `vdisk_lock`, held over
several steps while the device works on (`fetch`, `serve`). The device follows
the chain as it finds it in memory, so a descriptor freed or reused too early
would move the wrong data. `kill` wakes sleepers before their time.

`Inode.tla` is the lower half of `fs.c` as operators on a record that holds
bitmap, inodes on disk, inode table and directory contents: `balloc`, `bfree`,
`ialloc`, `iget`, `ilock`, `iupdate`, `bmap`, `itrunc`, `readi`, `writei`,
`dirlookup`, `dirlink`, and the image `mkfs` writes. Sizes count directory
entries; the bytes of files are not told apart. A panic of the code is recorded
in the state and ends the run. `FileSys.tla` runs the calls of `sysfile.c` and `file.c` over it,
by several processes. A step is what a process does with an inode locked.
Path lookup makes one step per element, `link`, `unlink` and `create` as many as
they take locks, and `iput` three: the test under `itable.lock`, the freeing
under the sleep lock alone, and the drop of the reference. A crash falls between
transactions, which is what `Log` makes of any crash; `ireclaim` then runs one
inode at a time. `lost` is a history variable: the inodes that a directory still
named when it was freed (see Disagreements).

`Vm.tla` models `kalloc.c`, the user half of `vm.c` with the pages of the page
tables, `growproc` and lazy `sbrk`, `vmfault`, `copyin`, `copyout`, `uvmcopy`,
`kexec` with the argument pages of `sys_exec`, and the freeing of a process. A
page table is private, so an operation is one step; what the others do meanwhile
is that `kalloc` may fail from any point on. `AddressSpace.tla` is what programs
see: a memory of `sz` bytes per process, zero until written, copied by fork,
replaced as a whole by exec or not at all.

`SpinLock.tla` models `spinlock.c` on CPUs whose interrupt handlers acquire locks
too. The swap, the store of `lk->cpu` and the release are separate steps.
`Console.tla` models `console.c`, `uart.c` and printing; the UART is its
environment, and `LineDiscipline.tla` what a reader of the console relies on.
`Clock.tla` models `clockintr` and `sys_pause`. `Umalloc.tla` models the ring of
free blocks, in units of a header. `ShParse.tla` has the recursive-descent parser
of the shell, and beside it a grammar, a predicate on lines and commands. The two
share the tokens of `gettoken` and the building of redirections (`Wrap`); what the
grammar checks is the descent: which commands a line is made of and how they nest.
`Shell.tla` models `runcmd`: processes, their
open files, and who waits for whom; calls of the kernel may fail.

`MCLog`, `MCProc`, `MCPipe`, `MCBcache`, `MCVirtioDisk` and `MCFileSys` give the
constants values for TLC. `MCLive` and `MCParts` put several instances side by
side: a variable says which of them moves in a behaviour, and each property is
about one of them.

## Runs

| run | instance | shows |
| --- | --- | --- |
| `log_atomic` | 3 processes, 2 blocks, 2 values, log of 5 blocks, 2 reserved per call | refinement of `AtomicDisk`, `DurableWhenQuiet`, `CommitAlone` |
| `log_live` | 3 processes, 4 blocks, log of 4, 2 reserved per call, 1 written | `log_write` never panics; a sleeper in `begin_op` has a waker and is woken |
| `proc_safe` | 2 CPUs, 3 slots, 3 pids | stacks, `sched` panics, parents, lost wakeups, pids, kills of processes only |
| `pipe` | 1 reader, which may be killed, and 2 writers; 2 bytes, ring of 2, calls of up to 2, counters modulo 4 | FIFO across the wrap, no use after free, nobody sleeps who could go on, a call returns when the other end closes |
| `bcache_coherent` | 2 processes, 3 blocks, 2 of which are read under the third, 2 values, 2 buffers, 1 pin | refinement of `BlockMemory`; locks and reference counts are exact, `bget` panics only when every buffer is in use, no lost wakeup |
| `virtio_safe` | 3 processes and sectors, 2 values, 8 descriptors, counters modulo 8 | the right data moves; descriptors are exact; no completion or wakeup is lost |
| `live` | spinlocks: 2 CPUs, 2 locks, 1 more `push_off`; driver: 2 processes and sectors, 8 descriptors; processes: 1 CPU, 3 slots, 3 pids, one of which is killed | mutual exclusion under interrupts; a request given to the device returns; orphans are reaped, killed processes exit |
| `fs` | 2 processes, 4 calls, 1 crash; 4 inodes, 3 of them in memory, 4 blocks of 4 entries, 1 direct and 1 indirect address, 2 descriptors and 2 files | references, blocks, links, tree and descriptors are exact, unlocked inodes are written back, no panic but that of a full inode table, orphans are reclaimed at boot |
| `parts` | console: buffer of 3, counters modulo 6, three loads; clock modulo 8; memory: 2 processes, 22 pages, tables of 2 entries, 4 operations; heap of 7 units; parser: every line of up to 4 characters, and up to 6 of smaller alphabets; shell: six scripts, 1 failing call | `LineDiscipline`, no lost interrupt, bounded FIFO; pauses; `AddressSpace`, no page lost or shared; the heap is partitioned and coalesced; the parser agrees with the grammar; descriptors, order and return of the shell |

`proc_kill`, `pipe_killed` and `fs_reuse` are under Disagreements.

Where several invariants are sides of one promise, the run checks their
conjunction, named for it; each conjunct has a definition and a comment of its own,
and the type invariant of the module is among them. `PROJECT.json` has one
mutation of the code for each property of a run, so for a conjunction it shows that
one side of it can fail.

| property | is the conjunction of |
| --- | --- |
| `Proc!TableConsistent` | `RunningIsOnCpu`, `ParentLives`, `PidsUnique`, `KilledIsProcess` |
| `Pipe!RingSafe`, `NobodyStranded`, `CallsReturn` | `FreedUnused`; `WriterNotStranded`, `ReaderWoken`; `ReadReturns`, `WriteReturns` |
| `Bcache!BuffersExact` | `RefcntExact`, `OwnsBuffer`, `BgetSafe` |
| `VirtioDisk!RingsExact`, `NobodyStranded` | `DescriptorsExact`, `UsedEntriesValid`; `CompletionNotLost`, `AllocatorNotStranded`, `SleeperBusy` |
| `FileSys!InUseSafe`, `CountsExact`, `DiskExact`, `TreeExact` | `NoPanic`, `InUseStaysAllocated`; `RefsExact`, `FilesExact`; `BlocksExact`, `InodeWritten`; `NamesCounted`, `LinksExact`, `DirsAreTree` |
| `Console!ConsoleSafe` | `ReaderNotStranded`, `FullIsReadable`, `FifoBounded` |
| `Clock!PauseExact` | `PauseLongEnough`, `PauseNoLonger` |
| `Vm!MemoryExact` | `NoPanic`, `PagesExact`, `SpaceWellFormed` |
| `Umalloc!HeapExact` | `HeapPartitioned`, `ListCoalesced`, `FailsOnlyWhenFull` |
| `Shell!RunsAsWritten` | `Plumbed`, `ListInOrder`, `PromptAfterCommand`, `ShellReturns` |

*Bounds.* Two blocks let a transaction hold one block and miss another, and
three processes let one commit, one sleep and one run; with a log of 5 and 2
reserved, two calls share a transaction and the third must wait. The log of
`log_live` has room for exactly two reservations, and there are more blocks
than a transaction may hold. Three slots give `init`, a parent and a child, so
that the child can be orphaned while it exits and a slot is reused. The
wakeup of init in `reparent` decides nothing at this size, since the process
that exits is then a child of init and wakes it anyway; it would take four
slots, a great-grandchild of init, whose graph is too large for TLC here. Counters of
a pipe modulo 4 wrap after two fills of the ring, and a write of 2 bytes to
a ring that holds one must sleep in the middle. One reader and two writers are
enough for a write to be split by another; what several readers do to the safety
properties is covered by the proof, which is for any number of both.
Three blocks on two buffers make the
cache recycle buffers with contents; two processes, two buffers of one process, or
one and a pin take both, so that the next `bget` panics. Four hands on three buffers
are out of TLC's reach here, and are left to the proofs. Eight descriptors, as in
the code, serve two requests, so the third process waits; the ring counters wrap
after eight requests. `kill` of `proc_safe` is given the pids of `init` and of the
first process it makes, which may be a child, a parent or gone with its slot in use
again; the second process is killed only by its own faults. The `init` that is
killed stays at its `exit`, where the code panics. The proofs are for any pids but
0 (see Disagreements).

In `fs` four inodes are the root, the file of the image and two more, so that
`ialloc` fails and reuses numbers; the inode table holds three, so that a call that
needs a fourth panics ("iget: no inodes"); four blocks run out while a directory gets its
first block or a file its indirect one. Four calls suffice to make a directory,
enter it, remove it and use it, and to have a crash between an unlink and the
last close. The calls are those `MCFileSys` lists: paths that lead through ".."
are not among them. In `parts` the console's buffer fills up, with counters that
start just before their wrap; a tick counter modulo 8 wraps within two pauses of
3; 22 pages are two processes with all their page tables and a new image, and
every smaller number is tried since `kalloc` may fail at any point; seven units of
heap are up to three calls of `morecore`, which asks for 2 at least and gets
requests for up to 3. The scripts of the shell have a pipe of three,
a list in parentheses in a pipe, background jobs, redirections and a line that
does not parse. `MaxPid`, `OpBudget`, `MaxN`, `MaxPins`, `MaxCalls`, `MaxCrash`,
`MaxOps`, `MaxSz`, `MaxUnits`, `MaxTop`, `MaxFaults`, `MaxOff`, `Loads` and the
moduli are bounds that the code lacks or has larger.

*Fairness.* `Log`: a process inside `log_write`, `brelse` or `commit` runs on,
and a call ends; nothing makes a call begin or the machine crash. `Proc`: the
steps of switching are weakly fair; timer interrupts recur (`trap.c:174-177`)
and a thread that is on a CPU again and again makes its next step at some time
between them (strong fairness), as `init` does with `wait`. No program has to
make a system call or to exit. `Pipe`: a process in the pipe code runs on, and
a spinlock that is free again and again is obtained; nobody has to call or
close. `VirtioDisk`: the device serves what it was given and its interrupts are
taken, the handler and a process in the driver run on, and `vdisk_lock`, free
again and again, is obtained; who gets descriptors is left open, and so whether
a process that waits for them ever does. `Bcache` has no liveness property:
whoever is woken in `acquiresleep` may find the lock taken again and again, and
`SleeperLocked` says what the code does guarantee. `Console`: the UART
transmits, interrupts are taken, and code that is not asleep runs on; nobody has
to type, to print or to call. `FileSys`, `Vm`, `Clock`, `SpinLock`, `Umalloc` and
`Shell` have safety properties only; where somebody could be stuck they say so as
an invariant (`PauseNoLonger`, `ShellReturns`). Spinlocks of RISC-V are not fair
in theory; without this assumption nothing that waits for a lock is live.

## Disagreements

Three runs are expected to fail; each states what the source says of itself.

* `proc_kill`: `kwait` tests `killed(p)` and sleeps later; a `kkill` on another
  CPU in between wakes nobody, although `proc.c:599` says "Wake process from
  sleep()." The same window exists wherever `killed` is tested before `sleep`.
  It needs two CPUs: on one, the spinlock keeps interrupts off.
* `pipe_killed`: a killed writer leaves `pipewrite` without the wakeup of its
  other exits (`pipe.c:84-87`) and leaves a reader asleep on a pipe with data.
* `fs_reuse`: `iput` frees an inode and gives up its lock before it drops its
  reference (`fs.c:347-361`). Another process may in between be given the same
  number, make a file of it and remove it; it finds two references and leaves the
  freeing to the other, which does not look again. The inode stays allocated, with
  neither name nor reference, until the next boot, although `fs.c:333-334` says
  "If that was the last reference and the inode has no links to it, free the
  inode (and its content) on disk."

More was met on the way, for which there is no run.

* `kkill` does not look at the state of a slot, and a free slot has pid 0: `kill(0)`
  marks it killed (`proc.c:596`), `allocproc` does not clear the mark, and the next
  process made there exits at its first trap. `proc.c:586` says "Kill the process
  with the given pid." With 0 among `KillPids`, `KilledIsProcess` fails.
* `bget` panics when every buffer is in use (`bio.c:88`), although `bio.c:56-57` says
  "If not found, allocate a buffer. In either case, return locked buffer." Nothing
  keeps the users below `NBUF`, which is 30 with 64 processes (`LAB_FS` has 10): a
  read is not part of a transaction, so that 31 processes that read different blocks are enough, and fewer
  when the log has pinned buffers or a process holds two. The run reaches the panic on
  its two buffers. What the code does guarantee is `BgetSafe`: no buffer is lost, so
  the panic comes only when all are really in use. In the same way `iget` panics when
  `NINODE` inodes are in use (`fs.c:268`).
* A name may be made in a directory that was removed while a process was in it
  (`dirlink` does not look at `nlink`): the new inode has a link that no path
  reaches, and keeps it when the directory is freed. `LinksExact` leaves these inodes
  out (`lost`). The ".." of such a directory may be a number that was freed.
* The lazy path of `sbrk` (`sysproc.c:58`) does not keep the size below TRAPFRAME.
* `malloc` of 2^27 units or more passes `sbrk` a negative number (`umalloc.c:54`).
* `log_write` tests for a full log before it looks for the block in it (`log.c:221`):
  a call that has used its whole reservation could not log one of its blocks again
  when the log is full. `LogWritesAreSafe` therefore has a strict bound.
* `mkfs` rounds the size of the root directory up even if it is a multiple of a
  block (`mkfs.c:168`), which leaves a hole in it; `FileSysAssumption` excludes it.

## Proofs

The theorems hold for every value of the constants that satisfies the assumptions
of the module: any number of processes, CPUs, buffers, descriptors or blocks. They
have the form `Spec => []P` or `Spec => Abstract!Spec`. In each module the property
is not inductive as it stands, and `IInv` adds what it rests on. There is one lemma
for each action, and in it one step for each conjunct the action can disturb.

| module | theorem | run property | assumes |
| --- | --- | --- | --- |
| `LogProofs` | `TypeCorrect`, `CommitIsAlone`, `QuietIsDurable`, `NoLostWakeup` | `TypeOK`, `CommitAlone`, `DurableWhenQuiet`, `SleeperHasWaker` | finitely many processes, `0 < MAXOPBLOCKS <= LOGBLOCKS` |
| `LogProofs` | `LogWritesAreSafe` | `LogWriteSafe` | also `OpBudget < MAXOPBLOCKS` |
| `LogProofs` | `ReservationSuffices` | | also `OpBudget <= MAXOPBLOCKS` |
| `LogProofs` | `Refinement` | `Atomicity` | as the first line |
| `SpinLockProofs` | `Exclusion`, `SafeFromInterrupts` | `MutualExclusion`, `HolderNotInterrupted` | finitely many locks, taken in one order |
| `PipeProofs` | `RingIsSafe`, `NobodyIsStranded`, `PipeIsFifo` | `RingSafe`, `NobodyStranded`, `Fifo` | `PIPESIZE` divides the modulus and is smaller |
| `ProcProofs` | `StacksAreSafe`, `SchedIsSafe`, `NoExitIsMissed`, `TableIsConsistent` | `StackInUse`, `SchedSafe`, `ExitNotMissed`, `TableConsistent` | `NPROC > 0`; for `KilledIsProcess` that `kill(0)` is not called |
| `BcacheProofs` | `BuffersAreExact`, `SleepersAreLocked`, `CacheIsCoherent` | `BuffersExact`, `SleeperLocked`, `Coherent` | finitely many processes, at least one buffer |
| `VirtioDiskProofs` | `RingsAreExact`, `NobodyIsStranded`, `RequestsAreServed` | `RingsExact`, `NobodyStranded`, `Served` | `NUM` divides the modulus |
| `ConsoleProofs` | `ConsoleIsSafe`, `ConsoleKeepsDiscipline` | `ConsoleSafe`, `Discipline` | `Sizes`: `INPUT_BUF_SIZE` divides the modulus and is smaller, the loads are typed |

*Log.* `IInv` is `Counted` (`outstanding` is the number of calls inside, so that
the last `end_op` really is the last), `Alone` (one committer, and then no call),
`Fits` (no block twice in the log), `Pinned` and `Clean` (a buffer differs from its
home location only when it is locked and modified, or logged and not yet installed,
and then it is pinned), `Phases` (which part of log, header and home locations is
written at each place of the committer) and `Booting` (the same for recovery).
`NoLostWakeup` needs one thing more: with nobody inside and no commit the log is
empty, and `MAXOPBLOCKS <= LOGBLOCKS` then lets `begin_op` through. In the
refinement the header write is the abstract commit: at that moment the log blocks
equal what `bread` returns (`Phases`) and every other block equals its home
location (`Clean`). Writing log blocks is invisible while the header is clear,
installing and torn installing because the header names the block, erasing because
everything is installed.

The reservation is a set, `Reserve`: the slots that the calls inside have reserved
and not used. `Room` says that the log and `Reserve` together fit in the log;
`begin_op` establishes it and a `log_write` moves one slot from the one to the
other. `ReservationSuffices` says that there is room for each block that is not in
the log yet. `LogWritesAreSafe` needs a budget one smaller: `log_write` looks for a
full log before it looks for the block in it (`log.c:221`).

*SpinLock.* `Nesting`: `noff` is the number of locks the CPU holds, plus one for
the lock it is acquiring or releasing, plus the extra calls. So `noff` is 0 only
when nothing is held, and the `pop_off` that enables interrupts is the last.
`Masked` says that interrupts are off while `noff` is positive and in handlers;
`Owned` says who is between the swap and the release of a lock, in which window
`lk->cpu` is 0. `SafeFromInterrupts` includes that no panic of `acquire`, `release`
or `pop_off` is met.

*Pipe.* `NobodyStranded` speaks of states in which `pi->lock` is free. Through a
critical section `IInv` carries who still owes the sleepers a wakeup (`Owed`), which
rests on who holds the lock (`Locking`), on what a process found out before it
sleeps (`Waiting`), and on the open flags and the descriptors (`Ends`). The FIFO
refinement has the bytes between the counters as the queue, and needs that there are
at most `PIPESIZE` of them (`Bounded`) so that a byte is not overwritten.

*Proc.* `Switching` says which thread a CPU runs or is about to leave and who holds
its `p->lock`; `WaitLocked` that one thread at a time is in the code under
`wait_lock`; `Forking` that the new process of a fork that is not finished stays
USED; `Orphaned` that nobody is the child of a process that has exited; `Wakeups`
which wakeup is still to come for a parent asleep in `kwait`. The last is where the
order of `kexit` matters: `reparent` and the wakeup of the parent come before
`wait_lock` is released, and the scan of `kwait` has passed no zombie.

*Bcache.* The counts of `RefcntExact` keep a buffer from being recycled, so a
user's buffer keeps its block (`Wanted`) and is the only one of it (`OneCopy`).
`Owners` says that the sleep lock belongs to one user, `Clean` that a buffer that
differs from the disk is held or pinned: recycling therefore loses nothing, which is
the refinement. A user is a hand of a process, and the proofs need neither `Nested`
nor that a process is in one call at a time. They do not bound the users by `NBUF`:
a `bget` that finds no buffer panics, and by the counts every buffer then has a user
or a pin.

*VirtioDisk.* The chains belong to requests (`Chained`, `ChainsApart`, `FreeRest`).
A posted request is in exactly one of three places, the avail entries the device has
not seen, the device, or the used entries the driver has not seen (`Posting`), and
until the device has served it its transfer is still to be done (`Transfers`).
`RingLemmas` has the arithmetic: as long as fewer than `NUM` entries are between two
counters of a modulus that `NUM` divides, an entry that is put in overwrites none.

*Console.* The handler tests for room, echoes and then stores, and the echo takes
several steps; `Storing` says that the room it saw is still there, which rests on who
holds `cons.lock` (`Locking`). `Full` is `FullIsReadable` inside the handler too: a
buffer that fills up is committed in the step that fills it, since otherwise nothing
could be typed or read any more. `Racing` bounds the FIFO of the UART: `printf` and
the echo may both have seen an idle transmitter and not have written yet, and each of
them, and one writer of `uartwrite`, adds one character at most. `Printing` says that
a `printf` under way has a character left. The refinement of `LineDiscipline` maps the
parts of the ring between the indices to sequences (`Slice`), with the lemmas of
`RingLemmas`: a character stored at `e` extends the line and touches nothing that is
still to be read, editing shortens the line and never what is committed, and a `^D`
that a read finds after other characters stays for the next one.

Only model-checked: liveness (`SleeperWakes`, `CallsReturn`, `RequestCompletes`,
`ZombieReaped`, `KillTakesEffect`, `WriterGoesOn`), which TLAPS does not prove, and
everything about `FileSys`, `Vm`, `Clock`, `Umalloc`, `Shell` and its parser. The
states of `FileSys` and `Vm` are records that folds pass over, and `Umalloc`, the
parser and `Shell` are defined by recursion over lists, lines and commands: what they
compute takes induction over data, which is out of reach of the provers.

## Not modelled

* Assembly, boot, the PLIC and device setup: register moves. `swtch` is there, as
  the steps of `Proc` that pass a CPU from thread to thread.
* The kernel's own page table (`kvmmake`), built once, and `copyinstr`.
* Formatted output, memory and string functions.
* User programs other than the shell and its allocator: sequential clients of the
  kernel. The tests were read for what they expect.
* The fetching of system call arguments, beyond what exec, write and path lookup do
  when it fails.
* `sys_pipe`: the pair of descriptors is in `Shell`, as the shell uses it; an end of
  a pipe among the open files of `FileSys` is not.
* Contents of files, and the number of blocks a call logs: that filewrite keeps to
  its reservation (`file.c:153`) is an assumption of `log_live` and of the theorems
  about the reservation (`OpBudget`).
* Contents of memory within a page: `Vm` tells pages apart. A shrink that stays
  within a page keeps what is in it (`vm.c:252`), and the same bytes are seen when
  the memory grows again; that grown memory reads as zero is shown for whole pages.
* 32-bit overflow of `off + n` in `readi` and `writei`, and of addresses in program
  headers.

What is left to prove: for `Clock` that a pause is exact, which is arithmetic modulo
the width of `ticks`, and for `FileSys` that references are exact.
