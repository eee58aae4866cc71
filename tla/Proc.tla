-------------------------------- MODULE Proc --------------------------------
(***************************************************************************)
(* Processes of kernel/proc.c: the process table, the per-CPU schedulers,  *)
(* context switches under p->lock, fork, exit, wait and kill, and the      *)
(* yields of kernel/trap.c.                                                *)
(*                                                                         *)
(* A thread is a process's kernel thread or a CPU's scheduler.  A step is  *)
(* what a thread does under one spinlock; wait_lock and p->lock are state  *)
(* because they are held across steps, p->lock even across swtch.  The     *)
(* scans of the process table take one step per lock they acquire.         *)
(***************************************************************************)
EXTENDS Naturals, FiniteSets

CONSTANTS NPROC,     \* size of the process table
          Cpu,       \* CPUs
          NoCpu,     \* the lk->cpu of a free lock
          MaxPid,    \* bound: pids given out
          KillPids   \* pids user programs pass to kill

ASSUME NPROCAssumption == NPROC \in Nat \ {0}
ASSUME CpuAssumption == NoCpu \notin Cpu
ASSUME PidAssumption == MaxPid \in Nat /\ KillPids \subseteq Nat

Slot == 1..NPROC      \* &proc[0] .. &proc[NPROC-1]; 0 is the null pointer
initproc == 1

VARIABLES state, chan, killed, pid, parent,    \* fields of struct proc
          lock,        \* lk->cpu of each p->lock
          wait_lock,   \* lk->cpu of wait_lock
          nextpid,
          cproc,       \* c->proc of each CPU
          cur,         \* whose thread a CPU runs, 0 for its scheduler
          scan,        \* the p of the scheduler's loop
          pc, ret,     \* a kernel thread's place, and where yield returns to
          i,           \* the loop variable of a scan by a kernel thread
          arg          \* np in kfork, pid in kkill

table == <<state, chan, killed, pid, parent>>
locks == <<lock, wait_lock>>
cpus == <<cproc, cur, scan>>
vars == <<table, locks, nextpid, cpus, pc, ret, i, arg>>

\* Where a thread holds no lock, so that a timer interrupt may preempt it.
Preemptible == {"fork_alloc", "fork_parent", "fork_run", "exit", "wait", "kill",
                "ret"}
Label == Preemptible \cup {"user", "reparent", "wake_init", "wake_parent",
                           "zombie", "wait_scan", "wait_sleep", "yield", "sched",
                           "resume"}

TypeOK ==
  /\ state \in [Slot -> {"UNUSED", "USED", "SLEEPING", "RUNNABLE", "RUNNING",
                         "ZOMBIE"}]
  /\ chan \in [Slot -> {0} \cup Slot]
  /\ killed \in [Slot -> BOOLEAN]
  /\ pid \in [Slot -> Nat]
  /\ parent \in [Slot -> {0} \cup Slot]
  /\ lock \in [Slot -> Cpu \cup {NoCpu}]
  /\ wait_lock \in Cpu \cup {NoCpu}
  /\ nextpid \in Nat
  /\ cproc \in [Cpu -> {0} \cup Slot]
  /\ cur \in [Cpu -> {0} \cup Slot]
  /\ scan \in [Cpu -> Slot]
  /\ pc \in [Slot -> Label]
  /\ ret \in [Slot -> Preemptible \cup {"user"}]
  /\ i \in [Slot -> Nat]
  /\ arg \in [Slot -> Nat]

\* userinit has made the first process, every CPU has entered scheduler().
Init ==
  /\ state = [p \in Slot |-> IF p = initproc THEN "RUNNABLE" ELSE "UNUSED"]
  /\ chan = [p \in Slot |-> 0]
  /\ killed = [p \in Slot |-> FALSE]
  /\ pid = [p \in Slot |-> IF p = initproc THEN 1 ELSE 0]
  /\ parent = [p \in Slot |-> 0]
  /\ lock = [p \in Slot |-> NoCpu]
  /\ wait_lock = NoCpu
  /\ nextpid = 2
  /\ cproc = [c \in Cpu |-> 0]
  /\ cur = [c \in Cpu |-> 0]
  /\ scan = [c \in Cpu |-> 1]
  /\ pc = [p \in Slot |-> "resume"]
  /\ ret = [p \in Slot |-> "user"]
  /\ i = [p \in Slot |-> 1]
  /\ arg = [p \in Slot |-> 0]

Free(p) == lock[p] = NoCpu

\* The thread of p goes on at label l, its scan variable at its start.
Goto(p, l) == /\ pc' = [pc EXCEPT ![p] = l]
              /\ i' = [i EXCEPT ![p] = 1]

\* The thread of p stays in its scan and looks at the next slot.
NextSlot(p) == /\ i' = [i EXCEPT ![p] = @ + 1]
               /\ UNCHANGED pc

-----------------------------------------------------------------------------
(* The scheduler of CPU c, and the switches between threads.               *)

scheduler(c) ==
  LET p == scan[c] IN
  /\ cur[c] = 0 /\ cproc[c] = 0
  /\ Free(p)
  /\ IF state[p] = "RUNNABLE"
       THEN /\ state' = [state EXCEPT ![p] = "RUNNING"]
            /\ lock' = [lock EXCEPT ![p] = c]
            /\ cproc' = [cproc EXCEPT ![c] = p]
            /\ cur' = [cur EXCEPT ![c] = p]
            /\ UNCHANGED scan
       ELSE /\ scan' = [scan EXCEPT ![c] = (p % NPROC) + 1]
            /\ UNCHANGED <<state, lock, cproc, cur>>
  /\ UNCHANGED <<chan, killed, pid, parent, wait_lock, nextpid, pc, ret, i, arg>>

\* After swtch came back: c->proc = 0; release(&p->lock)
scheduler_back(c) ==
  /\ cur[c] = 0 /\ cproc[c] # 0
  /\ lock' = [lock EXCEPT ![cproc[c]] = NoCpu]
  /\ cproc' = [cproc EXCEPT ![c] = 0]
  /\ scan' = [scan EXCEPT ![c] = (@ % NPROC) + 1]
  /\ UNCHANGED <<table, wait_lock, nextpid, cur, pc, ret, i, arg>>

\* The panics of sched, as a test.
SchedPanics(c, p) ==
  \/ lock[p] # c
  \/ wait_lock = c \/ \E q \in Slot \ {p} : lock[q] = c
  \/ state[p] = "RUNNING"

sched(c) ==
  LET p == cur[c] IN
  /\ p # 0 /\ pc[p] = "sched"
  /\ ~SchedPanics(c, p)
  /\ pc' = [pc EXCEPT ![p] = "resume"]
  /\ cur' = [cur EXCEPT ![c] = 0]
  /\ UNCHANGED <<table, locks, nextpid, cproc, scan, ret, i, arg>>

\* A thread the scheduler switched to releases its p->lock: the end of yield,
\* of sleep (which clears p->chan), or the start of forkret.
resume(c) ==
  LET p == cur[c] IN
  /\ p # 0 /\ pc[p] = "resume"
  /\ lock' = [lock EXCEPT ![p] = NoCpu]
  /\ chan' = [chan EXCEPT ![p] = 0]
  /\ pc' = [pc EXCEPT ![p] = ret[p]]
  /\ ret' = [ret EXCEPT ![p] = "user"]
  /\ UNCHANGED <<state, killed, pid, parent, wait_lock, nextpid, cpus, i, arg>>

yield(c) ==
  LET p == cur[c] IN
  /\ p # 0 /\ pc[p] = "yield"
  /\ Free(p)
  /\ lock' = [lock EXCEPT ![p] = c]
  /\ state' = [state EXCEPT ![p] = "RUNNABLE"]
  /\ pc' = [pc EXCEPT ![p] = "sched"]
  /\ UNCHANGED <<chan, killed, pid, parent, wait_lock, nextpid, cpus, ret, i,
                 arg>>

\* A timer interrupt in kernel code with interrupts enabled.
kerneltrap(c) ==
  LET p == cur[c] IN
  /\ p # 0 /\ pc[p] \in Preemptible
  /\ ret' = [ret EXCEPT ![p] = pc[p]]
  /\ pc' = [pc EXCEPT ![p] = "yield"]
  /\ UNCHANGED <<table, locks, nextpid, cpus, i, arg>>

-----------------------------------------------------------------------------
(* Traps from user space.                                                  *)

\* usertrap for a system call that starts at label l with argument a.  init
\* forks and waits, other programs do anything (user/init.c:26-53).
Syscall(c, l, a) ==
  LET p == cur[c] IN
  /\ p # 0 /\ pc[p] = "user"
  /\ Free(p)
  /\ IF killed[p]
       THEN Goto(p, "exit") /\ UNCHANGED arg
       ELSE Goto(p, l) /\ arg' = [arg EXCEPT ![p] = a]
  /\ UNCHANGED <<table, locks, nextpid, cpus, ret>>

sys_fork(c) == nextpid <= MaxPid /\ Syscall(c, "fork_alloc", 0)
sys_wait(c) == Syscall(c, "wait", 0)
sys_exit(c) == cur[c] # initproc /\ Syscall(c, "exit", 0)
sys_kill(c) == cur[c] # initproc /\ \E t \in KillPids : Syscall(c, "kill", t)

\* usertrap for a timer interrupt.
usertrap_timer(c) ==
  LET p == cur[c] IN
  /\ p # 0 /\ pc[p] = "user"
  /\ Free(p)
  /\ Goto(p, IF killed[p] THEN "exit" ELSE "yield")
  /\ UNCHANGED <<table, locks, nextpid, cpus, ret, arg>>

\* usertrap for a fault of the program: setkilled, then kexit(-1).
usertrap_fault(c) ==
  LET p == cur[c] IN
  /\ p # 0 /\ p # initproc /\ pc[p] = "user"
  /\ Free(p)
  /\ killed' = [killed EXCEPT ![p] = TRUE]
  /\ Goto(p, "exit")
  /\ UNCHANGED <<state, chan, pid, parent, locks, nextpid, cpus, ret, arg>>

\* The end of a system call: usertrap tests p->killed again.
usertrap_ret(c) ==
  LET p == cur[c] IN
  /\ p # 0 /\ pc[p] = "ret"
  /\ Free(p)
  /\ Goto(p, IF killed[p] THEN "exit" ELSE "user")
  /\ arg' = [arg EXCEPT ![p] = 0]
  /\ UNCHANGED <<table, locks, nextpid, cpus, ret>>

-----------------------------------------------------------------------------
(* kfork                                                                   *)

\* The fields freeproc resets.
freeproc(q) ==
  /\ state' = [state EXCEPT ![q] = "UNUSED"]
  /\ pid' = [pid EXCEPT ![q] = 0]
  /\ parent' = [parent EXCEPT ![q] = 0]
  /\ chan' = [chan EXCEPT ![q] = 0]
  /\ killed' = [killed EXCEPT ![q] = FALSE]

\* allocproc and the rest of kfork up to release(&np->lock): another slot is
\* looked at, or the slot is taken, or memory runs out after the pid was given.
AllocSkip(p) ==
  \/ /\ i[p] > NPROC
     /\ Goto(p, "ret")
     /\ UNCHANGED <<table, nextpid, ret, arg>>
  \/ /\ i[p] \in Slot /\ Free(i[p]) /\ state[i[p]] # "UNUSED"
     /\ NextSlot(p)
     /\ UNCHANGED <<table, nextpid, ret, arg>>

AllocFound(p) ==
  LET np == i[p] IN
  /\ np \in Slot /\ Free(np) /\ state[np] = "UNUSED"
  /\ nextpid <= MaxPid
  /\ nextpid' = nextpid + 1
  /\ state' = [state EXCEPT ![np] = "USED"]
  /\ pid' = [pid EXCEPT ![np] = nextpid]
  /\ pc' = [pc EXCEPT ![p] = "fork_parent", ![np] = "resume"]
  /\ ret' = [ret EXCEPT ![np] = "user"]
  /\ i' = [i EXCEPT ![p] = 1, ![np] = 1]
  /\ arg' = [arg EXCEPT ![p] = np, ![np] = 0]
  /\ UNCHANGED <<chan, killed, parent>>

AllocFailed(p) ==
  LET np == i[p] IN
  /\ np \in Slot /\ Free(np) /\ state[np] = "UNUSED"
  /\ nextpid' = IF nextpid <= MaxPid THEN nextpid + 1 ELSE nextpid
  /\ freeproc(np)
  /\ Goto(p, "ret")
  /\ UNCHANGED <<ret, arg>>

fork_alloc(c) ==
  LET p == cur[c] IN
  /\ p # 0 /\ pc[p] = "fork_alloc"
  /\ AllocSkip(p) \/ AllocFound(p) \/ AllocFailed(p)
  /\ UNCHANGED <<locks, cpus>>

\* Under wait_lock: np->parent = p
fork_parent(c) ==
  LET p == cur[c] IN
  /\ p # 0 /\ pc[p] = "fork_parent"
  /\ wait_lock = NoCpu
  /\ parent' = [parent EXCEPT ![arg[p]] = p]
  /\ Goto(p, "fork_run")
  /\ UNCHANGED <<state, chan, killed, pid, locks, nextpid, cpus, ret, arg>>

\* Under np->lock: np->state = RUNNABLE
fork_run(c) ==
  LET p == cur[c] IN
  /\ p # 0 /\ pc[p] = "fork_run"
  /\ Free(arg[p])
  /\ state' = [state EXCEPT ![arg[p]] = "RUNNABLE"]
  /\ Goto(p, "ret")
  /\ UNCHANGED <<chan, killed, pid, parent, locks, nextpid, cpus, ret, arg>>

-----------------------------------------------------------------------------
(* kexit                                                                   *)

\* Files and cwd are closed, then wait_lock is taken.  init panics instead.
exit(c) ==
  LET p == cur[c] IN
  /\ p # 0 /\ pc[p] = "exit"
  /\ p # initproc
  /\ wait_lock = NoCpu
  /\ wait_lock' = c
  /\ Goto(p, "reparent")
  /\ arg' = [arg EXCEPT ![p] = 0]
  /\ UNCHANGED <<table, lock, nextpid, cpus, ret>>

Children(p) == {q \in Slot : parent[q] = p}
Lowest(q, S) == q \in S /\ \A r \in S : q <= r

\* Mutants of reparent: children stay with the process that exits; the
\* wakeup of the parent is missing.
ReparentNone(c) ==
  LET p == cur[c] IN
  /\ p # 0 /\ pc[p] = "reparent"
  /\ Goto(p, "wake_parent")
  /\ UNCHANGED <<table, locks, nextpid, cpus, ret, arg>>
ReparentNoWake(c) ==
  LET p == cur[c] IN
  /\ p # 0 /\ pc[p] = "reparent"
  /\ IF Children(p) # {}
       THEN /\ \E q \in Slot : /\ Lowest(q, Children(p))
                             /\ parent' = [parent EXCEPT ![q] = initproc]
            /\ Goto(p, "wake_init")
       ELSE Goto(p, "zombie") /\ UNCHANGED parent
  /\ UNCHANGED <<state, chan, killed, pid, locks, nextpid, cpus, ret, arg>>

\* The next child goes to init, which is woken; after the last one the parent is.
reparent(c) ==
  LET p == cur[c] IN
  /\ p # 0 /\ pc[p] = "reparent"
  /\ IF Children(p) # {}
       THEN /\ \E q \in Slot : /\ Lowest(q, Children(p))
                             /\ parent' = [parent EXCEPT ![q] = initproc]
            /\ Goto(p, "wake_init")
       ELSE /\ Goto(p, "wake_parent")
            /\ UNCHANGED parent
  /\ UNCHANGED <<state, chan, killed, pid, locks, nextpid, cpus, ret, arg>>

\* One turn of the loop of wakeup(ch) by process p.
WakeOne(p, ch) ==
  LET q == i[p] IN
  /\ q \in Slot
  /\ q # p => Free(q)
  /\ state' = IF q # p /\ state[q] = "SLEEPING" /\ chan[q] = ch
                THEN [state EXCEPT ![q] = "RUNNABLE"]
                ELSE state
  /\ NextSlot(p)

wakeup(c) ==
  LET p == cur[c] IN
  /\ p # 0 /\ pc[p] \in {"wake_init", "wake_parent"}
  /\ \/ WakeOne(p, IF pc[p] = "wake_init" THEN initproc ELSE parent[p])
     \/ /\ i[p] > NPROC
        /\ Goto(p, IF pc[p] = "wake_init" THEN "reparent" ELSE "zombie")
        /\ UNCHANGED state
  /\ UNCHANGED <<chan, killed, pid, parent, locks, nextpid, cpus, ret, arg>>

\* Mutant of zombie: p->lock is not acquired.
ZombieUnlocked(c) ==
  LET p == cur[c] IN
  /\ p # 0 /\ pc[p] = "zombie"
  /\ state' = [state EXCEPT ![p] = "ZOMBIE"]
  /\ wait_lock' = NoCpu
  /\ pc' = [pc EXCEPT ![p] = "sched"]
  /\ UNCHANGED <<chan, killed, pid, parent, lock, nextpid, cpus, ret, i, arg>>

\* Under p->lock, which sched keeps: ZOMBIE, and wait_lock is released.
zombie(c) ==
  LET p == cur[c] IN
  /\ p # 0 /\ pc[p] = "zombie"
  /\ Free(p)
  /\ lock' = [lock EXCEPT ![p] = c]
  /\ state' = [state EXCEPT ![p] = "ZOMBIE"]
  /\ wait_lock' = NoCpu
  /\ pc' = [pc EXCEPT ![p] = "sched"]
  /\ UNCHANGED <<chan, killed, pid, parent, nextpid, cpus, ret, i, arg>>

-----------------------------------------------------------------------------
(* kwait                                                                   *)

wait(c) ==
  LET p == cur[c] IN
  /\ p # 0 /\ pc[p] = "wait"
  /\ wait_lock = NoCpu
  /\ wait_lock' = c
  /\ Goto(p, "wait_scan")
  /\ UNCHANGED <<table, lock, nextpid, cpus, ret, arg>>

\* The children the scan has not looked at yet.
Unseen(p) == {q \in Children(p) : q >= i[p]}

\* A zombie child: it is freed, or copyout of its status fails and it stays
\* (not for init, which passes address 0, user/init.c:42).
Reap(p, q) ==
  /\ state[q] = "ZOMBIE"
  /\ freeproc(q) \/ (p # initproc /\ UNCHANGED table)
  /\ wait_lock' = NoCpu
  /\ Goto(p, "ret")

wait_scan(c) ==
  LET p == cur[c] IN
  /\ p # 0 /\ pc[p] = "wait_scan"
  /\ \E q \in Slot : /\ Lowest(q, Unseen(p))
                    /\ Free(q)
                    /\ \/ Reap(p, q)
                       \/ /\ state[q] # "ZOMBIE"
                          /\ i' = [i EXCEPT ![p] = q + 1]
                          /\ UNCHANGED <<table, wait_lock, pc>>
  /\ UNCHANGED <<lock, nextpid, cpus, ret, arg>>

\* The scan is over: give up without children or when killed, else sleep.
wait_decide(c) ==
  LET p == cur[c] IN
  /\ p # 0 /\ pc[p] = "wait_scan"
  /\ Unseen(p) = {}
  /\ IF Children(p) = {}
       THEN wait_lock' = NoCpu /\ Goto(p, "ret")
       ELSE /\ Free(p)
            /\ IF killed[p]
                 THEN wait_lock' = NoCpu /\ Goto(p, "ret")
                 ELSE UNCHANGED wait_lock /\ Goto(p, "wait_sleep")
  /\ UNCHANGED <<table, lock, nextpid, cpus, ret, arg>>

\* Mutant of sleep: release(lk) is missing.
SleepKeepsLock(c) ==
  LET p == cur[c] IN
  /\ p # 0 /\ pc[p] = "wait_sleep" /\ Free(p)
  /\ lock' = [lock EXCEPT ![p] = c]
  /\ chan' = [chan EXCEPT ![p] = p]
  /\ state' = [state EXCEPT ![p] = "SLEEPING"]
  /\ pc' = [pc EXCEPT ![p] = "sched"]
  /\ ret' = [ret EXCEPT ![p] = "wait"]
  /\ UNCHANGED <<killed, pid, parent, wait_lock, nextpid, cpus, i, arg>>

\* sleep(p, &wait_lock) up to sched; resume and wait are the rest of it.
sleep(c) ==
  LET p == cur[c] IN
  /\ p # 0 /\ pc[p] = "wait_sleep"
  /\ Free(p)
  /\ lock' = [lock EXCEPT ![p] = c]
  /\ wait_lock' = NoCpu
  /\ chan' = [chan EXCEPT ![p] = p]
  /\ state' = [state EXCEPT ![p] = "SLEEPING"]
  /\ pc' = [pc EXCEPT ![p] = "sched"]
  /\ ret' = [ret EXCEPT ![p] = "wait"]
  /\ UNCHANGED <<killed, pid, parent, nextpid, cpus, i, arg>>

-----------------------------------------------------------------------------
(* kkill                                                                   *)

\* Mutant of kill: a sleeping victim is not made runnable.
KillNoWake(c) ==
  LET p == cur[c]
      q == i[p]
  IN
  /\ p # 0 /\ pc[p] = "kill"
  /\ q \in Slot => Free(q)
  /\ IF q \in Slot /\ pid[q] # arg[p] THEN NextSlot(p) ELSE Goto(p, "ret")
  /\ killed' = [r \in Slot |-> killed[r] \/ (r = q /\ pid[q] = arg[p])]
  /\ UNCHANGED <<state, chan, pid, parent, locks, nextpid, cpus, ret, arg>>

kill(c) ==
  LET p == cur[c]
      q == i[p]
  IN
  /\ p # 0 /\ pc[p] = "kill"
  /\ \/ /\ q > NPROC
        /\ Goto(p, "ret")
        /\ UNCHANGED <<state, killed>>
     \/ /\ q \in Slot /\ Free(q) /\ pid[q] # arg[p]
        /\ NextSlot(p)
        /\ UNCHANGED <<state, killed>>
     \/ /\ q \in Slot /\ Free(q) /\ pid[q] = arg[p]
        /\ killed' = [killed EXCEPT ![q] = TRUE]
        /\ state' = [state EXCEPT ![q] = IF @ = "SLEEPING" THEN "RUNNABLE" ELSE @]
        /\ Goto(p, "ret")
  /\ UNCHANGED <<chan, pid, parent, locks, nextpid, cpus, ret, arg>>

-----------------------------------------------------------------------------
switch(c) == \/ scheduler(c) \/ scheduler_back(c)
             \/ sched(c) \/ resume(c) \/ yield(c)

\* A step of the system call the process on CPU c is in.
syscall(c) ==
  \/ fork_alloc(c) \/ fork_parent(c) \/ fork_run(c)
  \/ exit(c) \/ reparent(c) \/ wakeup(c) \/ zombie(c)
  \/ wait(c) \/ wait_scan(c) \/ wait_decide(c) \/ sleep(c)
  \/ kill(c) \/ usertrap_ret(c)

timer(c) == usertrap_timer(c) \/ kerneltrap(c)

user(c) == \/ sys_fork(c) \/ sys_wait(c) \/ sys_exit(c) \/ sys_kill(c)
           \/ usertrap_fault(c)

Next == \E c \in Cpu : switch(c) \/ syscall(c) \/ timer(c) \/ user(c)

Spec == Init /\ [][Next]_vars

\* Timer interrupts come every 1000000 cycles (trap.c:174-177): again and
\* again, but not every time before the next step of the thread they interrupt.
\* init calls wait again and again (user/init.c:39-52).  Nothing else is fair: a
\* program need not make a system call and need not exit.
Fairness ==
  \A c \in Cpu : /\ WF_vars(switch(c))
                 /\ SF_vars(timer(c))
                 /\ SF_vars(cur[c] = initproc /\ sys_wait(c))
                 /\ \A p \in Slot : SF_vars(cur[c] = p /\ syscall(c))

FairSpec == Spec /\ Fairness

-----------------------------------------------------------------------------
(* Properties.                                                             *)

\* No two CPUs run the same thread, and the kernel stack a CPU runs on belongs
\* to a process that kwait has not freed and kfork has not given away: kwait
\* must not overtake the swtch at the end of kexit (proc.c:381).
StackInUse ==
  \A c \in Cpu : cur[c] # 0 =>
    /\ \A d \in Cpu : cur[d] = cur[c] => d = c
    /\ state[cur[c]] \notin {"UNUSED", "USED"}

\* A thread enters sched() holding its p->lock, no other lock, and with its
\* state changed: none of the panics of sched (proc.c:475-480) is reached.
SchedSafe ==
  \A c \in Cpu : cur[c] # 0 /\ pc[cur[c]] = "sched" => ~SchedPanics(c, cur[c])

\* A process marked RUNNING is on exactly one CPU, and one that is marked
\* otherwise is on none, except for the CPU that holds its lock to switch it.
RunningIsOnCpu ==
  \A p \in Slot : Free(p) => (state[p] = "RUNNING" <=> \E c \in Cpu : cur[c] = p)

\* Every process that can run or has exited has a parent which will reap it:
\* not freed, and no zombie once the wait_lock of its kexit is free again.
ParentLives ==
  \A q \in Slot \ {initproc} :
    state[q] \notin {"UNUSED", "USED"} =>
      /\ parent[q] # 0
      /\ state[parent[q]] \notin {"UNUSED", "USED"}
      /\ wait_lock = NoCpu => state[parent[q]] # "ZOMBIE"

\* No lost wakeup in wait: with wait_lock free, no parent is asleep in kwait
\* with a zombie child (the wakeup of kexit comes before ZOMBIE is set).
ExitNotMissed ==
  wait_lock = NoCpu =>
    \A p, q \in Slot : parent[q] = p /\ state[q] = "ZOMBIE" =>
      ~(state[p] = "SLEEPING" /\ chan[p] = p)

\* Two processes never share a pid, and a slot has a pid unless it is unused.
PidsUnique ==
  \A p, q \in Slot : state[p] # "UNUSED" =>
    /\ pid[p] # 0
    /\ pid[q] = pid[p] => q = p

\* init reaps its children, the orphans reparent gave it included.
ZombieReaped ==
  \A q \in Slot \ {initproc} :
    state[q] = "ZOMBIE" /\ parent[q] = initproc ~> state[q] = "UNUSED"

\* A killed process exits, from wherever in the kernel the kill found it.
KillTakesEffect ==
  \A p \in Slot \ {initproc} : killed[p] ~> state[p] \in {"ZOMBIE", "UNUSED"}

\* "Wake process from sleep()" (proc.c:599): a killed process is not asleep.
KillWakes == \A p \in Slot : killed[p] => state[p] # "SLEEPING"

\* "Kill the process with the given pid" (proc.c:586): only a process is ever
\* killed, and a slot that is free or freed passes no kill on to its next
\* process, which allocproc does not clear it for.  (kill(0) is not called.)
KilledIsProcess == \A p \in Slot : killed[p] => state[p] # "UNUSED"

\* The process table is consistent whenever locks allow a look at it: states and
\* CPUs, parents and children, pids and kills agree, though fork, exit, wait and
\* kill change them one field and one lock at a time.
TableConsistent ==
  TypeOK /\ RunningIsOnCpu /\ ParentLives /\ PidsUnique /\ KilledIsProcess
=============================================================================
