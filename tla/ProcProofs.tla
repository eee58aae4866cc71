----------------------------- MODULE ProcProofs -----------------------------
(***************************************************************************)
(* Proofs about Proc, for any number of CPUs and any size of the table.    *)
(*                                                                         *)
(* The properties are about moments at which locks are free.  What makes   *)
(* them inductive is what the locks protect meanwhile: which thread a CPU  *)
(* runs or is about to leave and who holds its p->lock (Switching), that   *)
(* one thread at a time is in the code under wait_lock (WaitLocked), what  *)
(* a fork that is not finished relies on (Forking), that nobody is the     *)
(* child of a process that has exited (Orphaned), and which wakeup is      *)
(* still to come for a parent asleep in kwait (Wakeups).                   *)
(***************************************************************************)
EXTENDS Proc, TLAPS

\* Most steps are first-order; the ones that need arithmetic or many facts at once
\* name the SMT solver.
USE ZenonT(60)

\* Where a thread is, or goes back to after a context switch.
At(p) == IF pc[p] \in {"yield", "sched", "resume"} THEN ret[p] ELSE pc[p]

\* A CPU runs the thread of its c->proc or, after sched, the scheduler, which
\* keeps p->lock; a thread holds its p->lock around swtch and is RUNNING
\* elsewhere; a thread no CPU runs waits in swtch.
CpuRuns(c) ==
  /\ cur[c] # 0 =>
       /\ cproc[c] = cur[c]
       /\ lock[cur[c]] = c <=> pc[cur[c]] \in {"sched", "resume"}
       /\ state[cur[c]] \in (IF pc[cur[c]] = "sched"
                               THEN {"RUNNABLE", "SLEEPING", "ZOMBIE"}
                               ELSE {"RUNNING"})
  /\ cur[c] = 0 /\ cproc[c] # 0 =>
       /\ lock[cproc[c]] = c
       /\ state[cproc[c]] \in {"RUNNABLE", "SLEEPING", "ZOMBIE"}
OneCpu == \A c, d \in Cpu : cproc[c] # 0 /\ cproc[c] = cproc[d] => c = d
HeldByCpu == \A p \in Slot, c \in Cpu : lock[p] = c => cproc[c] = p
Parked(p) == (\A c \in Cpu : cur[c] # p) => pc[p] = "resume" /\ state[p] # "RUNNING"
Switching == /\ \A c \in Cpu : CpuRuns(c)
             /\ OneCpu /\ HeldByCpu
             /\ \A p \in Slot : Parked(p)

\* The states of a slot without a thread that may still run.
Dead == {"UNUSED", "USED", "ZOMBIE"}

\* Only a thread on its way through sched returns somewhere else than to user
\* space; a thread that has not started or has exited does not.
Returns == \A p \in Slot :
  \/ pc[p] \notin {"yield", "sched", "resume"}
  \/ state[p] \in Dead
  => ret[p] = "user"

\* The code under wait_lock.
WaitSection == {"reparent", "wake_init", "wake_parent", "zombie", "wait_scan",
                "wait_sleep"}
WaitLocked == \A c \in Cpu :
  wait_lock = c <=> cur[c] # 0 /\ pc[cur[c]] \in WaitSection

\* init is never freed and does not exit.
InitLives ==
  /\ state[initproc] \notin Dead
  /\ pc[initproc] \notin {"reparent", "wake_init", "wake_parent", "zombie"}

\* Between the two acquires of np->lock in kfork the new process stays USED, and
\* it belongs to one fork.
Forking ==
  /\ \A p \in Slot : At(p) \in {"fork_parent", "fork_run"} =>
       /\ arg[p] \in Slot /\ state[arg[p]] = "USED"
       /\ At(p) = "fork_run" => parent[arg[p]] = p
  /\ \A p, q \in Slot :
       At(p) \in {"fork_parent", "fork_run"} /\ At(q) \in {"fork_parent", "fork_run"}
         => (arg[p] = arg[q] => p = q)

\* Nobody is the child of a slot that is free or has exited, and every process
\* but init has a parent.
Orphaned ==
  /\ \A p, q \in Slot :
       state[p] \in Dead \/ pc[p] \in {"wake_parent", "zombie"}
         => parent[q] # p
  /\ \A q \in Slot \ {initproc} :
       state[q] \notin {"UNUSED", "USED"} => parent[q] # 0

\* A slot has a pid, one of its own, if and only if it is not free.
Pids ==
  /\ nextpid > 0
  /\ \A p \in Slot : IF state[p] = "UNUSED" THEN pid[p] = 0
                     ELSE pid[p] > 0 /\ pid[p] < nextpid
  /\ \A p, q \in Slot : pid[p] # 0 /\ pid[q] = pid[p] => q = p

\* kill is called with a pid of KillPids.
Kills == 0 \notin KillPids =>
  \A p \in Slot : /\ At(p) = "kill" => arg[p] # 0
                  /\ state[p] = "UNUSED" => ~killed[p]

\* Who is asleep in kwait.
Waits(p) == state[p] = "SLEEPING" /\ chan[p] = p

\* The scan of kwait leaves no zombie behind; kexit passes its parent, and reparent
\* passes init, before wait_lock is released.
Wakeups ==
  /\ \A p, q \in Slot : parent[q] = p /\ state[q] = "ZOMBIE" =>
       /\ pc[p] # "wait_sleep"
       /\ pc[p] = "wait_scan" => q >= i[p]
       /\ Waits(p) => p = initproc /\ \E r \in Slot : pc[r] = "wake_init" /\ i[r] = 1
  /\ \A p, q \in Slot : parent[q] = p /\ Waits(p) =>
       /\ pc[q] # "zombie"
       /\ pc[q] = "wake_parent" => i[q] <= p

IInv == /\ TypeOK /\ Switching /\ Returns /\ WaitLocked /\ InitLives /\ Forking
        /\ Orphaned /\ Pids /\ Kills /\ Wakeups

-----------------------------------------------------------------------------
(* What the invariant says of one CPU and of one slot                      *)

\* The null pointer is no slot, init has one, and the scheduler's loop stays within
\* the table.
LEMMA Slots == /\ 0 \notin Slot /\ initproc \in Slot
               /\ \A p \in Slot : (p % NPROC) + 1 \in Slot
<1>1. ASSUME NEW p \in Slot PROVE (p % NPROC) + 1 \in Slot
  BY NPROCAssumption, SMTT(60) DEF Slot
<1> QED
  BY <1>1, NPROCAssumption, SMTT(60) DEF Slot, initproc

\* The thread a CPU runs: no other CPU runs it or is about to leave it.
LEMMA OnCpu ==
  ASSUME IInv, NEW c \in Cpu, cur[c] # 0
  PROVE  /\ cur[c] \in Slot /\ cproc[c] = cur[c]
         /\ \A d \in Cpu : d # c => cur[d] # cur[c] /\ cproc[d] # cur[c]
         /\ \A d \in Cpu : lock[cur[c]] = d => d = c
         /\ lock[cur[c]] = c <=> pc[cur[c]] \in {"sched", "resume"}
         /\ pc[cur[c]] \notin {"sched", "resume"} => Free(cur[c])
         /\ pc[cur[c]] # "sched" => state[cur[c]] = "RUNNING"
<1>1. cur[c] \in Slot /\ \A d \in Cpu : cur[d] \in {0} \cup Slot
  BY DEF IInv, TypeOK
<1>2. cproc[c] = cur[c] /\ \A d \in Cpu : d # c => cur[d] # cur[c] /\ cproc[d] # cur[c]
  <2>1. \A d \in Cpu : cur[d] # 0 => cproc[d] = cur[d]
    BY DEF IInv, Switching, CpuRuns
  <2>2. ASSUME NEW d \in Cpu, d # c PROVE cproc[d] # cur[c]
    BY <2>1, <2>2 DEF IInv, Switching, OneCpu
  <2> QED
    BY <2>1, <2>2
<1>3. /\ lock[cur[c]] = c <=> pc[cur[c]] \in {"sched", "resume"}
      /\ pc[cur[c]] # "sched" => state[cur[c]] = "RUNNING"
  BY DEF IInv, Switching, CpuRuns
<1>4. \A d \in Cpu : lock[cur[c]] = d => d = c
  BY <1>1, <1>2 DEF IInv, Switching, HeldByCpu
<1>5. lock[cur[c]] \in Cpu \cup {NoCpu}
  BY <1>1 DEF IInv, TypeOK
<1> QED
  BY <1>1, <1>2, <1>3, <1>4, <1>5 DEF Free

\* A thread that is not on its way through sched is RUNNING and holds no p->lock.
LEMMA Running ==
  ASSUME IInv, NEW c \in Cpu, NEW p \in Slot, p = cur[c], pc[p] \notin {"sched", "resume"}
  PROVE  p # 0 /\ Free(p) /\ state[p] = "RUNNING" /\ lock[p] # c
<1>1. cur[c] # 0
  BY Slots
<1>2. Free(p) /\ state[p] = "RUNNING"
  BY <1>1, OnCpu
<1> QED
  BY <1>1, <1>2, CpuAssumption DEF Free

\* A slot that is not RUNNING and whose lock is free is on no CPU.
LEMMA OffCpu ==
  ASSUME IInv, NEW q \in Slot, Free(q), state[q] # "RUNNING"
  PROVE  \A d \in Cpu : cproc[d] # q /\ cur[d] # q
<1>1. q # 0
  BY Slots
<1> SUFFICES ASSUME NEW d \in Cpu, cproc[d] = q \/ cur[d] = q PROVE FALSE
  OBVIOUS
<1>0. CpuRuns(d)
  BY DEF IInv, Switching
<1>2. cproc[d] = q
  BY <1>0, <1>1 DEF CpuRuns
<1>3. CASE cur[d] = 0
  BY <1>0, <1>1, <1>2, <1>3, CpuAssumption DEF CpuRuns, Free
<1>4. CASE cur[d] # 0
  <2>1. cur[d] = q
    BY <1>0, <1>2, <1>4 DEF CpuRuns
  <2>2. lock[q] # d
    BY CpuAssumption DEF Free
  <2>3. pc[q] # "sched"
    BY <1>0, <1>4, <2>1, <2>2 DEF CpuRuns
  <2> QED
    BY <1>0, <1>4, <2>1, <2>3 DEF CpuRuns
<1> QED
  BY <1>3, <1>4

\* One thread at a time is in the code under wait_lock.
LEMMA InWaitSection ==
  ASSUME IInv, NEW c \in Cpu, cur[c] # 0
  PROVE  /\ pc[cur[c]] \in WaitSection => wait_lock = c
         /\ wait_lock \in {c, NoCpu} =>
              \A q \in Slot : q # cur[c] => pc[q] \notin WaitSection
<1>1. pc[cur[c]] \in WaitSection => wait_lock = c
  BY DEF IInv, WaitLocked
<1>2. ASSUME wait_lock \in {c, NoCpu}, NEW q \in Slot, q # cur[c], pc[q] \in WaitSection
      PROVE  FALSE
  <2>1. PICK d \in Cpu : cur[d] = q
    BY <1>2 DEF IInv, Switching, Parked, WaitSection
  <2>2. wait_lock = d
    BY <1>2, <2>1, Slots DEF IInv, WaitLocked
  <2> QED
    BY <1>2, <2>1, <2>2, CpuAssumption
<1> QED
  BY <1>1, <1>2

-----------------------------------------------------------------------------
(* Steps of the thread p that CPU c runs                                   *)

\* The step leaves a slot's state, p->lock and thread alone.
SameSlot(q) == q # 0 => state'[q] = state[q] /\ lock'[q] = lock[q] /\ pc'[q] = pc[q]

\* What is said of a CPU stays when neither its pointers nor its process change.
LEMMA CpuKept ==
  ASSUME NEW c \in Cpu, CpuRuns(c), cur'[c] = cur[c], cproc'[c] = cproc[c],
         SameSlot(cur[c]), SameSlot(cproc[c])
  PROVE  CpuRuns(c)'
<1>1. CASE cur[c] # 0
  BY <1>1 DEF CpuRuns, SameSlot
<1>2. CASE cur[c] = 0 /\ cproc[c] # 0
  BY <1>2 DEF CpuRuns, SameSlot
<1>3. CASE cur[c] = 0 /\ cproc[c] = 0
  BY <1>3 DEF CpuRuns
<1> QED
  BY <1>1, <1>2, <1>3

\* Whatever else the step does, it touches no other thread, and the state of no
\* process that a CPU runs or is leaving.
LEMMA SwitchingKept ==
  ASSUME IInv, NEW c \in Cpu, NEW p \in Slot, p = cur[c], UNCHANGED <<cproc, cur>>,
         \A q \in Slot : q # p =>
           /\ pc'[q] = pc[q] /\ lock'[q] = lock[q]
           /\ \/ state'[q] = state[q]
              \/ state'[q] # "RUNNING" /\ state[q] # "RUNNING" /\ Free(q),
         lock'[p] \in {c, NoCpu},
         lock'[p] = c <=> pc'[p] \in {"sched", "resume"},
         state'[p] \in (IF pc'[p] = "sched" THEN {"RUNNABLE", "SLEEPING", "ZOMBIE"}
                                            ELSE {"RUNNING"})
  PROVE  Switching'
<1>0. 0 \notin Slot /\ p # 0
  BY Slots
<1>1. /\ cproc[c] = p
      /\ \A d \in Cpu : d # c => cur[d] # p /\ cproc[d] # p
  BY <1>0, OnCpu
<1>2. ASSUME NEW q \in Slot, q # p, state'[q] # state[q]
      PROVE  \A d \in Cpu : cproc[d] # q /\ cur[d] # q
  BY <1>2, OffCpu
<1>3. \A d \in Cpu : cur[d] \in {0} \cup Slot /\ cproc[d] \in {0} \cup Slot
  BY DEF IInv, TypeOK
<1>4. ASSUME NEW d \in Cpu PROVE CpuRuns(d)'
  <2>1. CASE d = c
    BY <1>0, <1>1, <2>1 DEF CpuRuns
  <2>2. CASE d # c
    <3>1. CpuRuns(d) /\ SameSlot(cur[d]) /\ SameSlot(cproc[d])
      BY <1>1, <1>2, <1>3, <2>2 DEF IInv, Switching, SameSlot
    <3> QED
      BY <3>1, CpuKept
  <2> QED
    BY <2>1, <2>2
<1>5. OneCpu'
  BY DEF IInv, Switching, OneCpu
<1>6. ASSUME NEW q \in Slot, NEW d \in Cpu, lock'[q] = d PROVE cproc'[d] = q
  <2>1. CASE q = p
    BY <1>1, <1>6, <2>1, CpuAssumption
  <2>2. CASE q # p
    BY <1>6, <2>2 DEF IInv, Switching, HeldByCpu
  <2> QED
    BY <2>1, <2>2
<1>7. ASSUME NEW q \in Slot PROVE Parked(q)'
  <2>1. CASE q = p
    BY <2>1 DEF Parked
  <2>2. CASE q # p
    <3>1. Parked(q)
      BY DEF IInv, Switching
    <3> QED
      BY <2>2, <3>1 DEF Parked
  <2> QED
    BY <2>1, <2>2
<1> QED
  BY <1>4, <1>5, <1>6, <1>7 DEF Switching, HeldByCpu

\* wait_lock is held exactly as long as the thread is in the code under it.
LEMMA WaitLockedKept ==
  ASSUME IInv, NEW c \in Cpu, NEW p \in Slot, p = cur[c], cur' = cur,
         \A q \in Slot : q # p => pc'[q] = pc[q],
         \/ wait_lock' = wait_lock /\ (pc'[p] \in WaitSection <=> pc[p] \in WaitSection)
         \/ wait_lock = NoCpu /\ wait_lock' = c /\ pc'[p] \in WaitSection
         \/ wait_lock = c /\ wait_lock' = NoCpu /\ pc'[p] \notin WaitSection
  PROVE  WaitLocked'
<1>0. p # 0 /\ cur[c] # 0
  BY SMTT(60) DEF Slot
<1>1. \A d \in Cpu : d # c => cur[d] # p /\ cur[d] \in {0} \cup Slot
  BY <1>0, OnCpu DEF IInv, TypeOK
<1>2. wait_lock = c <=> pc[p] \in WaitSection
  BY <1>0 DEF IInv, WaitLocked
<1> SUFFICES ASSUME NEW d \in Cpu
             PROVE  wait_lock' = d <=> cur'[d] # 0 /\ pc'[cur'[d]] \in WaitSection
  BY DEF WaitLocked
<1>3. CASE d = c
  BY <1>0, <1>2, <1>3, CpuAssumption
<1>4. CASE d # c
  <2>1. cur[d] # 0 => pc'[cur[d]] = pc[cur[d]]
    BY <1>1, <1>4
  <2>2. wait_lock = d <=> cur[d] # 0 /\ pc[cur[d]] \in WaitSection
    BY DEF IInv, WaitLocked
  <2> QED
    BY <1>4, <2>1, <2>2, CpuAssumption, SMTT(60)
<1> QED
  BY <1>3, <1>4

\* A fork that q is in after a step it was in before, and what it has allocated is
\* left alone.
ForkStays(q) ==
  At(q)' \in {"fork_parent", "fork_run"} =>
    /\ At(q)' = At(q) /\ arg'[q] = arg[q]
    /\ arg[q] \in Slot /\ state[arg[q]] = "USED" =>
         state'[arg[q]] = "USED" /\ parent'[arg[q]] = parent[arg[q]]

\* Forks under way are kept by a step that leaves each of them alone.
LEMMA ForkingKept ==
  ASSUME Forking, \A q \in Slot : ForkStays(q)
  PROVE  Forking'
<1>1. ASSUME NEW q \in Slot, At(q)' \in {"fork_parent", "fork_run"}
      PROVE  /\ arg'[q] \in Slot /\ state'[arg'[q]] = "USED"
             /\ At(q)' = "fork_run" => parent'[arg'[q]] = q
  <2>1. /\ arg[q] \in Slot /\ state[arg[q]] = "USED"
        /\ At(q) = "fork_run" => parent[arg[q]] = q
    BY <1>1 DEF Forking, ForkStays
  <2> QED
    BY <1>1, <2>1 DEF ForkStays
<1>2. ASSUME NEW q \in Slot, At(q)' \in {"fork_parent", "fork_run"},
             NEW r \in Slot, At(r)' \in {"fork_parent", "fork_run"}, arg'[q] = arg'[r]
      PROVE  q = r
  <2>1. /\ At(q) \in {"fork_parent", "fork_run"} /\ At(r) \in {"fork_parent", "fork_run"}
        /\ arg[q] = arg[r]
    BY <1>2 DEF ForkStays
  <2> QED
    BY <2>1 DEF Forking
<1> QED
  BY <1>1, <1>2 DEF Forking

\* A step by which the thread p moves on: nothing changes of the other threads.
Moves(p) ==
  /\ pc' \in [Slot -> Label] /\ ret' \in [Slot -> Preemptible \cup {"user"}]
  /\ i' \in [Slot -> Nat] /\ arg' \in [Slot -> Nat]
  /\ \A q \in Slot : q # p => /\ pc'[q] = pc[q] /\ ret'[q] = ret[q]
                              /\ i'[q] = i[q] /\ arg'[q] = arg[q]

\* A step that changes nothing but where its thread is, and wait_lock.
LEMMA LocalIInv ==
  ASSUME IInv, NEW c \in Cpu, NEW p \in Slot, p = cur[c], Moves(p),
         UNCHANGED <<table, lock, nextpid, cpus>>,
         pc[p] \notin {"sched", "resume", "wake_init", "wake_parent", "zombie"},
         pc'[p] \in {"user", "fork_alloc", "exit", "wait", "kill", "ret", "yield",
                     "reparent", "wait_scan", "wait_sleep"},
         ret'[p] = "user" \/ (pc'[p] = "yield" /\ ret'[p] = pc[p] /\ arg'[p] = arg[p]),
         pc'[p] = "kill" => arg'[p] \in KillPids \/ (pc[p] = "kill" /\ arg'[p] = arg[p]),
         pc'[p] = "reparent" => p # initproc,
         \/ wait_lock' = wait_lock /\ (pc'[p] \in WaitSection <=> pc[p] \in WaitSection)
         \/ wait_lock = NoCpu /\ wait_lock' = c /\ pc'[p] \in WaitSection
         \/ wait_lock = c /\ wait_lock' = NoCpu /\ pc'[p] \notin WaitSection,
         \A q \in Children(p) : state[q] = "ZOMBIE" =>
           pc'[p] # "wait_sleep" /\ (pc'[p] = "wait_scan" => q >= i'[p])
  PROVE  IInv'
<1>1. UNCHANGED <<state, chan, killed, pid, parent, cproc, cur, scan>>
  BY DEF table, cpus
<1>2. \A q \in Slot : q # p => /\ pc'[q] = pc[q] /\ ret'[q] = ret[q]
                               /\ i'[q] = i[q] /\ arg'[q] = arg[q]
  BY DEF Moves
<1>3. p # 0 /\ Free(p) /\ state[p] = "RUNNING" /\ lock[p] # c
  BY Running
<1>4. TypeOK'
  BY <1>1 DEF IInv, TypeOK, Moves
<1>5. Switching'
  BY <1>1, <1>2, <1>3, SwitchingKept DEF Free
<1>6. Returns'
  BY <1>1, <1>2, <1>3 DEF IInv, Returns, Dead
<1>7. WaitLocked'
  BY <1>1, <1>2, WaitLockedKept
<1>8. InitLives'
  BY <1>1, <1>2, Slots DEF IInv, InitLives
<1>9. Forking'
  <2>1. ASSUME NEW q \in Slot, At(q)' \in {"fork_parent", "fork_run"}
        PROVE  At(q)' = At(q) /\ arg'[q] = arg[q]
    BY <1>2, <2>1 DEF At
  <2>2. ASSUME NEW q \in Slot PROVE ForkStays(q)
    BY <1>1, <2>1 DEF ForkStays
  <2> QED
    BY <2>2, ForkingKept DEF IInv
<1>10. Orphaned'
  BY <1>1, <1>2 DEF IInv, Orphaned
<1>11. Pids'
  BY <1>1 DEF IInv, Pids
<1>12. Kills'
  <2>1. 0 \notin KillPids =>
          \A q \in Slot : At(q)' = "kill" =>
                            (At(q) = "kill" /\ arg'[q] = arg[q]) \/ arg'[q] # 0
    BY <1>2 DEF At
  <2> QED
    BY <1>1, <2>1 DEF IInv, Kills
<1>13. Wakeups'
  BY <1>1, <1>2, SMTT(60) DEF IInv, Wakeups, Waits, Children
<1> QED
  BY <1>4, <1>5, <1>6, <1>7, <1>8, <1>9, <1>10, <1>11, <1>12, <1>13 DEF IInv

\* kerneltrap notes where the thread is.
LEMMA KerneltrapIInv ==
  ASSUME IInv, NEW c \in Cpu, kerneltrap(c)
  PROVE  IInv'
<1>1. PICK p \in Slot : p = cur[c]
  BY DEF kerneltrap, IInv, TypeOK
<1>2. Moves(p) /\ UNCHANGED <<table, lock, nextpid, cpus, wait_lock>>
  BY <1>1 DEF kerneltrap, IInv, TypeOK, Moves, Label, locks
<1>3. /\ pc[p] \in Preemptible /\ pc'[p] = "yield"
      /\ ret'[p] = pc[p] /\ arg'[p] = arg[p]
  BY <1>1 DEF kerneltrap, IInv, TypeOK
<1> QED
  BY <1>1, <1>2, <1>3, LocalIInv DEF Preemptible, WaitSection

\* A trap from user space that leaves the table alone, and the way back.
LEMMA UserIInv ==
  ASSUME IInv, NEW c \in Cpu,
         \/ sys_fork(c) \/ sys_wait(c) \/ sys_exit(c) \/ sys_kill(c)
         \/ usertrap_timer(c) \/ usertrap_ret(c)
  PROVE  IInv'
<1> USE DEF sys_fork, sys_wait, sys_exit, sys_kill, usertrap_timer, usertrap_ret,
            Syscall, Goto
<1>1. PICK p \in Slot : p = cur[c] /\ pc[p] \in {"user", "ret"}
  BY DEF IInv, TypeOK
<1>2. /\ pc' \in [Slot -> Label] /\ \A q \in Slot : q # p => pc'[q] = pc[q]
      /\ i' = [i EXCEPT ![p] = 1] /\ ret' = ret
      /\ pc'[p] \in {"user", "fork_alloc", "exit", "wait", "kill", "yield"}
      /\ UNCHANGED <<table, lock, nextpid, cpus, wait_lock>>
  BY <1>1, SMTT(60) DEF IInv, TypeOK, Label, Preemptible, locks
<1>3. /\ arg' \in [Slot -> Nat] /\ \A q \in Slot : q # p => arg'[q] = arg[q]
      /\ pc'[p] = "kill" => arg'[p] \in KillPids
  BY <1>1, PidAssumption, SMTT(60) DEF IInv, TypeOK
<1>4. Moves(p)
  BY <1>2, <1>3 DEF IInv, TypeOK, Moves
<1>5. ret'[p] = "user"
  BY <1>1, <1>2 DEF IInv, Returns
<1> QED
  BY <1>1, <1>2, <1>3, <1>4, <1>5, LocalIInv DEF WaitSection

\* exit and wait take wait_lock.
LEMMA TakeWaitLockIInv ==
  ASSUME IInv, NEW c \in Cpu, exit(c) \/ wait(c)
  PROVE  IInv'
<1> USE DEF exit, wait, Goto
<1>1. PICK p \in Slot : p = cur[c] /\ pc[p] \in {"exit", "wait"}
  BY DEF IInv, TypeOK
<1>2. /\ pc' \in [Slot -> Label] /\ \A q \in Slot : q # p => pc'[q] = pc[q]
      /\ i' = [i EXCEPT ![p] = 1] /\ ret' = ret
      /\ pc'[p] \in {"reparent", "wait_scan"}
      /\ pc'[p] = "reparent" => p # initproc
      /\ UNCHANGED <<table, lock, nextpid, cpus>>
      /\ wait_lock = NoCpu /\ wait_lock' = c
  BY <1>1 DEF IInv, TypeOK, Label, Preemptible, locks
<1>3. arg' \in [Slot -> Nat] /\ \A q \in Slot : q # p => arg'[q] = arg[q]
  BY <1>1, SMTT(60) DEF IInv, TypeOK
<1>4. Moves(p)
  BY <1>2, <1>3 DEF IInv, TypeOK, Moves
<1>5. ret'[p] = "user"
  BY <1>1, <1>2 DEF IInv, Returns
<1>6. \A q \in Slot : q >= i'[p]
  BY <1>2, SMTT(60) DEF IInv, TypeOK, Slot
<1> QED
  BY <1>1, <1>2, <1>3, <1>4, <1>5, <1>6, LocalIInv DEF WaitSection, Children

\* kwait does not go to sleep before it has looked at every child.
LEMMA WaitDecideIInv ==
  ASSUME IInv, NEW c \in Cpu, wait_decide(c)
  PROVE  IInv'
<1> USE DEF wait_decide, Goto
<1>1. PICK p \in Slot : p = cur[c] /\ pc[p] = "wait_scan"
  BY DEF IInv, TypeOK
<1>2. /\ pc' \in [Slot -> Label] /\ \A q \in Slot : q # p => pc'[q] = pc[q]
      /\ i' = [i EXCEPT ![p] = 1] /\ ret' = ret /\ arg' = arg
      /\ UNCHANGED <<table, lock, nextpid, cpus>>
      /\ \/ pc'[p] = "ret" /\ wait_lock' = NoCpu
         \/ pc'[p] = "wait_sleep" /\ wait_lock' = wait_lock
  BY <1>1, SMTT(60) DEF IInv, TypeOK, Label, Preemptible, locks
<1>3. Moves(p)
  BY <1>2 DEF IInv, TypeOK, Moves
<1>4. ret'[p] = "user" /\ wait_lock = c
  BY <1>1, <1>2, Slots, InWaitSection DEF IInv, Returns, WaitSection
<1>5. \A q \in Children(p) : state[q] # "ZOMBIE"
  BY <1>1 DEF IInv, Wakeups, Unseen, Children
<1> QED
  BY <1>1, <1>2, <1>3, <1>4, <1>5, LocalIInv DEF WaitSection

\* A step by which the thread changes its own process: its state, its chan, its
\* killed and its p->lock.
LEMMA OwnIInv ==
  ASSUME IInv, TypeOK', NEW c \in Cpu, NEW p \in Slot, p = cur[c], Moves(p),
         UNCHANGED <<pid, parent, nextpid, cpus>>,
         \A q \in Slot : q # p => /\ state'[q] = state[q] /\ chan'[q] = chan[q]
                                  /\ killed'[q] = killed[q] /\ lock'[q] = lock[q],
         lock'[p] \in {c, NoCpu},
         lock'[p] = c <=> pc'[p] \in {"sched", "resume"},
         state'[p] \in (IF pc'[p] = "sched" THEN {"RUNNABLE", "SLEEPING", "ZOMBIE"}
                                            ELSE {"RUNNING"}),
         pc[p] \notin {"sched", "wake_init"}, pc'[p] \notin WaitSection,
         \/ pc'[p] \notin {"yield", "sched", "resume"}
         \/ state'[p] = "ZOMBIE"
         => ret'[p] = "user",
         \/ At(p)' \in {"user", "wait", "exit"}
         \/ At(p)' = At(p) /\ arg'[p] = arg[p],
         \/ wait_lock' = wait_lock /\ pc[p] \notin WaitSection
         \/ wait_lock = c /\ wait_lock' = NoCpu,
         state'[p] = "ZOMBIE" => pc[p] = "zombie",
         Waits(p)' => pc[p] = "wait_sleep"
  PROVE  IInv'
<1>1. UNCHANGED <<cproc, cur, scan>>
  BY DEF cpus
<1>2. \A q \in Slot : q # p => /\ pc'[q] = pc[q] /\ ret'[q] = ret[q]
                               /\ i'[q] = i[q] /\ arg'[q] = arg[q]
  BY DEF Moves
<1>3. p # 0 /\ state[p] = "RUNNING"
  BY OnCpu, Slots
<1>4. pc[p] \in WaitSection => \A q \in Slot : q # p => pc[q] \notin WaitSection
  BY <1>3, InWaitSection
<1>5. Switching'
  BY <1>1, <1>2, SwitchingKept
<1>6. Returns'
  BY <1>2 DEF IInv, Returns, Dead
<1>7. WaitLocked'
  BY <1>1, <1>2, WaitLockedKept
<1>8. InitLives'
  BY <1>2, Slots DEF IInv, InitLives, Dead, WaitSection
<1>9. Forking'
  <2>1. ASSUME NEW q \in Slot, At(q)' \in {"fork_parent", "fork_run"}
        PROVE  At(q)' = At(q) /\ arg'[q] = arg[q]
    BY <1>2, <2>1 DEF At
  <2>2. \A q \in Slot : state[q] = "USED" => state'[q] = "USED"
    BY <1>3
  <2>3. ASSUME NEW q \in Slot PROVE ForkStays(q)
    BY <1>2, <2>1, <2>2 DEF ForkStays
  <2> QED
    BY <2>3, ForkingKept DEF IInv
<1>10. Orphaned'
  BY <1>2, <1>3, SMTT(60) DEF IInv, Orphaned, Dead, WaitSection
<1>11. Pids'
  BY <1>3 DEF IInv, Pids
<1>12. Kills'
  <2>1. \A q \in Slot : At(q)' = "kill" => At(q) = "kill" /\ arg'[q] = arg[q]
    BY <1>2, SMTT(60) DEF At
  <2>2. \A q \in Slot : state'[q] = "UNUSED" => q # p
    BY <1>3
  <2> QED
    BY <2>1, <2>2, SMTT(60) DEF IInv, Kills
<1>13. Wakeups'
  <2>1. ASSUME NEW r \in Slot, NEW q \in Slot, parent'[q] = r, state'[q] = "ZOMBIE"
        PROVE  /\ pc'[r] # "wait_sleep"
               /\ pc'[r] = "wait_scan" => q >= i'[r]
               /\ Waits(r)' => /\ r = initproc
                               /\ \E t \in Slot : pc'[t] = "wake_init" /\ i'[t] = 1
    <3>1. CASE q # p
      BY <1>2, <2>1, <3>1, SMTT(60) DEF IInv, Wakeups, Waits, WaitSection
    <3>2. CASE q = p
      <4>1. pc[p] = "zombie" /\ r # p
        BY <2>1, <3>2 DEF IInv, Orphaned
      <4>2. pc[r] \notin WaitSection /\ ~Waits(r)
        BY <1>4, <2>1, <3>2, <4>1 DEF IInv, Wakeups, WaitSection
      <4> QED
        BY <1>2, <4>1, <4>2 DEF Waits, WaitSection
    <3> QED
      BY <3>1, <3>2
  <2>2. ASSUME NEW r \in Slot, NEW q \in Slot, parent'[q] = r, Waits(r)'
        PROVE  pc'[q] # "zombie" /\ (pc'[q] = "wake_parent" => i'[q] <= r)
    <3>1. CASE r = p
      BY <1>2, <1>4, <2>2, <3>1 DEF WaitSection
    <3>2. CASE r # p
      BY <1>2, <2>2, <3>2, SMTT(60) DEF IInv, Wakeups, Waits, WaitSection
    <3> QED
      BY <3>1, <3>2
  <2> QED
    BY <2>1, <2>2 DEF Wakeups
<1> QED
  BY <1>5, <1>6, <1>7, <1>8, <1>9, <1>10, <1>11, <1>12, <1>13 DEF IInv

-----------------------------------------------------------------------------
(* Context switches                                                        *)

\* No CPU and no slot moves.
LEMMA SwitchingSame ==
  ASSUME Switching, UNCHANGED <<state, lock, cproc, cur, pc>>
  PROVE  Switching'
<1>1. ASSUME NEW c \in Cpu PROVE CpuRuns(c)'
  <2>1. CpuRuns(c) /\ SameSlot(cur[c]) /\ SameSlot(cproc[c])
    BY DEF Switching, SameSlot
  <2> QED
    BY <2>1, CpuKept
<1>2. OneCpu' /\ HeldByCpu'
  BY DEF Switching, OneCpu, HeldByCpu
<1>3. ASSUME NEW p \in Slot PROVE Parked(p)'
  <2>1. Parked(p)
    BY DEF Switching
  <2> QED
    BY <2>1 DEF Parked
<1> QED
  BY <1>1, <1>2, <1>3 DEF Switching

\* A step of the scheduler that touches only its own pointers and p->lock, or no step
\* at all: what the invariant says of the process table stays.
LEMMA SameTable ==
  ASSUME IInv,
         UNCHANGED <<state, chan, killed, pid, parent, wait_lock, nextpid, cur, pc, ret,
                     i, arg>>
  PROVE  /\ Returns' /\ WaitLocked' /\ InitLives' /\ Forking'
         /\ Orphaned' /\ Pids' /\ Kills' /\ Wakeups'
<1>1. Returns' /\ WaitLocked' /\ InitLives'
  BY DEF IInv, Returns, WaitLocked, InitLives
<1>2. Forking'
  <2>1. ASSUME NEW q \in Slot PROVE ForkStays(q)
    BY DEF ForkStays, At
  <2> QED
    BY <2>1, ForkingKept DEF IInv
<1>3. Orphaned'
  BY DEF IInv, Orphaned
<1>4. Pids' /\ Kills'
  BY DEF IInv, Pids, Kills, At
<1>5. Wakeups'
  BY DEF IInv, Wakeups, Waits
<1> QED
  BY <1>1, <1>2, <1>3, <1>4, <1>5

\* The scheduler takes a RUNNABLE process, or looks at the next one.
LEMMA SchedulerIInv ==
  ASSUME IInv, NEW c \in Cpu, scheduler(c)
  PROVE  IInv'
<1>1. PICK p \in Slot : p = scan[c]
  BY DEF IInv, TypeOK
<1>2. /\ cur[c] = 0 /\ cproc[c] = 0 /\ Free(p)
      /\ UNCHANGED <<chan, killed, pid, parent, wait_lock, nextpid, pc, ret, i, arg>>
  BY <1>1 DEF scheduler
<1>3. CASE state[p] # "RUNNABLE"
  <2>1. /\ UNCHANGED <<state, lock, cproc, cur>>
        /\ scan' = [scan EXCEPT ![c] = (p % NPROC) + 1]
    BY <1>1, <1>3 DEF scheduler
  <2>2. (p % NPROC) + 1 \in Slot
    BY Slots
  <2>3. TypeOK'
    BY <1>2, <2>1, <2>2 DEF IInv, TypeOK
  <2>4. Switching'
    BY <1>2, <2>1, SwitchingSame DEF IInv
  <2> QED
    BY <1>2, <2>1, <2>3, <2>4, SameTable DEF IInv
<1>4. CASE state[p] = "RUNNABLE"
  <2>1. /\ state' = [state EXCEPT ![p] = "RUNNING"] /\ lock' = [lock EXCEPT ![p] = c]
        /\ cproc' = [cproc EXCEPT ![c] = p] /\ cur' = [cur EXCEPT ![c] = p]
        /\ scan' = scan
    BY <1>1, <1>4 DEF scheduler
  <2>2. /\ \A d \in Cpu : cproc[d] # p /\ cur[d] # p
        /\ pc[p] = "resume" /\ p # 0
    <3>1. \A d \in Cpu : cproc[d] # p /\ cur[d] # p
      BY <1>2, <1>4, OffCpu
    <3>2. Parked(p) /\ p # 0
      BY Slots DEF IInv, Switching
    <3> QED
      BY <3>1, <3>2 DEF Parked
  <2>3. TypeOK'
    BY <1>2, <2>1 DEF IInv, TypeOK
  <2>4. Switching'
    <3>1. /\ \A d \in Cpu : d # c => cur'[d] = cur[d] /\ cproc'[d] = cproc[d]
          /\ cur'[c] = p /\ cproc'[c] = p
          /\ \A q \in Slot : q # p => state'[q] = state[q] /\ lock'[q] = lock[q]
          /\ state'[p] = "RUNNING" /\ lock'[p] = c /\ pc' = pc
          /\ \A d \in Cpu : cur[d] \in {0} \cup Slot /\ cproc[d] \in {0} \cup Slot
      BY <1>2, <2>1 DEF IInv, TypeOK
    <3>2. \A q \in Slot : lock[q] # c
      BY <1>2, Slots DEF IInv, Switching, HeldByCpu
    <3>3. OneCpu'
      <4>1. ASSUME NEW d \in Cpu, d # c PROVE cproc'[d] # cproc'[c]
        BY <2>2, <3>1, <4>1
      <4>2. ASSUME NEW d \in Cpu, NEW e \in Cpu, d # c, e # c, cproc'[d] # 0,
                   cproc'[d] = cproc'[e]
            PROVE  d = e
        <5>1. cproc[d] # 0 /\ cproc[d] = cproc[e]
          BY <3>1, <4>2
        <5> QED
          BY <5>1 DEF IInv, Switching, OneCpu
      <4> QED
        BY <4>1, <4>2 DEF OneCpu
    <3>4. ASSUME NEW d \in Cpu PROVE CpuRuns(d)'
      <4>1. CASE d = c
        BY <2>2, <3>1, <4>1 DEF CpuRuns
      <4>2. CASE d # c
        <5>1. CpuRuns(d) /\ SameSlot(cur[d]) /\ SameSlot(cproc[d])
          BY <2>2, <3>1 DEF IInv, Switching, SameSlot
        <5> QED
          BY <3>1, <4>2, <5>1, CpuKept
      <4> QED
        BY <4>1, <4>2
    <3>5. ASSUME NEW q \in Slot, NEW d \in Cpu, lock'[q] = d PROVE cproc'[d] = q
      <4>1. CASE q = p
        BY <3>1, <3>5, <4>1
      <4>2. CASE q # p
        <5>1. lock[q] = d /\ d # c
          BY <3>1, <3>2, <3>5, <4>2
        <5> QED
          BY <3>1, <5>1 DEF IInv, Switching, HeldByCpu
      <4> QED
        BY <4>1, <4>2
    <3>6. ASSUME NEW q \in Slot PROVE Parked(q)'
      <4>1. CASE q = p
        BY <3>1, <4>1 DEF Parked
      <4>2. CASE q # p
        <5>1. Parked(q) /\ cur[c] # q
          BY <1>2, Slots DEF IInv, Switching
        <5> QED
          BY <3>1, <4>2, <5>1 DEF Parked
      <4> QED
        BY <4>1, <4>2
    <3> QED
      BY <3>3, <3>4, <3>5, <3>6 DEF Switching, HeldByCpu
  <2>5. /\ \A q \in Slot : state'[q] \in Dead <=> state[q] \in Dead
        /\ \A q \in Slot : state[q] \in Dead => state'[q] = state[q]
        /\ \A q \in Slot : state'[q] = "SLEEPING" => state[q] = "SLEEPING"
    BY <1>4, <2>1 DEF IInv, TypeOK, Dead
  <2>6. Returns' /\ InitLives' /\ Forking' /\ Orphaned' /\ Kills' /\ Pids'
    <3>1. Returns' /\ InitLives'
      BY <1>2, <2>5, Slots DEF IInv, Returns, InitLives
    <3>2. Forking'
      <4>1. ASSUME NEW q \in Slot PROVE ForkStays(q)
        BY <1>2, <2>5 DEF ForkStays, At, Dead
      <4> QED
        BY <4>1, ForkingKept DEF IInv
    <3>3. Orphaned'
      BY <1>2, <2>5 DEF IInv, Orphaned, Dead
    <3>4. Kills' /\ Pids'
      BY <1>2, <2>5 DEF IInv, Kills, Pids, At, Dead
    <3> QED
      BY <3>1, <3>2, <3>3, <3>4
  <2>7. WaitLocked'
    <3>1. ASSUME NEW d \in Cpu
          PROVE  wait_lock' = d <=> cur'[d] # 0 /\ pc'[cur'[d]] \in WaitSection
      <4>1. CASE d = c
        BY <1>2, <2>1, <2>2, <4>1 DEF IInv, TypeOK, WaitLocked, WaitSection
      <4>2. CASE d # c
        BY <1>2, <2>1, <4>2 DEF IInv, TypeOK, WaitLocked
      <4> QED
        BY <4>1, <4>2
    <3> QED
      BY <3>1 DEF WaitLocked
  <2>8. Wakeups'
    BY <1>2, <2>5 DEF IInv, Wakeups, Waits, Dead
  <2> QED
    BY <2>3, <2>4, <2>6, <2>7, <2>8 DEF IInv
<1> QED
  BY <1>3, <1>4

\* The scheduler has its stack back and releases p->lock.
LEMMA SchedulerBackIInv ==
  ASSUME IInv, NEW c \in Cpu, scheduler_back(c)
  PROVE  IInv'
<1>1. PICK p \in Slot : p = cproc[c]
  BY DEF scheduler_back, IInv, TypeOK
<1>2. /\ cur[c] = 0 /\ lock' = [lock EXCEPT ![p] = NoCpu]
      /\ cproc' = [cproc EXCEPT ![c] = 0]
      /\ scan' = [scan EXCEPT ![c] = (@ % NPROC) + 1]
      /\ UNCHANGED <<state, chan, killed, pid, parent, wait_lock, nextpid, cur, pc, ret,
                     i, arg>>
  BY <1>1 DEF scheduler_back, table
<1>3. TypeOK'
  <2>1. scan[c] \in Slot /\ (scan[c] % NPROC) + 1 \in Slot
    BY Slots DEF IInv, TypeOK
  <2> QED
    BY <1>2, <2>1 DEF IInv, TypeOK
<1>4. Switching'
  <2>1. /\ \A d \in Cpu : d # c => cproc'[d] = cproc[d]
        /\ cproc'[c] = 0
        /\ \A q \in Slot : q # p => lock'[q] = lock[q]
        /\ lock'[p] = NoCpu
        /\ \A d \in Cpu : cur[d] \in {0} \cup Slot /\ cproc[d] \in {0} \cup Slot
    BY <1>2 DEF IInv, TypeOK
  <2>2. ASSUME NEW d \in Cpu, d # c PROVE cproc[d] # p /\ cur[d] # p
    <3>1. p # 0 /\ CpuRuns(d) /\ OneCpu
      BY Slots DEF IInv, Switching
    <3>2. cproc[d] # p
      BY <1>1, <2>2, <3>1 DEF OneCpu
    <3> QED
      BY <3>1, <3>2 DEF CpuRuns
  <2>3. OneCpu'
    <3>1. ASSUME NEW d \in Cpu, cproc'[d] # 0 PROVE d # c /\ cproc'[d] = cproc[d]
      BY <2>1, <3>1
    <3>2. ASSUME NEW d \in Cpu, NEW e \in Cpu, cproc'[d] # 0, cproc'[d] = cproc'[e]
          PROVE  d = e
      <4>1. cproc[d] = cproc[e] /\ cproc[d] # 0
        BY <3>1, <3>2
      <4> QED
        BY <4>1 DEF IInv, Switching, OneCpu
    <3> QED
      BY <3>2 DEF OneCpu
  <2>4. ASSUME NEW d \in Cpu PROVE CpuRuns(d)'
    <3>1. CASE d = c
      BY <1>2, <2>1, <3>1 DEF CpuRuns
    <3>2. CASE d # c
      <4>1. CpuRuns(d) /\ SameSlot(cur[d]) /\ SameSlot(cproc[d])
        BY <1>2, <2>1, <2>2, <3>2 DEF IInv, Switching, SameSlot
      <4> QED
        BY <1>2, <2>1, <3>2, <4>1, CpuKept
    <3> QED
      BY <3>1, <3>2
  <2>5. ASSUME NEW q \in Slot, NEW d \in Cpu, lock'[q] = d PROVE cproc'[d] = q
    <3>1. q # p /\ lock[q] = d
      BY <2>1, <2>5, CpuAssumption
    <3>2. cproc[d] = q
      BY <3>1 DEF IInv, Switching, HeldByCpu
    <3> QED
      BY <1>1, <2>1, <3>1, <3>2
  <2>6. ASSUME NEW q \in Slot PROVE Parked(q)'
    BY <1>2 DEF IInv, Switching, Parked
  <2> QED
    BY <2>3, <2>4, <2>5, <2>6 DEF Switching, HeldByCpu
<1> QED
  BY <1>2, <1>3, <1>4, SameTable DEF IInv

\* sched leaves the thread, with p->lock held.
LEMMA SchedIInv ==
  ASSUME IInv, NEW c \in Cpu, sched(c)
  PROVE  IInv'
<1>1. PICK p \in Slot : p = cur[c]
  BY DEF sched, IInv, TypeOK
<1>2. /\ pc[p] = "sched" /\ pc' = [pc EXCEPT ![p] = "resume"]
      /\ cur' = [cur EXCEPT ![c] = 0]
      /\ UNCHANGED <<state, chan, killed, pid, parent, lock, wait_lock, nextpid, cproc,
                     scan, ret, i, arg>>
  BY <1>1 DEF sched, table, locks
<1>3. /\ \A d \in Cpu : d # c => cur'[d] = cur[d] /\ cur[d] # p
      /\ cur'[c] = 0 /\ pc'[p] = "resume" /\ cproc[c] = p
      /\ \A q \in Slot : q # p => pc'[q] = pc[q]
      /\ \A d \in Cpu : cur[d] \in {0} \cup Slot /\ cproc[d] \in {0} \cup Slot
  <2>1. p # 0 /\ cproc[c] = p /\ \A d \in Cpu : d # c => cur[d] # p
    BY <1>1, Slots, OnCpu
  <2> QED
    BY <1>2, <2>1 DEF IInv, TypeOK
<1>4. TypeOK'
  BY <1>2 DEF IInv, TypeOK, Label
<1>5. Switching'
  <2>1. lock[p] = c /\ state[p] \in {"RUNNABLE", "SLEEPING", "ZOMBIE"}
    <3>1. CpuRuns(c) /\ p # 0
      BY Slots DEF IInv, Switching
    <3> QED
      BY <1>1, <1>2, <3>1 DEF CpuRuns
  <2>2. OneCpu' /\ HeldByCpu'
    BY <1>2 DEF IInv, Switching, OneCpu, HeldByCpu
  <2>3. ASSUME NEW d \in Cpu PROVE CpuRuns(d)'
    <3>1. CASE d = c
      BY <1>2, <1>3, <2>1, <3>1 DEF CpuRuns
    <3>2. CASE d # c
      <4>1. CpuRuns(d) /\ OneCpu /\ p # 0
        BY Slots DEF IInv, Switching
      <4>2. cproc[d] # p
        BY <1>3, <3>2, <4>1 DEF OneCpu
      <4>3. SameSlot(cur[d]) /\ SameSlot(cproc[d])
        BY <1>2, <1>3, <3>2, <4>2 DEF SameSlot
      <4> QED
        BY <1>2, <1>3, <3>2, <4>1, <4>3, CpuKept
    <3> QED
      BY <3>1, <3>2
  <2>4. ASSUME NEW q \in Slot PROVE Parked(q)'
    <3>1. CASE q = p
      BY <1>2, <1>3, <2>1, <3>1 DEF Parked
    <3>2. CASE q # p
      <4>1. Parked(q)
        BY DEF IInv, Switching
      <4> QED
        BY <1>1, <1>2, <1>3, <3>2, <4>1 DEF Parked
    <3> QED
      BY <3>1, <3>2
  <2> QED
    BY <2>2, <2>3, <2>4 DEF Switching
<1>6. WaitLocked'
  <2> SUFFICES ASSUME NEW d \in Cpu
               PROVE  wait_lock' = d <=> cur'[d] # 0 /\ pc'[cur'[d]] \in WaitSection
    BY DEF WaitLocked
  <2>1. CASE d = c
    <3>1. p # 0 /\ wait_lock # c
      BY <1>1, <1>2, Slots DEF IInv, WaitLocked, WaitSection
    <3> QED
      BY <1>2, <1>3, <2>1, <3>1
  <2>2. CASE d # c
    <3>1. cur[d] # 0 => pc'[cur[d]] = pc[cur[d]]
      BY <1>3, <2>2
    <3> QED
      BY <1>2, <1>3, <2>2, <3>1 DEF IInv, WaitLocked
  <2> QED
    BY <2>1, <2>2
<1>7. Forking'
  <2>1. ASSUME NEW q \in Slot PROVE At(q)' = At(q)
    BY <1>2, <1>3 DEF At
  <2>2. ASSUME NEW q \in Slot PROVE ForkStays(q)
    BY <1>2, <2>1 DEF ForkStays
  <2> QED
    BY <2>2, ForkingKept DEF IInv
<1>8. Kills'
  <2>1. \A q \in Slot : At(q)' = At(q)
    BY <1>2, <1>3 DEF At
  <2> QED
    BY <1>2, <2>1 DEF IInv, Kills
<1>9. Returns' /\ InitLives' /\ Pids'
  BY <1>2, <1>3, Slots DEF IInv, Returns, InitLives, Pids
<1>10. Orphaned' /\ Wakeups'
  <2>1. Orphaned'
    BY <1>2, <1>3 DEF IInv, Orphaned
  <2>2. ASSUME NEW q \in Slot
        PROVE  /\ pc'[q] # "resume" => pc'[q] = pc[q]
               /\ pc[q] # "sched" => pc'[q] = pc[q]
               /\ Waits(q)' = Waits(q)
    BY <1>2, <1>3 DEF Waits
  <2>3. ASSUME NEW r \in Slot, NEW q \in Slot, parent[q] = r, state[q] = "ZOMBIE"
        PROVE  /\ pc'[r] # "wait_sleep"
               /\ pc'[r] = "wait_scan" => q >= i[r]
               /\ Waits(r) => /\ r = initproc
                              /\ \E s \in Slot : pc'[s] = "wake_init" /\ i[s] = 1
    <3>1. /\ pc[r] # "wait_sleep"
          /\ pc[r] = "wait_scan" => q >= i[r]
          /\ Waits(r) => r = initproc /\ \E s \in Slot : pc[s] = "wake_init" /\ i[s] = 1
      BY <2>3 DEF IInv, Wakeups
    <3> QED
      BY <2>2, <3>1
  <2>4. ASSUME NEW r \in Slot, NEW q \in Slot, parent[q] = r, Waits(r)
        PROVE  pc'[q] # "zombie" /\ (pc'[q] = "wake_parent" => i[q] <= r)
    <3>1. pc[q] # "zombie" /\ (pc[q] = "wake_parent" => i[q] <= r)
      BY <2>4 DEF IInv, Wakeups
    <3> QED
      BY <2>2, <3>1
  <2> QED
    BY <1>2, <2>1, <2>2, <2>3, <2>4 DEF Wakeups
<1> QED
  BY <1>4, <1>5, <1>6, <1>7, <1>8, <1>9, <1>10 DEF IInv

\* The thread is back from swtch and releases its p->lock.
LEMMA ResumeIInv ==
  ASSUME IInv, NEW c \in Cpu, resume(c)
  PROVE  IInv'
<1>1. PICK p \in Slot : p = cur[c] /\ pc[p] = "resume"
  BY DEF resume, IInv, TypeOK
<1>2. p # 0 /\ state[p] = "RUNNING"
  BY <1>1, OnCpu, Slots
<1>3. /\ lock' = [lock EXCEPT ![p] = NoCpu] /\ chan' = [chan EXCEPT ![p] = 0]
      /\ pc' = [pc EXCEPT ![p] = ret[p]] /\ ret' = [ret EXCEPT ![p] = "user"]
      /\ UNCHANGED <<state, killed, pid, parent, wait_lock, nextpid, cpus, i, arg>>
  BY <1>1 DEF resume, locks, table
<1>4. ret[p] \in Preemptible \cup {"user"}
  BY DEF IInv, TypeOK
<1>5. TypeOK' /\ Moves(p)
  BY <1>3, <1>4 DEF IInv, TypeOK, Moves, Label, cpus
<1>6. /\ pc'[p] = ret[p] /\ ret'[p] = "user" /\ lock'[p] = NoCpu
      /\ \A q \in Slot : q # p => chan'[q] = chan[q] /\ lock'[q] = lock[q]
  BY <1>3 DEF IInv, TypeOK
<1>7. pc'[p] \notin WaitSection \cup {"sched", "resume", "yield"} /\ At(p)' = At(p)
  BY <1>1, <1>4, <1>6 DEF WaitSection, Preemptible, At
<1> QED
  BY <1>1, <1>2, <1>3, <1>5, <1>6, <1>7, OwnIInv, CpuAssumption DEF Waits, WaitSection

\* yield takes p->lock and keeps it through sched.
LEMMA YieldIInv ==
  ASSUME IInv, NEW c \in Cpu, yield(c)
  PROVE  IInv'
<1>1. PICK p \in Slot : p = cur[c] /\ pc[p] = "yield"
  BY DEF yield, IInv, TypeOK
<1>2. p # 0 /\ state[p] = "RUNNING"
  BY <1>1, OnCpu, Slots
<1>3. /\ lock' = [lock EXCEPT ![p] = c] /\ state' = [state EXCEPT ![p] = "RUNNABLE"]
      /\ pc' = [pc EXCEPT ![p] = "sched"]
      /\ UNCHANGED <<chan, killed, pid, parent, wait_lock, nextpid, cpus, ret, i, arg>>
  BY <1>1 DEF yield, locks, table
<1>4. TypeOK' /\ Moves(p)
  BY <1>3 DEF IInv, TypeOK, Moves, Label, cpus
<1>5. /\ pc'[p] = "sched" /\ state'[p] = "RUNNABLE" /\ lock'[p] = c
      /\ \A q \in Slot : q # p => state'[q] = state[q] /\ lock'[q] = lock[q]
  BY <1>3 DEF IInv, TypeOK
<1>6. At(p)' = At(p)
  BY <1>1, <1>3, <1>5 DEF At
<1> QED
  BY <1>1, <1>3, <1>4, <1>5, <1>6, OwnIInv, SMTT(60) DEF Waits, WaitSection

\* A fault of the program.
LEMMA FaultIInv ==
  ASSUME IInv, NEW c \in Cpu, usertrap_fault(c)
  PROVE  IInv'
<1>1. PICK p \in Slot : p = cur[c] /\ pc[p] = "user"
  BY DEF usertrap_fault, IInv, TypeOK
<1>2. p # 0 /\ state[p] = "RUNNING"
  BY <1>1, OnCpu, Slots
<1>3. /\ killed' = [killed EXCEPT ![p] = TRUE] /\ pc' = [pc EXCEPT ![p] = "exit"]
      /\ i' = [i EXCEPT ![p] = 1]
      /\ UNCHANGED <<state, chan, pid, parent, lock, wait_lock, nextpid, cpus, ret, arg>>
  BY <1>1 DEF usertrap_fault, Goto, locks, table
<1>4. TypeOK' /\ Moves(p)
  BY <1>3 DEF IInv, TypeOK, Moves, Label, Preemptible, cpus
<1>5. /\ pc'[p] = "exit" /\ ret'[p] = "user" /\ lock'[p] = NoCpu
      /\ \A q \in Slot : q # p => killed'[q] = killed[q]
  BY <1>1, <1>2, <1>3, OnCpu, SMTT(60) DEF IInv, TypeOK, Returns, Free
<1>6. At(p)' = "exit"
  BY <1>5 DEF At
<1> QED
  BY <1>1, <1>2, <1>3, <1>4, <1>5, <1>6, OwnIInv, CpuAssumption DEF Waits, WaitSection

\* sleep(p, &wait_lock): p->lock is held before wait_lock is released.
LEMMA SleepIInv ==
  ASSUME IInv, NEW c \in Cpu, sleep(c)
  PROVE  IInv'
<1>1. PICK p \in Slot : p = cur[c] /\ pc[p] = "wait_sleep"
  BY DEF sleep, IInv, TypeOK
<1>2. p # 0 /\ state[p] = "RUNNING"
  BY <1>1, OnCpu, Slots
<1>3. /\ lock' = [lock EXCEPT ![p] = c] /\ wait_lock' = NoCpu
      /\ chan' = [chan EXCEPT ![p] = p] /\ state' = [state EXCEPT ![p] = "SLEEPING"]
      /\ pc' = [pc EXCEPT ![p] = "sched"] /\ ret' = [ret EXCEPT ![p] = "wait"]
      /\ UNCHANGED <<killed, pid, parent, nextpid, cpus, i, arg>>
  BY <1>1 DEF sleep, locks, table
<1>4. TypeOK' /\ Moves(p)
  BY <1>3 DEF IInv, TypeOK, Moves, Label, Preemptible, cpus
<1>5. /\ pc'[p] = "sched" /\ state'[p] = "SLEEPING" /\ lock'[p] = c /\ ret'[p] = "wait"
      /\ \A q \in Slot : q # p => /\ state'[q] = state[q] /\ lock'[q] = lock[q]
                                  /\ chan'[q] = chan[q]
  BY <1>3 DEF IInv, TypeOK
<1>6. At(p)' = "wait" /\ wait_lock = c
  BY <1>1, <1>2, <1>5, InWaitSection DEF At, WaitSection
<1> QED
  BY <1>1, <1>3, <1>4, <1>5, <1>6, OwnIInv, SMTT(60) DEF WaitSection

\* The end of kexit: ZOMBIE under p->lock, then wait_lock is released.
LEMMA ZombieIInv ==
  ASSUME IInv, NEW c \in Cpu, zombie(c)
  PROVE  IInv'
<1>1. PICK p \in Slot : p = cur[c] /\ pc[p] = "zombie"
  BY DEF zombie, IInv, TypeOK
<1>2. p # 0 /\ state[p] = "RUNNING"
  BY <1>1, OnCpu, Slots
<1>3. /\ lock' = [lock EXCEPT ![p] = c] /\ wait_lock' = NoCpu
      /\ state' = [state EXCEPT ![p] = "ZOMBIE"]
      /\ pc' = [pc EXCEPT ![p] = "sched"]
      /\ UNCHANGED <<chan, killed, pid, parent, nextpid, cpus, ret, i, arg>>
  BY <1>1 DEF zombie, locks, table
<1>4. TypeOK' /\ Moves(p)
  BY <1>3 DEF IInv, TypeOK, Moves, Label, cpus
<1>5. /\ pc'[p] = "sched" /\ state'[p] = "ZOMBIE" /\ lock'[p] = c /\ ret'[p] = "user"
      /\ \A q \in Slot : q # p => state'[q] = state[q] /\ lock'[q] = lock[q]
  BY <1>1, <1>3 DEF IInv, TypeOK, Returns
<1>6. At(p)' = "user" /\ wait_lock = c
  BY <1>1, <1>2, <1>5, InWaitSection DEF At, WaitSection
<1> QED
  BY <1>1, <1>3, <1>4, <1>5, <1>6, OwnIInv, SMTT(60) DEF Waits, WaitSection

-----------------------------------------------------------------------------
(* Steps that change another process                                       *)

\* A step that wakes processes or marks them killed: wakeup and kkill.  wakeup has
\* passed init when it leaves slot 1, and the parent when it leaves the parent's slot.
LEMMA WokenIInv ==
  ASSUME IInv, TypeOK', NEW c \in Cpu, NEW p \in Slot, p = cur[c], Moves(p),
         UNCHANGED <<chan, pid, parent, lock, wait_lock, nextpid, cpus, ret, arg>>,
         \A q \in Slot : \/ state'[q] = state[q]
                         \/ state[q] = "SLEEPING" /\ state'[q] = "RUNNABLE" /\ Free(q),
         \A q \in Slot : state[q] = "UNUSED" /\ killed'[q] => killed[q] \/ 0 \in KillPids,
         \/ pc[p] = "kill" /\ pc'[p] \in {"kill", "ret"}
         \/ pc[p] = "wake_init" /\ pc'[p] \in {"wake_init", "reparent"}
         \/ pc[p] = "wake_parent" /\ pc'[p] \in {"wake_parent", "zombie"},
         pc[p] = "wake_init" /\ i[p] = 1 => ~Waits(initproc)',
         \A r \in Slot : pc[p] = "wake_parent" /\ parent[p] = r /\ Waits(r)' =>
                           pc'[p] = "wake_parent" /\ i'[p] <= r
  PROVE  IInv'
<1>1. UNCHANGED <<cproc, cur, scan>>
  BY DEF cpus
<1>2. \A q \in Slot : q # p => pc'[q] = pc[q] /\ i'[q] = i[q]
  BY DEF Moves
<1>3. p # 0 /\ Free(p) /\ state[p] = "RUNNING" /\ lock[p] # c
  BY Running
<1>4. /\ \A q \in Slot : state'[q] \in Dead <=> state[q] \in Dead
      /\ \A q \in Slot : state[q] \in Dead => state'[q] = state[q]
      /\ \A q \in Slot : Waits(q)' => Waits(q)
  BY DEF Dead, Waits
<1>5. \A q \in Slot : /\ At(q)' # At(q) => At(q)' \in {"ret", "reparent", "zombie"}
                      /\ pc'[q] \in {"fork_parent", "wait_scan", "wait_sleep", "reparent",
                                     "yield", "sched", "resume"} =>
                           pc'[q] = pc[q] \/ (pc'[q] = "reparent" /\ pc[q] = "wake_init")
  BY <1>2, SMTT(60) DEF At
<1>6. Switching'
  BY <1>1, <1>2, <1>3, SwitchingKept, SMTT(60) DEF Free
<1>7. Returns'
  BY <1>2, <1>4, <1>5 DEF IInv, Returns
<1>8. WaitLocked'
  BY <1>1, <1>2, WaitLockedKept DEF WaitSection
<1>9. InitLives'
  BY <1>2, <1>4, Slots DEF IInv, InitLives
<1>10. Forking'
  <2>1. ASSUME NEW q \in Slot PROVE ForkStays(q)
    BY <1>4, <1>5 DEF ForkStays, Dead
  <2> QED
    BY <2>1, ForkingKept DEF IInv
<1>11. Orphaned'
  BY <1>2, <1>4, SMTT(60) DEF IInv, Orphaned, Dead
<1>12. Pids'
  BY <1>4 DEF IInv, Pids, Dead
<1>13. Kills'
  BY <1>4, <1>5 DEF IInv, Kills, Dead
<1>14. Wakeups'
  <2>1. ASSUME NEW r \in Slot, NEW q \in Slot, parent'[q] = r, state'[q] = "ZOMBIE"
        PROVE  /\ pc'[r] # "wait_sleep"
               /\ pc'[r] = "wait_scan" => q >= i'[r]
               /\ Waits(r)' => /\ r = initproc
                               /\ \E t \in Slot : pc'[t] = "wake_init" /\ i'[t] = 1
    <3>1. state[q] = "ZOMBIE" /\ parent[q] = r
      BY <1>4, <2>1 DEF Dead
    <3>2. /\ pc'[r] # "wait_sleep"
          /\ pc'[r] = "wait_scan" => q >= i'[r]
      BY <1>2, <3>1, SMTT(60) DEF IInv, Wakeups
    <3>3. ASSUME Waits(r)'
          PROVE  r = initproc /\ \E t \in Slot : pc'[t] = "wake_init" /\ i'[t] = 1
      <4>1. r = initproc /\ \E t \in Slot : pc[t] = "wake_init" /\ i[t] = 1
        BY <1>4, <3>1, <3>3 DEF IInv, Wakeups
      <4>2. PICK t \in Slot : pc[t] = "wake_init" /\ i[t] = 1
        BY <4>1
      <4>3. t # p
        BY <3>3, <4>1, <4>2
      <4> QED
        BY <1>2, <4>1, <4>2, <4>3, SMTT(60)
    <3> QED
      BY <3>2, <3>3
  <2>2. ASSUME NEW r \in Slot, NEW q \in Slot, parent'[q] = r, Waits(r)'
        PROVE  pc'[q] # "zombie" /\ (pc'[q] = "wake_parent" => i'[q] <= r)
    <3>1. Waits(r) /\ parent[q] = r
      BY <1>4, <2>2
    <3>2. CASE q = p
      BY <2>2, <3>1, <3>2
    <3>3. CASE q # p
      BY <1>2, <3>1, <3>3, SMTT(60) DEF IInv, Wakeups
    <3> QED
      BY <3>2, <3>3
  <2> QED
    BY <2>1, <2>2 DEF Wakeups
<1> QED
  BY <1>6, <1>7, <1>8, <1>9, <1>10, <1>11, <1>12, <1>13, <1>14 DEF IInv

\* wakeup(initproc) by reparent and wakeup(p->parent) by kexit.
LEMMA WakeupIInv ==
  ASSUME IInv, NEW c \in Cpu, wakeup(c)
  PROVE  IInv'
<1>1. PICK p \in Slot : p = cur[c] /\ pc[p] \in {"wake_init", "wake_parent"}
  BY DEF wakeup, IInv, TypeOK
<1>2. UNCHANGED <<chan, killed, pid, parent, lock, wait_lock, nextpid, cpus, ret, arg>>
  BY DEF wakeup, locks
<1>3. p # initproc /\ initproc = 1
  BY <1>1 DEF IInv, InitLives, initproc
<1>4. CASE WakeOne(p, IF pc[p] = "wake_init" THEN initproc ELSE parent[p])
  <2> DEFINE ch == IF pc[p] = "wake_init" THEN initproc ELSE parent[p]
  <2>1. PICK q \in Slot : q = i[p]
    BY <1>4 DEF WakeOne
  <2>2. /\ q # p => Free(q)
        /\ pc' = pc /\ i' = [i EXCEPT ![p] = q + 1]
        /\ state' = IF q # p /\ state[q] = "SLEEPING" /\ chan[q] = ch
                      THEN [state EXCEPT ![q] = "RUNNABLE"] ELSE state
    BY <1>4, <2>1 DEF WakeOne, NextSlot
  <2> HIDE DEF ch
  <2>3. q + 1 \in Nat /\ q \in Nat
    BY SMTT(60) DEF Slot
  <2>4. i' \in [Slot -> Nat] /\ i'[p] = q + 1 /\ \A r \in Slot : r # p => i'[r] = i[r]
    BY <2>2, <2>3 DEF IInv, TypeOK
  <2>5. state' \in [Slot -> {"UNUSED", "USED", "SLEEPING", "RUNNABLE", "RUNNING", "ZOMBIE"}]
    BY <2>2 DEF IInv, TypeOK
  <2>6. TypeOK' /\ Moves(p)
    BY <1>2, <2>2, <2>4, <2>5 DEF IInv, TypeOK, Moves, cpus
  <2>7. /\ \A r \in Slot : \/ state'[r] = state[r]
                           \/ state[r] = "SLEEPING" /\ state'[r] = "RUNNABLE" /\ Free(r)
        /\ q # p => ~(state'[q] = "SLEEPING" /\ chan'[q] = ch)
        /\ i'[p] = q + 1 /\ pc'[p] = pc[p]
    BY <1>2, <2>2, <2>4 DEF IInv, TypeOK
  <2>8. pc[p] = "wake_init" /\ i[p] = 1 => ~Waits(initproc)'
    BY <1>3, <2>1, <2>7 DEF Waits, ch
  <2>9. ASSUME NEW r \in Slot, pc[p] = "wake_parent", parent[p] = r, Waits(r)'
        PROVE  pc'[p] = "wake_parent" /\ i'[p] <= r
    <3>1. r # p
      BY <2>9 DEF IInv, Orphaned
    <3>2. Waits(r) /\ i[p] <= r
      <4>1. Waits(r)
        BY <1>2, <2>7, <2>9 DEF Waits
      <4> QED
        BY <2>9, <4>1 DEF IInv, Wakeups
    <3>3. q # r
      BY <2>7, <2>9, <3>1 DEF Waits, ch
    <3>4. r \in Nat
      BY SMTT(60) DEF Slot
    <3> QED
      BY <2>1, <2>3, <2>7, <2>9, <3>2, <3>3, <3>4, SMTT(60)
  <2> QED
    BY <1>1, <1>2, <2>6, <2>7, <2>8, <2>9, WokenIInv
<1>5. CASE /\ i[p] > NPROC
           /\ Goto(p, IF pc[p] = "wake_init" THEN "reparent" ELSE "zombie")
           /\ UNCHANGED state
  <2>1. TypeOK' /\ Moves(p)
    BY <1>2, <1>5 DEF IInv, TypeOK, Moves, cpus, Goto, Label
  <2>2. pc'[p] = (IF pc[p] = "wake_init" THEN "reparent" ELSE "zombie") /\ state' = state
    BY <1>5 DEF Goto, IInv, TypeOK
  <2>3. i[p] # 1 /\ \A r \in Slot : ~(i[p] <= r)
    <3>1. i[p] \in Nat /\ i[p] > NPROC
      BY <1>5 DEF IInv, TypeOK
    <3> QED
      BY <3>1, NPROCAssumption, SMTT(60) DEF Slot
  <2>4. ASSUME NEW r \in Slot, pc[p] = "wake_parent", parent[p] = r, Waits(r)' PROVE FALSE
    BY <1>2, <2>2, <2>3, <2>4 DEF IInv, Wakeups, Waits
  <2> QED
    BY <1>1, <1>2, <2>1, <2>2, <2>3, <2>4, WokenIInv
<1> QED
  BY <1>1, <1>4, <1>5 DEF wakeup

\* kkill looks at the next slot, gives up, or marks the process with the pid.
LEMMA KillIInv ==
  ASSUME IInv, NEW c \in Cpu, kill(c)
  PROVE  IInv'
<1>1. PICK p \in Slot : p = cur[c] /\ pc[p] = "kill"
  BY DEF kill, IInv, TypeOK
<1>2. UNCHANGED <<chan, pid, parent, lock, wait_lock, nextpid, cpus, ret, arg>>
  BY DEF kill, locks
<1>3. CASE UNCHANGED <<state, killed>>
  <2>1. i[p] \in Nat /\ i[p] + 1 \in Nat
    BY SMTT(60) DEF IInv, TypeOK
  <2>2. /\ pc' \in [Slot -> Label] /\ \A q \in Slot : q # p => pc'[q] = pc[q]
        /\ pc'[p] \in {"kill", "ret"}
        /\ i' \in [Slot -> Nat] /\ \A q \in Slot : q # p => i'[q] = i[q]
    <3>1. Goto(p, "ret") \/ NextSlot(p)
      BY <1>1 DEF kill
    <3> QED
      BY <1>1, <2>1, <3>1, SMTT(60) DEF Goto, NextSlot, IInv, TypeOK, Label, Preemptible
  <2>3. TypeOK' /\ Moves(p)
    BY <1>2, <1>3, <2>2 DEF IInv, TypeOK, Moves, cpus
  <2> QED
    BY <1>1, <1>2, <1>3, <2>2, <2>3, WokenIInv
<1>4. CASE /\ i[p] \in Slot /\ Free(i[p]) /\ pid[i[p]] = arg[p]
           /\ killed' = [killed EXCEPT ![i[p]] = TRUE]
           /\ state' = [state EXCEPT ![i[p]] = IF @ = "SLEEPING" THEN "RUNNABLE" ELSE @]
           /\ Goto(p, "ret")
  <2>1. PICK q \in Slot : q = i[p]
    BY <1>4
  <2>2. TypeOK' /\ Moves(p) /\ pc'[p] = "ret"
    BY <1>2, <1>4 DEF Goto, IInv, TypeOK, Moves, cpus, Label, Preemptible
  <2>3. /\ \A r \in Slot : r # q => state'[r] = state[r] /\ killed'[r] = killed[r]
        /\ state'[q] = (IF state[q] = "SLEEPING" THEN "RUNNABLE" ELSE state[q]) /\ Free(q)
    BY <1>4, <2>1 DEF IInv, TypeOK
  <2>4. 0 \notin KillPids => state[q] # "UNUSED"
    BY <1>1, <1>4, <2>1 DEF IInv, Kills, Pids, At
  <2> QED
    BY <1>1, <1>2, <2>2, <2>3, <2>4, WokenIInv
<1> QED
  BY <1>1, <1>3, <1>4 DEF kill

\* freeproc on a slot that nobody runs, by kwait or by a fork that fails.
LEMMA FreeprocIInv ==
  ASSUME IInv, NEW c \in Cpu, NEW p \in Slot, p = cur[c], Moves(p),
         NEW q \in Slot, Free(q), state[q] \in {"UNUSED", "ZOMBIE"}, freeproc(q),
         UNCHANGED <<lock, cpus, ret, arg>>,
         nextpid' \in Nat, nextpid' >= nextpid,
         pc[p] \in {"fork_alloc", "wait_scan"}, pc'[p] = "ret",
         \/ wait_lock' = wait_lock /\ pc[p] # "wait_scan"
         \/ wait_lock = c /\ wait_lock' = NoCpu
  PROVE  IInv'
<1>1. UNCHANGED <<cproc, cur, scan>>
  BY DEF cpus
<1>2. \A r \in Slot : r # p => pc'[r] = pc[r] /\ i'[r] = i[r]
  BY DEF Moves
<1>3. p # 0 /\ Free(p) /\ state[p] = "RUNNING" /\ lock[p] # c
  BY Running
<1>4. /\ \A r \in Slot : r # q => /\ state'[r] = state[r] /\ pid'[r] = pid[r]
                                  /\ parent'[r] = parent[r] /\ chan'[r] = chan[r]
                                  /\ killed'[r] = killed[r]
      /\ state'[q] = "UNUSED" /\ pid'[q] = 0 /\ parent'[q] = 0 /\ ~killed'[q]
  BY DEF freeproc, IInv, TypeOK
<1>5. TypeOK'
  BY <1>1 DEF freeproc, IInv, TypeOK, Moves
<1>6. \A r \in Slot : At(r)' # At(r) => At(r)' = "ret"
  BY <1>2 DEF At
<1>7. Switching'
  BY <1>1, <1>2, <1>3, <1>4, SwitchingKept, SMTT(60) DEF Free
<1>8. Returns'
  BY <1>2, <1>4 DEF IInv, Returns, Dead
<1>9. WaitLocked'
  BY <1>1, <1>2, WaitLockedKept DEF WaitSection
<1>10. InitLives'
  BY <1>2, <1>4, Slots DEF IInv, InitLives, Dead
<1>11. Forking'
  <2>1. ASSUME NEW r \in Slot PROVE ForkStays(r)
    BY <1>4, <1>6 DEF ForkStays
  <2> QED
    BY <2>1, ForkingKept DEF IInv
<1>12. Orphaned'
  BY <1>2, <1>4, Slots, SMTT(60) DEF IInv, Orphaned, Dead
<1>13. Pids'
  <2>1. nextpid \in Nat /\ \A r \in Slot : pid[r] \in Nat
    BY DEF IInv, TypeOK
  <2> QED
    BY <1>4, <2>1, SMTT(60) DEF IInv, Pids
<1>14. Kills'
  BY <1>4, <1>6 DEF IInv, Kills
<1>15. Wakeups'
  <2>1. \A r \in Slot : /\ state'[r] = "ZOMBIE" => state[r] = "ZOMBIE" /\ parent'[r] = parent[r]
                        /\ Waits(r)' => Waits(r)
                        /\ parent'[r] \in Slot => parent'[r] = parent[r]
                        /\ pc'[r] # pc[r] => pc'[r] = "ret"
                        /\ pc[r] = "wake_init" => pc'[r] = "wake_init"
                        /\ pc'[r] = pc[r] => i'[r] = i[r]
    BY <1>2, <1>4, Slots, SMTT(60) DEF Waits
  <2> QED
    BY <2>1, SMTT(60) DEF IInv, Wakeups
<1> QED
  BY <1>5, <1>7, <1>8, <1>9, <1>10, <1>11, <1>12, <1>13, <1>14, <1>15 DEF IInv

\* allocproc takes a free slot, with a fresh pid.
LEMMA AllocFoundIInv ==
  ASSUME IInv, NEW c \in Cpu, NEW p \in Slot, p = cur[c], pc[p] = "fork_alloc",
         AllocFound(p), UNCHANGED <<lock, wait_lock, cpus>>
  PROVE  IInv'
<1>1. UNCHANGED <<cproc, cur, scan, chan, killed, parent>>
  BY DEF cpus, AllocFound
<1>2. PICK np \in Slot : np = i[p]
  BY DEF AllocFound
<1>3. p # 0 /\ Free(p) /\ state[p] = "RUNNING" /\ lock[p] # c
  BY Running
<1>4. /\ Free(np) /\ state[np] = "UNUSED" /\ np # p
      /\ nextpid' = nextpid + 1
      /\ state' = [state EXCEPT ![np] = "USED"]
      /\ pid' = [pid EXCEPT ![np] = nextpid]
      /\ pc' = [pc EXCEPT ![p] = "fork_parent", ![np] = "resume"]
      /\ ret' = [ret EXCEPT ![np] = "user"]
      /\ i' = [i EXCEPT ![p] = 1, ![np] = 1]
      /\ arg' = [arg EXCEPT ![p] = np, ![np] = 0]
  BY <1>2, <1>3 DEF AllocFound
<1>5. TypeOK'
  <2>1. nextpid + 1 \in Nat /\ np \in Nat
    BY SMTT(60) DEF IInv, TypeOK, Slot
  <2>2. pid' \in [Slot -> Nat] /\ nextpid' \in Nat /\ arg' \in [Slot -> Nat]
    BY <1>4, <2>1 DEF IInv, TypeOK
  <2> QED
    BY <1>1, <1>4, <2>2 DEF IInv, TypeOK, Label, Preemptible
<1>6. /\ \A r \in Slot : r # np => state'[r] = state[r] /\ pid'[r] = pid[r]
      /\ state'[np] = "USED" /\ pid'[np] = nextpid
      /\ \A r \in Slot \ {p, np} : pc'[r] = pc[r] /\ i'[r] = i[r] /\ arg'[r] = arg[r]
      /\ \A r \in Slot : r # np => ret'[r] = ret[r]
      /\ pc'[p] = "fork_parent" /\ arg'[p] = np
      /\ pc'[np] = "resume" /\ ret'[np] = "user"
  BY <1>4 DEF IInv, TypeOK
<1>7. pc[np] = "resume" /\ ret[np] = "user"
  <2>1. \A d \in Cpu : cur[d] # np
    BY <1>4, OffCpu
  <2>2. pc[np] = "resume"
    BY <2>1 DEF IInv, Switching, Parked
  <2> QED
    BY <1>4, <2>2 DEF IInv, Returns, Dead
<1>8. /\ \A r \in Slot : r # p => pc'[r] = pc[r] /\ At(r)' = At(r)
      /\ \A r \in Slot : ret'[r] = ret[r]
      /\ At(p)' = "fork_parent" /\ At(np) = "user"
  BY <1>6, <1>7, SMTT(60) DEF At
<1>9. Switching'
  <2>1. lock'[p] = NoCpu /\ state'[p] = "RUNNING" /\ lock'[p] # c
    BY <1>3, <1>4, <1>6 DEF Free
  <2>2. \A r \in Slot : r # p => /\ pc'[r] = pc[r] /\ lock'[r] = lock[r]
                                 /\ \/ state'[r] = state[r]
                                    \/ /\ state'[r] # "RUNNING" /\ state[r] # "RUNNING"
                                       /\ Free(r)
    BY <1>4, <1>6, <1>8
  <2> QED
    BY <1>1, <1>6, <2>1, <2>2, SwitchingKept
<1>10. Returns'
  BY <1>3, <1>4, <1>6, <1>8, SMTT(60) DEF IInv, Returns, Dead
<1>11. WaitLocked'
  BY <1>1, <1>6, <1>8, WaitLockedKept DEF WaitSection
<1>12. InitLives'
  BY <1>4, <1>6, <1>8, Slots DEF IInv, InitLives, Dead
<1>13. Forking'
  <2>1. ASSUME NEW r \in Slot, At(r)' \in {"fork_parent", "fork_run"}, r # p
        PROVE  /\ At(r) = At(r)' /\ arg'[r] = arg[r] /\ arg[r] \in Slot
               /\ arg[r] # np /\ state'[arg[r]] = "USED"
    <3>1. At(r) = At(r)' /\ r # np
      BY <1>8, <2>1
    <3>2. arg'[r] = arg[r]
      BY <1>6, <2>1, <3>1
    <3>3. arg[r] \in Slot /\ state[arg[r]] = "USED"
      BY <2>1, <3>1 DEF IInv, Forking
    <3> QED
      BY <1>4, <1>6, <3>1, <3>2, <3>3
  <2>2. ASSUME NEW r \in Slot, At(r)' \in {"fork_parent", "fork_run"}
        PROVE  /\ arg'[r] \in Slot /\ state'[arg'[r]] = "USED"
               /\ At(r)' = "fork_run" => parent'[arg'[r]] = r
    <3>1. CASE r = p
      BY <1>6, <1>8, <3>1
    <3>2. CASE r # p
      <4>1. /\ At(r) = At(r)' /\ arg'[r] = arg[r] /\ arg[r] \in Slot
            /\ state'[arg[r]] = "USED"
        BY <2>1, <2>2, <3>2
      <4>2. At(r) = "fork_run" => parent[arg[r]] = r
        BY DEF IInv, Forking
      <4> QED
        BY <1>1, <4>1, <4>2
    <3> QED
      BY <3>1, <3>2
  <2>3. ASSUME NEW r \in Slot, At(r)' \in {"fork_parent", "fork_run"},
               NEW q \in Slot, At(q)' \in {"fork_parent", "fork_run"}, arg'[r] = arg'[q]
        PROVE  r = q
    <3>1. r # p => arg'[r] = arg[r] /\ arg[r] # np /\ At(r) = At(r)'
      BY <2>1, <2>3
    <3>2. q # p => arg'[q] = arg[q] /\ arg[q] # np /\ At(q) = At(q)'
      BY <2>1, <2>3
    <3>3. CASE r # p /\ q # p
      <4>1. /\ At(r) \in {"fork_parent", "fork_run"} /\ arg[r] = arg[q]
            /\ At(q) \in {"fork_parent", "fork_run"}
        BY <2>3, <3>1, <3>2, <3>3
      <4> QED
        BY <4>1 DEF IInv, Forking
    <3>4. CASE r = p \/ q = p
      BY <1>6, <2>3, <3>1, <3>2, <3>4
    <3> QED
      BY <3>3, <3>4
  <2> QED
    BY <2>2, <2>3 DEF Forking
<1>14. Orphaned'
  <2>1. \A r \in Slot : /\ state'[r] \in Dead => state[r] \in Dead
                        /\ pc'[r] \in {"wake_parent", "zombie"} => pc'[r] = pc[r]
                        /\ state'[r] \notin {"UNUSED", "USED"} => state'[r] = state[r]
    BY <1>4, <1>6, <1>8 DEF Dead
  <2> QED
    BY <1>1, <2>1 DEF IInv, Orphaned
<1>15. Pids'
  <2>1. nextpid \in Nat /\ \A r \in Slot : pid[r] \in Nat
    BY DEF IInv, TypeOK
  <2> QED
    BY <1>4, <1>6, <2>1, SMTT(60) DEF IInv, Pids
<1>16. Kills'
  <2>1. \A r \in Slot : /\ At(r)' = "kill" => At(r) = "kill" /\ arg'[r] = arg[r]
                        /\ state'[r] = "UNUSED" => state[r] = "UNUSED"
    BY <1>6, <1>8
  <2> QED
    BY <1>1, <2>1 DEF IInv, Kills
<1>17. Wakeups'
  <2>1. /\ \A r \in Slot : state'[r] = "ZOMBIE" => state[r] = "ZOMBIE"
        /\ \A r \in Slot : Waits(r)' => Waits(r)
        /\ \A r \in Slot : pc'[r] \in WaitSection => pc'[r] = pc[r] /\ i'[r] = i[r]
        /\ \A r \in Slot : pc[r] = "wake_init" => pc'[r] = "wake_init" /\ i'[r] = i[r]
    BY <1>1, <1>6, <1>7, <1>8 DEF Waits, WaitSection
  <2> QED
    BY <1>1, <2>1, SMTT(60) DEF IInv, Wakeups, WaitSection
<1> QED
  BY <1>5, <1>9, <1>10, <1>11, <1>12, <1>13, <1>14, <1>15, <1>16, <1>17 DEF IInv

\* The whole of fork_alloc.
LEMMA ForkAllocIInv ==
  ASSUME IInv, NEW c \in Cpu, fork_alloc(c)
  PROVE  IInv'
<1>1. PICK p \in Slot : p = cur[c] /\ pc[p] = "fork_alloc"
  BY DEF fork_alloc, IInv, TypeOK
<1>2. UNCHANGED <<lock, wait_lock, cpus>>
  BY DEF fork_alloc, locks
<1>3. ret[p] = "user"
  BY <1>1 DEF IInv, Returns
<1>4. CASE AllocSkip(p)
  <2>1. i[p] + 1 \in Nat
    BY SMTT(60) DEF IInv, TypeOK
  <2>2. UNCHANGED <<table, nextpid, ret, arg>> /\ (Goto(p, "ret") \/ NextSlot(p))
    BY <1>4 DEF AllocSkip
  <2>3. Moves(p) /\ pc'[p] \in {"fork_alloc", "ret"}
    BY <1>1, <2>1, <2>2, SMTT(60)
       DEF Goto, NextSlot, IInv, TypeOK, Moves, Label, Preemptible
  <2> QED
    BY <1>1, <1>2, <1>3, <2>2, <2>3, LocalIInv DEF WaitSection
<1>5. CASE AllocFound(p)
  BY <1>1, <1>2, <1>5, AllocFoundIInv
<1>6. CASE AllocFailed(p)
  <2>1. PICK q \in Slot : q = i[p]
    BY <1>6 DEF AllocFailed
  <2>2. nextpid' \in Nat /\ nextpid' >= nextpid
    BY <1>6, SMTT(60) DEF AllocFailed, IInv, TypeOK
  <2>3. Moves(p) /\ pc'[p] = "ret" /\ UNCHANGED <<ret, arg>>
    BY <1>6 DEF AllocFailed, Goto, IInv, TypeOK, Moves, Label, Preemptible
  <2>4. Free(q) /\ state[q] = "UNUSED" /\ freeproc(q)
    BY <1>6, <2>1 DEF AllocFailed
  <2> QED
    BY <1>1, <1>2, <2>2, <2>3, <2>4, FreeprocIInv
<1> QED
  BY <1>1, <1>4, <1>5, <1>6 DEF fork_alloc

\* A step of kfork or kexit that gives a process a parent.
LEMMA ParentIInv ==
  ASSUME IInv, NEW c \in Cpu, NEW p \in Slot, p = cur[c], Moves(p),
         NEW q \in Slot, NEW a \in Slot, parent' = [parent EXCEPT ![q] = a],
         UNCHANGED <<state, chan, killed, pid, lock, wait_lock, nextpid, cpus, ret, arg>>,
         \/ /\ pc[p] = "fork_parent" /\ pc'[p] = "fork_run" /\ q = arg[p] /\ a = p
         \/ /\ pc[p] = "reparent" /\ pc'[p] = "wake_init" /\ i'[p] = 1
            /\ parent[q] = p /\ a = initproc
  PROVE  IInv'
<1>1. UNCHANGED <<cproc, cur, scan>>
  BY DEF cpus
<1>2. \A r \in Slot : r # p => pc'[r] = pc[r] /\ i'[r] = i[r]
  BY DEF Moves
<1>3. p # 0 /\ Free(p) /\ state[p] = "RUNNING" /\ lock[p] # c
  BY Running
<1>4. parent'[q] = a /\ \A r \in Slot : r # q => parent'[r] = parent[r]
  BY DEF IInv, TypeOK
<1>5. TypeOK'
  BY <1>1 DEF IInv, TypeOK, Moves
<1>6. \A r \in Slot : r # p => At(r)' = At(r)
  BY <1>2 DEF At
<1>7. /\ pc[p] = "fork_parent" => At(p) = "fork_parent" /\ At(p)' = "fork_run"
      /\ pc[p] = "reparent" => At(p) = "reparent" /\ At(p)' = "wake_init"
  BY DEF At
<1>8. pc[p] = "fork_parent" => state[q] = "USED"
  BY <1>7 DEF IInv, Forking
<1>9. pc[p] = "reparent" => \A r \in Slot : r # p => pc[r] \notin WaitSection
  BY <1>3, InWaitSection DEF WaitSection
<1>10. Switching'
  BY <1>1, <1>2, <1>3, SwitchingKept DEF Free
<1>11. Returns'
  BY <1>2 DEF IInv, Returns
<1>12. WaitLocked'
  BY <1>1, <1>2, WaitLockedKept DEF WaitSection
<1>13. InitLives'
  BY <1>2, Slots DEF IInv, InitLives
<1>14. Forking'
  <2>1. ASSUME NEW r \in Slot, At(r)' \in {"fork_parent", "fork_run"}
        PROVE  /\ At(r) \in {"fork_parent", "fork_run"}
               /\ arg[r] \in Slot /\ state[arg[r]] = "USED"
               /\ At(r)' = "fork_run" => parent'[arg[r]] = r
    <3>1. /\ At(r) \in {"fork_parent", "fork_run"}
          /\ r # p => At(r) = At(r)'
          /\ r = p => pc[p] = "fork_parent"
      BY <1>6, <1>7, <2>1
    <3>2. arg[r] \in Slot /\ state[arg[r]] = "USED"
      BY <3>1 DEF IInv, Forking
    <3>3. CASE r = p
      BY <1>4, <3>1, <3>2, <3>3
    <3>4. CASE r # p
      <4>1. At(r) = "fork_run" => parent[arg[r]] = r
        BY <3>1 DEF IInv, Forking
      <4>2. pc[p] = "fork_parent" => arg[r] # q
        BY <1>7, <3>1, <3>4 DEF IInv, Forking
      <4>3. pc[p] = "reparent" /\ At(r) = "fork_run" => arg[r] # q
        BY <3>4, <4>1
      <4> QED
        BY <1>4, <3>1, <3>2, <3>4, <4>1, <4>2, <4>3
    <3> QED
      BY <3>3, <3>4
  <2>2. ASSUME NEW r \in Slot, At(r)' \in {"fork_parent", "fork_run"},
               NEW s \in Slot, At(s)' \in {"fork_parent", "fork_run"}, arg'[r] = arg'[s]
        PROVE  r = s
    <3>1. /\ At(r) \in {"fork_parent", "fork_run"} /\ arg[r] = arg[s]
          /\ At(s) \in {"fork_parent", "fork_run"}
      BY <2>1, <2>2
    <3> QED
      BY <3>1 DEF IInv, Forking
  <2>3. ASSUME NEW r \in Slot, At(r)' \in {"fork_parent", "fork_run"}
        PROVE  /\ arg'[r] \in Slot /\ state'[arg'[r]] = "USED"
               /\ At(r)' = "fork_run" => parent'[arg'[r]] = r
    BY <2>1, <2>3
  <2> QED
    BY <2>2, <2>3 DEF Forking
<1>15. Orphaned'
  <2>1. /\ state[a] \notin Dead /\ pc'[a] \notin {"wake_parent", "zombie"} /\ a # 0
    BY <1>2, <1>3, Slots DEF IInv, InitLives, Dead
  <2>2. \A r \in Slot : pc'[r] \in {"wake_parent", "zombie"} => pc'[r] = pc[r]
    BY <1>2
  <2>3. \A r, t \in Slot : state[r] \in Dead \/ pc'[r] \in {"wake_parent", "zombie"}
                             => parent'[t] # r
    BY <1>4, <2>1, <2>2, SMTT(60) DEF IInv, Orphaned
  <2> QED
    BY <1>4, <2>1, <2>3 DEF IInv, Orphaned
<1>16. Pids'
  BY DEF IInv, Pids
<1>17. Kills'
  BY <1>6, <1>7 DEF IInv, Kills
<1>18. Wakeups'
  <2>1. \A r \in Slot : Waits(r)' <=> Waits(r)
    BY DEF Waits
  <2>2. CASE pc[p] = "fork_parent"
    <3>1. ~Waits(p) /\ a = p /\ state[q] = "USED"
      BY <1>3, <1>8, <2>2 DEF Waits
    <3>2. \A r \in Slot : pc'[r] \in WaitSection => pc'[r] = pc[r] /\ i'[r] = i[r]
      BY <1>2, <2>2 DEF WaitSection
    <3>3. \A r \in Slot : pc[r] = "wake_init" => pc'[r] = "wake_init" /\ i'[r] = i[r]
      BY <1>2, <2>2
    <3> QED
      BY <1>4, <2>1, <3>1, <3>2, <3>3, SMTT(60) DEF IInv, Wakeups, WaitSection
  <2>3. CASE pc[p] = "reparent"
    <3>1. \A r \in Slot : pc'[r] \in WaitSection => pc'[r] = "wake_init"
      BY <1>2, <1>9, <2>3 DEF WaitSection
    <3>2. pc'[p] = "wake_init" /\ i'[p] = 1 /\ a = initproc
      BY <2>3
    <3>3. ASSUME NEW r \in Slot, NEW t \in Slot, parent'[t] = r, state[t] = "ZOMBIE", Waits(r)
          PROVE  r = initproc
      BY <1>4, <3>2, <3>3 DEF IInv, Wakeups
    <3> QED
      BY <2>1, <3>1, <3>2, <3>3 DEF Wakeups, WaitSection
  <2> QED
    BY <2>2, <2>3
<1> QED
  BY <1>5, <1>10, <1>11, <1>12, <1>13, <1>14, <1>15, <1>16, <1>17, <1>18 DEF IInv

\* np->parent = p
LEMMA ForkParentIInv ==
  ASSUME IInv, NEW c \in Cpu, fork_parent(c)
  PROVE  IInv'
<1>1. PICK p \in Slot : p = cur[c] /\ pc[p] = "fork_parent"
  BY DEF fork_parent, IInv, TypeOK
<1>2. arg[p] \in Slot
  BY <1>1 DEF IInv, Forking, At
<1>3. /\ parent' = [parent EXCEPT ![arg[p]] = p]
      /\ Goto(p, "fork_run")
      /\ UNCHANGED <<state, chan, killed, pid, lock, wait_lock, nextpid, cpus, ret, arg>>
  BY <1>1 DEF fork_parent, locks
<1>4. Moves(p) /\ pc'[p] = "fork_run"
  BY <1>3 DEF Goto, IInv, TypeOK, Moves, Label, Preemptible
<1> QED
  BY <1>1, <1>2, <1>3, <1>4, ParentIInv

\* A child is given to init, or there is none left.
LEMMA ReparentIInv ==
  ASSUME IInv, NEW c \in Cpu, reparent(c)
  PROVE  IInv'
<1>1. PICK p \in Slot : p = cur[c] /\ pc[p] = "reparent"
  BY DEF reparent, IInv, TypeOK
<1>2. UNCHANGED <<state, chan, killed, pid, lock, wait_lock, nextpid, cpus, ret, arg>>
  BY DEF reparent, locks
<1>3. CASE Children(p) # {}
  <2>1. /\ Goto(p, "wake_init")
        /\ \E q \in Slot : Lowest(q, Children(p)) /\ parent' = [parent EXCEPT ![q] = initproc]
    BY <1>1, <1>3 DEF reparent
  <2>2. PICK q \in Slot : Lowest(q, Children(p)) /\ parent' = [parent EXCEPT ![q] = initproc]
    BY <2>1
  <2>4. parent[q] = p
    BY <2>2 DEF Lowest, Children
  <2>3. Moves(p) /\ pc'[p] = "wake_init" /\ i'[p] = 1
    BY <1>2, <2>1 DEF Goto, IInv, TypeOK, Moves, Label
  <2> QED
    BY <1>1, <1>2, <2>1, <2>2, <2>3, <2>4, Slots, ParentIInv
<1>4. CASE Children(p) = {}
  <2>1. parent' = parent /\ Goto(p, "wake_parent")
    BY <1>1, <1>4 DEF reparent
  <2>2. TypeOK' /\ Moves(p) /\ pc'[p] = "wake_parent" /\ i'[p] = 1
    BY <1>2, <2>1 DEF Goto, IInv, TypeOK, Moves, Label, cpus
  <2>3. \A r \in Slot : r # p => pc'[r] = pc[r] /\ i'[r] = i[r]
    BY <2>2 DEF Moves
  <2>4. p # 0 /\ Free(p) /\ state[p] = "RUNNING" /\ lock[p] # c /\ UNCHANGED <<cproc, cur>>
    BY <1>1, <1>2, Running DEF cpus
  <2>5. \A r \in Slot : At(r)' = At(r) \/ At(r)' = "wake_parent"
    BY <1>2, <2>2, <2>3 DEF At
  <2>6. Switching'
    BY <1>1, <1>2, <2>2, <2>3, <2>4, SwitchingKept DEF Free
  <2>7. WaitLocked'
    BY <1>1, <1>2, <2>2, <2>3, <2>4, WaitLockedKept DEF WaitSection
  <2>8. Returns' /\ InitLives' /\ Pids'
    BY <1>1, <1>2, <2>2, <2>3, Slots DEF IInv, Returns, InitLives, Pids
  <2>9. Forking' /\ Kills'
    BY <1>2, <2>1, <2>5 DEF IInv, Forking, Kills
  <2>10. Orphaned'
    BY <1>2, <1>4, <2>1, <2>2, <2>3 DEF IInv, Orphaned, Children
  <2>11. Wakeups'
    <3>1. \A r \in Slot : Waits(r)' <=> Waits(r)
      BY <1>2 DEF Waits
    <3>2. \A r \in Slot : 1 <= r
      BY SMTT(60) DEF Slot
    <3>3. \A r \in Slot : pc[r] = "wake_init" => pc'[r] = "wake_init" /\ i'[r] = i[r]
      BY <1>1, <2>3
    <3> QED
      BY <1>1, <1>2, <2>1, <2>2, <2>3, <3>1, <3>2, <3>3, SMTT(60) DEF IInv, Wakeups
  <2> QED
    BY <2>2, <2>6, <2>7, <2>8, <2>9, <2>10, <2>11 DEF IInv
<1> QED
  BY <1>3, <1>4

\* The new process becomes RUNNABLE: it has a parent by then.
LEMMA ForkRunIInv ==
  ASSUME IInv, NEW c \in Cpu, fork_run(c)
  PROVE  IInv'
<1>1. PICK p \in Slot : p = cur[c] /\ pc[p] = "fork_run"
  BY DEF fork_run, IInv, TypeOK
<1>2. PICK np \in Slot : np = arg[p] /\ state[np] = "USED" /\ parent[np] = p
  BY <1>1 DEF IInv, Forking, At
<1>3. /\ Free(np) /\ state' = [state EXCEPT ![np] = "RUNNABLE"]
      /\ Goto(p, "ret")
      /\ UNCHANGED <<chan, killed, pid, parent, lock, wait_lock, nextpid, cpus, ret, arg>>
  BY <1>1, <1>2 DEF fork_run, locks
<1>4. TypeOK' /\ Moves(p) /\ pc'[p] = "ret"
  BY <1>3 DEF Goto, IInv, TypeOK, Moves, Label, Preemptible, cpus
<1>5. \A r \in Slot : r # p => pc'[r] = pc[r] /\ i'[r] = i[r]
  BY <1>4 DEF Moves
<1>6. p # 0 /\ Free(p) /\ state[p] = "RUNNING" /\ lock[p] # c /\ UNCHANGED <<cproc, cur>>
  BY <1>1, <1>3, Running DEF cpus
<1>7. state'[np] = "RUNNABLE" /\ \A r \in Slot : r # np => state'[r] = state[r]
  BY <1>3 DEF IInv, TypeOK
<1>8. /\ \A r \in Slot : r # p => At(r)' = At(r)
      /\ At(p)' = "ret" /\ At(p) = "fork_run"
  BY <1>1, <1>3, <1>4, <1>5 DEF At
<1>9. Switching'
  BY <1>1, <1>2, <1>3, <1>4, <1>5, <1>6, <1>7, SwitchingKept, SMTT(60) DEF Free
<1>10. WaitLocked'
  BY <1>1, <1>3, <1>4, <1>5, <1>6, WaitLockedKept DEF WaitSection
<1>11. Returns' /\ InitLives'
  BY <1>1, <1>2, <1>3, <1>4, <1>5, <1>7, Slots DEF IInv, Returns, InitLives, Dead
<1>12. Forking'
  <2>1. ASSUME NEW r \in Slot, At(r)' \in {"fork_parent", "fork_run"}
        PROVE  At(r)' = At(r) /\ arg[r] \in Slot /\ arg[r] # np
    BY <1>2, <1>8, <2>1 DEF IInv, Forking
  <2>2. ASSUME NEW r \in Slot PROVE ForkStays(r)
    BY <1>3, <1>7, <2>1 DEF ForkStays
  <2> QED
    BY <2>2, ForkingKept DEF IInv
<1>13. Orphaned'
  BY <1>1, <1>2, <1>3, <1>4, <1>5, <1>6, <1>7 DEF IInv, Orphaned, Dead
<1>14. Pids'
  BY <1>2, <1>3, <1>7 DEF IInv, Pids
<1>15. Kills'
  BY <1>2, <1>3, <1>7, <1>8 DEF IInv, Kills
<1>16. Wakeups'
  <2>1. \A r \in Slot : /\ Waits(r)' => Waits(r)
                        /\ state'[r] = "ZOMBIE" => state[r] = "ZOMBIE"
                        /\ pc'[r] \in WaitSection => pc'[r] = pc[r] /\ i'[r] = i[r]
                        /\ pc[r] = "wake_init" => pc'[r] = "wake_init" /\ i'[r] = i[r]
    BY <1>1, <1>3, <1>4, <1>5, <1>7 DEF Waits, WaitSection
  <2> QED
    BY <1>3, <2>1, SMTT(60) DEF IInv, Wakeups, WaitSection
<1> QED
  BY <1>4, <1>9, <1>10, <1>11, <1>12, <1>13, <1>14, <1>15, <1>16 DEF IInv

\* kwait looks at its next child: it frees the child, fails, or goes on.
LEMMA WaitScanIInv ==
  ASSUME IInv, NEW c \in Cpu, wait_scan(c)
  PROVE  IInv'
<1>1. PICK p \in Slot : p = cur[c] /\ pc[p] = "wait_scan"
  BY DEF wait_scan, IInv, TypeOK
<1>2. /\ UNCHANGED <<lock, nextpid, cpus, ret, arg>>
      /\ \E q \in Slot : /\ Lowest(q, Unseen(p))
                        /\ Free(q)
                        /\ \/ Reap(p, q)
                           \/ /\ state[q] # "ZOMBIE"
                              /\ i' = [i EXCEPT ![p] = q + 1]
                              /\ UNCHANGED <<table, wait_lock, pc>>
  BY <1>1 DEF wait_scan
<1>3. PICK q \in Slot : /\ Lowest(q, Unseen(p))
                        /\ Free(q)
                        /\ \/ Reap(p, q)
                           \/ /\ state[q] # "ZOMBIE"
                              /\ i' = [i EXCEPT ![p] = q + 1]
                              /\ UNCHANGED <<table, wait_lock, pc>>
  BY <1>2
<1>4. /\ Free(q) /\ UNCHANGED <<lock, nextpid, cpus, ret, arg>>
      /\ parent[q] = p /\ \A r \in Unseen(p) : q <= r
      /\ \/ Reap(p, q)
         \/ /\ state[q] # "ZOMBIE"
            /\ i' = [i EXCEPT ![p] = q + 1]
            /\ UNCHANGED <<table, wait_lock, pc>>
  BY <1>2, <1>3 DEF Lowest, Unseen, Children
<1>5. ret[p] = "user" /\ wait_lock = c
  BY <1>1, Slots, InWaitSection DEF IInv, Returns, WaitSection
<1>6. CASE Reap(p, q)
  <2>1. Moves(p) /\ pc'[p] = "ret"
    BY <1>4, <1>6 DEF Reap, Goto, IInv, TypeOK, Moves, Label, Preemptible
  <2>2. state[q] = "ZOMBIE" /\ wait_lock' = NoCpu /\ (freeproc(q) \/ UNCHANGED table)
    BY <1>6 DEF Reap
  <2>3. CASE freeproc(q)
    <3>1. nextpid' \in Nat /\ nextpid' >= nextpid
      BY <1>4, SMTT(60) DEF IInv, TypeOK
    <3> QED
      BY <1>1, <1>4, <1>5, <2>1, <2>2, <2>3, <3>1, FreeprocIInv
  <2>4. CASE UNCHANGED table
    BY <1>1, <1>4, <1>5, <2>1, <2>2, <2>4, LocalIInv DEF WaitSection
  <2> QED
    BY <2>2, <2>3, <2>4
<1>7. CASE /\ state[q] # "ZOMBIE"
           /\ i' = [i EXCEPT ![p] = q + 1]
           /\ UNCHANGED <<table, wait_lock, pc>>
  <2>1. q + 1 \in Nat /\ q \in Nat
    BY SMTT(60) DEF Slot
  <2>2. Moves(p) /\ pc'[p] = "wait_scan" /\ i'[p] = q + 1
    BY <1>1, <1>4, <1>7, <2>1 DEF IInv, TypeOK, Moves
  <2>3. ASSUME NEW r \in Children(p), state[r] = "ZOMBIE" PROVE r >= q + 1
    <3>1. r \in Unseen(p) /\ r \in Slot
      BY <1>1, <2>3 DEF IInv, Wakeups, Children, Unseen
    <3>2. q <= r /\ q # r
      BY <1>4, <1>7, <2>3, <3>1
    <3> QED
      BY <3>1, <3>2, SMTT(60) DEF Slot
  <2> QED
    BY <1>1, <1>4, <1>5, <1>7, <2>2, <2>3, LocalIInv DEF WaitSection
<1> QED
  BY <1>4, <1>6, <1>7

-----------------------------------------------------------------------------
(* The invariant                                                           *)

\* init is RUNNABLE, the other slots are free and every CPU is in its scheduler.
LEMMA InitIInv == Init => IInv
<1> SUFFICES ASSUME Init PROVE IInv
  OBVIOUS
<1>1. initproc \in Slot /\ 0 \notin Slot /\ 1 \in Slot
  BY Slots DEF initproc
<1>2. TypeOK
  BY <1>1 DEF Init, TypeOK, Label
<1>3. Switching /\ WaitLocked
  BY <1>1, CpuAssumption
     DEF Init, Switching, CpuRuns, OneCpu, HeldByCpu, Parked, WaitLocked
<1>4. Returns /\ InitLives
  BY <1>1 DEF Init, Returns, InitLives, Dead
<1>5. \A p \in Slot : At(p) = "user" /\ parent[p] = 0 /\ state[p] # "ZOMBIE"
  BY DEF Init, At
<1>6. Forking /\ Orphaned
  BY <1>1, <1>5 DEF Init, Forking, Orphaned
<1>7. Pids
  BY SMTT(60) DEF Init, Pids
<1>8. Kills /\ Wakeups
  BY <1>1, <1>5 DEF Init, Kills, Wakeups
<1> QED
  BY <1>2, <1>3, <1>4, <1>6, <1>7, <1>8 DEF IInv

\* Every step of a scheduler, of a system call, of a timer interrupt and of a user
\* program.
LEMMA NextIInv == IInv /\ [Next]_vars => IInv'
<1> SUFFICES ASSUME IInv, [Next]_vars PROVE IInv'
  OBVIOUS
<1>1. ASSUME NEW c \in Cpu, switch(c) PROVE IInv'
  BY <1>1, SchedulerIInv, SchedulerBackIInv, SchedIInv, ResumeIInv, YieldIInv DEF switch
<1>2. ASSUME NEW c \in Cpu, syscall(c) PROVE IInv'
  BY <1>2, ForkAllocIInv, ForkParentIInv, ForkRunIInv, TakeWaitLockIInv, ReparentIInv,
     WakeupIInv, ZombieIInv, WaitScanIInv, WaitDecideIInv, SleepIInv, KillIInv, UserIInv
     DEF syscall
<1>3. ASSUME NEW c \in Cpu, timer(c) \/ user(c) PROVE IInv'
  BY <1>3, UserIInv, KerneltrapIInv, FaultIInv DEF timer, user
<1>4. CASE UNCHANGED vars
  <2>1. /\ UNCHANGED <<state, chan, killed, pid, parent, lock, wait_lock, nextpid>>
        /\ UNCHANGED <<cproc, cur, scan, pc, ret, i, arg>>
    BY <1>4 DEF vars, table, locks, cpus
  <2>2. TypeOK'
    BY <2>1 DEF IInv, TypeOK
  <2>3. Switching'
    BY <2>1, SwitchingSame DEF IInv
  <2> QED
    BY <2>1, <2>2, <2>3, SameTable DEF IInv
<1> QED
  BY <1>1, <1>2, <1>3, <1>4 DEF Next

\* The strengthened invariant holds for any number of CPUs, processes and pids.
THEOREM Invariance == Spec => []IInv
  BY InitIInv, NextIInv, PTL DEF Spec

-----------------------------------------------------------------------------
(* The properties of Proc                                                  *)

\* No kernel stack is in use by two CPUs or freed while in use: kwait cannot
\* overtake the swtch at the end of kexit, because that swtch is under p->lock.
THEOREM StacksAreSafe == Spec => []StackInUse
<1>1. IInv => StackInUse
  <2> SUFFICES ASSUME IInv, NEW c \in Cpu, cur[c] # 0
               PROVE  /\ \A d \in Cpu : cur[d] = cur[c] => d = c
                      /\ state[cur[c]] \notin {"UNUSED", "USED"}
    BY DEF StackInUse
  <2> QED
    BY OnCpu DEF IInv, Switching, CpuRuns
<1> QED
  BY <1>1, Invariance, PTL

\* None of the panics of sched() is reached.
THEOREM SchedIsSafe == Spec => []SchedSafe
<1>1. IInv => SchedSafe
  <2> SUFFICES ASSUME IInv, NEW c \in Cpu, cur[c] # 0, pc[cur[c]] = "sched",
                      SchedPanics(c, cur[c])
               PROVE  FALSE
    BY DEF SchedSafe
  <2>1. lock[cur[c]] = c /\ state[cur[c]] # "RUNNING" /\ cproc[c] = cur[c]
    BY OnCpu DEF IInv, Switching, CpuRuns
  <2>2. wait_lock # c
    BY DEF IInv, WaitLocked, WaitSection
  <2>3. \A q \in Slot : lock[q] = c => q = cur[c]
    <3>1. \A q \in Slot : lock[q] = c => cproc[c] = q
      BY DEF IInv, Switching, HeldByCpu
    <3> QED
      BY <2>1, <3>1
  <2> QED
    BY <2>1, <2>2, <2>3 DEF SchedPanics
<1> QED
  BY <1>1, Invariance, PTL

\* No exit is missed by a parent that goes to sleep in kwait.
THEOREM NoExitIsMissed == Spec => []ExitNotMissed
<1>1. IInv => ExitNotMissed
  <2> SUFFICES ASSUME IInv, wait_lock = NoCpu, NEW p \in Slot, NEW q \in Slot,
                      parent[q] = p, state[q] = "ZOMBIE", Waits(p)
               PROVE  FALSE
    BY DEF ExitNotMissed, Waits
  <2>1. PICK r \in Slot : pc[r] = "wake_init"
    BY DEF IInv, Wakeups
  <2>2. PICK c \in Cpu : cur[c] = r
    BY <2>1 DEF IInv, Switching, Parked
  <2>3. wait_lock = c
    BY <2>1, <2>2, Slots DEF IInv, WaitLocked, WaitSection
  <2> QED
    BY <2>3, CpuAssumption
<1> QED
  BY <1>1, Invariance, PTL

\* The states and the CPUs, the parents and the pids agree, whatever kill is called
\* with.
LEMMA IInvConsistent ==
  IInv => TypeOK /\ RunningIsOnCpu /\ ParentLives /\ PidsUnique
<1> SUFFICES ASSUME IInv PROVE RunningIsOnCpu /\ ParentLives /\ PidsUnique
  BY DEF IInv
<1>1. ASSUME NEW p \in Slot, Free(p)
      PROVE  state[p] = "RUNNING" <=> \E c \in Cpu : cur[c] = p
  <2>1. ASSUME NEW c \in Cpu, cur[c] = p PROVE state[p] = "RUNNING"
    BY <1>1, <2>1, Slots, OnCpu, CpuAssumption DEF Free
  <2>2. ASSUME \A c \in Cpu : cur[c] # p PROVE state[p] # "RUNNING"
    BY <2>2 DEF IInv, Switching, Parked
  <2> QED
    BY <2>1, <2>2
<1>2. ASSUME NEW q \in Slot \ {initproc}, state[q] \notin {"UNUSED", "USED"}
      PROVE  /\ parent[q] # 0
             /\ state[parent[q]] \notin {"UNUSED", "USED", "ZOMBIE"}
  <2>1. parent[q] # 0 /\ parent[q] \in Slot
    BY <1>2 DEF IInv, TypeOK, Orphaned
  <2> QED
    BY <2>1 DEF IInv, Orphaned, Dead
<1>3. PidsUnique
  <2> SUFFICES ASSUME NEW p \in Slot, NEW q \in Slot, state[p] # "UNUSED"
               PROVE  pid[p] # 0 /\ (pid[q] = pid[p] => q = p)
    BY DEF PidsUnique
  <2>1. pid[p] > 0
    BY DEF IInv, Pids
  <2>2. pid[p] # 0
    BY <2>1, SMTT(60)
  <2> QED
    BY <2>2 DEF IInv, Pids
<1> QED
  BY <1>1, <1>2, <1>3 DEF RunningIsOnCpu, ParentLives

\* The process table is consistent: without a call kill(0), which kkill would take
\* for the pid of a free slot, and but for KilledIsProcess with one.
THEOREM TableIsConsistent ==
  Spec => [](/\ TypeOK /\ RunningIsOnCpu /\ ParentLives /\ PidsUnique
             /\ (0 \notin KillPids => TableConsistent))
<1>1. IInv => /\ TypeOK /\ RunningIsOnCpu /\ ParentLives /\ PidsUnique
              /\ (0 \notin KillPids => TableConsistent)
  <2> SUFFICES ASSUME IInv, 0 \notin KillPids PROVE KilledIsProcess
    BY IInvConsistent DEF TableConsistent
  <2> QED
    BY DEF KilledIsProcess, IInv, Kills
<1> QED
  BY <1>1, Invariance, PTL
=============================================================================
