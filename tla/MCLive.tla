------------------------------- MODULE MCLive -------------------------------
(***************************************************************************)
(* Instances for TLC of the spinlocks and of two parts in which somebody   *)
(* sleeps until another acts: the disk driver and the process table on one *)
(* CPU.  part says which of them moves in a behaviour; the others stay in  *)
(* their initial state.                                                    *)
(***************************************************************************)
EXTENDS SpinLock

CONSTANTS p1, p2, b1, b2, c1, zero, Null, Intr

VARIABLES part,
          free, desc, ops, info, status, ring, avail_idx, used, used_end, used_idx,
          vlock, busy, data, dpc, req, idx, irq, seen, work, disk,
          state, chan, killed, pid, parent, plock, wait_lock, nextpid, cproc, cur,
          scan, ppc, ret, i, arg

D == INSTANCE VirtioDisk
       WITH Proc <- {p1, p2}, Sector <- {b1, b2}, Value <- {zero}, Zero <- zero,
            NUM <- 8, M <- 8, pc <- dpc, lock <- vlock
P == INSTANCE Proc
       WITH NPROC <- 3, Cpu <- {c1}, MaxPid <- 3, KillPids <- {2}, pc <- ppc, lock <- plock

driver == <<free, desc, ops, info, status, ring, avail_idx, used, used_end, used_idx,
            vlock, busy, data, dpc, req, idx, irq, seen, work, disk>>
procs == <<state, chan, killed, pid, parent, plock, wait_lock, nextpid, cproc, cur,
           scan, ppc, ret, i, arg>>
allvars == <<part, vars, driver, procs>>

MCInit == /\ part \in {"lock", "disk", "proc"}
          /\ Init /\ D!Init /\ P!Init
          /\ part # "lock" => \A c \in Cpu : lk[c] = 1

MCNext == /\ UNCHANGED part
          /\ \/ part = "lock" /\ Next /\ UNCHANGED <<driver, procs>>
             \/ part = "disk" /\ D!Next /\ UNCHANGED <<vars, procs>>
             \/ part = "proc" /\ P!Next /\ UNCHANGED <<vars, driver>>

\* The part that moves does so under its own fairness.
Fairness == \/ part = "lock"
            \/ part = "disk" /\ D!Fairness
            \/ part = "proc" /\ P!Fairness

FairSpec == MCInit /\ [][MCNext]_allvars /\ Fairness

-----------------------------------------------------------------------------
(* The properties of the driver and of the process table.                  *)

\* See VirtioDisk: a request that has its descriptors completes.
RequestCompletes == part = "disk" => D!RequestCompletes

\* See Proc: init reaps its children.
ZombieReaped == part = "proc" => P!ZombieReaped

\* See Proc: a killed process exits.
KillTakesEffect == part = "proc" => P!KillTakesEffect
=============================================================================
