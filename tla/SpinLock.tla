------------------------------ MODULE SpinLock ------------------------------
(***************************************************************************)
(* The spinlocks of kernel/spinlock.c, and the nesting of interrupt        *)
(* disabling they rest on, on CPUs that take interrupts whose handlers     *)
(* acquire locks too.                                                      *)
(*                                                                         *)
(* The code that uses the locks is any code that keeps to their contract   *)
(* as far as it can see it: a thread acquires locks in one order and       *)
(* releases what it holds, and so does a handler, which knows nothing of   *)
(* what the thread it interrupted holds.  A thread enables and disables    *)
(* interrupts itself only outside push_off/pop_off (usertrap, scheduler,   *)
(* prepare_return); a handler does not enable them.                        *)
(***************************************************************************)
EXTENDS Integers, FiniteSets

CONSTANTS Cpu,
          Lock,      \* numbered in the order in which code may nest them
          NoCpu,     \* lk->cpu = 0
          MaxOff     \* bound: push_off calls of a thread that no lock makes

ASSUME CpuAssumption == NoCpu \notin Cpu
ASSUME LockAssumption == Lock \subseteq Nat /\ IsFiniteSet(Lock)
ASSUME OffAssumption == MaxOff \in Nat

VARIABLES locked,    \* the locks whose lk->locked is 1
          cpu,       \* lk->cpu
          intr,      \* the CPUs that take interrupts (sstatus.SIE)
          noff,      \* struct cpu
          intena,    \* the CPUs whose intena is 1
          pc,        \* where the CPU is in acquire or release of lk
          lk,
          held,      \* locks the code running on the CPU holds
          under,     \* locks the thread a handler interrupted holds
          handler,   \* the CPUs in kerneltrap
          extra,     \* push_off calls without a lock that wait for pop_off
          panic      \* the panics that were met

vars == <<locked, cpu, intr, noff, intena, pc, lk, held, under, handler, extra, panic>>

TypeOK ==
  /\ locked \subseteq Lock
  /\ cpu \in [Lock -> Cpu \cup {NoCpu}]
  /\ intr \subseteq Cpu /\ intena \subseteq Cpu /\ handler \subseteq Cpu
  /\ noff \in [Cpu -> Nat] /\ extra \in [Cpu -> Nat]
  /\ pc \in [Cpu -> {"run", "swap", "record", "unlock"}]
  /\ lk \in [Cpu -> Lock]
  /\ held \in [Cpu -> SUBSET Lock] /\ under \in [Cpu -> SUBSET Lock]

\* A CPU enters main with interrupts disabled and no lock; initlock.
Init == /\ locked = {}
        /\ cpu = [l \in Lock |-> NoCpu]
        /\ intr = {} /\ intena = {} /\ handler = {}
        /\ noff = [c \in Cpu |-> 0] /\ extra = [c \in Cpu |-> 0]
        /\ pc = [c \in Cpu |-> "run"]
        /\ lk \in [Cpu -> Lock]
        /\ held = [c \in Cpu |-> {}] /\ under = [c \in Cpu |-> {}]
        /\ panic = {}

\* panic(s) if the condition holds.
PanicIf(cond, s) == panic' = IF cond THEN panic \cup {s} ELSE panic

push_off(c) ==
  /\ intena' = IF noff[c] # 0 THEN intena
               ELSE IF c \in intr THEN intena \cup {c} ELSE intena \ {c}
  /\ intr' = intr \ {c}
  /\ noff' = [noff EXCEPT ![c] = @ + 1]

\* Mutant of pop_off: the last but one enables interrupts.
PopOffEarly(c) ==
  /\ PanicIf(c \in intr \/ noff[c] < 1, "pop_off")
  /\ noff' = [noff EXCEPT ![c] = @ - 1]
  /\ intr' = IF noff[c] <= 2 /\ c \in intena THEN intr \cup {c} ELSE intr
pop_off(c) ==
  /\ PanicIf(c \in intr \/ noff[c] < 1, "pop_off")
  /\ noff' = [noff EXCEPT ![c] = @ - 1]
  /\ intr' = IF noff[c] = 1 /\ c \in intena THEN intr \cup {c} ELSE intr

holding(c, l) == l \in locked /\ cpu[l] = c

-----------------------------------------------------------------------------
(* acquire and release, one step for each access to the lock.              *)

\* acquire, up to the loop.
acquire(c, l) ==
  /\ pc[c] = "run" /\ \A h \in held[c] : h < l
  /\ push_off(c)
  /\ PanicIf(holding(c, l), "acquire")
  /\ pc' = [pc EXCEPT ![c] = "swap"]
  /\ lk' = [lk EXCEPT ![c] = l]
  /\ UNCHANGED <<locked, cpu, held, under, handler, extra>>

\* Mutant of swap: the test and the set are not one step.
SwapBlind(c) ==
  /\ pc[c] = "swap"
  /\ locked' = locked \cup {lk[c]}
  /\ pc' = [pc EXCEPT ![c] = "record"]
  /\ UNCHANGED <<cpu, intr, noff, intena, lk, held, under, handler, extra, panic>>

\* The test-and-set that finds the lock free; one that does not changes nothing.
swap(c) ==
  /\ pc[c] = "swap" /\ lk[c] \notin locked
  /\ locked' = locked \cup {lk[c]}
  /\ pc' = [pc EXCEPT ![c] = "record"]
  /\ UNCHANGED <<cpu, intr, noff, intena, lk, held, under, handler, extra, panic>>

\* lk->cpu = mycpu().
record(c) ==
  /\ pc[c] = "record"
  /\ cpu' = [cpu EXCEPT ![lk[c]] = c]
  /\ held' = [held EXCEPT ![c] = @ \cup {lk[c]}]
  /\ pc' = [pc EXCEPT ![c] = "run"]
  /\ UNCHANGED <<locked, intr, noff, intena, lk, under, handler, extra, panic>>

\* release, up to the store that frees the lock.
release(c, l) ==
  /\ pc[c] = "run" /\ l \in held[c]
  /\ PanicIf(~holding(c, l), "release")
  /\ cpu' = [cpu EXCEPT ![l] = NoCpu]
  /\ held' = [held EXCEPT ![c] = @ \ {l}]
  /\ pc' = [pc EXCEPT ![c] = "unlock"]
  /\ lk' = [lk EXCEPT ![c] = l]
  /\ UNCHANGED <<locked, intr, noff, intena, under, handler, extra>>

\* __sync_lock_release and pop_off; nothing else of this CPU is in between.
unlock(c) ==
  /\ pc[c] = "unlock"
  /\ locked' = locked \ {lk[c]}
  /\ pop_off(c)
  /\ pc' = [pc EXCEPT ![c] = "run"]
  /\ UNCHANGED <<cpu, intena, lk, held, under, handler, extra>>

-----------------------------------------------------------------------------
(* Interrupts, and push_off and pop_off without a lock (myproc, killed by  *)
(* way of it, uartputc_sync).                                              *)

push(c) ==
  /\ pc[c] = "run" /\ extra[c] < MaxOff
  /\ push_off(c)
  /\ extra' = [extra EXCEPT ![c] = @ + 1]
  /\ UNCHANGED <<locked, cpu, pc, lk, held, under, handler, panic>>

pop(c) ==
  /\ pc[c] = "run" /\ extra[c] > 0
  /\ pop_off(c)
  /\ extra' = [extra EXCEPT ![c] = @ - 1]
  /\ UNCHANGED <<locked, cpu, intena, pc, lk, held, under, handler>>

\* intr_on and intr_off of a thread that has every push_off undone.
set_intr(c, on) ==
  /\ pc[c] = "run" /\ c \notin handler /\ held[c] = {} /\ extra[c] = 0
  /\ intr' = IF on THEN intr \cup {c} ELSE intr \ {c}
  /\ UNCHANGED <<locked, cpu, noff, intena, pc, lk, held, under, handler, extra, panic>>

\* An interrupt, wherever the CPU is: the hardware disables interrupts, and
\* kerneltrap starts with a clean slate of its own.
kerneltrap(c) ==
  /\ c \in intr
  /\ intr' = intr \ {c}
  /\ handler' = handler \cup {c}
  /\ under' = [under EXCEPT ![c] = @ \cup held[c]]
  /\ held' = [held EXCEPT ![c] = {}]
  /\ UNCHANGED <<locked, cpu, noff, intena, pc, lk, extra, panic>>

\* kerneltrap returns: sret enables interrupts again.
sret(c) ==
  /\ c \in handler /\ pc[c] = "run" /\ held[c] = {} /\ extra[c] = 0
  /\ intr' = intr \cup {c}
  /\ handler' = handler \ {c}
  /\ held' = [held EXCEPT ![c] = under[c]]
  /\ under' = [under EXCEPT ![c] = {}]
  /\ UNCHANGED <<locked, cpu, noff, intena, pc, lk, extra, panic>>

Step(c) == \/ \E l \in Lock : acquire(c, l) \/ release(c, l)
           \/ swap(c) \/ record(c) \/ unlock(c)
           \/ push(c) \/ pop(c)
           \/ \E on \in BOOLEAN : set_intr(c, on)
           \/ kerneltrap(c) \/ sret(c)

Next == \E c \in Cpu : Step(c)

Spec == Init /\ [][Next]_vars

-----------------------------------------------------------------------------
(* Properties                                                              *)

\* The code between acquire and release runs on one CPU at a time.
MutualExclusion ==
  \A c, d \in Cpu : \A l \in (held[c] \cup under[c]) \cap (held[d] \cup under[d]) : c = d

\* No interrupt comes while a lock is held: a handler that acquired the same
\* lock would spin for ever ("disable interrupts to avoid deadlock").
HolderNotInterrupted == \A c \in Cpu : under[c] = {} /\ (held[c] # {} => c \notin intr)

\* Code that keeps to the contract of the locks meets no panic of acquire,
\* release or pop_off, whatever interrupts it.
NoPanic == panic = {}
=============================================================================
