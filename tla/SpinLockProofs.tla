--------------------------- MODULE SpinLockProofs ---------------------------
(***************************************************************************)
(* Proofs about SpinLock, for any number of CPUs and locks.                *)
(*                                                                         *)
(* The properties are not inductive.  What carries them is that noff       *)
(* counts exactly the locks the CPU holds, the lock it is acquiring or     *)
(* releasing and the push_off calls made for no lock (Nesting): so the     *)
(* pop_off that enables interrupts is the one that follows the release of  *)
(* the last lock.                                                          *)
(***************************************************************************)
EXTENDS SpinLock, FiniteSetTheorems, TLAPS

\* Most steps are first-order; the ones that need arithmetic or many facts at once
\* name the SMT solver.
USE ZenonT(60)

\* What noff counts.
Nesting == \A c \in Cpu :
  noff[c] = Cardinality(held[c]) + extra[c] + (IF pc[c] = "run" THEN 0 ELSE 1)

\* Interrupts are off inside push_off/pop_off and in a handler, and the last
\* pop_off of a handler leaves them off.
Masked == \A c \in Cpu :
  /\ noff[c] > 0 => c \notin intr
  /\ c \in handler => c \notin intr /\ (noff[c] > 0 => c \notin intena)
  /\ under[c] = {}

\* Who is between the swap and the release of a lock, and lk->cpu.
Owned == \A c \in Cpu :
  /\ \A l \in Lock : cpu[l] = c <=> l \in held[c]
  /\ held[c] \subseteq locked
  /\ pc[c] \in {"record", "unlock"} => lk[c] \in locked /\ cpu[lk[c]] = NoCpu
  /\ pc[c] = "swap" => lk[c] \notin held[c]
  /\ \A d \in Cpu : c # d /\ pc[c] \in {"record", "unlock"}
                          /\ pc[d] \in {"record", "unlock"} => lk[c] # lk[d]

IInv == TypeOK /\ Nesting /\ Masked /\ Owned /\ NoPanic

-----------------------------------------------------------------------------
(* Counting the locks a CPU holds.                                         *)

\* A CPU holds a finite number of locks; one more or one less counts so.
LEMMA HeldCounts ==
  ASSUME NEW S \in SUBSET Lock
  PROVE  /\ Cardinality(S) \in Nat
         /\ Cardinality(S) = 0 <=> S = {}
         /\ \A l \in Lock \ S : Cardinality(S \cup {l}) = Cardinality(S) + 1
         /\ \A l \in S : Cardinality(S \ {l}) = Cardinality(S) - 1
<1>1. IsFiniteSet(S)
  BY LockAssumption, FS_Subset
<1>2. Cardinality(S) \in Nat /\ (Cardinality(S) = 0 <=> S = {})
  BY <1>1, FS_CardinalityType, FS_EmptySet
<1>3. ASSUME NEW l \in Lock \ S PROVE Cardinality(S \cup {l}) = Cardinality(S) + 1
  BY <1>1, FS_AddElement
<1>4. ASSUME NEW l \in S PROVE Cardinality(S \ {l}) = Cardinality(S) - 1
  BY <1>1, FS_RemoveElement
<1> QED
  BY <1>2, <1>3, <1>4

\* What the counters of one CPU say in a state of the invariant.
LEMMA Counters ==
  ASSUME IInv, NEW c \in Cpu
  PROVE  /\ noff[c] \in Nat /\ extra[c] \in Nat /\ Cardinality(held[c]) \in Nat
         /\ noff[c] = 0 <=> held[c] = {} /\ extra[c] = 0 /\ pc[c] = "run"
         /\ noff[c] = 0 \/ noff[c] >= 1
<1>1. held[c] \in SUBSET Lock /\ noff[c] \in Nat /\ extra[c] \in Nat
  BY DEF IInv, TypeOK
<1>2. Cardinality(held[c]) \in Nat /\ (Cardinality(held[c]) = 0 <=> held[c] = {})
  BY <1>1, HeldCounts
<1>3. noff[c] = Cardinality(held[c]) + extra[c] + (IF pc[c] = "run" THEN 0 ELSE 1)
  BY DEF IInv, Nesting
<1> QED
  BY <1>1, <1>2, <1>3, SMTT(60)

-----------------------------------------------------------------------------
(* The inductive invariant                                                 *)

\* It holds when the CPUs enter main.
LEMMA InitIInv == Init => IInv
<1> SUFFICES ASSUME Init PROVE IInv
  OBVIOUS
<1>1. TypeOK
  BY DEF Init, TypeOK
<1>2. Nesting
  BY FS_EmptySet, SMTT(60) DEF Init, Nesting
<1>3. Masked /\ Owned /\ NoPanic
  BY CpuAssumption DEF Init, Masked, Owned, NoPanic
<1> QED
  BY <1>1, <1>2, <1>3 DEF IInv

\* acquire up to its loop: push_off comes before anything else.
LEMMA AcquireIInv ==
  ASSUME IInv, NEW c \in Cpu, NEW l \in Lock, acquire(c, l)
  PROVE  IInv'
<1> USE DEF acquire, push_off
<1>1. l \notin held[c]
  BY LockAssumption, SMTT(60) DEF IInv, TypeOK
<1>2. TypeOK'
  BY SMTT(60) DEF IInv, TypeOK
<1>3. Nesting'
  <2> SUFFICES ASSUME NEW d \in Cpu
               PROVE  noff'[d] = Cardinality(held'[d]) + extra'[d]
                                   + (IF pc'[d] = "run" THEN 0 ELSE 1)
    BY DEF Nesting
  <2>1. noff[d] = Cardinality(held[d]) + extra[d] + (IF pc[d] = "run" THEN 0 ELSE 1)
    BY DEF IInv, Nesting
  <2>2. noff[d] \in Nat /\ extra[d] \in Nat /\ Cardinality(held[d]) \in Nat
    BY Counters
  <2> QED
    BY <2>1, <2>2, SMTT(60) DEF IInv, TypeOK
<1>4. Masked'
  BY SMTT(60) DEF IInv, TypeOK, Masked
<1>5. Owned'
  BY <1>1, SMTT(60) DEF IInv, TypeOK, Owned
<1>6. NoPanic'
  BY <1>1 DEF IInv, TypeOK, Owned, NoPanic, PanicIf, holding
<1> QED
  BY <1>2, <1>3, <1>4, <1>5, <1>6 DEF IInv

\* The swap that finds the lock free.
LEMMA SwapIInv ==
  ASSUME IInv, NEW c \in Cpu, swap(c)
  PROVE  IInv'
<1> USE DEF swap
<1>1. TypeOK' /\ Nesting' /\ Masked' /\ NoPanic'
  BY DEF IInv, TypeOK, Nesting, Masked, NoPanic
<1>2. cpu[lk[c]] = NoCpu
  BY SMTT(60) DEF IInv, TypeOK, Owned
<1>3. Owned'
  BY <1>2, SMTT(60) DEF IInv, TypeOK, Owned
<1> QED
  BY <1>1, <1>3 DEF IInv

\* acquire returns.
LEMMA RecordIInv ==
  ASSUME IInv, NEW c \in Cpu, record(c)
  PROVE  IInv'
<1> USE DEF record
<1>1. lk[c] \notin held[c]
  BY CpuAssumption, SMTT(60) DEF IInv, TypeOK, Owned
<1>2. TypeOK' /\ NoPanic'
  BY DEF IInv, TypeOK, NoPanic
<1>3. Nesting'
  <2> SUFFICES ASSUME NEW d \in Cpu
               PROVE  noff'[d] = Cardinality(held'[d]) + extra'[d]
                                   + (IF pc'[d] = "run" THEN 0 ELSE 1)
    BY DEF Nesting
  <2>1. noff[d] = Cardinality(held[d]) + extra[d] + (IF pc[d] = "run" THEN 0 ELSE 1)
    BY DEF IInv, Nesting
  <2>2. noff[d] \in Nat /\ extra[d] \in Nat /\ Cardinality(held[d]) \in Nat
    BY Counters
  <2>3. Cardinality(held[c] \cup {lk[c]}) = Cardinality(held[c]) + 1
    BY <1>1, HeldCounts DEF IInv, TypeOK
  <2> QED
    BY <2>1, <2>2, <2>3, SMTT(60) DEF IInv, TypeOK
<1>4. Masked'
  BY DEF IInv, TypeOK, Masked
<1>5. Owned'
  BY CpuAssumption, SMTT(60) DEF IInv, TypeOK, Owned
<1> QED
  BY <1>2, <1>3, <1>4, <1>5 DEF IInv

\* release up to the store that frees the lock.
LEMMA ReleaseIInv ==
  ASSUME IInv, NEW c \in Cpu, NEW l \in Lock, release(c, l)
  PROVE  IInv'
<1> USE DEF release
<1>1. l \in locked /\ cpu[l] = c
  BY DEF IInv, TypeOK, Owned
<1>2. TypeOK'
  BY DEF IInv, TypeOK
<1>3. Nesting'
  <2> SUFFICES ASSUME NEW d \in Cpu
               PROVE  noff'[d] = Cardinality(held'[d]) + extra'[d]
                                   + (IF pc'[d] = "run" THEN 0 ELSE 1)
    BY DEF Nesting
  <2>1. noff[d] = Cardinality(held[d]) + extra[d] + (IF pc[d] = "run" THEN 0 ELSE 1)
    BY DEF IInv, Nesting
  <2>2. noff[d] \in Nat /\ extra[d] \in Nat /\ Cardinality(held[d]) \in Nat
    BY Counters
  <2>3. Cardinality(held[c] \ {l}) = Cardinality(held[c]) - 1
    BY HeldCounts DEF IInv, TypeOK
  <2> QED
    BY <2>1, <2>2, <2>3, SMTT(60) DEF IInv, TypeOK
<1>4. Masked'
  BY DEF IInv, TypeOK, Masked
<1>5. Owned'
  BY <1>1, CpuAssumption, SMTT(60) DEF IInv, TypeOK, Owned
<1>6. NoPanic'
  BY <1>1 DEF IInv, NoPanic, PanicIf, holding
<1> QED
  BY <1>2, <1>3, <1>4, <1>5, <1>6 DEF IInv

\* The store that frees the lock, and pop_off.
LEMMA UnlockIInv ==
  ASSUME IInv, NEW c \in Cpu, unlock(c)
  PROVE  IInv'
<1> USE DEF unlock, pop_off
<1>1. noff[c] >= 1 /\ noff[c] \in Nat /\ c \notin intr
  BY Counters, SMTT(60) DEF IInv, Masked
<1>2. TypeOK'
  BY <1>1, SMTT(60) DEF IInv, TypeOK
<1>3. Nesting'
  <2> SUFFICES ASSUME NEW d \in Cpu
               PROVE  noff'[d] = Cardinality(held'[d]) + extra'[d]
                                   + (IF pc'[d] = "run" THEN 0 ELSE 1)
    BY DEF Nesting
  <2>1. noff[d] = Cardinality(held[d]) + extra[d] + (IF pc[d] = "run" THEN 0 ELSE 1)
    BY DEF IInv, Nesting
  <2>2. noff[d] \in Nat /\ extra[d] \in Nat /\ Cardinality(held[d]) \in Nat
    BY Counters
  <2> QED
    BY <1>1, <2>1, <2>2, SMTT(60) DEF IInv, TypeOK
<1>4. Masked'
  BY <1>1, SMTT(60) DEF IInv, TypeOK, Masked
<1>5. Owned'
  BY CpuAssumption, SMTT(60) DEF IInv, TypeOK, Owned
<1>6. NoPanic'
  BY <1>1, SMTT(60) DEF IInv, NoPanic, PanicIf
<1> QED
  BY <1>2, <1>3, <1>4, <1>5, <1>6 DEF IInv

\* push_off for no lock.
LEMMA PushIInv ==
  ASSUME IInv, NEW c \in Cpu, push(c)
  PROVE  IInv'
<1> USE DEF push, push_off
<1>1. TypeOK' /\ NoPanic'
  BY SMTT(60) DEF IInv, TypeOK, NoPanic
<1>2. Nesting'
  <2> SUFFICES ASSUME NEW d \in Cpu
               PROVE  noff'[d] = Cardinality(held'[d]) + extra'[d]
                                   + (IF pc'[d] = "run" THEN 0 ELSE 1)
    BY DEF Nesting
  <2>1. noff[d] = Cardinality(held[d]) + extra[d] + (IF pc[d] = "run" THEN 0 ELSE 1)
    BY DEF IInv, Nesting
  <2>2. noff[d] \in Nat /\ extra[d] \in Nat /\ Cardinality(held[d]) \in Nat
    BY Counters
  <2> QED
    BY <2>1, <2>2, SMTT(60) DEF IInv, TypeOK
<1>3. Masked'
  BY SMTT(60) DEF IInv, TypeOK, Masked
<1>4. Owned'
  BY DEF IInv, TypeOK, Owned
<1> QED
  BY <1>1, <1>2, <1>3, <1>4 DEF IInv

\* pop_off for no lock.
LEMMA PopIInv ==
  ASSUME IInv, NEW c \in Cpu, pop(c)
  PROVE  IInv'
<1> USE DEF pop, pop_off
<1>1. noff[c] >= 1 /\ noff[c] \in Nat /\ c \notin intr
  BY Counters, SMTT(60) DEF IInv, Masked
<1>2. TypeOK'
  BY <1>1, SMTT(60) DEF IInv, TypeOK
<1>3. Nesting'
  <2> SUFFICES ASSUME NEW d \in Cpu
               PROVE  noff'[d] = Cardinality(held'[d]) + extra'[d]
                                   + (IF pc'[d] = "run" THEN 0 ELSE 1)
    BY DEF Nesting
  <2>1. noff[d] = Cardinality(held[d]) + extra[d] + (IF pc[d] = "run" THEN 0 ELSE 1)
    BY DEF IInv, Nesting
  <2>2. noff[d] \in Nat /\ extra[d] \in Nat /\ Cardinality(held[d]) \in Nat
    BY Counters
  <2> QED
    BY <1>1, <2>1, <2>2, SMTT(60) DEF IInv, TypeOK
<1>4. Masked'
  BY <1>1, SMTT(60) DEF IInv, TypeOK, Masked
<1>5. Owned'
  BY DEF IInv, TypeOK, Owned
<1>6. NoPanic'
  BY <1>1, SMTT(60) DEF IInv, NoPanic, PanicIf
<1> QED
  BY <1>2, <1>3, <1>4, <1>5, <1>6 DEF IInv

\* What changes the interrupt enable without push_off and pop_off: a thread
\* that undid every push_off, an interrupt, and the return from it.
LEMMA IntrIInv ==
  ASSUME IInv, NEW c \in Cpu,
         (\E on \in BOOLEAN : set_intr(c, on)) \/ kerneltrap(c) \/ sret(c)
  PROVE  IInv'
<1>1. CASE \E on \in BOOLEAN : set_intr(c, on)
  <2>1. noff[c] = 0
    BY <1>1, Counters DEF set_intr
  <2>2. TypeOK' /\ Nesting' /\ NoPanic'
    BY <1>1 DEF set_intr, IInv, TypeOK, Nesting, NoPanic
  <2>3. Masked' /\ Owned'
    BY <1>1, <2>1, SMTT(60) DEF set_intr, IInv, TypeOK, Masked, Owned
  <2> QED
    BY <2>2, <2>3 DEF IInv
<1>2. CASE kerneltrap(c)
  <2>1. noff[c] = 0 /\ held[c] = {} /\ under[c] = {}
    BY <1>2, Counters, SMTT(60) DEF kerneltrap, IInv, Masked
  <2>2. held' = held /\ under' = under
    BY <1>2, <2>1 DEF kerneltrap, IInv, TypeOK
  <2>3. TypeOK' /\ Nesting' /\ NoPanic'
    BY <1>2, <2>2 DEF kerneltrap, IInv, TypeOK, Nesting, NoPanic
  <2>4. Masked' /\ Owned'
    BY <1>2, <2>1, <2>2 DEF kerneltrap, IInv, TypeOK, Masked, Owned
  <2> QED
    BY <2>3, <2>4 DEF IInv
<1>3. CASE sret(c)
  <2>1. noff[c] = 0 /\ held[c] = {} /\ under[c] = {}
    BY <1>3, Counters DEF sret, IInv, Masked
  <2>2. held' = held /\ under' = under
    BY <1>3, <2>1 DEF sret, IInv, TypeOK
  <2>3. TypeOK' /\ Nesting' /\ NoPanic'
    BY <1>3, <2>2 DEF sret, IInv, TypeOK, Nesting, NoPanic
  <2>4. Masked' /\ Owned'
    BY <1>3, <2>1, <2>2, SMTT(60) DEF sret, IInv, TypeOK, Masked, Owned
  <2> QED
    BY <2>3, <2>4 DEF IInv
<1> QED
  BY <1>1, <1>2, <1>3

\* Every step keeps it.
LEMMA NextIInv == IInv /\ [Next]_vars => IInv'
<1> SUFFICES ASSUME IInv, [Next]_vars PROVE IInv'
  OBVIOUS
<1>1. CASE UNCHANGED vars
  BY <1>1 DEF vars, IInv, TypeOK, Nesting, Masked, Owned, NoPanic
<1>2. ASSUME NEW c \in Cpu, Step(c) PROVE IInv'
  BY <1>2, AcquireIInv, SwapIInv, RecordIInv, ReleaseIInv, UnlockIInv,
     PushIInv, PopIInv, IntrIInv DEF Step
<1> QED
  BY <1>1, <1>2 DEF Next

\* The counter of a CPU is exact in every reachable state.
THEOREM Invariance == Spec => []IInv
<1> QED
  BY InitIInv, NextIInv, PTL DEF Spec

-----------------------------------------------------------------------------
(* The properties                                                          *)

\* The code between acquire and release of a lock runs on one CPU at a time.
THEOREM Exclusion == Spec => []MutualExclusion
<1>1. IInv => MutualExclusion
  BY SMTT(60) DEF IInv, TypeOK, Masked, Owned, MutualExclusion
<1> QED
  BY <1>1, Invariance, PTL

\* No interrupt is taken while the CPU holds a lock, and code that keeps to the
\* contract of the locks meets no panic of acquire, release or pop_off.
THEOREM SafeFromInterrupts == Spec => [](HolderNotInterrupted /\ NoPanic)
<1>1. IInv => HolderNotInterrupted
  <2> SUFFICES ASSUME IInv, NEW c \in Cpu, held[c] # {} PROVE c \notin intr
    BY DEF IInv, Masked, HolderNotInterrupted
  <2>1. noff[c] > 0
    BY Counters, SMTT(60)
  <2> QED
    BY <2>1 DEF IInv, Masked
<1>2. IInv => NoPanic
  BY DEF IInv
<1> QED
  BY <1>1, <1>2, Invariance, PTL
=============================================================================
