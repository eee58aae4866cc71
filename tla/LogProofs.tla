------------------------------ MODULE LogProofs ------------------------------
(***************************************************************************)
(* Log implements AtomicDisk, for any number of processes and blocks and   *)
(* any size of the log: first the invariant, then that every step of Log   *)
(* is a step of AtomicDisk or leaves its variables alone under the mapping *)
(* of Log!Atomic.  What recovery would leave on the disk is the stable     *)
(* state, what bread returns is the volatile one.                          *)
(***************************************************************************)
EXTENDS Log, FiniteSetTheorems, TLAPS

\* Most steps are first-order; the ones that need arithmetic or many facts at once
\* name the SMT solver.
USE ZenonT(60)

-----------------------------------------------------------------------------
(* The inductive invariant.                                                *)

At(l) == \E p \in Proc : pc[p] = l

Distinct(s) == \A j, k \in 1..Len(s) : s[j] = s[k] => j = k

\* Log and header fit on the disk and name no block twice.
Fits == /\ Len(lh) <= LOGBLOCKS /\ Len(head) <= LOGBLOCKS
        /\ Distinct(lh) /\ Distinct(head)

\* log.outstanding counts the calls inside a transaction.
Counted == outstanding = Cardinality(InOp)

\* One committer, and only after the last call of the transaction.
Alone == /\ committing <=> \E p \in Proc : pc[p] \in Committing
         /\ \A p, q \in Proc : pc[p] \in Committing /\ pc[q] \in Committing => p = q
         /\ committing => outstanding = 0

HeldOK == \A p \in Proc : pc[p] \in {"modified", "logged"} => held[p] \in Block

\* Entry k of the log is not at its home location yet.
Uninstalled(k) == ~(At("install") /\ k <= tail) /\ ~At("clear")

Dirty(b) == \/ \E k \in 1..Len(lh) : lh[k] = b /\ Uninstalled(k)
            \/ \E p \in Proc : pc[p] = "modified" /\ held[p] = b

\* bpin keeps what is not at its home location, and only that differs from it.
Pinned == boot = "up" => \A k \in 1..Len(lh) : Uninstalled(k) => pin[lh[k]] > 0
Clean == boot = "up" => \A b \in Block : ~Dirty(b) => cache[b] \in {NotCached, home[b]}

\* What the committer has done at each of its places.
Phases ==
  boot = "up" =>
    /\ ~At("install") /\ ~At("clear") => head = <<>>
    /\ At("install") \/ At("clear") => head = lh
    /\ At("write_log") \/ At("install") => tail < Len(lh)
    /\ At("write_log") => \A k \in 1..tail : logd[k] = Contents(lh[k])
    /\ At("write_head") => Len(lh) > 0
    /\ At("write_head") \/ At("install") =>
         \A k \in 1..Len(lh) : logd[k] = Contents(lh[k])
    /\ At("install") => \A k \in 1..tail : home[lh[k]] = logd[k]
    /\ At("clear") => \A k \in 1..Len(lh) : home[lh[k]] = logd[k]
    /\ At("done") \/ (outstanding = 0 /\ ~committing) => lh = <<>>

\* Before initlog has returned.
Booting ==
  boot # "up" =>
    /\ \A p \in Proc : pc[p] = "idle"
    /\ outstanding = 0 /\ ~committing
    /\ \A b \in Block : cache[b] \in {NotCached, home[b]}
    /\ boot = "read_head" => lh = <<>>
    /\ boot # "read_head" => lh = head
    /\ boot = "install" => /\ tail < Len(lh)
                           /\ \A k \in 1..tail : home[lh[k]] = logd[k]
    /\ boot = "clear" => \A k \in 1..Len(lh) : home[lh[k]] = logd[k]

IInv == /\ TypeOK /\ Fits /\ Counted /\ Alone /\ HeldOK
        /\ Pinned /\ Clean /\ Phases /\ Booting

-----------------------------------------------------------------------------
(* The steps that count calls.                                             *)

\* Finitely many calls are inside a transaction at a time.
LEMMA InOpFinite == IsFiniteSet(InOp)
BY ProcAssumption, FS_Subset DEF InOp

\* A call that is inside a transaction is counted.
LEMMA InOpCounted ==
  ASSUME IInv, NEW p \in InOp
  PROVE  outstanding > 0 /\ ~committing /\ Cardinality(InOp \ {p}) = outstanding - 1
<1>1. Cardinality(InOp \ {p}) = Cardinality(InOp) - 1
  BY InOpFinite, FS_RemoveElement
<1>2. Cardinality(InOp \ {p}) \in Nat
  BY InOpFinite, FS_RemoveElement, FS_CardinalityType
<1>3. outstanding \in Nat /\ outstanding = Cardinality(InOp)
  BY DEF IInv, TypeOK, Counted
<1>4. outstanding > 0
  BY <1>1, <1>2, <1>3, SMTT(60)
<1> QED BY <1>1, <1>3, <1>4, SMTT(60) DEF IInv, Alone

\* A freshly made file system satisfies the invariant.
LEMMA InitIInv == Init => IInv
<1> SUFFICES ASSUME Init PROVE IInv
  OBVIOUS
<1> USE DEF Init
<1>1. TypeOK
  <2>1. head \in Seq(Block) /\ lh \in Seq(Block)
    BY SMTT(60)
  <2>2. home \in [Block -> Value] /\ logd \in [1..LOGBLOCKS -> Value] /\ cache \in [Block -> Value \cup {NotCached}]
    BY ValueAssumption
  <2>3. pin \in [Block -> Nat] /\ wrote \in [Proc -> SUBSET Block] /\ held \in [Proc -> Block \cup {NoBlock}]
    OBVIOUS
  <2>4. outstanding \in Nat /\ tail \in Nat /\ committing \in BOOLEAN /\ boot \in {"read_head", "install", "clear", "up"}
    OBVIOUS
  <2>5. pc \in [Proc -> Label]
    BY DEF Label
  <2> QED BY <2>1, <2>2, <2>3, <2>4, <2>5 DEF TypeOK
<1>2. Counted
  <2>1. InOp = {} BY DEF InOp
  <2> QED BY <2>1, FS_EmptySet DEF Counted
<1>3. Fits /\ Alone /\ HeldOK /\ Pinned /\ Clean /\ Phases /\ Booting
  BY SizeAssumption, SMTT(60)
     DEF Fits, Distinct, Alone, Committing, HeldOK, Pinned, Clean, Phases, Booting
<1> QED BY <1>1, <1>2, <1>3 DEF IInv

\* begin_op counts the call it admits and admits none during a commit.
LEMMA BeginOp ==
  ASSUME IInv, NEW p \in Proc, begin_op(p)
  PROVE  IInv'
<1> USE DEF IInv, begin_op
<1>1. TypeOK'
  <2>1. pc' \in [Proc -> Label]
    BY DEF TypeOK, Label
  <2>2. outstanding' \in Nat
    BY SMTT(60) DEF TypeOK
  <2> QED BY <2>1, <2>2 DEF TypeOK, disk
<1>2. Fits' /\ HeldOK'
  BY DEF Fits, HeldOK, disk, TypeOK
<1>3. Counted'
  <2>1. CASE MustWait
    <3>1. InOp' = InOp BY <2>1 DEF InOp, TypeOK
    <3> QED BY <2>1, <3>1 DEF Counted
  <2>2. CASE ~MustWait
    <3>1. InOp' = InOp \cup {p} /\ p \notin InOp BY <2>2 DEF InOp, TypeOK
    <3> QED BY <2>2, <3>1, InOpFinite, FS_AddElement DEF Counted
  <2> QED BY <2>1, <2>2
<1>4. Alone'
  BY DEF Alone, Committing, MustWait, TypeOK
<1>5. /\ At("write_log")' <=> At("write_log")
      /\ At("write_head")' <=> At("write_head")
      /\ At("install")' <=> At("install")
      /\ At("clear")' <=> At("clear")
      /\ At("done")' <=> At("done")
  BY DEF At, TypeOK
<1>6. Pinned'
  BY <1>5 DEF Pinned, Uninstalled
<1>7. Clean'
  BY <1>5 DEF Clean, Uninstalled, Dirty, disk, TypeOK
<1>8. Phases'
  BY <1>5, SMTT(60) DEF Phases, Contents, disk, TypeOK
<1>9. Booting'
  BY DEF Booting
<1> QED BY <1>1, <1>2, <1>3, <1>4, <1>6, <1>7, <1>8, <1>9

\* While a call is inside a transaction nobody commits and the header is clear.
LEMMA InOpQuiet ==
  ASSUME IInv, NEW p \in InOp
  PROVE  /\ boot = "up" /\ head = <<>>
         /\ \A q \in Proc : pc[q] \notin Committing
<1>1. \A q \in Proc : pc[q] \notin Committing
  BY InOpCounted DEF IInv, Alone
<1>2. boot = "up"
  BY DEF IInv, Booting, InOp
<1>3. head = <<>>
  BY <1>1, <1>2 DEF IInv, Phases, At, Committing
<1> QED BY <1>1, <1>2, <1>3

\* A modified buffer is dirty, and locked, before it is logged.
LEMMA Update ==
  ASSUME IInv, NEW p \in Proc, NEW b \in Block, NEW v \in Value, update(p, b, v)
  PROVE  IInv'
<1> USE DEF IInv, update
<1>0. p \in InOp
  BY DEF InOp
<1>1. TypeOK'
  <2>1. pc' \in [Proc -> Label]
    BY DEF TypeOK, Label
  <2>2. held' \in [Proc -> Block \cup {NoBlock}] /\ cache' \in [Block -> Value \cup {NotCached}]
    BY DEF TypeOK
  <2> QED BY <2>1, <2>2 DEF TypeOK, disk
<1>2. Fits'
  BY DEF Fits, disk
<1>3. HeldOK'
  BY DEF HeldOK, TypeOK
<1>4. Counted'
  <2>1. InOp' = InOp BY DEF InOp, TypeOK
  <2> QED BY <2>1 DEF Counted
<1>5. \A q \in Proc : pc[q] \notin Committing /\ pc'[q] \notin Committing
  BY <1>0, InOpQuiet DEF TypeOK, Committing
<1>6. boot = "up" /\ head = <<>> /\ outstanding > 0 /\ ~committing
  BY <1>0, InOpQuiet, InOpCounted
<1>7. Alone'
  BY <1>5, <1>6 DEF Alone
<1>8. Pinned'
  BY <1>5, <1>6 DEF Pinned, Uninstalled, At, Committing
<1>9. Clean'
  <2> SUFFICES ASSUME NEW a \in Block, ~Dirty(a)'
               PROVE  cache'[a] \in {NotCached, home'[a]}
    BY DEF Clean
  <2>1. a # b
    BY DEF Dirty, TypeOK
  <2>2. ~Dirty(a)
    BY <1>5, <2>1 DEF Dirty, Uninstalled, At, Committing, TypeOK
  <2> QED BY <1>6, <2>1, <2>2 DEF Clean, TypeOK, disk
<1>10. Phases'
  BY <1>5, <1>6 DEF Phases, At, Committing, TypeOK, disk
<1>11. Booting'
  BY <1>6 DEF Booting
<1> QED BY <1>1, <1>2, <1>3, <1>4, <1>7, <1>8, <1>9, <1>10, <1>11

\* log_write pins each block it adds and adds none twice (absorption).
LEMMA LogWrite ==
  ASSUME IInv, NEW p \in Proc, log_write(p)
  PROVE  IInv'
<1> DEFINE b == held[p]
<1> USE DEF IInv
<1>0. /\ p \in InOp /\ pc[p] = "modified" /\ b \in Block /\ ~LogWritePanics
      /\ pc' = [pc EXCEPT ![p] = "logged"]
      /\ wrote' = [wrote EXCEPT ![p] = @ \cup {b}]
      /\ \/ Logged(b) /\ UNCHANGED <<lh, pin>>
         \/ ~Logged(b) /\ lh' = Append(lh, b) /\ pin' = [pin EXCEPT ![b] = @ + 1]
      /\ UNCHANGED <<disk, outstanding, committing, cache, held, tail, boot>>
  BY DEF InOp, log_write, HeldOK
<1> HIDE DEF b
<1>a. /\ lh' \in Seq(Block) /\ Len(lh') \in Nat /\ Len(lh) \in Nat
      /\ Len(lh) <= Len(lh')
      /\ \A k \in 1..Len(lh) : lh'[k] = lh[k]
      /\ \A k \in 1..Len(lh') : k \in 1..Len(lh) \/ (k = Len(lh) + 1 /\ lh'[k] = b /\ ~Logged(b))
      /\ \E k \in 1..Len(lh') : lh'[k] = b
  <2>1. CASE Logged(b) /\ UNCHANGED <<lh, pin>>
    BY <2>1, SMTT(60) DEF TypeOK, Logged
  <2>2. CASE ~Logged(b) /\ lh' = Append(lh, b)
    <3>1. lh \in Seq(Block) /\ b \in Block
      BY <1>0 DEF TypeOK
    <3>2. lh' \in Seq(Block) /\ Len(lh') = Len(lh) + 1 /\ Len(lh) \in Nat
      BY <2>2, <3>1, SMTT(60)
    <3>3. \A k \in 1..Len(lh) : lh'[k] = lh[k]
      BY <2>2, <3>1, SMTT(60)
    <3>4. lh'[Len(lh) + 1] = b
      BY <2>2, <3>1, SMTT(60)
    <3> QED BY <2>2, <3>2, <3>3, <3>4, SMTT(60)
  <2> QED BY <1>0, <2>1, <2>2
<1>1. TypeOK'
  <2>1. pc' \in [Proc -> Label]
    BY <1>0 DEF TypeOK, Label
  <2>2. wrote' \in [Proc -> SUBSET Block]
    BY <1>0 DEF TypeOK
  <2>3. pin' \in [Block -> Nat]
    BY <1>0, SMTT(60) DEF TypeOK
  <2> QED BY <1>0, <1>a, <2>1, <2>2, <2>3 DEF TypeOK, disk
<1>2. Fits'
  <2>1. Len(lh') <= LOGBLOCKS
    BY <1>0, <1>a, SizeAssumption, SMTT(60) DEF Fits, LogWritePanics, TypeOK
  <2>2. Distinct(lh')
    BY <1>a, SMTT(60) DEF Fits, Distinct, Logged
  <2> QED BY <1>0, <2>1, <2>2 DEF Fits, Distinct, disk
<1>3. HeldOK'
  BY <1>0 DEF HeldOK, TypeOK
<1>4. Counted'
  <2>1. InOp' = InOp BY <1>0 DEF InOp, TypeOK
  <2> QED BY <1>0, <2>1 DEF Counted
<1>5. \A q \in Proc : pc[q] \notin Committing /\ pc'[q] \notin Committing
  BY <1>0, InOpQuiet DEF TypeOK, Committing
<1>6. boot = "up" /\ head = <<>> /\ outstanding > 0 /\ ~committing
  BY <1>0, InOpQuiet, InOpCounted
<1>7. Alone'
  BY <1>0, <1>5, <1>6 DEF Alone
<1>b. ~At("install") /\ ~At("clear") /\ ~At("install")' /\ ~At("clear")'
  BY <1>5 DEF At, Committing
<1>8. Pinned'
  <2>1. \A k \in 1..Len(lh) : pin[lh[k]] > 0
    BY <1>6, <1>b DEF Pinned, Uninstalled
  <2>2. \A k \in 1..Len(lh') : pin'[lh'[k]] > 0
    <3> SUFFICES ASSUME NEW k \in 1..Len(lh') PROVE pin'[lh'[k]] > 0
      OBVIOUS
    <3>1. CASE UNCHANGED <<lh, pin>>
      BY <2>1, <3>1
    <3>2. CASE pin' = [pin EXCEPT ![b] = @ + 1]
      <4>1. pin' \in [Block -> Nat] /\ pin'[b] > 0 /\ \A a \in Block : pin'[a] >= pin[a]
        BY <1>0, <3>2, SMTT(60) DEF TypeOK
      <4>2. CASE k \in 1..Len(lh)
        <5>1. lh'[k] = lh[k] /\ lh[k] \in Block
          BY <1>a, <4>2, SMTT(60) DEF TypeOK
        <5>2. pin[lh[k]] \in Nat /\ pin'[lh[k]] \in Nat
          BY <4>1, <5>1 DEF TypeOK
        <5> QED BY <2>1, <4>1, <4>2, <5>1, <5>2, SMTT(60)
      <4>3. CASE lh'[k] = b
        BY <4>1, <4>3
      <4> QED BY <1>a, <4>2, <4>3
    <3> QED BY <1>0, <3>1, <3>2
  <2> QED BY <2>2 DEF Pinned
<1>9. Clean'
  <2> SUFFICES ASSUME NEW a \in Block, ~Dirty(a)'
               PROVE  cache'[a] \in {NotCached, home'[a]}
    BY DEF Clean
  <2>1. a # b
    BY <1>a, <1>b DEF Dirty, Uninstalled
  <2>2. ~Dirty(a)
    <3>1. ASSUME NEW k \in 1..Len(lh) PROVE lh[k] # a
      <4>1. k \in 1..Len(lh') /\ lh'[k] = lh[k]
        BY <1>a, SMTT(60)
      <4> QED BY <1>b, <4>1 DEF Dirty, Uninstalled
    <3>2. ASSUME NEW q \in Proc, pc[q] = "modified" PROVE held[q] # a
      BY <1>0, <2>1, <3>2 DEF Dirty, TypeOK, b
    <3> QED BY <3>1, <3>2 DEF Dirty
  <2> QED BY <1>0, <1>6, <2>2 DEF Clean, disk
<1>10. Phases'
  BY <1>0, <1>5, <1>6, SMTT(60) DEF Phases, At, Committing, disk
<1>11. Booting'
  BY <1>0, <1>6 DEF Booting
<1> QED BY <1>1, <1>2, <1>3, <1>4, <1>7, <1>8, <1>9, <1>10, <1>11

\* brelse gives up the lock on a buffer that is logged already.
LEMMA Brelse ==
  ASSUME IInv, NEW p \in Proc, brelse(p)
  PROVE  IInv'
<1> USE DEF IInv, brelse
<1>0. p \in InOp
  BY DEF InOp
<1>1. TypeOK'
  <2>1. pc' \in [Proc -> Label]
    BY DEF TypeOK, Label
  <2>2. held' \in [Proc -> Block \cup {NoBlock}]
    BY DEF TypeOK
  <2> QED BY <2>1, <2>2 DEF TypeOK, disk
<1>2. Fits'
  BY DEF Fits, disk
<1>3. HeldOK'
  BY DEF HeldOK, TypeOK
<1>4. Counted'
  <2>1. InOp' = InOp BY DEF InOp, TypeOK
  <2> QED BY <2>1 DEF Counted
<1>5. \A q \in Proc : pc[q] \notin Committing /\ pc'[q] \notin Committing
  BY <1>0, InOpQuiet DEF TypeOK, Committing
<1>6. boot = "up" /\ head = <<>> /\ outstanding > 0 /\ ~committing
  BY <1>0, InOpQuiet, InOpCounted
<1>7. Alone'
  BY <1>5, <1>6 DEF Alone
<1>8. Pinned'
  BY <1>5, <1>6 DEF Pinned, Uninstalled, At, Committing
<1>9. Clean'
  <2> SUFFICES ASSUME NEW a \in Block, ~Dirty(a)'
               PROVE  cache'[a] \in {NotCached, home'[a]}
    BY DEF Clean
  <2>1. ~Dirty(a)
    BY <1>5 DEF Dirty, Uninstalled, At, Committing, TypeOK
  <2> QED BY <1>6, <2>1 DEF Clean, disk
<1>10. Phases'
  BY <1>5, <1>6 DEF Phases, At, Committing, disk
<1>11. Booting'
  BY <1>6 DEF Booting
<1> QED BY <1>1, <1>2, <1>3, <1>4, <1>7, <1>8, <1>9, <1>10, <1>11

\* The last end_op turns its process into the committer.
LEMMA EndOp ==
  ASSUME IInv, NEW p \in Proc, end_op(p)
  PROVE  IInv'
<1> USE DEF IInv
<1>0. /\ p \in InOp /\ pc[p] = "op"
      /\ outstanding' = outstanding - 1
      /\ wrote' = [wrote EXCEPT ![p] = {}]
      /\ \/ /\ outstanding = 1 /\ committing' = TRUE /\ tail' = 0
            /\ pc' = [pc EXCEPT ![p] = IF lh = <<>> THEN "done" ELSE "write_log"]
         \/ /\ outstanding # 1 /\ pc' = Wakeup([pc EXCEPT ![p] = "idle"])
            /\ UNCHANGED <<committing, tail>>
      /\ UNCHANGED <<disk, lh, cache, pin, held, boot>>
  BY DEF InOp, end_op
<1>a. \A q \in Proc : pc[q] \notin Committing
  BY <1>0, InOpQuiet
<1>b. boot = "up" /\ head = <<>> /\ outstanding > 0 /\ ~committing /\ outstanding \in Nat
  BY <1>0, InOpQuiet, InOpCounted DEF TypeOK
<1>1. TypeOK'
  <2>1. pc' \in [Proc -> Label]
    BY <1>0 DEF TypeOK, Label, Committing, Wakeup
  <2>2. wrote' \in [Proc -> SUBSET Block]
    BY <1>0 DEF TypeOK
  <2>3. outstanding' \in Nat /\ tail' \in Nat
    BY <1>0, <1>b, SMTT(60) DEF TypeOK
  <2>4. committing' \in BOOLEAN
    BY <1>0 DEF TypeOK
  <2> QED BY <1>0, <2>1, <2>2, <2>3, <2>4 DEF TypeOK, disk
<1>2. Fits'
  BY <1>0 DEF Fits, disk
<1>3. HeldOK'
  BY <1>0 DEF HeldOK, TypeOK, Wakeup
<1>4. Counted'
  <2>1. InOp' = InOp \ {p}
    BY <1>0 DEF InOp, TypeOK, Wakeup
  <2> QED BY <1>0, <2>1, InOpCounted DEF Counted
<1>5. ~At("install")' /\ ~At("clear")' /\ ~At("write_head")' /\ ~At("install") /\ ~At("clear")
  BY <1>0, <1>a DEF At, Committing, TypeOK, Wakeup
<1>6. \A q \in Proc, a \in Block : (pc[q] = "modified" /\ held[q] = a) <=> (pc'[q] = "modified" /\ held'[q] = a)
  BY <1>0 DEF TypeOK, Wakeup
<1>7. Pinned'
  BY <1>0, <1>5, <1>b DEF Pinned, Uninstalled
<1>8. Clean'
  BY <1>0, <1>5, <1>6, <1>b, SMTT(60) DEF Clean, Dirty, Uninstalled, disk
<1>9. Booting'
  BY <1>0, <1>b DEF Booting
<1>10. CASE outstanding = 1
  <2>1. Alone'
    BY <1>0, <1>a, <1>10, SMTT(60) DEF Alone, TypeOK, Committing
  <2>2. Len(lh) \in Nat /\ (At("write_log")' => Len(lh) > 0) /\ (At("done")' => lh = <<>>)
    BY <1>0, <1>a, <1>10, SMTT(60) DEF At, Committing, TypeOK
  <2>3. Phases'
    BY <1>0, <1>5, <1>b, <1>10, <2>2, SMTT(60) DEF Phases, disk
  <2> QED BY <1>1, <1>2, <1>3, <1>4, <1>7, <1>8, <1>9, <2>1, <2>3
<1>11. CASE outstanding # 1
  <2>1. \A q \in Proc : pc'[q] \notin Committing
    BY <1>0, <1>a, <1>11 DEF Committing, TypeOK, Wakeup
  <2>2. Alone'
    BY <1>0, <1>b, <1>11, <2>1, SMTT(60) DEF Alone
  <2>3. Phases'
    <3>1. \A x \in Committing : ~At(x)'
      BY <2>1 DEF At
    <3>2. ~At("write_log")' /\ ~At("write_head")' /\ ~At("install")' /\ ~At("clear")' /\ ~At("done")'
      BY <3>1 DEF Committing
    <3>3. head' = <<>> /\ outstanding' # 0
      BY <1>0, <1>5, <1>b, <1>11, SMTT(60) DEF Phases, disk, TypeOK
    <3> HIDE DEF IInv
    <3> QED BY <3>2, <3>3 DEF Phases
  <2> QED BY <1>1, <1>2, <1>3, <1>4, <1>7, <1>8, <1>9, <2>2, <2>3
<1> QED BY <1>10, <1>11

-----------------------------------------------------------------------------
(* The steps of commit().                                                  *)

\* The committer is alone: every other process is outside transactions.
LEMMA CommitterAlone ==
  ASSUME IInv, NEW p \in Proc, pc[p] \in Committing
  PROVE  /\ boot = "up" /\ committing /\ outstanding = 0 /\ InOp = {}
         /\ \A q \in Proc : q # p => pc[q] \in {"idle", "sleep", "woken"}
         /\ At("write_log") <=> pc[p] = "write_log"
         /\ At("write_head") <=> pc[p] = "write_head"
         /\ At("install") <=> pc[p] = "install"
         /\ At("clear") <=> pc[p] = "clear"
         /\ At("done") <=> pc[p] = "done"
<1> USE DEF IInv
<1>1. committing /\ outstanding = 0
  BY DEF Alone
<1>2. boot = "up"
  BY DEF Booting, Committing
<1>3. InOp = {}
  BY <1>1, InOpFinite, FS_EmptySet DEF Counted
<1>4. \A q \in Proc : q # p => pc[q] \in {"idle", "sleep", "woken"}
  BY <1>3 DEF Alone, InOp, TypeOK, Label
<1>5. /\ At("write_log") <=> pc[p] = "write_log"
      /\ At("write_head") <=> pc[p] = "write_head"
      /\ At("install") <=> pc[p] = "install"
      /\ At("clear") <=> pc[p] = "clear"
      /\ At("done") <=> pc[p] = "done"
  BY <1>4 DEF At
<1> QED BY <1>1, <1>2, <1>3, <1>4, <1>5

\* What the committer's move from one label to another leaves as it was.
LEMMA CommitterMoves ==
  ASSUME IInv, NEW p \in Proc, pc[p] \in Committing,
         NEW l \in Committing, pc' = [pc EXCEPT ![p] = l],
         UNCHANGED <<outstanding, committing, held, boot>>
  PROVE  /\ Counted' /\ Alone' /\ HeldOK' /\ Booting' /\ pc' \in [Proc -> Label]
         /\ \A q \in Proc : pc[q] # "modified" /\ pc'[q] # "modified"
         /\ At("write_log")' <=> l = "write_log"
         /\ At("write_head")' <=> l = "write_head"
         /\ At("install")' <=> l = "install"
         /\ At("clear")' <=> l = "clear"
         /\ At("done")' <=> l = "done"
<1> USE DEF IInv
<1>1. /\ boot = "up" /\ committing /\ outstanding = 0 /\ InOp = {}
      /\ \A q \in Proc : q # p => pc[q] \in {"idle", "sleep", "woken"}
  BY CommitterAlone
<1>2. pc' \in [Proc -> Label] /\ pc'[p] = l /\ \A q \in Proc : q # p => pc'[q] = pc[q]
  BY DEF TypeOK, Label
<1>3. InOp' = InOp
  BY <1>1, <1>2 DEF InOp, Committing
<1>4. Counted'
  BY <1>3 DEF Counted
<1>5. Alone'
  BY <1>1, <1>2 DEF Alone, Committing
<1>6. \A q \in Proc : pc'[q] \notin {"modified", "logged"} /\ pc[q] # "modified"
  BY <1>1, <1>2 DEF Committing
<1>7. HeldOK' /\ Booting'
  BY <1>1, <1>6 DEF HeldOK, Booting
<1>8. /\ At("write_log")' <=> l = "write_log"
      /\ At("write_head")' <=> l = "write_head"
      /\ At("install")' <=> l = "install"
      /\ At("clear")' <=> l = "clear"
      /\ At("done")' <=> l = "done"
  BY <1>1, <1>2 DEF At
<1> QED BY <1>2, <1>4, <1>5, <1>6, <1>7, <1>8

\* write_log copies one more block to the log and nothing else.
LEMMA WriteLog ==
  ASSUME IInv, NEW p \in Proc, write_log(p)
  PROVE  IInv'
<1> DEFINE b == lh[tail + 1]
           l == IF tail + 1 = Len(lh) THEN "write_head" ELSE "write_log"
<1> USE DEF IInv
<1>0. /\ pc[p] = "write_log" /\ pc[p] \in Committing /\ l \in Committing
      /\ logd' = [logd EXCEPT ![tail + 1] = Contents(b)]
      /\ cache' = [cache EXCEPT ![b] = Contents(b)]
      /\ tail' = tail + 1
      /\ pc' = [pc EXCEPT ![p] = l]
      /\ UNCHANGED <<home, head, lh, outstanding, committing, pin, held, wrote, boot>>
  BY DEF write_log, Committing, TypeOK
<1> HIDE DEF l
<1>a. /\ boot = "up" /\ committing /\ At("write_log") /\ ~At("write_head")
      /\ ~At("install") /\ ~At("clear") /\ ~At("done")
  BY <1>0, CommitterAlone
<1>b. /\ tail \in Nat /\ Len(lh) \in Nat /\ lh \in Seq(Block) /\ tail < Len(lh)
      /\ Len(lh) <= LOGBLOCKS /\ tail + 1 \in 1..Len(lh) /\ tail + 1 \in 1..LOGBLOCKS
      /\ b \in Block /\ head = <<>>
      /\ \A k \in 1..tail : logd[k] = Contents(lh[k])
  <2>1. tail \in Nat /\ Len(lh) \in Nat /\ tail < Len(lh) /\ Len(lh) <= LOGBLOCKS /\ lh \in Seq(Block)
    BY <1>a, SMTT(60) DEF Phases, Fits, TypeOK
  <2>2. tail + 1 \in 1..Len(lh) /\ tail + 1 \in 1..LOGBLOCKS
    BY <2>1, SizeAssumption, SMTT(60)
  <2> QED BY <1>a, <2>1, <2>2, SMTT(60) DEF Phases
<1>c. Contents(b) \in Value
  BY <1>b DEF Contents, TypeOK
<1>d. \A a \in Block : Contents(a)' = Contents(a)
  BY <1>0, <1>b, <1>c, ValueAssumption DEF Contents, TypeOK
<1>1. /\ Counted' /\ Alone' /\ HeldOK' /\ Booting' /\ pc' \in [Proc -> Label]
      /\ \A q \in Proc : pc[q] # "modified" /\ pc'[q] # "modified"
      /\ ~At("install")' /\ ~At("clear")' /\ ~At("done")'
      /\ At("write_log")' <=> l = "write_log"
      /\ At("write_head")' <=> l = "write_head"
  BY <1>0, CommitterMoves DEF l
<1>2. TypeOK'
  <2>1. logd' \in [1..LOGBLOCKS -> Value] /\ cache' \in [Block -> Value \cup {NotCached}]
    BY <1>0, <1>b, <1>c DEF TypeOK
  <2>2. tail' \in Nat
    BY <1>0, <1>b, SMTT(60)
  <2> QED BY <1>0, <1>1, <2>1, <2>2 DEF TypeOK
<1>3. Fits'
  BY <1>0 DEF Fits
<1>4. Pinned'
  BY <1>0, <1>1, <1>a DEF Pinned, Uninstalled
<1>5. Clean'
  <2> SUFFICES ASSUME NEW a \in Block, ~Dirty(a)'
               PROVE  cache'[a] \in {NotCached, home'[a]}
    BY DEF Clean
  <2>1. ~Dirty(a) /\ a # b
    BY <1>0, <1>1, <1>a, <1>b DEF Dirty, Uninstalled
  <2> QED BY <1>0, <1>a, <1>b, <2>1 DEF Clean, TypeOK
<1>6. \A k \in 1..tail + 1 : logd'[k] = Contents(lh[k])'
  <2> SUFFICES ASSUME NEW k \in 1..tail + 1 PROVE logd'[k] = Contents(lh[k])'
    OBVIOUS
  <2>1. k \in 1..LOGBLOCKS /\ lh[k] \in Block /\ Contents(lh[k])' = Contents(lh[k])
    <3>1. k \in 1..LOGBLOCKS /\ k \in 1..Len(lh)
      BY <1>b, SizeAssumption, SMTT(60)
    <3>2. lh[k] \in Block
      BY <1>b, <3>1, SMTT(60)
    <3> QED BY <1>0, <1>d, <3>1, <3>2 DEF Contents
  <2>2. CASE k = tail + 1
    BY <1>0, <2>1, <2>2 DEF TypeOK
  <2>3. CASE k # tail + 1
    <3>1. k \in 1..tail BY <1>b, <2>3, SMTT(60)
    <3> QED BY <1>0, <1>b, <2>1, <2>3, <3>1 DEF TypeOK
  <2> QED BY <2>2, <2>3
<1>7. Phases'
  <2> HIDE DEF IInv
  <2>0. head' = <<>> /\ committing' /\ lh' = lh /\ tail' = tail + 1
    BY <1>0, <1>a, <1>b
  <2>1. CASE tail + 1 = Len(lh)
    <3>1. ~At("write_log")' /\ Len(lh') > 0
      BY <1>1, <1>b, <2>0, <2>1, SMTT(60) DEF l
    <3>2. \A k \in 1..Len(lh') : logd'[k] = Contents(lh[k])'
      BY <1>6, <2>0, <2>1
    <3> QED BY <1>1, <2>0, <3>1, <3>2 DEF Phases
  <2>2. CASE tail + 1 # Len(lh)
    <3>1. ~At("write_head")' /\ tail' < Len(lh')
      BY <1>1, <1>b, <2>0, <2>2, SMTT(60) DEF l
    <3>2. \A k \in 1..tail' : logd'[k] = Contents(lh[k])'
      BY <1>6, <2>0
    <3> QED BY <1>1, <2>0, <3>1, <3>2 DEF Phases
  <2> QED BY <2>1, <2>2
<1> QED BY <1>1, <1>2, <1>3, <1>4, <1>5, <1>7

\* write_head finds the whole log on the disk.
LEMMA WriteHead ==
  ASSUME IInv, NEW p \in Proc, write_head(p)
  PROVE  IInv'
<1> USE DEF IInv
<1>0. /\ pc[p] = "write_head" /\ pc[p] \in Committing /\ "install" \in Committing
      /\ head' = lh /\ tail' = 0 /\ pc' = [pc EXCEPT ![p] = "install"]
      /\ UNCHANGED <<home, logd, lh, outstanding, committing, cache, pin, held, wrote, boot>>
  BY DEF write_head, Committing
<1>a. /\ boot = "up" /\ committing /\ At("write_head")
      /\ ~At("install") /\ ~At("clear") /\ ~At("done") /\ ~At("write_log")
  BY <1>0, CommitterAlone
<1>b. Len(lh) > 0 /\ \A k \in 1..Len(lh) : logd[k] = Contents(lh[k])
  BY <1>a DEF Phases
<1>1. /\ Counted' /\ Alone' /\ HeldOK' /\ Booting' /\ pc' \in [Proc -> Label]
      /\ \A q \in Proc : pc[q] # "modified" /\ pc'[q] # "modified"
      /\ At("install")' /\ ~At("clear")' /\ ~At("done")'
      /\ ~At("write_log")' /\ ~At("write_head")'
  BY <1>0, CommitterMoves
<1>2. TypeOK'
  BY <1>0, <1>1 DEF TypeOK
<1>3. Fits'
  BY <1>0 DEF Fits
<1>4. \A k \in 1..Len(lh) : Uninstalled(k) /\ Uninstalled(k)'
  BY <1>0, <1>1, <1>a, SMTT(60) DEF Uninstalled
<1>5. Pinned'
  BY <1>0, <1>4, <1>a DEF Pinned
<1>6. Clean'
  BY <1>0, <1>1, <1>4, <1>a DEF Clean, Dirty
<1>7. \A k \in 1..Len(lh') : logd'[k] = Contents(lh[k])'
  BY <1>0, <1>b DEF Contents
<1>8. head' = lh' /\ tail' = 0 /\ Len(lh') > 0 /\ 1..0 = {} /\ lh' = lh
  BY <1>0, <1>b, SMTT(60)
<1>9. committing'
  BY <1>0, <1>a
<1>10. Phases'
  BY <1>1, <1>7, <1>8, <1>9 DEF Phases
<1> QED BY <1>1, <1>2, <1>3, <1>5, <1>6, <1>10

\* install_trans copies one more block home and unpins it.
LEMMA InstallTrans ==
  ASSUME IInv, NEW p \in Proc, install_trans(p)
  PROVE  IInv'
<1> DEFINE b == lh[tail + 1]
           l == IF tail + 1 = Len(lh) THEN "clear" ELSE "install"
<1> USE DEF IInv
<1>0. /\ pc[p] = "install" /\ pc[p] \in Committing /\ l \in Committing
      /\ home' = [home EXCEPT ![b] = logd[tail + 1]]
      /\ cache' = [cache EXCEPT ![b] = logd[tail + 1]]
      /\ pin' = [pin EXCEPT ![b] = @ - 1]
      /\ tail' = tail + 1
      /\ pc' = [pc EXCEPT ![p] = l]
      /\ UNCHANGED <<logd, head, lh, outstanding, committing, held, wrote, boot>>
  BY DEF install_trans, InstallBlock, Committing, TypeOK
<1> HIDE DEF l
<1>a. /\ boot = "up" /\ committing /\ At("install")
      /\ ~At("write_log") /\ ~At("write_head") /\ ~At("clear") /\ ~At("done")
  BY <1>0, CommitterAlone
<1>b. /\ tail \in Nat /\ Len(lh) \in Nat /\ lh \in Seq(Block) /\ tail < Len(lh)
      /\ tail + 1 \in 1..Len(lh) /\ tail + 1 \in 1..LOGBLOCKS /\ b \in Block
      /\ logd[tail + 1] \in Value /\ logd[tail + 1] = Contents(b)
      /\ \A k \in 1..Len(lh) : k # tail + 1 => lh[k] # b
  <2>1. tail \in Nat /\ Len(lh) \in Nat /\ tail < Len(lh) /\ Len(lh) <= LOGBLOCKS /\ lh \in Seq(Block)
    BY <1>a, SMTT(60) DEF Phases, Fits, TypeOK
  <2>2. tail + 1 \in 1..Len(lh) /\ tail + 1 \in 1..LOGBLOCKS
    BY <2>1, SizeAssumption, SMTT(60)
  <2>3. logd[tail + 1] \in Value /\ logd[tail + 1] = Contents(b)
    BY <1>a, <2>2 DEF Phases, TypeOK
  <2>4. \A k \in 1..Len(lh) : k # tail + 1 => lh[k] # b
    BY <2>2 DEF Fits, Distinct
  <2> QED BY <2>1, <2>2, <2>3, <2>4, SMTT(60)
<1>d. \A a \in Block : Contents(a)' = Contents(a)
  BY <1>0, <1>b, ValueAssumption DEF Contents, TypeOK
<1>1. /\ Counted' /\ Alone' /\ HeldOK' /\ Booting' /\ pc' \in [Proc -> Label]
      /\ \A q \in Proc : pc[q] # "modified" /\ pc'[q] # "modified"
      /\ ~At("write_log")' /\ ~At("write_head")' /\ ~At("done")'
      /\ At("install")' <=> l = "install"
      /\ At("clear")' <=> l = "clear"
  BY <1>0, CommitterMoves DEF l
<1>e. pin[b] > 0
  <2>1. Pinned
    OBVIOUS
  <2> HIDE DEF IInv
  <2>2. Uninstalled(tail + 1)
    BY <1>a, <1>b, SMTT(60) DEF Uninstalled
  <2> QED BY <1>a, <1>b, <2>1, <2>2 DEF Pinned
<1>2. TypeOK'
  <2>1. home' \in [Block -> Value] /\ cache' \in [Block -> Value \cup {NotCached}]
    BY <1>0, <1>b DEF TypeOK
  <2>2. pin' \in [Block -> Nat]
    <3>1. pin \in [Block -> Nat]
      BY DEF TypeOK
    <3> HIDE DEF IInv
    <3>2. pin[b] \in Nat /\ pin[b] - 1 \in Nat
      BY <1>b, <1>e, <3>1, SMTT(60)
    <3> QED BY <1>0, <1>b, <3>1, <3>2
  <2>3. tail' \in Nat
    BY <1>0, <1>b, SMTT(60)
  <2> QED BY <1>0, <1>1, <2>1, <2>2, <2>3 DEF TypeOK
<1>3. Fits'
  BY <1>0 DEF Fits
<1>4. \A k \in 1..Len(lh) : /\ Uninstalled(k)' <=> (k > tail + 1)
                            /\ Uninstalled(k) <=> (k > tail)
  <2> HIDE DEF IInv
  <2>1. CASE tail + 1 = Len(lh)
    BY <1>0, <1>1, <1>a, <1>b, <2>1, SMTT(60) DEF Uninstalled, l
  <2>2. CASE tail + 1 # Len(lh)
    BY <1>0, <1>1, <1>a, <1>b, <2>2, SMTT(60) DEF Uninstalled, l
  <2> QED BY <2>1, <2>2
<1>5. Pinned'
  <2> SUFFICES ASSUME NEW k \in 1..Len(lh), Uninstalled(k)' PROVE pin'[lh[k]] > 0
    BY <1>0 DEF Pinned
  <2>1. lh[k] # b /\ Uninstalled(k) /\ lh[k] \in Block
    BY <1>4, <1>b, SMTT(60)
  <2> QED BY <1>0, <1>a, <2>1 DEF Pinned, TypeOK
<1>6. Clean'
  <2> SUFFICES ASSUME NEW a \in Block, ~Dirty(a)'
               PROVE  cache'[a] \in {NotCached, home'[a]}
    BY DEF Clean
  <2>1. CASE a = b
    BY <1>0, <1>b, <2>1 DEF TypeOK
  <2>2. CASE a # b
    <3>1. ASSUME NEW k \in 1..Len(lh), lh[k] = a PROVE ~Uninstalled(k)
      <4>1. ~Uninstalled(k)' /\ k # tail + 1
        BY <1>0, <2>2, <3>1 DEF Dirty
      <4> QED BY <1>4, <1>b, <4>1, SMTT(60)
    <3>2. ~Dirty(a)
      BY <1>1, <3>1 DEF Dirty
    <3> QED BY <1>0, <1>a, <2>2, <3>2 DEF Clean, TypeOK
  <2> QED BY <2>1, <2>2
<1>7. \A k \in 1..Len(lh) : lh[k] \in Block
  BY <1>b, SMTT(60)
<1>8. \A k \in 1..Len(lh) : logd'[k] = Contents(lh[k])'
  <2> SUFFICES ASSUME NEW k \in 1..Len(lh) PROVE logd'[k] = Contents(lh[k])'
    OBVIOUS
  <2>1. Contents(lh[k])' = Contents(lh[k])
    BY <1>0, <1>7, <1>d DEF Contents
  <2> QED BY <1>0, <1>a, <2>1 DEF Phases
<1>9. \A k \in 1..tail + 1 : home'[lh'[k]] = logd'[k]
  <2> SUFFICES ASSUME NEW k \in 1..tail + 1 PROVE home'[lh[k]] = logd[k]
    BY <1>0
  <2>1. k \in 1..Len(lh)
    BY <1>b, SMTT(60)
  <2>2. CASE k = tail + 1
    BY <1>0, <1>b, <2>2 DEF TypeOK
  <2>3. CASE k # tail + 1
    <3>1. k \in 1..tail /\ lh[k] # b
      BY <1>b, <2>1, <2>3, SMTT(60)
    <3> QED BY <1>0, <1>7, <1>a, <2>1, <3>1 DEF Phases, TypeOK
  <2> QED BY <2>2, <2>3
<1>10. head' = lh'
  BY <1>0, <1>a DEF Phases
<1>11. Phases'
  <2> HIDE DEF IInv
  <2>0. committing' /\ lh' = lh /\ tail' = tail + 1
    BY <1>0, <1>a
  <2>1. CASE tail + 1 = Len(lh)
    <3>1. At("clear")' /\ ~At("install")'
      BY <1>1, <2>1 DEF l
    <3>2. \A k \in 1..Len(lh') : home'[lh'[k]] = logd'[k]
      BY <1>9, <2>0, <2>1
    <3> QED BY <1>1, <1>10, <2>0, <3>1, <3>2 DEF Phases
  <2>2. CASE tail + 1 # Len(lh)
    <3>1. At("install")' /\ ~At("clear")' /\ tail' < Len(lh')
      BY <1>1, <1>b, <2>0, <2>2, SMTT(60) DEF l
    <3>2. /\ \A k \in 1..Len(lh') : logd'[k] = Contents(lh[k])'
          /\ \A k \in 1..tail' : home'[lh'[k]] = logd'[k]
      BY <1>8, <1>9, <2>0
    <3> QED BY <1>1, <1>10, <2>0, <3>1, <3>2 DEF Phases
  <2> QED BY <2>1, <2>2
<1> QED BY <1>1, <1>2, <1>3, <1>5, <1>6, <1>11

\* commit() erases the header when every block is at home.
LEMMA Clear ==
  ASSUME IInv, NEW p \in Proc, clear(p)
  PROVE  IInv'
<1> USE DEF IInv
<1>0. /\ pc[p] = "clear" /\ pc[p] \in Committing /\ "done" \in Committing
      /\ lh' = <<>> /\ head' = <<>> /\ pc' = [pc EXCEPT ![p] = "done"]
      /\ UNCHANGED <<home, logd, outstanding, committing, cache, pin, held, wrote, tail, boot>>
  BY DEF clear, ClearHead, Committing
<1>a. boot = "up" /\ committing /\ At("clear")
  BY <1>0, CommitterAlone
<1>1. /\ Counted' /\ Alone' /\ HeldOK' /\ Booting' /\ pc' \in [Proc -> Label]
      /\ \A q \in Proc : pc[q] # "modified" /\ pc'[q] # "modified"
      /\ ~At("install")' /\ ~At("clear")' /\ ~At("write_log")' /\ ~At("write_head")'
  BY <1>0, CommitterMoves
<1>2. TypeOK'
  <2>1. lh' \in Seq(Block) /\ head' \in Seq(Block)
    BY <1>0, SMTT(60)
  <2> QED BY <1>0, <1>1, <2>1 DEF TypeOK
<1>3. Fits' /\ Pinned'
  BY <1>0, SizeAssumption, SMTT(60) DEF Fits, Distinct, Pinned
<1>4. \A b \in Block : ~Dirty(b)
  BY <1>1, <1>a DEF Dirty, Uninstalled
<1>5. Clean'
  BY <1>0, <1>4, <1>a DEF Clean
<1>6. Phases'
  BY <1>0, <1>1 DEF Phases
<1> QED BY <1>1, <1>2, <1>3, <1>5, <1>6

\* The end of end_op leaves an empty log behind.
LEMMA CommitDone ==
  ASSUME IInv, NEW p \in Proc, commit_done(p)
  PROVE  IInv'
<1> USE DEF IInv
<1>0. /\ pc[p] = "done" /\ pc[p] \in Committing /\ committing' = FALSE
      /\ pc' = Wakeup([pc EXCEPT ![p] = "idle"])
      /\ UNCHANGED <<home, logd, head, lh, outstanding, cache, pin, held, wrote, tail, boot>>
  BY DEF commit_done, Committing, disk
<1>a. /\ boot = "up" /\ committing /\ At("done") /\ outstanding = 0 /\ InOp = {}
      /\ ~At("install") /\ ~At("clear")
      /\ \A q \in Proc : q # p => pc[q] \in {"idle", "sleep", "woken"}
  BY <1>0, CommitterAlone
<1>b. lh = <<>> /\ head = <<>>
  BY <1>a DEF Phases
<1>1. /\ pc' \in [Proc -> Label]
      /\ \A q \in Proc : pc'[q] \in {"idle", "woken"}
  BY <1>0, <1>a DEF TypeOK, Wakeup, Label
<1>2. TypeOK'
  <2>1. committing' \in BOOLEAN
    BY <1>0
  <2> QED BY <1>0, <1>1, <2>1 DEF TypeOK
<1>3. Fits'
  BY <1>0 DEF Fits
<1>4. Counted'
  <2>1. InOp' = {}
    BY <1>1 DEF InOp
  <2> QED BY <1>0, <1>a, <2>1 DEF Counted
<1>5. Alone' /\ HeldOK' /\ Booting'
  BY <1>0, <1>1, <1>a DEF Alone, HeldOK, Booting, Committing
<1>6. Pinned'
  BY <1>0, <1>b, SMTT(60) DEF Pinned
<1>7. \A b \in Block : ~Dirty(b)
  <2>1. \A q \in Proc : pc[q] # "modified"
    BY <1>0, <1>a
  <2>2. 1..Len(lh) = {}
    BY <1>b, SMTT(60)
  <2> QED BY <2>1, <2>2 DEF Dirty
<1>8. Clean'
  BY <1>0, <1>7, <1>a DEF Clean
<1>9. ~At("write_log")' /\ ~At("write_head")' /\ ~At("install")' /\ ~At("clear")' /\ ~At("done")'
  BY <1>1 DEF At
<1>10. Phases'
  BY <1>0, <1>9, <1>b DEF Phases
<1> QED BY <1>2, <1>3, <1>4, <1>5, <1>6, <1>8, <1>10

-----------------------------------------------------------------------------
(* The buffer cache, the crash and the recovery.                           *)

\* A buffer that bget may recycle holds what is at the home location.
LEMMA RecycleReads ==
  ASSUME IInv, NEW b \in Block, recycle(b)
  PROVE  /\ cache[b] = home[b]
         /\ \A a \in Block : Contents(a)' = Contents(a)
<1> USE DEF IInv
<1>0. /\ cache[b] # NotCached /\ pin[b] = 0 /\ (\A p \in Proc : held[p] # b)
      /\ cache' = [cache EXCEPT ![b] = NotCached] /\ home' = home
  BY DEF recycle, disk
<1>1. CASE boot = "up"
  <2>1. ~Dirty(b)
    BY <1>0, <1>1, SMTT(60) DEF Dirty, Pinned
  <2> QED BY <1>0, <1>1, <2>1 DEF Clean, Contents, TypeOK
<1>2. CASE boot # "up"
  BY <1>0, <1>2 DEF Booting, Contents, TypeOK
<1> QED BY <1>1, <1>2

\* Recycling a buffer loses nothing.
LEMMA Recycle ==
  ASSUME IInv, NEW b \in Block, recycle(b)
  PROVE  IInv'
<1> USE DEF IInv
<1>0. /\ cache' = [cache EXCEPT ![b] = NotCached]
      /\ UNCHANGED <<home, logd, head, lh, outstanding, committing, pin, held, wrote, pc, tail, boot>>
  BY DEF recycle, disk
<1>1. \A a \in Block : Contents(a)' = Contents(a)
  BY RecycleReads
<1>2. TypeOK'
  <2>1. cache' \in [Block -> Value \cup {NotCached}]
    BY <1>0 DEF TypeOK
  <2> QED BY <1>0, <2>1 DEF TypeOK
<1>3. Fits' /\ Counted' /\ Alone' /\ HeldOK'
  BY <1>0 DEF Fits, Counted, InOp, Alone, HeldOK
<1>4. Pinned'
  BY <1>0 DEF Pinned, Uninstalled, At
<1>5. Clean'
  BY <1>0 DEF Clean, Dirty, Uninstalled, At, TypeOK
<1>6. Booting'
  BY <1>0 DEF Booting, TypeOK
<1>7. \A k \in 1..Len(lh) : Contents(lh[k])' = Contents(lh[k])
  <2> SUFFICES ASSUME NEW k \in 1..Len(lh) PROVE Contents(lh[k])' = Contents(lh[k])
    OBVIOUS
  <2>1. lh[k] \in Block
    BY SMTT(60) DEF TypeOK
  <2> QED BY <1>0, <1>1, <2>1 DEF Contents
<1>8. tail \in Nat /\ Len(lh) \in Nat
  BY SMTT(60) DEF TypeOK
<1>9. Phases'
  <2> SUFFICES ASSUME boot = "up" PROVE Phases'
    BY <1>0 DEF Phases
  <2>1. At("write_log")' => \A k \in 1..tail : logd'[k] = Contents(lh[k])'
    <3> SUFFICES ASSUME At("write_log"), NEW k \in 1..tail PROVE logd'[k] = Contents(lh[k])'
      BY <1>0 DEF At
    <3>1. k \in 1..Len(lh)
      BY <1>8, SMTT(60) DEF Phases
    <3> QED BY <1>0, <1>7, <3>1 DEF Phases
  <2>2. At("write_head")' \/ At("install")' => \A k \in 1..Len(lh) : logd'[k] = Contents(lh[k])'
    BY <1>0, <1>7 DEF Phases, At
  <2> HIDE DEF At
  <2>3. /\ At("write_log")' <=> At("write_log")
        /\ At("write_head")' <=> At("write_head")
        /\ At("install")' <=> At("install")
        /\ At("clear")' <=> At("clear")
        /\ At("done")' <=> At("done")
    BY <1>0 DEF At
  <2> QED BY <1>0, <2>1, <2>2, <2>3 DEF Phases
<1> QED BY <1>2, <1>3, <1>4, <1>5, <1>6, <1>9

\* read_head finds the entries of the last commit, if not erased.
LEMMA ReadHead ==
  ASSUME IInv, read_head
  PROVE  IInv'
<1> USE DEF IInv
<1>0. /\ boot = "read_head" /\ lh' = head /\ tail' = 0
      /\ boot' = IF head = <<>> THEN "clear" ELSE "install"
      /\ UNCHANGED <<home, logd, head, outstanding, committing, cache, pin, held, wrote, pc>>
  BY DEF read_head, disk
<1>1. TypeOK'
  BY <1>0 DEF TypeOK
<1>2. Fits' /\ Counted' /\ Alone' /\ HeldOK'
  BY <1>0 DEF Fits, Counted, InOp, Alone, HeldOK
<1>3. Pinned' /\ Clean' /\ Phases'
  BY <1>0 DEF Pinned, Clean, Phases
<1>4. Booting'
  <2>1. head # <<>> => 0 < Len(head)
    BY SMTT(60) DEF TypeOK
  <2>2. head = <<>> => 1..Len(head) = {}
    BY SMTT(60)
  <2>3. /\ \A p \in Proc : pc'[p] = "idle"
        /\ outstanding' = 0 /\ ~committing' /\ lh' = head'
        /\ \A b \in Block : cache'[b] \in {NotCached, home'[b]}
    BY <1>0 DEF Booting
  <2>4. CASE head = <<>>
    <3>1. boot' = "clear" /\ 1..Len(lh') = {}
      BY <1>0, <2>2, <2>4
    <3> QED BY <2>3, <3>1 DEF Booting
  <2>5. CASE head # <<>>
    <3>1. boot' = "install" /\ tail' < Len(lh') /\ 1..tail' = {}
      BY <1>0, <2>1, <2>5, SMTT(60)
    <3> QED BY <2>3, <3>1 DEF Booting
  <2> QED BY <2>4, <2>5
<1> QED BY <1>1, <1>2, <1>3, <1>4

\* recover_from_log installs one more block.
LEMMA RecoverInstall ==
  ASSUME IInv, recover_install
  PROVE  IInv'
<1> DEFINE b == lh[tail + 1]
<1> USE DEF IInv
<1>0. /\ boot = "install"
      /\ home' = [home EXCEPT ![b] = logd[tail + 1]]
      /\ cache' = [cache EXCEPT ![b] = logd[tail + 1]]
      /\ tail' = tail + 1
      /\ boot' = IF tail + 1 = Len(lh) THEN "clear" ELSE boot
      /\ UNCHANGED <<logd, head, lh, outstanding, committing, pin, held, wrote, pc>>
  BY DEF recover_install, InstallBlock
<1>1. /\ tail \in Nat /\ Len(lh) \in Nat /\ lh \in Seq(Block) /\ tail < Len(lh)
      /\ Len(lh) <= LOGBLOCKS
      /\ lh = head /\ \A k \in 1..tail : home[lh[k]] = logd[k]
  <2>1. tail \in Nat /\ lh \in Seq(Block) /\ Len(lh) \in Nat
    BY SMTT(60) DEF TypeOK
  <2>2. Len(lh) <= LOGBLOCKS
    BY DEF Fits
  <2>3. tail < Len(lh) /\ lh = head /\ \A k \in 1..tail : home[lh[k]] = logd[k]
    BY <1>0 DEF Booting
  <2> QED BY <2>1, <2>2, <2>3
<1>2. tail + 1 \in 1..Len(lh) /\ tail + 1 \in 1..LOGBLOCKS
  BY <1>1, SizeAssumption, SMTT(60)
<1>3. b \in Block /\ logd[tail + 1] \in Value
  BY <1>1, <1>2, SMTT(60) DEF TypeOK
<1>4. TypeOK'
  <2>1. home' \in [Block -> Value] /\ cache' \in [Block -> Value \cup {NotCached}]
    BY <1>0, <1>3 DEF TypeOK
  <2>2. tail' \in Nat /\ boot' \in {"read_head", "install", "clear", "up"}
    BY <1>0, <1>1, SMTT(60)
  <2> QED BY <1>0, <2>1, <2>2 DEF TypeOK
<1>5. Fits' /\ Counted' /\ Alone' /\ HeldOK'
  BY <1>0 DEF Fits, Counted, InOp, Alone, HeldOK
<1>6. Pinned' /\ Clean' /\ Phases'
  BY <1>0 DEF Pinned, Clean, Phases
<1>7. \A k \in 1..tail + 1 : home'[lh[k]] = logd[k]
  <2> SUFFICES ASSUME NEW k \in 1..tail + 1 PROVE home'[lh[k]] = logd[k]
    OBVIOUS
  <2>1. k \in 1..Len(lh)
    BY <1>1, SMTT(60)
  <2>2. lh[k] \in Block
    BY <1>1, <2>1, SMTT(60)
  <2>3. CASE k = tail + 1
    BY <1>0, <1>3, <2>3 DEF TypeOK
  <2>4. CASE k # tail + 1
    <3>1. k \in 1..tail /\ lh[k] # b
      BY <1>1, <1>2, <2>1, <2>4, SMTT(60) DEF Fits, Distinct
    <3> QED BY <1>0, <1>1, <2>2, <3>1 DEF TypeOK
  <2> QED BY <2>3, <2>4
<1>8. \A a \in Block : cache'[a] \in {NotCached, home'[a]}
  BY <1>0, <1>3 DEF Booting, TypeOK
<1>9. Booting'
  <2>0. (\A p \in Proc : pc'[p] = "idle") /\ outstanding' = 0 /\ ~committing'
    BY <1>0 DEF Booting
  <2> HIDE DEF IInv
  <2>1. lh' = lh /\ lh' = head' /\ tail' = tail + 1 /\ boot' # "read_head"
    BY <1>0, <1>1
  <2>2. boot' = "install" => tail' < Len(lh')
    BY <1>0, <1>1, <2>1, SMTT(60)
  <2>3. \A k \in 1..tail' : home'[lh'[k]] = logd'[k]
    BY <1>0, <1>7, <2>1
  <2>4. boot' = "clear" => \A k \in 1..Len(lh') : home'[lh'[k]] = logd'[k]
    BY <1>0, <1>1, <2>1, <2>3
  <2> QED BY <1>8, <2>0, <2>1, <2>2, <2>3, <2>4 DEF Booting
<1> QED BY <1>4, <1>5, <1>6, <1>9

\* recover_from_log ends with an empty log and clean buffers.
LEMMA RecoverClear ==
  ASSUME IInv, recover_clear
  PROVE  IInv'
<1> USE DEF IInv
<1>0. /\ boot = "clear" /\ lh' = <<>> /\ head' = <<>> /\ boot' = "up"
      /\ UNCHANGED <<home, logd, outstanding, committing, cache, pin, held, wrote, pc, tail>>
  BY DEF recover_clear, ClearHead
<1>1. TypeOK'
  <2>1. <<>> \in Seq(Block)
    BY SMTT(60)
  <2>2. lh' \in Seq(Block) /\ head' \in Seq(Block)
    BY <1>0, <2>1
  <2> QED BY <1>0, <2>2 DEF TypeOK
<1>2. Counted' /\ Alone' /\ HeldOK' /\ Booting'
  BY <1>0 DEF Counted, InOp, Alone, HeldOK, Booting
<1>6. Fits' /\ Pinned'
  BY <1>0, SizeAssumption, SMTT(60) DEF Fits, Distinct, Pinned
<1>3. Clean'
  BY <1>0 DEF Clean, Booting
<1>4. ~At("write_log")' /\ ~At("write_head")' /\ ~At("install")' /\ ~At("clear")' /\ ~At("done")'
  BY <1>0 DEF At, Booting
<1>5. Phases'
  BY <1>0, <1>4 DEF Phases
<1> QED BY <1>1, <1>2, <1>3, <1>5, <1>6

\* A torn write damages only the block under the disk head.
LEMMA TornWriteTypes ==
  ASSUME IInv, NEW v \in Value, TornWrite(v)
  PROVE  home' \in [Block -> Value] /\ logd' \in [1..LOGBLOCKS -> Value]
<1> USE DEF IInv
<1>1. home \in [Block -> Value] /\ logd \in [1..LOGBLOCKS -> Value]
  BY DEF TypeOK
<1> QED BY <1>1 DEF TornWrite

\* A crash leaves only the disk, and the disk is as recovery needs it.
LEMMA Crash ==
  ASSUME IInv, crash
  PROVE  IInv'
<1> USE DEF IInv
<1>0. /\ \E v \in Value : TornWrite(v)
      /\ head' = head /\ lh' = <<>> /\ outstanding' = 0 /\ committing' = FALSE
      /\ cache' = [b \in Block |-> NotCached] /\ pin' = [b \in Block |-> 0]
      /\ held' = [p \in Proc |-> NoBlock] /\ wrote' = [p \in Proc |-> {}]
      /\ pc' = [p \in Proc |-> "idle"] /\ tail' = 0 /\ boot' = "read_head"
  BY DEF crash
<1>1. TypeOK'
  <2>1. home' \in [Block -> Value] /\ logd' \in [1..LOGBLOCKS -> Value]
    BY <1>0, TornWriteTypes
  <2>2. lh' \in Seq(Block) /\ head' \in Seq(Block)
    BY <1>0, SMTT(60) DEF TypeOK
  <2>6. committing' \in BOOLEAN
    BY <1>0
  <2>3. pc' \in [Proc -> Label] /\ wrote' \in [Proc -> SUBSET Block]
    BY <1>0 DEF Label
  <2>4. /\ cache' \in [Block -> Value \cup {NotCached}] /\ pin' \in [Block -> Nat]
        /\ held' \in [Proc -> Block \cup {NoBlock}]
    BY <1>0
  <2>5. outstanding' \in Nat /\ tail' \in Nat /\ boot' \in {"read_head", "install", "clear", "up"}
    BY <1>0
  <2> QED BY <2>1, <2>2, <2>3, <2>4, <2>5, <2>6 DEF TypeOK
<1>2. Counted'
  <2>1. InOp' = {} BY <1>0 DEF InOp
  <2> QED BY <1>0, <2>1, FS_EmptySet DEF Counted
<1>3. Fits'
  BY <1>0, SizeAssumption, SMTT(60) DEF Fits, Distinct, IInv
<1>5. Alone' /\ HeldOK'
  BY <1>0 DEF Alone, Committing, HeldOK
<1>4. Pinned' /\ Clean' /\ Phases' /\ Booting'
  BY <1>0 DEF Pinned, Clean, Phases, Booting
<1> QED BY <1>1, <1>2, <1>3, <1>4, <1>5

-----------------------------------------------------------------------------
(* The theorems on safety.                                                 *)

\* Every step of the logging layer keeps the invariant.
LEMMA NextIInv == IInv /\ [Next]_vars => IInv'
<1> SUFFICES ASSUME IInv, [Next]_vars PROVE IInv'
  OBVIOUS
<1>1. ASSUME NEW p \in Proc, begin_op(p) PROVE IInv'
  BY <1>1, BeginOp
<1>2. ASSUME NEW p \in Proc, log_write(p) PROVE IInv'
  BY <1>2, LogWrite
<1>3. ASSUME NEW p \in Proc, brelse(p) PROVE IInv'
  BY <1>3, Brelse
<1>4. ASSUME NEW p \in Proc, end_op(p) PROVE IInv'
  BY <1>4, EndOp
<1>5. ASSUME NEW p \in Proc, commit(p) PROVE IInv'
  BY <1>5, WriteLog, WriteHead, InstallTrans, Clear, CommitDone DEF commit
<1>6. ASSUME NEW p \in Proc, NEW b \in Block, NEW v \in Value, update(p, b, v) PROVE IInv'
  BY <1>6, Update
<1>7. ASSUME NEW b \in Block, recycle(b) PROVE IInv'
  BY <1>7, Recycle
<1>8. ASSUME recover_from_log PROVE IInv'
  BY <1>8, ReadHead, RecoverInstall, RecoverClear DEF recover_from_log
<1>9. ASSUME crash PROVE IInv'
  BY <1>9, Crash
<1>10. ASSUME UNCHANGED vars PROVE IInv'
  BY <1>10 DEF vars, IInv, TypeOK, Fits, Counted, InOp, Alone, HeldOK, Pinned, Clean,
               Phases, Booting, Dirty, Uninstalled, At, Contents
<1> QED BY <1>1, <1>2, <1>3, <1>4, <1>5, <1>6, <1>7, <1>8, <1>9, <1>10 DEF Next

\* The invariant of the logging layer holds in every reachable state, crashes
\* and recoveries included.
THEOREM Invariance == Spec => []IInv
BY InitIInv, NextIInv, PTL DEF Spec

\* The variables of log.c keep their types: in particular bunpin never takes a
\* pin count below zero and end_op never takes log.outstanding below zero.
THEOREM TypeCorrect == Spec => []TypeOK
<1>1. IInv => TypeOK
  BY DEF IInv
<1> QED BY <1>1, Invariance, PTL

\* No process is inside a transaction while the log commits and no two
\* processes run commit() at a time, however many there are.
THEOREM CommitIsAlone == Spec => []CommitAlone
<1>1. IInv => CommitAlone
  <2> SUFFICES ASSUME IInv, committing PROVE InOp = {}
    BY DEF IInv, Alone, CommitAlone
  <2>1. PICK p \in Proc : pc[p] \in Committing
    BY DEF IInv, Alone
  <2> QED BY <2>1, CommitterAlone
<1> QED BY <1>1, Invariance, PTL

\* When no call and no commit is under way, everything written is at its home
\* location and the log is empty.
THEOREM QuietIsDurable == Spec => []DurableWhenQuiet
<1>1. IInv => DurableWhenQuiet
  <2> SUFFICES ASSUME IInv, boot = "up", outstanding = 0, ~committing
               PROVE  /\ \A b \in Block : Contents(b) = home[b]
                      /\ head = <<>> /\ lh = <<>>
    BY DEF DurableWhenQuiet
  <2>1. InOp = {}
    BY InOpFinite, FS_EmptySet DEF IInv, Counted
  <2>2. ~At("install") /\ ~At("clear")
    BY DEF At, IInv, Alone, Committing
  <2>3. head = <<>> /\ lh = <<>>
    BY <2>2 DEF IInv, Phases
  <2>4. 1..Len(lh) = {}
    BY <2>3, SMTT(60)
  <2>5. \A b \in Block : ~Dirty(b)
    BY <2>1, <2>4 DEF Dirty, InOp
  <2> QED BY <2>3, <2>5 DEF IInv, Clean, Contents
<1> QED BY <1>1, Invariance, PTL

\* A process goes to sleep in begin_op only while somebody is there who will
\* wake it: with nobody in a transaction and no commit the log is empty, and
\* an empty log has room for a call.
LEMMA SleeperHasWakerStep == IInv /\ SleeperHasWaker /\ [Next]_vars => SleeperHasWaker'
<1> SUFFICES ASSUME IInv, SleeperHasWaker, [Next]_vars,
                    NEW s \in Proc, pc'[s] = "sleep"
             PROVE  outstanding' > 0 \/ committing'
  BY DEF SleeperHasWaker
<1> USE DEF SleeperHasWaker
<1>0. outstanding \in Nat /\ pc \in [Proc -> Label]
  BY DEF IInv, TypeOK
<1>1. ASSUME NEW p \in Proc, begin_op(p) PROVE outstanding' > 0 \/ committing'
  <2>1. CASE MustWait
    <3>1. CASE outstanding = 0 /\ ~committing
      <4>1. boot = "up" /\ lh = <<>>
        BY <1>1, <3>1 DEF begin_op, IInv, Phases
      <4>2. Len(lh) + (outstanding + 1) * MAXOPBLOCKS = MAXOPBLOCKS
        BY <3>1, <4>1, SizeAssumption, SMTT(60)
      <4> QED BY <2>1, <3>1, <4>2, SizeAssumption, SMTT(60) DEF MustWait
    <3>2. CASE outstanding > 0 \/ committing
      BY <1>1, <2>1, <3>2 DEF begin_op
    <3> QED BY <1>0, <3>1, <3>2, SMTT(60)
  <2>2. CASE ~MustWait
    BY <1>0, <1>1, <2>2, SMTT(60) DEF begin_op
  <2> QED BY <2>1, <2>2
<1>2. ASSUME NEW p \in Proc, end_op(p) PROVE outstanding' > 0 \/ committing'
  <2>1. outstanding > 0
    BY <1>2, InOpCounted DEF end_op, InOp
  <2>2. CASE outstanding = 1
    BY <1>2, <2>2 DEF end_op
  <2>3. CASE outstanding # 1
    BY <1>0, <1>2, <2>1, <2>3, SMTT(60) DEF end_op
  <2> QED BY <2>2, <2>3
<1>3. ASSUME NEW p \in Proc, commit_done(p) PROVE FALSE
  BY <1>0, <1>3 DEF commit_done, Wakeup
<1>4. ASSUME crash PROVE FALSE
  BY <1>4 DEF crash
<1>5. ASSUME UNCHANGED <<outstanding, committing>>, pc[s] = "sleep"
      PROVE  outstanding' > 0 \/ committing'
  BY <1>5
<1>6. ASSUME NEW p \in Proc,
             log_write(p) \/ brelse(p) \/ write_log(p) \/ write_head(p) \/ install_trans(p) \/ clear(p)
      PROVE  outstanding' > 0 \/ committing'
  BY <1>0, <1>5, <1>6 DEF log_write, brelse, write_log, write_head, install_trans, clear
<1>7. ASSUME NEW p \in Proc, NEW b \in Block, NEW v \in Value, update(p, b, v)
      PROVE  outstanding' > 0 \/ committing'
  BY <1>0, <1>5, <1>7 DEF update
<1>8. ASSUME NEW b \in Block, recycle(b) PROVE outstanding' > 0 \/ committing'
  BY <1>5, <1>8 DEF recycle
<1>9. ASSUME recover_from_log PROVE outstanding' > 0 \/ committing'
  BY <1>5, <1>9 DEF recover_from_log, read_head, recover_install, recover_clear
<1>10. ASSUME UNCHANGED vars PROVE outstanding' > 0 \/ committing'
  BY <1>5, <1>10 DEF vars
<1> QED BY <1>1, <1>2, <1>3, <1>4, <1>6, <1>7, <1>8, <1>9, <1>10 DEF Next, commit

\* No wakeup(&log) is lost, for any number of processes and any log size.
THEOREM NoLostWakeup == Spec => []SleeperHasWaker
<1>1. Init => SleeperHasWaker
  BY DEF Init, SleeperHasWaker
<1> QED BY <1>1, Invariance, SleeperHasWakerStep, PTL DEF Spec

-----------------------------------------------------------------------------
(* The reservation of begin_op.                                            *)

\* What is left of the reservations: slot k of call p, for every k beyond the
\* blocks that p has written.
Unused(S, w) == {x \in S \X (1..MAXOPBLOCKS) : x[2] > Cardinality(w[x[1]])}
Reserve == Unused(InOp, wrote)

\* Log and reservations fit, every block a call has written is in the log, and a
\* call keeps to its budget.
Room ==
  /\ \A p \in Proc : /\ IsFiniteSet(wrote[p])
                     /\ p \notin InOp => wrote[p] = {}
                     /\ \A b \in wrote[p] : Logged(b)
                     /\ pc[p] = "modified" => Cardinality(wrote[p] \cup {held[p]}) <= OpBudget
  /\ InOp # {} => Len(lh) + Cardinality(Reserve) <= LOGBLOCKS

\* The reservations are finitely many, and never more than begin_op counts.
LEMMA UnusedBound ==
  ASSUME NEW S, IsFiniteSet(S), NEW w
  PROVE  /\ IsFiniteSet(Unused(S, w)) /\ Cardinality(Unused(S, w)) \in Nat
         /\ Cardinality(Unused(S, w)) <= Cardinality(S) * MAXOPBLOCKS
<1>1. IsFiniteSet(1..MAXOPBLOCKS) /\ Cardinality(1..MAXOPBLOCKS) = MAXOPBLOCKS
  BY SizeAssumption, FS_Interval, SMTT(60)
<1>2. /\ IsFiniteSet(S \X (1..MAXOPBLOCKS))
      /\ Cardinality(S \X (1..MAXOPBLOCKS)) = Cardinality(S) * MAXOPBLOCKS
  BY <1>1, FS_Product
<1>3. Unused(S, w) \in SUBSET (S \X (1..MAXOPBLOCKS))
  BY DEF Unused
<1>4. IsFiniteSet(Unused(S, w)) /\ Cardinality(Unused(S, w)) <= Cardinality(S) * MAXOPBLOCKS
  BY <1>2, <1>3, FS_Subset
<1> QED
  BY <1>4, FS_CardinalityType

\* The same before and after a step.
LEMMA ReserveBound ==
  ASSUME IInv, IInv'
  PROVE  /\ IsFiniteSet(Reserve) /\ Cardinality(Reserve) \in Nat
         /\ IsFiniteSet(Reserve') /\ Cardinality(Reserve') \in Nat
         /\ Cardinality(Reserve') <= outstanding' * MAXOPBLOCKS
<1>1. IsFiniteSet(InOp) /\ IsFiniteSet(InOp') /\ Cardinality(InOp') = outstanding'
  BY ProcAssumption, FS_Subset DEF InOp, IInv, Counted
<1> QED
  BY <1>1, UnusedBound DEF Reserve

\* A step that gives up reservations and adds nothing to the log.
LEMMA ReserveShrinks ==
  ASSUME IInv, IInv', Room, Reserve' \subseteq Reserve, InOp' # {} => InOp # {}, lh' = lh
  PROVE  InOp' # {} => Len(lh') + Cardinality(Reserve') <= LOGBLOCKS
<1>1. Cardinality(Reserve') <= Cardinality(Reserve)
  BY ReserveBound, FS_Subset
<1>2. Len(lh) \in Nat
  BY SMTT(60) DEF IInv, TypeOK
<1> QED
  BY <1>1, <1>2, ReserveBound, SizeAssumption, SMTT(60) DEF Room

\* begin_op tests that the log has room for its own reservation and the others.
LEMMA BeginOpRoom ==
  ASSUME IInv, IInv', Room, NEW p \in Proc, begin_op(p)
  PROVE  Room'
<1>1. UNCHANGED <<lh, held, wrote>>
  BY DEF begin_op
<1>2. \A q \in Proc : (pc'[q] = "modified" => pc[q] = "modified") /\ (q \in InOp => q \in InOp')
  BY DEF begin_op, InOp, IInv, TypeOK
<1>3. CASE MustWait
  <2>1. InOp' = InOp
    BY <1>3 DEF begin_op, InOp, IInv, TypeOK
  <2> QED
    BY <1>1, <1>2, <2>1 DEF Room, Reserve, Logged
<1>4. CASE ~MustWait
  <2>1. outstanding' = outstanding + 1 /\ Len(lh) + (outstanding + 1) * MAXOPBLOCKS <= LOGBLOCKS
    <3>1. Len(lh) + (outstanding + 1) * MAXOPBLOCKS \in Nat
      <4>1. Len(lh) \in Nat /\ outstanding + 1 \in Nat
        BY SMTT(60) DEF IInv, TypeOK
      <4> QED
        BY <4>1, SizeAssumption, SMTT(60)
    <3> QED
      BY <1>4, <3>1, SizeAssumption, SMTT(60) DEF begin_op, MustWait
  <2>2. Cardinality(Reserve') \in Nat /\ Cardinality(Reserve') <= outstanding' * MAXOPBLOCKS
    BY ReserveBound
  <2>3. Len(lh') + Cardinality(Reserve') <= LOGBLOCKS
    <3>1. Len(lh) \in Nat /\ (outstanding + 1) * MAXOPBLOCKS \in Nat
      BY SizeAssumption, SMTT(60) DEF IInv, TypeOK
    <3> QED
      BY <1>1, <2>1, <2>2, <3>1, SizeAssumption, SMTT(60)
  <2> QED
    BY <1>1, <1>2, <2>3 DEF Room, Logged
<1> QED
  BY <1>3, <1>4

\* A block that is new in the log was reserved by the call that adds it, and the
\* call has one reservation less then; a block that is in the log already costs
\* nothing.
LEMMA LogWriteRoom ==
  ASSUME OpBudget <= MAXOPBLOCKS, IInv, IInv', Room, NEW p \in Proc, log_write(p)
  PROVE  Room'
<1> DEFINE b == held[p]
           n == Cardinality(wrote[p])
<1>1. /\ p \in InOp /\ pc[p] = "modified" /\ b \in Block
      /\ pc' = [pc EXCEPT ![p] = "logged"]
      /\ wrote' = [wrote EXCEPT ![p] = @ \cup {b}]
      /\ \/ Logged(b) /\ lh' = lh
         \/ ~Logged(b) /\ lh' = Append(lh, b)
      /\ held' = held
  BY DEF InOp, log_write, IInv, HeldOK
<1>2. IsFiniteSet(wrote[p]) /\ Cardinality(wrote[p] \cup {b}) <= OpBudget
  BY <1>1 DEF Room
<1>3. /\ IsFiniteSet(wrote[p] \cup {b}) /\ n \in Nat
      /\ Cardinality(wrote[p] \cup {b}) = IF b \in wrote[p] THEN n ELSE n + 1
  BY <1>2, FS_AddElement, FS_CardinalityType
<1>4. InOp' = InOp /\ InOp # {}
  BY <1>1 DEF InOp, IInv, TypeOK
<1>5. wrote'[p] = wrote[p] \cup {b} /\ \A q \in Proc : q # p => wrote'[q] = wrote[q]
  BY <1>1 DEF IInv, TypeOK
<1> HIDE DEF b, n
<1>6. Cardinality(wrote'[p]) >= n
  BY <1>3, <1>5, SMTT(60)
<1>7. Reserve' \subseteq Reserve
  <2> SUFFICES ASSUME NEW q \in InOp, NEW k \in 1..MAXOPBLOCKS, k > Cardinality(wrote'[q])
               PROVE  k > Cardinality(wrote[q])
    BY <1>4 DEF Reserve, Unused
  <2>1. CASE q = p
    <3>1. Cardinality(wrote'[p]) \in Nat /\ k \in Nat
      BY <1>3, <1>5, SMTT(60)
    <3> QED
      BY <1>3, <1>6, <2>1, <3>1, SMTT(60) DEF n
  <2>2. CASE q # p
    BY <1>5, <2>2 DEF InOp
  <2> QED
    BY <2>1, <2>2
<1>8. /\ \E k \in 1..Len(lh') : lh'[k] = b
      /\ \A a \in Block : Logged(a) => \E k \in 1..Len(lh') : lh'[k] = a
  <2>1. lh \in Seq(Block)
    BY DEF IInv, TypeOK
  <2>2. CASE Logged(b) /\ lh' = lh
    BY <2>2 DEF Logged
  <2>3. CASE lh' = Append(lh, b)
    <3>1. Len(lh') = Len(lh) + 1 /\ lh'[Len(lh) + 1] = b /\ \A k \in 1..Len(lh) : lh'[k] = lh[k]
      BY <1>1, <2>1, <2>3, SMTT(60) DEF b
    <3>2. Len(lh) + 1 \in 1..Len(lh') /\ 1..Len(lh) \subseteq 1..Len(lh')
      BY <2>1, <3>1, SMTT(60)
    <3> QED
      BY <3>1, <3>2 DEF Logged
  <2> QED
    BY <1>1, <2>2, <2>3
<1>9. Len(lh') + Cardinality(Reserve') <= LOGBLOCKS
  <2>1. CASE lh' = lh
    BY <1>4, <1>7, <2>1, ReserveShrinks
  <2>2. CASE ~Logged(b) /\ lh' = Append(lh, b)
    <3>0. b \notin wrote[p]
      BY <2>2 DEF Room
    <3>1. b \notin wrote[p] /\ n + 1 <= MAXOPBLOCKS
      BY <1>2, <1>3, <3>0, SizeAssumption, SMTT(60)
    <3>2. /\ <<p, n + 1>> \in Reserve
      BY <1>1, <1>3, <3>1, SizeAssumption, SMTT(60) DEF Reserve, Unused, n
    <3>3. <<p, n + 1>> \notin Reserve'
      <4>1. Cardinality(wrote'[p]) = n + 1
        BY <1>3, <1>5, <3>1
      <4> QED
        BY <1>3, <4>1, SMTT(60) DEF Reserve, Unused
    <3>4. Reserve' \in SUBSET (Reserve \ {<<p, n + 1>>})
      BY <1>7, <3>3
    <3>5. IsFiniteSet(Reserve) /\ Cardinality(Reserve) \in Nat /\ Cardinality(Reserve') \in Nat
      BY ReserveBound
    <3>6. /\ IsFiniteSet(Reserve \ {<<p, n + 1>>})
          /\ Cardinality(Reserve \ {<<p, n + 1>>}) = Cardinality(Reserve) - 1
      BY <3>2, <3>5, FS_RemoveElement
    <3>7. Cardinality(Reserve') <= Cardinality(Reserve) - 1
      BY <3>4, <3>6, FS_Subset, SMTT(60)
    <3>8. Len(lh') = Len(lh) + 1 /\ Len(lh) \in Nat
      <4>1. lh \in Seq(Block) /\ b \in Block
        BY <1>1 DEF IInv, TypeOK
      <4> QED
        BY <2>2, <4>1, SMTT(60)
    <3>9. Len(lh) + Cardinality(Reserve) <= LOGBLOCKS
      BY <1>4 DEF Room
    <3> QED
      BY <3>5, <3>7, <3>8, <3>9, SizeAssumption, SMTT(60)
  <2> QED
    BY <1>1, <2>1, <2>2
<1>10. ASSUME NEW q \in Proc
       PROVE  /\ IsFiniteSet(wrote'[q])
              /\ q \notin InOp' => wrote'[q] = {}
              /\ \A a \in wrote'[q] : Logged(a)'
              /\ pc'[q] = "modified" => Cardinality(wrote'[q] \cup {held'[q]}) <= OpBudget
  <2>1. wrote[q] \subseteq Block
    BY DEF IInv, TypeOK
  <2>2. CASE q = p
    <3>1. pc'[p] # "modified"
      BY <1>1 DEF IInv, TypeOK
    <3>2. \A a \in wrote'[p] : Logged(a)'
      BY <1>5, <1>8, <2>1, <2>2 DEF Room, Logged
    <3> QED
      BY <1>1, <1>3, <1>4, <1>5, <2>2, <3>1, <3>2
  <2>3. CASE q # p
    <3>1. pc'[q] = pc[q]
      BY <1>1, <2>3 DEF IInv, TypeOK
    <3> QED
      BY <1>1, <1>4, <1>5, <1>8, <2>1, <2>3, <3>1 DEF Room, Logged
  <2> QED
    BY <2>2, <2>3
<1> QED
  BY <1>9, <1>10 DEF Room

\* A call that ends gives its reservation back.
LEMMA EndOpRoom ==
  ASSUME IInv, IInv', Room, NEW p \in Proc, end_op(p)
  PROVE  Room'
<1>1. InOp' = InOp \ {p} /\ lh' = lh /\ held' = held /\ p \in InOp
  BY DEF end_op, InOp, Wakeup, IInv, TypeOK
<1>2. wrote'[p] = {} /\ \A q \in Proc : q # p => wrote'[q] = wrote[q]
  BY DEF end_op, IInv, TypeOK
<1>3. \A q \in Proc : pc'[q] = "modified" => pc[q] = "modified" /\ q # p
  BY DEF end_op, Wakeup, IInv, TypeOK
<1>4. Reserve' \subseteq Reserve
  <2> SUFFICES ASSUME NEW q \in InOp', NEW k \in 1..MAXOPBLOCKS, k > Cardinality(wrote'[q])
               PROVE  q \in InOp /\ k > Cardinality(wrote[q])
    BY DEF Reserve, Unused
  <2> QED
    BY <1>1, <1>2 DEF InOp
<1>5. InOp' # {} => Len(lh') + Cardinality(Reserve') <= LOGBLOCKS
  BY <1>1, <1>4, ReserveShrinks
<1>6. ASSUME NEW q \in Proc
      PROVE  /\ IsFiniteSet(wrote'[q])
             /\ q \notin InOp' => wrote'[q] = {}
             /\ \A a \in wrote'[q] : Logged(a)'
             /\ pc'[q] = "modified" => Cardinality(wrote'[q] \cup {held'[q]}) <= OpBudget
  BY <1>1, <1>2, <1>3, FS_EmptySet DEF Room, Logged
<1> QED
  BY <1>5, <1>6 DEF Room

\* Every step keeps room for what the calls inside a transaction have reserved.
LEMMA NextRoom ==
  ASSUME OpBudget <= MAXOPBLOCKS, IInv, IInv', Room, [Next]_vars
  PROVE  Room'
<1>1. ASSUME NEW p \in Proc, begin_op(p) \/ log_write(p) \/ end_op(p) PROVE Room'
  BY <1>1, BeginOpRoom, LogWriteRoom, EndOpRoom
<1>2. ASSUME UNCHANGED <<lh, wrote, held>>, InOp' = InOp,
             \A q \in Proc : pc'[q] = "modified" => pc[q] = "modified"
      PROVE  Room'
  BY <1>2 DEF Room, Reserve, Logged
<1>3. ASSUME NEW p \in Proc, brelse(p) PROVE Room'
  <2>1. /\ InOp' = InOp /\ UNCHANGED <<lh, wrote>>
        /\ \A q \in Proc : pc'[q] = "modified" => pc[q] = "modified" /\ held'[q] = held[q]
    BY <1>3 DEF brelse, InOp, IInv, TypeOK
  <2> QED
    BY <2>1 DEF Room, Reserve, Logged
<1>4. ASSUME NEW p \in Proc, NEW b \in Block, NEW v \in Value, update(p, b, v) PROVE Room'
  <2>1. /\ InOp' = InOp /\ UNCHANGED <<lh, wrote>> /\ held'[p] = b
        /\ Cardinality(wrote[p] \cup {b}) <= OpBudget
        /\ \A q \in Proc : q # p => pc'[q] = pc[q] /\ held'[q] = held[q]
    BY <1>4 DEF update, InOp, IInv, TypeOK
  <2> QED
    BY <2>1 DEF Room, Reserve, Logged
<1>5. ASSUME NEW p \in Proc, commit(p) PROVE Room'
  <2>1. /\ InOp = {} /\ InOp' = {} /\ wrote' = wrote
        /\ \A q \in Proc : pc'[q] # "modified"
    <3>1. pc[p] \in Committing
      BY <1>5
         DEF commit, write_log, write_head, install_trans, clear, commit_done,
             Committing
    <3>2. InOp = {}
      BY <3>1, CommitterAlone
    <3>3. \A q \in Proc : pc'[q] = pc[q] \/ pc'[q] \in Committing \cup {"idle", "woken"}
      BY <1>5
         DEF commit, write_log, write_head, install_trans, clear, commit_done,
             Committing, Wakeup, IInv, TypeOK
    <3>4. wrote' = wrote
      BY <1>5 DEF commit, write_log, write_head, install_trans, clear, commit_done
    <3> QED
      BY <3>2, <3>3, <3>4 DEF InOp, Committing
  <2> QED
    BY <2>1 DEF Room
<1>6. ASSUME NEW b \in Block, recycle(b) PROVE Room'
  BY <1>2, <1>6 DEF recycle, InOp
<1>7. ASSUME recover_from_log PROVE Room'
  <2>1. InOp = {} /\ InOp' = {} /\ wrote' = wrote /\ pc' = pc
    BY <1>7
       DEF recover_from_log, read_head, recover_install, recover_clear, InOp, IInv,
           Booting
  <2> QED
    BY <2>1 DEF Room, InOp
<1>8. ASSUME crash PROVE Room'
  BY <1>8, FS_EmptySet DEF crash, Room, InOp
<1>9. ASSUME UNCHANGED vars PROVE Room'
  BY <1>2, <1>9 DEF vars, InOp
<1> QED
  BY <1>1, <1>3, <1>4, <1>5, <1>6, <1>7, <1>8, <1>9 DEF Next

\* With calls that write at most MAXOPBLOCKS blocks the log has room for every block
\* that a call adds: log_write panics for none that is not in the log yet.
THEOREM ReservationSuffices ==
  ASSUME OpBudget <= MAXOPBLOCKS
  PROVE  Spec => [](\A p \in Proc : pc[p] = "modified" /\ ~Logged(held[p]) => ~LogWritePanics)
<1>1. Init => Room
  BY FS_EmptySet DEF Init, Room, InOp
<1>2. IInv /\ IInv' /\ Room /\ [Next]_vars => Room'
  BY NextRoom
<1>3. IInv /\ Room => \A p \in Proc : pc[p] = "modified" /\ ~Logged(held[p]) => ~LogWritePanics
  <2> SUFFICES ASSUME IInv, Room, NEW p \in Proc, pc[p] = "modified", ~Logged(held[p])
               PROVE  ~LogWritePanics
    OBVIOUS
  <2> DEFINE n == Cardinality(wrote[p])
  <2>1. p \in InOp /\ outstanding > 0
    BY InOpCounted DEF InOp
  <2>2. IsFiniteSet(wrote[p]) /\ Cardinality(wrote[p] \cup {held[p]}) <= OpBudget
    BY DEF Room
  <2>3. held[p] \notin wrote[p]
    BY DEF Room
  <2>4. n \in Nat /\ n + 1 <= MAXOPBLOCKS
    <3>1. n \in Nat /\ Cardinality(wrote[p] \cup {held[p]}) = n + 1
      BY <2>2, <2>3, FS_AddElement, FS_CardinalityType
    <3> QED
      BY <2>2, <3>1, SizeAssumption, SMTT(60)
  <2> HIDE DEF n
  <2>5. <<p, n + 1>> \in Reserve
    BY <2>1, <2>4, SizeAssumption, SMTT(60) DEF Reserve, Unused, n
  <2>6. Cardinality(Reserve) \in Nat /\ Cardinality(Reserve) # 0
    BY <2>5, InOpFinite, UnusedBound, FS_EmptySet DEF Reserve
  <2>7. Len(lh) + Cardinality(Reserve) <= LOGBLOCKS /\ Len(lh) \in Nat /\ outstanding \in Nat
    BY <2>1, SMTT(60) DEF Room, IInv, TypeOK
  <2> QED
    BY <2>1, <2>6, <2>7, SizeAssumption, SMTT(60) DEF LogWritePanics
<1> QED
  BY <1>1, <1>2, <1>3, Invariance, PTL DEF Spec

\* With calls that write fewer than MAXOPBLOCKS blocks no log_write panics.  The
\* bound is strict because log_write looks for a full log before it looks for
\* the block in the log (log.c:221): a call that has used its whole reservation
\* could not even log one of its blocks again.
THEOREM LogWritesAreSafe ==
  ASSUME OpBudget < MAXOPBLOCKS
  PROVE  Spec => []LogWriteSafe
<1>1. Init => Room
  BY FS_EmptySet DEF Init, Room, InOp
<1>2. IInv /\ IInv' /\ Room /\ [Next]_vars => Room'
  BY NextRoom, SizeAssumption, SMTT(60)
<1>3. IInv /\ Room => LogWriteSafe
  <2> SUFFICES ASSUME IInv, Room, NEW p \in Proc, pc[p] = "modified" PROVE ~LogWritePanics
    BY DEF LogWriteSafe
  <2> DEFINE n == Cardinality(wrote[p])
  <2>1. p \in InOp /\ outstanding > 0
    BY InOpCounted DEF InOp
  <2>2. IsFiniteSet(wrote[p]) /\ Cardinality(wrote[p] \cup {held[p]}) <= OpBudget
    BY DEF Room
  <2>3. n \in Nat /\ n + 1 <= MAXOPBLOCKS
    <3>1. /\ n \in Nat
          /\ Cardinality(wrote[p] \cup {held[p]}) = IF held[p] \in wrote[p] THEN n ELSE n + 1
      BY <2>2, FS_AddElement, FS_CardinalityType
    <3> QED
      BY <2>2, <3>1, SizeAssumption, SMTT(60)
  <2> HIDE DEF n
  <2>4. <<p, n + 1>> \in Reserve
    BY <2>1, <2>3, SizeAssumption, SMTT(60) DEF Reserve, Unused, n
  <2>5. Cardinality(Reserve) \in Nat /\ Cardinality(Reserve) # 0
    BY <2>4, InOpFinite, UnusedBound, FS_EmptySet DEF Reserve
  <2>6. Len(lh) + Cardinality(Reserve) <= LOGBLOCKS /\ Len(lh) \in Nat /\ outstanding \in Nat
    BY <2>1, SMTT(60) DEF Room, IInv, TypeOK
  <2> QED
    BY <2>1, <2>5, <2>6, SizeAssumption, SMTT(60) DEF LogWritePanics
<1> QED
  BY <1>1, <1>2, <1>3, Invariance, PTL DEF Spec

-----------------------------------------------------------------------------
(* What recovery makes of a disk.                                          *)

\* A block the header names gets the log's copy.
LEMMA RedoIn ==
  ASSUME NEW hm, NEW lg, NEW hd, Distinct(hd),
         NEW k \in 1..Len(hd), hd[k] \in Block
  PROVE  Redo(hm, lg, hd)[hd[k]] = lg[k]
<1> DEFINE j == CHOOSE i \in 1..Len(hd) : hd[i] = hd[k]
<1>1. j \in 1..Len(hd) /\ hd[j] = hd[k]
  OBVIOUS
<1>2. j = k
  BY <1>1 DEF Distinct
<1> HIDE DEF j
<1>3. Redo(hm, lg, hd)[hd[k]] = lg[j]
  BY DEF Redo, j
<1> QED BY <1>2, <1>3

\* Any other block stays as it is.
LEMMA RedoOut ==
  ASSUME NEW hm, NEW lg, NEW hd, NEW b \in Block,
         \A k \in 1..Len(hd) : hd[k] # b
  PROVE  Redo(hm, lg, hd)[b] = hm[b]
BY DEF Redo

\* With a clear header recovery changes nothing.
LEMMA RedoEmpty ==
  ASSUME NEW hm, NEW lg, NEW b \in Block
  PROVE  Redo(hm, lg, <<>>)[b] = hm[b]
BY RedoOut, SMTT(60)

\* Two disks recover to the same when every block does.
LEMMA RedoEqual ==
  ASSUME NEW hm, NEW lg, NEW hd, NEW hm2, NEW lg2, NEW hd2,
         \A b \in Block : Redo(hm, lg, hd)[b] = Redo(hm2, lg2, hd2)[b]
  PROVE  Redo(hm, lg, hd) = Redo(hm2, lg2, hd2)
BY DEF Redo

\* The home location of a block the header names does not matter.
LEMMA RedoOverwrites ==
  ASSUME NEW hm, NEW hm2, NEW lg, NEW hd \in Seq(Block), Distinct(hd),
         \A b \in Block : (\A k \in 1..Len(hd) : hd[k] # b) => hm2[b] = hm[b]
  PROVE  Redo(hm2, lg, hd) = Redo(hm, lg, hd)
<1> SUFFICES ASSUME NEW b \in Block PROVE Redo(hm2, lg, hd)[b] = Redo(hm, lg, hd)[b]
  BY RedoEqual, SMTT(60)
<1>1. CASE \E k \in 1..Len(hd) : hd[k] = b
  BY <1>1, RedoIn, SMTT(60)
<1>2. CASE \A k \in 1..Len(hd) : hd[k] # b
  BY <1>2, RedoOut, SMTT(60)
<1> QED BY <1>1, <1>2

\* Erasing a log that is installed changes nothing.
LEMMA RedoInstalled ==
  ASSUME NEW hm, NEW lg, NEW hd \in Seq(Block), Distinct(hd),
         \A k \in 1..Len(hd) : hm[hd[k]] = lg[k]
  PROVE  Redo(hm, lg, <<>>) = Redo(hm, lg, hd)
<1> SUFFICES ASSUME NEW b \in Block PROVE Redo(hm, lg, <<>>)[b] = Redo(hm, lg, hd)[b]
  BY RedoEqual, SMTT(60)
<1>0. Redo(hm, lg, <<>>)[b] = hm[b]
  BY RedoEmpty
<1>1. CASE \E k \in 1..Len(hd) : hd[k] = b
  BY <1>0, <1>1, RedoIn, SMTT(60)
<1>2. CASE \A k \in 1..Len(hd) : hd[k] # b
  BY <1>0, <1>2, RedoOut, SMTT(60)
<1> QED BY <1>1, <1>2

\* The data blocks of the log do not matter while the header is clear.
LEMMA RedoClear ==
  ASSUME NEW hm, NEW lg, NEW lg2
  PROVE  Redo(hm, lg2, <<>>) = Redo(hm, lg, <<>>)
BY RedoEmpty, RedoEqual, SMTT(60)

-----------------------------------------------------------------------------
(* File system calls.                                                      *)

Stutters == UNCHANGED <<Recovered, Visible, InOp>>

\* Reads see the same while cache contents, home locations and boot do.
LEMMA VisibleSame ==
  ASSUME UNCHANGED <<Recovered, boot>>,
         boot = "up" => \A b \in Block : Contents(b)' = Contents(b)
  PROVE  Visible' = Visible
BY DEF Visible

\* begin_op sleeps or begins a call of the atomic disk.
LEMMA BeginOpMaps ==
  ASSUME IInv, NEW p \in Proc, begin_op(p)
  PROVE  Stutters \/ Atomic!Begin(p)
<1> USE DEF begin_op
<1>1. UNCHANGED Recovered /\ UNCHANGED Visible
  BY DEF disk, Recovered, Visible, Contents
<1>2. CASE MustWait
  <2>1. InOp' = InOp BY <1>2 DEF InOp, IInv, TypeOK
  <2> QED BY <1>1, <2>1 DEF Stutters
<1>3. CASE ~MustWait
  <2>1. InOp' = InOp \cup {p} /\ p \notin InOp BY <1>3 DEF InOp, IInv, TypeOK
  <2> QED BY <1>1, <2>1 DEF Atomic!Begin
<1> QED BY <1>2, <1>3

\* Modifying a buffer is the write of the atomic disk.
LEMMA UpdateMaps ==
  ASSUME IInv, NEW p \in Proc, NEW b \in Block, NEW v \in Value, update(p, b, v)
  PROVE  Atomic!Write(p, b, v)
<1> USE DEF update
<1>1. p \in InOp /\ InOp' = InOp
  BY DEF InOp, IInv, TypeOK
<1>2. boot = "up"
  BY <1>1, InOpQuiet
<1>3. UNCHANGED Recovered
  BY DEF disk, Recovered
<1>4. /\ cache' = [cache EXCEPT ![b] = v] /\ home' = home /\ boot' = boot
      /\ cache \in [Block -> Value \cup {NotCached}]
  BY DEF disk, IInv, TypeOK
<1>5. Visible' = [Visible EXCEPT ![b] = v]
  <2>1. Visible = [a \in Block |-> Contents(a)]
    BY <1>2 DEF Visible
  <2>2. Visible' = [a \in Block |-> Contents(a)']
    BY <1>2, <1>4 DEF Visible
  <2>3. Contents(b)' = v
    BY <1>4, ValueAssumption DEF Contents
  <2>4. \A a \in Block : a # b => Contents(a)' = Contents(a)
    BY <1>4 DEF Contents
  <2> QED BY <2>1, <2>2, <2>3, <2>4
<1> QED BY <1>1, <1>3, <1>5 DEF Atomic!Write

\* end_op ends the call.
LEMMA EndOpMaps ==
  ASSUME IInv, NEW p \in Proc, end_op(p)
  PROVE  Atomic!End(p)
<1>1. UNCHANGED Recovered /\ UNCHANGED Visible
  BY DEF end_op, disk, Recovered, Visible, Contents
<1>2. p \in InOp /\ InOp' = InOp \ {p}
  BY DEF end_op, InOp, IInv, TypeOK, Wakeup
<1> QED BY <1>1, <1>2 DEF Atomic!End

\* log_write and brelse change neither what is read nor what is stable.
LEMMA CallMaps ==
  ASSUME IInv, NEW p \in Proc, log_write(p) \/ brelse(p)
  PROVE  Stutters
<1>1. UNCHANGED Recovered /\ UNCHANGED Visible
  BY DEF log_write, brelse, disk, Recovered, Visible, Contents
<1>2. InOp' = InOp
  BY DEF log_write, brelse, InOp, IInv, TypeOK
<1> QED BY <1>1, <1>2 DEF Stutters

-----------------------------------------------------------------------------
(* commit().                                                               *)

\* The committer's labels are outside every transaction.
LEMMA CommitterInOp ==
  ASSUME IInv, NEW p \in Proc, commit(p)
  PROVE  InOp' = {} /\ InOp = {} /\ boot = "up" /\ boot' = "up"
<1>1. pc[p] \in Committing /\ boot' = boot
  BY DEF commit, write_log, write_head, install_trans, clear, commit_done, Committing
<1>2. /\ InOp = {} /\ boot = "up" /\ pc \in [Proc -> Label]
      /\ \A q \in Proc : q # p => pc[q] \in {"idle", "sleep", "woken"}
  BY <1>1, CommitterAlone DEF IInv, TypeOK
<1>3. \A q \in Proc : pc'[q] \notin {"op", "modified", "logged"}
  BY <1>1, <1>2
     DEF commit, write_log, write_head, install_trans, clear, commit_done,
         Committing, Wakeup
<1> QED BY <1>1, <1>2, <1>3 DEF InOp

\* Writing the log is invisible while the header is clear.
LEMMA WriteLogMaps ==
  ASSUME IInv, NEW p \in Proc, write_log(p)
  PROVE  Stutters
<1> DEFINE b == lh[tail + 1]
<1>0. /\ cache' = [cache EXCEPT ![b] = Contents(b)]
      /\ UNCHANGED <<home, head, boot>> /\ pc[p] = "write_log"
  BY DEF write_log
<1>1. InOp' = InOp
  BY CommitterInOp DEF commit
<1>2. head = <<>>
  BY <1>0, CommitterAlone DEF IInv, Phases, Committing
<1>3. Recovered' = Recovered
  BY <1>0, <1>2, RedoClear DEF Recovered
<1>4. \A a \in Block : Contents(a)' = Contents(a)
  BY <1>0, ValueAssumption DEF Contents, IInv, TypeOK
<1>5. Visible' = Visible
  BY <1>0, <1>3, <1>4, VisibleSame
<1> QED BY <1>1, <1>3, <1>5 DEF Stutters

\* The header write is the commit.
LEMMA WriteHeadMaps ==
  ASSUME IInv, NEW p \in Proc, write_head(p)
  PROVE  Atomic!Commit
<1>0. /\ pc[p] = "write_head" /\ pc[p] \in Committing /\ head' = lh
      /\ UNCHANGED <<home, logd, cache, lh, boot>>
  BY DEF write_head, Committing
<1>1. InOp = {} /\ InOp' = {} /\ boot = "up"
  BY CommitterInOp DEF commit
<1>2. /\ At("write_head") /\ ~At("install") /\ ~At("clear")
      /\ \A q \in Proc : q # p => pc[q] \in {"idle", "sleep", "woken"}
  BY <1>0, CommitterAlone
<1>3. lh \in Seq(Block) /\ Distinct(lh) /\ \A k \in 1..Len(lh) : logd[k] = Contents(lh[k])
  BY <1>1, <1>2 DEF IInv, Phases, Fits, TypeOK
<1>4. \A b \in Block : Redo(home, logd, lh)[b] = Contents(b)
  <2> SUFFICES ASSUME NEW b \in Block PROVE Redo(home, logd, lh)[b] = Contents(b)
    OBVIOUS
  <2>1. CASE \E k \in 1..Len(lh) : lh[k] = b
    BY <1>3, <2>1, RedoIn, SMTT(60)
  <2>2. CASE \A k \in 1..Len(lh) : lh[k] # b
    <3>1. ~Dirty(b)
      BY <1>0, <1>2, <2>2 DEF Dirty
    <3>2. Contents(b) = home[b]
      BY <1>1, <3>1 DEF IInv, Clean, Contents
    <3> QED BY <2>2, <3>2, RedoOut
  <2> QED BY <2>1, <2>2
<1>5. Recovered' = Visible
  <2>1. Recovered' = Redo(home, logd, lh)
    BY <1>0 DEF Recovered
  <2>2. Visible = [b \in Block |-> Contents(b)]
    BY <1>1 DEF Visible
  <2>3. Redo(home, logd, lh) = [b \in Block |-> Redo(home, logd, lh)[b]]
    BY DEF Redo
  <2> QED BY <1>4, <2>1, <2>2, <2>3
<1>6. Visible' = Visible
  BY <1>0, <1>1 DEF Visible, Contents
<1> QED BY <1>1, <1>5, <1>6 DEF Atomic!Commit

\* Installing a block is invisible: the log has it already.
LEMMA InstallTransMaps ==
  ASSUME IInv, NEW p \in Proc, install_trans(p)
  PROVE  Stutters
<1> DEFINE b == lh[tail + 1]
<1>0. /\ pc[p] = "install" /\ pc[p] \in Committing
      /\ home' = [home EXCEPT ![b] = logd[tail + 1]]
      /\ cache' = [cache EXCEPT ![b] = logd[tail + 1]]
      /\ UNCHANGED <<logd, head, lh, boot>>
  BY DEF install_trans, InstallBlock, Committing
<1>1. InOp' = InOp /\ boot = "up"
  BY CommitterInOp DEF commit
<1>2. At("install")
  BY <1>0, CommitterAlone
<1>3. /\ head = lh /\ lh \in Seq(Block) /\ Distinct(lh) /\ tail \in Nat /\ tail < Len(lh)
      /\ Len(lh) \in Nat /\ Len(lh) <= LOGBLOCKS
      /\ \A k \in 1..Len(lh) : logd[k] = Contents(lh[k])
  BY <1>1, <1>2, SMTT(60) DEF IInv, Phases, Fits, TypeOK
<1>4. tail + 1 \in 1..Len(lh) /\ tail + 1 \in 1..LOGBLOCKS
  BY <1>3, SizeAssumption, SMTT(60)
<1>5. b \in Block /\ logd[tail + 1] = Contents(b) /\ logd[tail + 1] \in Value
  <2>1. logd \in [1..LOGBLOCKS -> Value]
    BY DEF IInv, TypeOK
  <2> QED
    BY <1>3, <1>4, <2>1, SMTT(60)
<1>6. \A a \in Block : (\A k \in 1..Len(head) : head[k] # a) => home'[a] = home[a]
  BY <1>0, <1>3, <1>4 DEF IInv, TypeOK
<1>7. Recovered' = Recovered
  <2>1. head \in Seq(Block) /\ Distinct(head)
    BY <1>3
  <2>2. Redo(home', logd, head) = Redo(home, logd, head)
    BY <1>6, <2>1, RedoOverwrites, SMTT(60)
  <2> QED BY <1>0, <2>2 DEF Recovered
<1>8. \A a \in Block : Contents(a)' = Contents(a)
  BY <1>0, <1>5, ValueAssumption DEF Contents, IInv, TypeOK
<1>9. Visible' = Visible
  BY <1>0, <1>7, <1>8, VisibleSame
<1> QED BY <1>1, <1>7, <1>9 DEF Stutters

\* Erasing the header is invisible once the log is installed.
LEMMA ClearMaps ==
  ASSUME IInv, NEW p \in Proc, clear(p)
  PROVE  Stutters
<1>0. /\ pc[p] = "clear" /\ pc[p] \in Committing /\ head' = <<>>
      /\ UNCHANGED <<home, logd, cache, boot>>
  BY DEF clear, ClearHead, Committing
<1>1. InOp' = InOp /\ boot = "up"
  BY CommitterInOp DEF commit
<1>2. At("clear")
  BY <1>0, CommitterAlone
<1>3. head = lh /\ lh \in Seq(Block) /\ Distinct(lh) /\ \A k \in 1..Len(lh) : home[lh[k]] = logd[k]
  BY <1>1, <1>2 DEF IInv, Phases, Fits, TypeOK
<1>4. Recovered' = Recovered
  BY <1>0, <1>3, RedoInstalled DEF Recovered
<1>5. Visible' = Visible
  BY <1>0, <1>4, VisibleSame DEF Contents
<1> QED BY <1>1, <1>4, <1>5 DEF Stutters

\* The end of the commit is invisible.
LEMMA CommitDoneMaps ==
  ASSUME IInv, NEW p \in Proc, commit_done(p)
  PROVE  Stutters
<1>1. InOp' = InOp
  BY CommitterInOp DEF commit
<1>2. UNCHANGED Recovered /\ UNCHANGED Visible
  BY DEF commit_done, disk, Recovered, Visible, Contents
<1> QED BY <1>1, <1>2 DEF Stutters

-----------------------------------------------------------------------------
(* The buffer cache, the crash and the recovery.                           *)

\* Recycling a buffer is invisible.
LEMMA RecycleMaps ==
  ASSUME IInv, NEW b \in Block, recycle(b)
  PROVE  Stutters
<1>1. UNCHANGED <<home, logd, head, boot, pc>>
  BY DEF recycle, disk
<1>2. Recovered' = Recovered /\ InOp' = InOp
  BY <1>1 DEF Recovered, InOp
<1>3. Visible' = Visible
  BY <1>1, <1>2, RecycleReads, VisibleSame
<1> QED BY <1>2, <1>3 DEF Stutters

\* Whatever a torn write leaves, recovery does not show it.
LEMMA TornWriteHarmless ==
  ASSUME IInv, NEW v \in Value, TornWrite(v), head' = head
  PROVE  Recovered' = Recovered
<1> USE DEF IInv
<1>0. head \in Seq(Block) /\ Distinct(head)
  BY DEF Fits, TypeOK
<1>1. CASE UNCHANGED <<home, logd>>
  BY <1>1 DEF Recovered
<1>2. CASE /\ \E p \in Proc : pc[p] = "write_log"
           /\ UNCHANGED home
  <2>1. head = <<>>
    BY <1>2, CommitterAlone DEF Phases, Committing
  <2>2. Redo(home, logd', <<>>) = Redo(home, logd, <<>>)
    BY RedoClear
  <2> QED BY <1>2, <2>1, <2>2 DEF Recovered
<1>3. CASE /\ boot = "install" \/ \E p \in Proc : pc[p] = "install"
           /\ home' = [home EXCEPT ![lh[tail + 1]] = v]
           /\ UNCHANGED logd
  <2>1. head = lh /\ tail \in Nat /\ tail < Len(lh) /\ Len(lh) \in Nat
    <3>1. CASE boot = "install"
      <4>1. tail \in Nat /\ lh \in Seq(Block)
        BY DEF TypeOK
      <4> QED
        BY <3>1, <4>1, SMTT(60) DEF Booting
    <3>2. CASE \E p \in Proc : pc[p] = "install"
      BY <3>2, CommitterAlone, SMTT(60) DEF Phases, Committing, TypeOK
    <3> QED BY <1>3, <3>1, <3>2
  <2>2. tail + 1 \in 1..Len(head)
    BY <2>1, SMTT(60)
  <2>3. \A a \in Block : (\A k \in 1..Len(head) : head[k] # a) => home'[a] = home[a]
    BY <1>3, <2>1, <2>2 DEF TypeOK
  <2>4. Redo(home', logd, head) = Redo(home, logd, head)
    BY <1>0, <2>3, RedoOverwrites, SMTT(60)
  <2> QED BY <1>3, <2>4 DEF Recovered
<1> QED BY <1>1, <1>2, <1>3 DEF TornWrite

\* A crash takes reads back to the last commit.
LEMMA CrashMaps ==
  ASSUME IInv, crash
  PROVE  Atomic!Crash
<1>1. (\E v \in Value : TornWrite(v)) /\ head' = head /\ boot' = "read_head"
      /\ pc' = [p \in Proc |-> "idle"]
  BY DEF crash
<1>2. Recovered' = Recovered
  BY <1>1, TornWriteHarmless
<1>3. Visible' = Recovered'
  <2>1. Visible' = [b \in Block |-> Recovered'[b]]
    BY <1>1 DEF Visible
  <2>2. Recovered' = [b \in Block |-> Recovered'[b]]
    BY DEF Recovered, Redo
  <2> QED BY <2>1, <2>2
<1>4. InOp' = {}
  BY <1>1 DEF InOp
<1> QED BY <1>2, <1>3, <1>4 DEF Atomic!Crash

\* Recovery, repeated any number of times, shows one and the same disk.
LEMMA RecoveryMaps ==
  ASSUME IInv, recover_from_log
  PROVE  Stutters
<1> USE DEF IInv
<1>0. InOp' = InOp
  BY DEF recover_from_log, read_head, recover_install, recover_clear, InOp
<1>1. CASE read_head
  <2>1. UNCHANGED Recovered /\ boot # "up" /\ boot' # "up"
    BY <1>1 DEF read_head, disk, Recovered
  <2>2. UNCHANGED Visible
    BY <2>1 DEF Visible
  <2> QED BY <1>0, <2>1, <2>2 DEF Stutters
<1>2. CASE recover_install
  <2>0. /\ boot = "install" /\ boot' # "up"
        /\ home' = [home EXCEPT ![lh[tail + 1]] = logd[tail + 1]]
        /\ UNCHANGED <<logd, head>>
    BY <1>2 DEF recover_install, InstallBlock
  <2>1. /\ head = lh /\ tail \in Nat /\ tail < Len(lh) /\ Len(lh) \in Nat
        /\ head \in Seq(Block) /\ Distinct(head)
    BY <2>0, SMTT(60) DEF Booting, TypeOK, Fits
  <2>2. tail + 1 \in 1..Len(head)
    BY <2>1, SMTT(60)
  <2>3. \A a \in Block : (\A k \in 1..Len(head) : head[k] # a) => home'[a] = home[a]
    BY <2>0, <2>1, <2>2 DEF TypeOK
  <2>4. Redo(home', logd, head) = Redo(home, logd, head)
    BY <2>1, <2>3, RedoOverwrites, SMTT(60)
  <2>5. UNCHANGED Recovered
    BY <2>0, <2>4 DEF Recovered
  <2>6. UNCHANGED Visible
    BY <2>0, <2>5 DEF Visible
  <2> QED BY <1>0, <2>5, <2>6 DEF Stutters
<1>3. CASE recover_clear
  <2>0. boot = "clear" /\ boot' = "up" /\ head' = <<>> /\ UNCHANGED <<home, logd, cache>>
    BY <1>3 DEF recover_clear, ClearHead
  <2>1. /\ head = lh /\ head \in Seq(Block) /\ Distinct(head)
        /\ \A k \in 1..Len(head) : home[head[k]] = logd[k]
        /\ \A b \in Block : cache[b] \in {NotCached, home[b]}
    BY <2>0 DEF Booting, TypeOK, Fits
  <2>2. Redo(home, logd, <<>>) = Redo(home, logd, head)
    BY <2>1, RedoInstalled
  <2>3. UNCHANGED Recovered
    BY <2>0, <2>2 DEF Recovered
  <2>4. \A b \in Block : Contents(b)' = Recovered[b]
    BY <2>0, <2>1, <2>2, RedoEmpty, SMTT(60) DEF Recovered, Contents
  <2>5. UNCHANGED Visible
    BY <2>0, <2>4 DEF Visible
  <2> QED BY <1>0, <2>3, <2>5 DEF Stutters
<1> QED BY <1>1, <1>2, <1>3 DEF recover_from_log

-----------------------------------------------------------------------------
(* The refinement.                                                         *)

\* The initial states of the logging layer are those of the atomic disk.
LEMMA InitMaps == Init => Atomic!Init
<1> SUFFICES ASSUME Init PROVE Atomic!Init
  OBVIOUS
<1>1. \A b \in Block : Recovered[b] = Zero
  BY RedoEmpty DEF Init, Recovered
<1>2. Recovered = [b \in Block |-> Recovered[b]]
  BY DEF Recovered, Redo
<1>3. Recovered = [b \in Block |-> Zero]
  BY <1>1, <1>2
<1>4. Visible = Recovered
  BY <1>2 DEF Init, Visible
<1>5. InOp = {}
  BY DEF Init, InOp
<1> QED BY <1>3, <1>4, <1>5 DEF Atomic!Init

\* Every step of the logging layer is a step of the atomic disk or none.
LEMMA NextMaps == IInv /\ [Next]_vars => [Atomic!Next]_(Atomic!vars)
<1> SUFFICES ASSUME IInv, [Next]_vars PROVE Atomic!Next \/ Stutters
  BY DEF Atomic!vars, Stutters
<1>1. ASSUME NEW p \in Proc, begin_op(p) PROVE Atomic!Next \/ Stutters
  BY <1>1, BeginOpMaps DEF Atomic!Next
<1>2. ASSUME NEW p \in Proc, log_write(p) \/ brelse(p) PROVE Stutters
  BY <1>2, CallMaps
<1>3. ASSUME NEW p \in Proc, end_op(p) PROVE Atomic!Next
  BY <1>3, EndOpMaps DEF Atomic!Next
<1>4. ASSUME NEW p \in Proc, commit(p) PROVE Atomic!Next \/ Stutters
  BY <1>4, WriteLogMaps, WriteHeadMaps, InstallTransMaps, ClearMaps, CommitDoneMaps
     DEF commit, Atomic!Next
<1>5. ASSUME NEW p \in Proc, NEW b \in Block, NEW v \in Value, update(p, b, v) PROVE Atomic!Next
  BY <1>5, UpdateMaps DEF Atomic!Next
<1>6. ASSUME NEW b \in Block, recycle(b) PROVE Stutters
  BY <1>6, RecycleMaps
<1>7. ASSUME recover_from_log PROVE Stutters
  BY <1>7, RecoveryMaps
<1>8. ASSUME crash PROVE Atomic!Next
  BY <1>8, CrashMaps DEF Atomic!Next
<1>9. ASSUME UNCHANGED vars PROVE Stutters
  BY <1>9 DEF vars, Stutters, Recovered, Visible, Contents, InOp
<1> QED BY <1>1, <1>2, <1>3, <1>4, <1>5, <1>6, <1>7, <1>8, <1>9 DEF Next

\* The logging layer implements the atomic disk, for any number of processes
\* and blocks and any log size: a crash at any moment, a torn disk write, and
\* a crash during recovery leave the disk as some commit left it.
THEOREM Refinement == Spec => Atomicity
BY InitMaps, NextMaps, Invariance, PTL DEF Spec, Atomicity, Atomic!Spec
=============================================================================
