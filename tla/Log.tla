-------------------------------- MODULE Log --------------------------------
(***************************************************************************)
(* The redo log of kernel/log.c: file system calls grouped into            *)
(* transactions, the commit, the crash at any moment and the recovery.     *)
(*                                                                         *)
(* A critical section under log.lock is one step, and so is one disk       *)
(* write.  The buffer cache appears through its contract: an unpinned      *)
(* buffer nobody holds may be recycled, and bread fetches the block again. *)
(* Of the buffer locks only the ones file system calls hold are state.     *)
(***************************************************************************)
EXTENDS Naturals, Sequences, FiniteSets

CONSTANTS Proc,         \* processes that make file system calls
          Block,        \* home locations: the blocks outside the log
          Value,        \* contents of a block
          Zero,         \* the contents mkfs gives a block
          NotCached,    \* no buffer holds the block
          NoBlock,      \* the process holds no buffer
          LOGBLOCKS,    \* data blocks in the on-disk log
          MAXOPBLOCKS,  \* log blocks begin_op reserves for a call
          OpBudget      \* blocks one call writes, at most

ASSUME ProcAssumption == IsFiniteSet(Proc)
ASSUME ValueAssumption == Zero \in Value /\ NotCached \notin Value
ASSUME BlockAssumption == NoBlock \notin Block
ASSUME SizeAssumption == /\ LOGBLOCKS \in Nat /\ MAXOPBLOCKS \in Nat
                         /\ 0 < MAXOPBLOCKS /\ MAXOPBLOCKS <= LOGBLOCKS
                         /\ OpBudget \in Nat

VARIABLES home,         \* disk: the block at its home location
          logd,         \* disk: the data blocks of the log
          head,         \* disk: the header block, block[0..n-1]
          lh,           \* log.lh
          outstanding,  \* log.outstanding
          committing,   \* log.committing
          cache,        \* b->data of the buffer of a block
          pin,          \* refcnt taken by bpin
          held,         \* the buffer a call has locked
          wrote,        \* the blocks a call has logged
          pc,           \* where each process is in the logging layer
          tail,         \* tail of write_log and install_trans
          boot          \* where fsinit is, "up" after initlog returned

disk == <<home, logd, head>>
vars == <<home, logd, head, lh, outstanding, committing, cache, pin, held,
          wrote, pc, tail, boot>>

InOp == {p \in Proc : pc[p] \in {"op", "modified", "logged"}}
Committing == {"write_log", "write_head", "install", "clear", "done"}
Label == {"idle", "sleep", "woken", "op", "modified", "logged"} \cup Committing

TypeOK == /\ home \in [Block -> Value]
          /\ logd \in [1..LOGBLOCKS -> Value]
          /\ head \in Seq(Block)
          /\ lh \in Seq(Block)
          /\ outstanding \in Nat
          /\ committing \in BOOLEAN
          /\ cache \in [Block -> Value \cup {NotCached}]
          /\ pin \in [Block -> Nat]
          /\ held \in [Proc -> Block \cup {NoBlock}]
          /\ wrote \in [Proc -> SUBSET Block]
          /\ pc \in [Proc -> Label]
          /\ tail \in Nat
          /\ boot \in {"read_head", "install", "clear", "up"}

\* What bread returns for block b.
Contents(b) == IF cache[b] = NotCached THEN home[b] ELSE cache[b]

\* wakeup(&log)
Wakeup(f) == [p \in Proc |-> IF f[p] = "sleep" THEN "woken" ELSE f[p]]

Init == /\ home = [b \in Block |-> Zero]
        /\ logd = [i \in 1..LOGBLOCKS |-> Zero]
        /\ head = <<>>
        /\ lh = <<>>
        /\ outstanding = 0
        /\ committing = FALSE
        /\ cache = [b \in Block |-> NotCached]
        /\ pin = [b \in Block |-> 0]
        /\ held = [p \in Proc |-> NoBlock]
        /\ wrote = [p \in Proc |-> {}]
        /\ pc = [p \in Proc |-> "idle"]
        /\ tail = 0
        /\ boot = "read_head"

-----------------------------------------------------------------------------
(* File system calls.                                                      *)

\* Mutants of MustWait: the test of log.committing, or of the space the
\* running transaction uses already, left out.
MustWaitDuringCommitNot ==
  Len(lh) + (outstanding + 1) * MAXOPBLOCKS > LOGBLOCKS
MustWaitReservedOnly ==
  committing \/ (outstanding + 1) * MAXOPBLOCKS > LOGBLOCKS

\* begin_op must wait: a commit is running or the call might not fit.
MustWait == \/ committing
            \/ Len(lh) + (outstanding + 1) * MAXOPBLOCKS > LOGBLOCKS

\* Mutant of begin_op: log.outstanding is not incremented.
BeginOpUncounted(p) ==
  /\ boot = "up" /\ pc[p] \in {"idle", "woken"}
  /\ pc' = [pc EXCEPT ![p] = IF MustWait THEN "sleep" ELSE "op"]
  /\ UNCHANGED <<disk, lh, outstanding, committing, cache, pin, held, wrote,
                 tail, boot>>

begin_op(p) ==
  /\ boot = "up"
  /\ pc[p] \in {"idle", "woken"}
  /\ IF MustWait
       THEN /\ pc' = [pc EXCEPT ![p] = "sleep"]
            /\ UNCHANGED outstanding
       ELSE /\ pc' = [pc EXCEPT ![p] = "op"]
            /\ outstanding' = outstanding + 1
  /\ UNCHANGED <<disk, lh, committing, cache, pin, held, wrote, tail, boot>>

\* bp = bread(b), then the call modifies bp->data.
update(p, b, v) ==
  /\ pc[p] = "op"
  /\ \A q \in Proc : held[q] # b
  /\ Cardinality(wrote[p] \cup {b}) <= OpBudget
  /\ held' = [held EXCEPT ![p] = b]
  /\ cache' = [cache EXCEPT ![b] = v]
  /\ pc' = [pc EXCEPT ![p] = "modified"]
  /\ UNCHANGED <<disk, lh, outstanding, committing, pin, wrote, tail, boot>>

Logged(b) == \E i \in 1..Len(lh) : lh[i] = b

LogWritePanics == Len(lh) >= LOGBLOCKS \/ outstanding < 1

\* Mutant of log_write: the bpin is missing.
LogWriteUnpinned(p) ==
  /\ pc[p] = "modified" /\ ~LogWritePanics
  /\ lh' = IF Logged(held[p]) THEN lh ELSE Append(lh, held[p])
  /\ wrote' = [wrote EXCEPT ![p] = @ \cup {held[p]}]
  /\ pc' = [pc EXCEPT ![p] = "logged"]
  /\ UNCHANGED <<disk, outstanding, committing, cache, pin, held, tail, boot>>

\* A panic stops the machine: log_write takes no step then.
log_write(p) ==
  LET b == held[p] IN
  /\ pc[p] = "modified"
  /\ ~LogWritePanics
  /\ IF Logged(b)
       THEN UNCHANGED <<lh, pin>>
       ELSE /\ lh' = Append(lh, b)
            /\ pin' = [pin EXCEPT ![b] = @ + 1]
  /\ wrote' = [wrote EXCEPT ![p] = @ \cup {b}]
  /\ pc' = [pc EXCEPT ![p] = "logged"]
  /\ UNCHANGED <<disk, outstanding, committing, cache, held, tail, boot>>

brelse(p) ==
  /\ pc[p] = "logged"
  /\ held' = [held EXCEPT ![p] = NoBlock]
  /\ pc' = [pc EXCEPT ![p] = "op"]
  /\ UNCHANGED <<disk, lh, outstanding, committing, cache, pin, wrote, tail,
                 boot>>

\* Mutant of end_op: a call that leaves others behind wakes nobody.
EndOpQuiet(p) ==
  /\ pc[p] = "op" /\ ~committing
  /\ outstanding' = outstanding - 1
  /\ committing' = (outstanding = 1)
  /\ pc' = [pc EXCEPT ![p] = IF outstanding # 1 THEN "idle"
                             ELSE IF lh = <<>> THEN "done" ELSE "write_log"]
  /\ tail' = 0
  /\ wrote' = [wrote EXCEPT ![p] = {}]
  /\ UNCHANGED <<disk, lh, cache, pin, held, boot>>

\* The last call out commits; commit() has nothing to do for an empty log.
end_op(p) ==
  /\ pc[p] = "op"
  /\ ~committing
  /\ outstanding' = outstanding - 1
  /\ IF outstanding = 1
       THEN /\ committing' = TRUE
            /\ pc' = [pc EXCEPT ![p] = IF lh = <<>> THEN "done" ELSE "write_log"]
            /\ tail' = 0
       ELSE /\ pc' = Wakeup([pc EXCEPT ![p] = "idle"])
            /\ UNCHANGED <<committing, tail>>
  /\ wrote' = [wrote EXCEPT ![p] = {}]
  /\ UNCHANGED <<disk, lh, cache, pin, held, boot>>

-----------------------------------------------------------------------------
(* commit(), one disk write at a time.                                     *)

write_log(p) ==
  /\ pc[p] = "write_log"
  /\ logd' = [logd EXCEPT ![tail + 1] = Contents(lh[tail + 1])]
  /\ cache' = [cache EXCEPT ![lh[tail + 1]] = Contents(lh[tail + 1])]
  /\ tail' = tail + 1
  /\ pc' = IF tail + 1 = Len(lh) THEN [pc EXCEPT ![p] = "write_head"] ELSE pc
  /\ UNCHANGED <<home, head, lh, outstanding, committing, pin, held, wrote,
                 boot>>

\* Mutant of write_head: commit() goes on to erase the log at once.
WriteHeadNoInstall(p) ==
  /\ pc[p] = "write_head"
  /\ head' = lh
  /\ tail' = 0
  /\ pc' = [pc EXCEPT ![p] = "clear"]
  /\ UNCHANGED <<home, logd, lh, outstanding, committing, cache, pin, held,
                 wrote, boot>>

write_head(p) ==
  /\ pc[p] = "write_head"
  /\ head' = lh
  /\ tail' = 0
  /\ pc' = [pc EXCEPT ![p] = "install"]
  /\ UNCHANGED <<home, logd, lh, outstanding, committing, cache, pin, held,
                 wrote, boot>>

\* One turn of the loop of install_trans, bunpin apart.
InstallBlock ==
  /\ home' = [home EXCEPT ![lh[tail + 1]] = logd[tail + 1]]
  /\ cache' = [cache EXCEPT ![lh[tail + 1]] = logd[tail + 1]]
  /\ tail' = tail + 1

install_trans(p) ==
  /\ pc[p] = "install"
  /\ InstallBlock
  /\ pin' = [pin EXCEPT ![lh[tail + 1]] = @ - 1]
  /\ pc' = IF tail + 1 = Len(lh) THEN [pc EXCEPT ![p] = "clear"] ELSE pc
  /\ UNCHANGED <<logd, head, lh, outstanding, committing, held, wrote, boot>>

\* log.lh.n = 0; write_head()
ClearHead == lh' = <<>> /\ head' = <<>>

clear(p) ==
  /\ pc[p] = "clear"
  /\ ClearHead
  /\ pc' = [pc EXCEPT ![p] = "done"]
  /\ UNCHANGED <<home, logd, outstanding, committing, cache, pin, held, wrote,
                 tail, boot>>

\* Mutant of commit_done: the wakeup after the commit is missing.
CommitDoneQuiet(p) ==
  /\ pc[p] = "done"
  /\ committing' = FALSE
  /\ pc' = [pc EXCEPT ![p] = "idle"]
  /\ UNCHANGED <<disk, lh, outstanding, cache, pin, held, wrote, tail, boot>>

commit_done(p) ==
  /\ pc[p] = "done"
  /\ committing' = FALSE
  /\ pc' = Wakeup([pc EXCEPT ![p] = "idle"])
  /\ UNCHANGED <<disk, lh, outstanding, cache, pin, held, wrote, tail, boot>>

-----------------------------------------------------------------------------
(* The buffer cache, the crash and the recovery.                           *)

\* bget recycles the buffer of b for another block.
recycle(b) ==
  /\ cache[b] # NotCached
  /\ pin[b] = 0
  /\ \A p \in Proc : held[p] # b
  /\ cache' = [cache EXCEPT ![b] = NotCached]
  /\ UNCHANGED <<disk, lh, outstanding, committing, pin, held, wrote, pc, tail,
                 boot>>

\* The disk write under way when the machine stops may leave anything in its
\* block.  The header needs one sector only, which the disk writes entirely
\* or not at all.
TornWrite(v) ==
  \/ UNCHANGED <<home, logd>>
  \/ /\ \E p \in Proc : pc[p] = "write_log"
     /\ logd' = [logd EXCEPT ![tail + 1] = v]
     /\ UNCHANGED home
  \/ /\ boot = "install" \/ \E p \in Proc : pc[p] = "install"
     /\ home' = [home EXCEPT ![lh[tail + 1]] = v]
     /\ UNCHANGED logd

crash ==
  /\ \E v \in Value : TornWrite(v)
  /\ UNCHANGED head
  /\ lh' = <<>>
  /\ outstanding' = 0
  /\ committing' = FALSE
  /\ cache' = [b \in Block |-> NotCached]
  /\ pin' = [b \in Block |-> 0]
  /\ held' = [p \in Proc |-> NoBlock]
  /\ wrote' = [p \in Proc |-> {}]
  /\ pc' = [p \in Proc |-> "idle"]
  /\ tail' = 0
  /\ boot' = "read_head"

read_head ==
  /\ boot = "read_head"
  /\ lh' = head
  /\ tail' = 0
  /\ boot' = IF head = <<>> THEN "clear" ELSE "install"
  /\ UNCHANGED <<disk, outstanding, committing, cache, pin, held, wrote, pc>>

recover_install ==
  /\ boot = "install"
  /\ InstallBlock
  /\ boot' = IF tail + 1 = Len(lh) THEN "clear" ELSE boot
  /\ UNCHANGED <<logd, head, lh, outstanding, committing, pin, held, wrote, pc>>

recover_clear ==
  /\ boot = "clear"
  /\ ClearHead
  /\ boot' = "up"
  /\ UNCHANGED <<home, logd, outstanding, committing, cache, pin, held, wrote,
                 pc, tail>>

commit(p) == write_log(p) \/ write_head(p) \/ install_trans(p) \/ clear(p)
             \/ commit_done(p)

recover_from_log == read_head \/ recover_install \/ recover_clear

Next == \/ \E p \in Proc : \/ begin_op(p) \/ log_write(p) \/ brelse(p)
                           \/ end_op(p) \/ commit(p)
        \/ \E p \in Proc, b \in Block, v \in Value : update(p, b, v)
        \/ \E b \in Block : recycle(b)
        \/ recover_from_log
        \/ crash

Spec == Init /\ [][Next]_vars

\* A file system call writes its blocks and ends; a process inside the logging
\* layer keeps running; so does the boot.  Nothing makes a call start and
\* nothing makes the machine crash.
Fairness == /\ \A p \in Proc : /\ WF_vars(log_write(p) \/ brelse(p) \/ commit(p))
                               /\ SF_vars(end_op(p))
            /\ WF_vars(recover_from_log)

FairSpec == Spec /\ Fairness

-----------------------------------------------------------------------------
(* Properties.                                                             *)

\* The disk recover_from_log produces from home locations hm, log blocks lg
\* and header hd.
Redo(hm, lg, hd) ==
  [b \in Block |-> IF \E k \in 1..Len(hd) : hd[k] = b
                     THEN lg[CHOOSE k \in 1..Len(hd) : hd[k] = b]
                     ELSE hm[b]]
Recovered == Redo(home, logd, head)

Visible == [b \in Block |-> IF boot = "up" THEN Contents(b) ELSE Recovered[b]]

(***************************************************************************)
(* The logging layer implements the atomic disk: the header write is the   *)
(* commit, and crashes, recoveries and crashes during recovery never show  *)
(* part of a call (log.c:100-102).                                         *)
(***************************************************************************)
Atomic == INSTANCE AtomicDisk WITH stable <- Recovered, volatile <- Visible,
                                   active <- InOp
Atomicity == Atomic!Spec

\* Once no call is inside a transaction and no commit runs, everything the
\* calls wrote is at its home location and the log is empty: the end_op that
\* committed returned only after that.
DurableWhenQuiet ==
  boot = "up" /\ outstanding = 0 /\ ~committing =>
    /\ \A b \in Block : Contents(b) = home[b]
    /\ head = <<>> /\ lh = <<>>

\* The reservation of begin_op is enough: no log_write of a call that keeps to
\* its budget meets "too big a transaction" or "outside of trans".
LogWriteSafe == \A p \in Proc : pc[p] = "modified" => ~LogWritePanics

\* end_op never meets panic("log.committing"): the log is not committing while
\* a call is inside a transaction, and one process at most runs commit().
CommitAlone ==
  /\ committing => InOp = {}
  /\ \A p, q \in Proc : pc[p] \in Committing /\ pc[q] \in Committing => p = q

\* No lost wakeup: a process asleep in begin_op has somebody left who will
\* call wakeup(&log), a call still in a transaction or the committer.
SleeperHasWaker ==
  (\E p \in Proc : pc[p] = "sleep") => outstanding > 0 \/ committing

\* A process asleep in begin_op is woken to test again.
SleeperWakes == \A p \in Proc : pc[p] = "sleep" ~> pc[p] # "sleep"
=============================================================================
