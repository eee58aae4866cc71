------------------------------- MODULE Bcache -------------------------------
(***************************************************************************)
(* The buffer cache of kernel/bio.c with the sleep locks of                *)
(* kernel/sleeplock.c.  A critical section under bcache.lock or under the  *)
(* spinlock of a sleep lock is one step, and so is a disk transfer.        *)
(*                                                                         *)
(* A process has at most two buffers at a time, one in each hand: while it *)
(* holds the first it may bread a second (write_log and install_trans a    *)
(* home block under a log block, bmap and itrunc a bitmap block under an   *)
(* indirect one), and it may let go of either first.  Having modified a    *)
(* buffer, it writes it (bwrite) or pins it (log_write) before it lets go, *)
(* and unpins it only after a write (install_trans).                       *)
(*                                                                         *)
(* Nothing keeps the users of buffers below NBUF: bget panics when it      *)
(* finds none, and the machine stops.                                      *)
(***************************************************************************)
EXTENDS Naturals, FiniteSets, Sequences

CONSTANTS Proc,
          Block,     \* blocks of the disk (dev, blockno)
          Nested,    \* <<j, k>> when k is read by a process that holds j
          NoBlock,   \* the zeroed dev and blockno of a buffer never used
          Value,     \* contents of a block
          Zero,      \* contents of a block at the start
          Nobody,    \* pid 0
          NBUF,      \* number of buffers
          MaxPins    \* bound: buffers the log keeps pinned at a time

\* The first and the second buffer of a process.
Hand == Proc \X {1, 2}
Other(h) == <<h[1], 3 - h[2]>>

ASSUME ProcAssumption == IsFiniteSet(Proc) /\ Nobody \notin Hand
ASSUME BlockAssumption == NoBlock \notin Block
ASSUME ValueAssumption == Zero \in Value
ASSUME SizeAssumption == NBUF \in Nat \ {0} /\ MaxPins \in Nat

Buf == 1..NBUF

VARIABLES blockno, valid, refcnt, data,   \* fields of struct buf
          owner,     \* lk->pid of each b->lock, with the hand; Nobody when not locked
          lru,       \* bcache.head's list, most recently used first
          pinned,    \* buffers with a reference taken by bpin
          disk,      \* the disk
          pc, want, buf,  \* for each hand the place of its user, its blockno and its b
          panicked   \* "bget: no buffers" has stopped the machine

bufs == <<blockno, valid, refcnt, data, lru, pinned>>
vars == <<bufs, owner, disk, pc, want, buf, panicked>>

\* Places where a process has the contents of its block.
Holding == {"have", "dirty", "written"}
Waiting == {"lock", "asleep"}

TypeOK == /\ blockno \in [Buf -> Block \cup {NoBlock}]
          /\ valid \in [Buf -> BOOLEAN]
          /\ refcnt \in [Buf -> Nat]
          /\ data \in [Buf -> Value]
          /\ owner \in [Buf -> Hand \cup {Nobody}]
          /\ lru \in Seq(Buf)
          /\ pinned \in SUBSET Buf
          /\ disk \in [Block -> Value]
          /\ pc \in [Hand -> {"idle", "locked", "put"} \cup Waiting \cup Holding]
          /\ want \in [Hand -> Block \cup {NoBlock}]
          /\ buf \in [Hand -> Buf]
          /\ panicked \in BOOLEAN

\* binit puts each buffer in front of the ones before it.
Init == /\ blockno = [b \in Buf |-> NoBlock]
        /\ valid = [b \in Buf |-> FALSE]
        /\ refcnt = [b \in Buf |-> 0]
        /\ data = [b \in Buf |-> Zero]
        /\ owner = [b \in Buf |-> Nobody]
        /\ lru = [k \in Buf |-> NBUF + 1 - k]
        /\ pinned = {}
        /\ disk = [k \in Block |-> Zero]
        /\ pc = [h \in Hand |-> "idle"]
        /\ want = [h \in Hand |-> NoBlock]
        /\ buf = [h \in Hand |-> 1]
        /\ panicked = FALSE

\* A process is in one call at a time: a hand moves only while the other is empty
\* or has its block.
Free(h) == pc[Other(h)] \in {"idle"} \cup Holding

Goto(h, l) == pc' = [pc EXCEPT ![h] = l]

-----------------------------------------------------------------------------
(* bget and bread                                                          *)

Cached(k) == {b \in Buf : blockno[b] = k}
Unused == {b \in Buf : refcnt[b] = 0}

\* The buffer of S that was used least recently: lru is searched backwards.
LeastRecent(S) == lru[CHOOSE m \in 1..Len(lru) :
                        lru[m] \in S /\ \A j \in m+1..Len(lru) : lru[j] \notin S]

\* The second hand reads a block only where the code nests the two calls.
MayGet(h, k) ==
  /\ pc[h] = "idle"
  /\ IF h[2] = 1 THEN pc[Other(h)] = "idle"
                 ELSE pc[Other(h)] \in Holding /\ <<want[Other(h)], k>> \in Nested

\* The buffer has the block already.
Hit(h, k) ==
  \E b \in Cached(k) :
    /\ refcnt' = [refcnt EXCEPT ![b] = @ + 1]
    /\ buf' = [buf EXCEPT ![h] = b]
    /\ UNCHANGED <<blockno, valid>>

\* Mutants of Recycle: a buffer in use is taken; valid keeps its old value.
RecycleInUse(h, k) ==
  LET b == LeastRecent(Buf) IN
  /\ Cached(k) = {}
  /\ blockno' = [blockno EXCEPT ![b] = k]
  /\ valid' = [valid EXCEPT ![b] = FALSE]
  /\ refcnt' = [refcnt EXCEPT ![b] = 1]
  /\ buf' = [buf EXCEPT ![h] = b]
RecycleValid(h, k) ==
  LET b == LeastRecent(Unused) IN
  /\ Cached(k) = {} /\ Unused # {}
  /\ blockno' = [blockno EXCEPT ![b] = k]
  /\ refcnt' = [refcnt EXCEPT ![b] = 1]
  /\ buf' = [buf EXCEPT ![h] = b]
  /\ UNCHANGED valid

Recycle(h, k) ==
  LET b == LeastRecent(Unused) IN
  /\ Cached(k) = {} /\ Unused # {}
  /\ blockno' = [blockno EXCEPT ![b] = k]
  /\ valid' = [valid EXCEPT ![b] = FALSE]
  /\ refcnt' = [refcnt EXCEPT ![b] = 1]
  /\ buf' = [buf EXCEPT ![h] = b]

bget(h, k) ==
  /\ MayGet(h, k)
  /\ Hit(h, k) \/ Recycle(h, k)
  /\ want' = [want EXCEPT ![h] = k]
  /\ Goto(h, "lock")
  /\ UNCHANGED <<data, owner, lru, pinned, disk, panicked>>

\* bget: no buffers.
bget_panics(h, k) ==
  /\ MayGet(h, k)
  /\ Cached(k) = {} /\ Unused = {}
  /\ panicked' = TRUE
  /\ UNCHANGED <<bufs, owner, disk, pc, want, buf>>

\* One turn of the loop of acquiresleep.
acquiresleep(h) ==
  /\ Free(h) /\ pc[h] = "lock"
  /\ IF owner[buf[h]] # Nobody
       THEN Goto(h, "asleep") /\ UNCHANGED owner
       ELSE /\ owner' = [owner EXCEPT ![buf[h]] = h]
            /\ Goto(h, "locked")
  /\ UNCHANGED <<bufs, disk, want, buf, panicked>>

\* The rest of bread: a buffer that is not valid is read from the disk.
bread(h) ==
  LET b == buf[h] IN
  /\ Free(h) /\ pc[h] = "locked"
  /\ data' = IF valid[b] THEN data ELSE [data EXCEPT ![b] = disk[blockno[b]]]
  /\ valid' = [valid EXCEPT ![b] = TRUE]
  /\ Goto(h, "have")
  /\ UNCHANGED <<blockno, refcnt, lru, pinned, owner, disk, want, buf, panicked>>

-----------------------------------------------------------------------------
(* What a process does with a locked buffer                                *)

modify(h, v) ==
  /\ Free(h) /\ pc[h] \in Holding
  /\ data' = [data EXCEPT ![buf[h]] = v]
  /\ Goto(h, "dirty")
  /\ UNCHANGED <<blockno, valid, refcnt, lru, pinned, owner, disk, want, buf, panicked>>

bwrite(h) ==
  /\ Free(h) /\ pc[h] \in Holding
  /\ disk' = [disk EXCEPT ![blockno[buf[h]]] = data[buf[h]]]
  /\ Goto(h, "written")
  /\ UNCHANGED <<bufs, owner, want, buf, panicked>>

\* log_write: bpin, unless the block is in the log already.
bpin(h) ==
  LET b == buf[h] IN
  /\ Free(h) /\ pc[h] = "dirty"
  /\ \/ b \in pinned /\ UNCHANGED <<refcnt, pinned>>
     \/ /\ b \notin pinned /\ Cardinality(pinned) < MaxPins
        /\ refcnt' = [refcnt EXCEPT ![b] = @ + 1]
        /\ pinned' = pinned \cup {b}
  /\ Goto(h, "have")
  /\ UNCHANGED <<blockno, valid, data, lru, owner, disk, want, buf, panicked>>

bunpin(h) ==
  LET b == buf[h] IN
  /\ Free(h) /\ pc[h] = "written" /\ b \in pinned
  /\ refcnt' = [refcnt EXCEPT ![b] = @ - 1]
  /\ pinned' = pinned \ {b}
  /\ UNCHANGED <<blockno, valid, data, lru, owner, disk, pc, want, buf, panicked>>

-----------------------------------------------------------------------------
(* brelse                                                                  *)

\* Mutant of releasesleep: nobody is woken.
ReleasesleepQuiet(h) ==
  /\ Free(h) /\ pc[h] \in {"have", "written"}
  /\ owner' = [owner EXCEPT ![buf[h]] = Nobody]
  /\ Goto(h, "put")
  /\ UNCHANGED <<bufs, disk, want, buf, panicked>>

releasesleep(h) ==
  LET b == buf[h] IN
  /\ Free(h) /\ pc[h] \in {"have", "written"}
  /\ owner[b] = h
  /\ owner' = [owner EXCEPT ![b] = Nobody]
  /\ pc' = [q \in Hand |-> IF q = h THEN "put"
                           ELSE IF pc[q] = "asleep" /\ buf[q] = b THEN "lock"
                           ELSE pc[q]]
  /\ UNCHANGED <<bufs, disk, want, buf, panicked>>

\* The list s after b was unlinked and put in front.
MoveToFront(s, b) ==
  LET m == CHOOSE m \in 1..Len(s) : s[m] = b IN
  [k \in 1..Len(s) |-> IF k = 1 THEN b ELSE IF k <= m THEN s[k - 1] ELSE s[k]]

\* The second half of brelse: an unused buffer becomes the most recent one.
brelse(h) ==
  LET b == buf[h] IN
  /\ Free(h) /\ pc[h] = "put"
  /\ refcnt' = [refcnt EXCEPT ![b] = @ - 1]
  /\ lru' = IF refcnt[b] = 1 THEN MoveToFront(lru, b) ELSE lru
  /\ Goto(h, "idle")
  /\ want' = [want EXCEPT ![h] = NoBlock]
  /\ buf' = [buf EXCEPT ![h] = 1]
  /\ UNCHANGED <<blockno, valid, data, pinned, owner, disk, panicked>>

-----------------------------------------------------------------------------
Step(h) == \/ \E k \in Block : bget(h, k) \/ bget_panics(h, k)
           \/ acquiresleep(h) \/ releasesleep(h)
           \/ bread(h) \/ bwrite(h) \/ bpin(h) \/ bunpin(h) \/ brelse(h)
           \/ \E v \in Value : modify(h, v)

Next == \/ ~panicked /\ \E h \in Hand : Step(h)
        \/ panicked /\ UNCHANGED vars

Spec == Init /\ [][Next]_vars

-----------------------------------------------------------------------------
(* Properties.                                                             *)

\* What a bread of block k would return now.
Current(k) == IF \E b \in Cached(k) : valid[b]
                THEN data[CHOOSE b \in Cached(k) : valid[b]]
                ELSE disk[k]

Holders(k) == {h \in Hand : pc[h] \in Holding \cup {"locked"} /\ want[h] = k}

(***************************************************************************)
(* The cache is one memory: a block has one copy, whoever changes it has   *)
(* it alone, and recycling a buffer never brings back old contents.        *)
(***************************************************************************)
Memory == INSTANCE BlockMemory WITH Proc <- Hand,
                                    mem <- [k \in Block |-> Current(k)],
                                    holders <- [k \in Block |-> Holders(k)]
Coherent == Memory!Spec

\* A process that has come out of bread owns the sleep lock of a valid buffer,
\* and no other buffer caches its block: bwrite and brelse never panic.
OwnsBuffer ==
  \A h \in Hand : pc[h] \in Holding =>
    /\ owner[buf[h]] = h
    /\ valid[buf[h]]
    /\ Cached(want[h]) = {buf[h]}

\* refcnt counts the users between bget and brelse and the pin, so that bget
\* recycles no buffer somebody still points to.
RefcntExact ==
  \A b \in Buf : refcnt[b] = Cardinality({h \in Hand : pc[h] # "idle" /\ buf[h] = b})
                             + (IF b \in pinned THEN 1 ELSE 0)

\* bget gives up ("bget: no buffers") only when every buffer is really in use, by a
\* process between bget and brelse or by the log: none is lost to a stale count.
InUse(b) == b \in pinned \/ \E h \in Hand : pc[h] # "idle" /\ buf[h] = b
BgetSafe == panicked => \A b \in Buf : InUse(b)

\* No lost wakeup: whoever sleeps in acquiresleep sleeps on a lock that is held.
SleeperLocked == \A h \in Hand : pc[h] = "asleep" => owner[buf[h]] # Nobody

\* The buffers are exact: counted by their users, owned by one of them, and so
\* recycled neither too early (under a user) nor too late (a panic of bget while a
\* buffer is unused).
BuffersExact == TypeOK /\ RefcntExact /\ OwnsBuffer /\ BgetSafe
=============================================================================
