---------------------------- MODULE BcacheProofs ----------------------------
(***************************************************************************)
(* Proofs about Bcache, for any number of buffers, processes and blocks,   *)
(* and whichever blocks are read while another is held.                    *)
(*                                                                         *)
(* The counts of RefcntExact are what keeps a buffer from being recycled;  *)
(* what that protects is in Wanted and OneCopy (a user's buffer stays      *)
(* the only one of its block), Owners (the sleep lock has one owner) and   *)
(* Clean (a buffer that differs from the disk is locked or pinned).        *)
(***************************************************************************)
EXTENDS Bcache, Integers, FiniteSetTheorems, SequenceTheorems, WellFoundedInduction, TLAPS

\* Most steps are first-order; the ones that need arithmetic or many facts at once
\* name the SMT solver.
USE ZenonT(60)

\* The users that point to buffer b.
Users(b) == {h \in Hand : pc[h] # "idle" /\ buf[h] = b}

\* Every buffer is in the list.
Listed == \A b \in Buf : \E m \in 1..Len(lru) : lru[m] = b

\* The buffer of a user keeps the user's block.
Wanted == \A h \in Hand : pc[h] # "idle" =>
            want[h] \in Block /\ blockno[buf[h]] = want[h]

\* No block is cached twice.
OneCopy == \A b, c \in Buf : blockno[b] = blockno[c] /\ blockno[b] # NoBlock => b = c

\* The sleep lock of a buffer belongs to the user between acquiresleep and
\* releasesleep.
Owners == \A b \in Buf, h \in Hand :
  owner[b] = h <=> pc[h] \in Holding \cup {"locked"} /\ buf[h] = b

\* What the users have is valid, and what they wrote is on the disk.
Contents == \A h \in Hand :
  /\ pc[h] \in Holding => valid[buf[h]]
  /\ pc[h] = "written" => data[buf[h]] = disk[blockno[buf[h]]]

\* A buffer that differs from the disk is pinned or about to be.
Clean == \A b \in Buf : valid[b] =>
  /\ blockno[b] \in Block
  /\ \/ data[b] = disk[blockno[b]]
     \/ b \in pinned
     \/ \E h \in Hand : pc[h] = "dirty" /\ buf[h] = b

PinsBounded == Cardinality(pinned) <= MaxPins

IInv == /\ TypeOK /\ RefcntExact /\ SleeperLocked /\ Listed /\ Wanted /\ OneCopy
        /\ Owners /\ Contents /\ Clean /\ PinsBounded

-----------------------------------------------------------------------------
(* Counting                                                                *)

\* The hands of finitely many processes are finitely many.
LEMMA HandFinite ==
  IsFiniteSet(Hand) /\ Nobody \notin Hand
<1>1. IsFiniteSet({1, 2})
  <2>1. {1, 2} = {1} \cup {2}
    OBVIOUS
  <2>2. IsFiniteSet({1}) /\ IsFiniteSet({2})
    BY FS_Singleton
  <2> QED
    BY <2>1, <2>2, FS_Union
<1>2. IsFiniteSet(Proc \X {1, 2})
  BY <1>1, ProcAssumption, FS_Product
<1> QED
  BY <1>2, ProcAssumption DEF Hand

\* The users of a buffer are finitely many.
LEMMA UsersFinite ==
  \A b : IsFiniteSet(Users(b)) /\ Cardinality(Users(b)) \in Nat
<1> TAKE b
<1>1. Users(b) \in SUBSET Hand
  BY DEF Users
<1> QED
  BY <1>1, HandFinite, FS_Subset, FS_CardinalityType

\* There are NBUF buffers.
LEMMA BufFinite ==
  IsFiniteSet(Buf) /\ Cardinality(Buf) = NBUF
<1>1. 1 \in Int /\ NBUF \in Int
  BY SizeAssumption, SMTT(60)
<1>2. IsFiniteSet(1..NBUF) /\ Cardinality(1..NBUF) = IF 1 > NBUF THEN 0 ELSE NBUF - 1 + 1
  BY <1>1, FS_Interval
<1> QED
  BY <1>2, SizeAssumption, SMTT(60) DEF Buf

\* A buffer nobody counts has no user and is not pinned.
LEMMA UnusedFree ==
  ASSUME IInv, NEW b \in Buf, refcnt[b] = 0
  PROVE  b \notin pinned /\ \A h \in Hand : pc[h] # "idle" => buf[h] # b
<1>0. refcnt[b] = Cardinality(Users(b)) + (IF b \in pinned THEN 1 ELSE 0)
  BY DEF IInv, RefcntExact, Users
<1>1. Cardinality(Users(b)) = 0 /\ b \notin pinned
  BY <1>0, UsersFinite, SMTT(60)
<1>2. Users(b) = {}
  BY <1>1, UsersFinite, FS_EmptySet
<1> QED
  BY <1>1, <1>2 DEF Users

\* The search of the list for a buffer of S finds one, the last in the list.
LEMMA LeastRecentIs ==
  ASSUME IInv, NEW S \in SUBSET Buf, S # {}
  PROVE  LeastRecent(S) \in S
<1>1. lru \in Seq(Buf) /\ Len(lru) \in Nat
  BY SMTT(60) DEF IInv, TypeOK
<1> DEFINE T == {k \in Nat : Len(lru) - k \in 1..Len(lru) /\ lru[Len(lru) - k] \in S}
<1>2. T # {}
  <2>1. PICK b \in S : b \in Buf
    OBVIOUS
  <2>2. PICK m \in 1..Len(lru) : lru[m] = b
    BY <2>1 DEF IInv, Listed
  <2>3. Len(lru) - m \in Nat /\ Len(lru) - (Len(lru) - m) = m
    BY <1>1, <2>2, SMTT(60)
  <2>4. Len(lru) - m \in T
    BY <2>1, <2>2, <2>3
  <2> QED
    BY <2>4
<1>3. PICK x \in T : \A y \in T : ~(<<y, x>> \in OpToRel(<, Nat))
  BY <1>2, WFMin, NatLessThanWellFounded
<1>4. ASSUME NEW y \in T PROVE x <= y
  <2>1. y < x => <<y, x>> \in OpToRel(<, Nat)
    BY DEF OpToRel
  <2>2. ~(y < x)
    BY <1>3, <2>1
  <2> QED
    BY <2>2, SMTT(60)
<1> DEFINE m == Len(lru) - x
<1>5. m \in 1..Len(lru) /\ lru[m] \in S
  OBVIOUS
<1>6. ASSUME NEW j \in m+1..Len(lru) PROVE lru[j] \notin S
  <2>1. Len(lru) - j \in Nat /\ Len(lru) - (Len(lru) - j) = j /\ j \in 1..Len(lru)
    BY <1>1, <1>5, SMTT(60)
  <2>2. lru[j] \in S => Len(lru) - j \in T
    BY <2>1
  <2>3. ~(x <= Len(lru) - j)
    BY <1>1, <1>5, SMTT(60)
  <2> QED
    BY <1>4, <2>2, <2>3
<1> HIDE DEF m, T
<1> QED
  BY <1>5, <1>6 DEF LeastRecent

\* Moving a buffer to the front of the list loses none.
LEMMA MoveToFrontIs ==
  ASSUME NEW s \in Seq(Buf), NEW b \in Buf, \E m \in 1..Len(s) : s[m] = b
  PROVE  /\ MoveToFront(s, b) \in Seq(Buf)
         /\ \A m \in 1..Len(s) : \E k \in 1..Len(MoveToFront(s, b)) :
              MoveToFront(s, b)[k] = s[m]
<1> DEFINE m == CHOOSE m \in 1..Len(s) : s[m] = b
           n == Len(s)
<1>1. m \in 1..n /\ s[m] = b
  OBVIOUS
<1>2. n \in Nat /\ \A k \in 1..n : s[k] \in Buf
  BY ElementOfSeq, SMTT(60)
<1> HIDE DEF m, n
<1> DEFINE t == [k \in 1..n |-> IF k = 1 THEN b ELSE IF k <= m THEN s[k - 1] ELSE s[k]]
<1>3. MoveToFront(s, b) = t
  BY DEF MoveToFront, m, n
<1>4. ASSUME NEW k \in 1..n PROVE t[k] \in Buf
  <2>1. k # 1 => k - 1 \in 1..n
    BY <1>2, SMTT(60)
  <2> QED
    BY <1>2, <2>1
<1>5. t \in [1..n -> Buf]
  BY <1>4
<1>6. t \in Seq(Buf) /\ Len(t) = n
  BY <1>2, <1>5, SeqDef, LenProperties, SMTT(60)
<1>7. ASSUME NEW j \in 1..n PROVE \E k \in 1..n : t[k] = s[j]
  <2>1. CASE j < m
    <3>1. j + 1 \in 1..n /\ j + 1 # 1 /\ j + 1 <= m /\ j + 1 - 1 = j
      BY <1>1, <1>2, <2>1, SMTT(60)
    <3>2. t[j + 1] = s[j]
      BY <3>1, SMTT(60)
    <3> QED
      BY <3>1, <3>2
  <2>2. CASE j = m
    <3>1. 1 \in 1..n /\ t[1] = b
      BY <1>1, <1>2, SMTT(60)
    <3> QED
      BY <1>1, <2>2, <3>1
  <2>3. CASE j > m
    <3>1. j # 1 /\ ~(j <= m)
      BY <1>1, <1>2, <2>3, SMTT(60)
    <3>2. t[j] = s[j]
      BY <3>1
    <3> QED
      BY <3>2
  <2> QED
    BY <1>1, <1>2, <2>1, <2>2, <2>3, SMTT(60)
<1> HIDE DEF t
<1> QED
  BY <1>3, <1>6, <1>7 DEF n

-----------------------------------------------------------------------------
(* Initial state                                                           *)

\* Empty, unlocked buffers in a list that has them all.
LEMMA InitIInv ==
  Init => IInv
<1> SUFFICES ASSUME Init PROVE IInv
  OBVIOUS
<1>1. NBUF \in Nat
  BY SizeAssumption
<1>2. lru \in Seq(Buf) /\ Len(lru) = NBUF
  <2>1. \A k \in 1..NBUF : NBUF + 1 - k \in 1..NBUF
    BY <1>1, SMTT(60)
  <2>2. lru \in [1..NBUF -> Buf]
    BY <2>1 DEF Init, Buf
  <2> QED
    BY <1>1, <2>2, SeqDef, LenProperties, SMTT(60)
<1>3. 1 \in Buf
  BY SizeAssumption, SMTT(60) DEF Buf
<1>4. TypeOK
  <2>1. buf \in [Hand -> Buf]
    BY <1>3 DEF Init
  <2> QED
    BY <1>2, <2>1, ValueAssumption DEF Init, TypeOK
<1>5. RefcntExact
  <2>1. \A b \in Buf : {h \in Hand : pc[h] # "idle" /\ buf[h] = b} = {}
    BY DEF Init
  <2>2. Cardinality({}) = 0
    BY FS_EmptySet
  <2> QED
    BY <2>1, <2>2, SMTT(60) DEF Init, RefcntExact
<1>6. Listed
  <2> SUFFICES ASSUME NEW b \in Buf PROVE \E m \in 1..NBUF : lru[m] = b
    BY <1>2 DEF Listed
  <2>1. NBUF + 1 - b \in Buf /\ NBUF + 1 - (NBUF + 1 - b) = b
    BY <1>1, SMTT(60) DEF Buf
  <2>2. lru[NBUF + 1 - b] = b
    BY <2>1 DEF Init
  <2> QED
    BY <2>1, <2>2 DEF Buf
<1>7. SleeperLocked /\ Wanted /\ OneCopy
  BY DEF Init, SleeperLocked, Wanted, OneCopy
<1>8. Owners
  BY HandFinite DEF Init, Owners, Holding
<1>9. Contents /\ Clean
  BY DEF Init, Contents, Clean, Holding
<1>10. PinsBounded
  BY FS_EmptySet, SizeAssumption, SMTT(60) DEF Init, PinsBounded
<1> QED
  BY <1>4, <1>5, <1>6, <1>7, <1>8, <1>9, <1>10 DEF IInv

-----------------------------------------------------------------------------
(* The counts                                                              *)

\* A step that moves no user in or out of bget and brelse keeps the counts.
LEMMA RefcntKept ==
  ASSUME IInv, UNCHANGED <<refcnt, pinned, buf>>,
         \A q \in Hand : pc'[q] = "idle" <=> pc[q] = "idle"
  PROVE  RefcntExact' /\ PinsBounded'
<1>1. ASSUME NEW b
      PROVE  {h \in Hand : pc'[h] # "idle" /\ buf'[h] = b}
               = {h \in Hand : pc[h] # "idle" /\ buf[h] = b}
  OBVIOUS
<1>2. RefcntExact'
  BY <1>1 DEF IInv, RefcntExact
<1> QED
  BY <1>2 DEF IInv, PinsBounded

\* bget adds its caller to the users of the buffer it returns.
LEMMA RefcntGot ==
  ASSUME IInv, NEW h \in Hand, NEW b \in Buf, pc[h] = "idle",
         pc' = [pc EXCEPT ![h] = "lock"], buf' = [buf EXCEPT ![h] = b],
         refcnt' = [refcnt EXCEPT ![b] = @ + 1], pinned' = pinned
  PROVE  RefcntExact' /\ PinsBounded'
<1>1. /\ pc \in [Hand -> {"idle", "locked", "put"} \cup Waiting \cup Holding]
      /\ buf \in [Hand -> Buf] /\ refcnt \in [Buf -> Nat]
  BY DEF IInv, TypeOK
<1>2. ASSUME NEW c \in Buf
      PROVE  refcnt[c] = Cardinality(Users(c)) + (IF c \in pinned THEN 1 ELSE 0)
  BY DEF IInv, RefcntExact, Users
<1>3. ASSUME NEW c \in Buf, c # b PROVE Users(c)' = Users(c) /\ refcnt'[c] = refcnt[c]
  BY <1>1, <1>3 DEF Users
<1>4. Users(b)' = Users(b) \cup {h} /\ h \notin Users(b) /\ refcnt'[b] = refcnt[b] + 1
  BY <1>1 DEF Users
<1>5. Cardinality(Users(b)') = Cardinality(Users(b)) + 1
  BY <1>4, UsersFinite, FS_AddElement
<1>6. refcnt'[b] = Cardinality(Users(b)') + (IF b \in pinned' THEN 1 ELSE 0)
  BY <1>2, <1>4, <1>5, UsersFinite, SMTT(60)
<1>7. ASSUME NEW c \in Buf
      PROVE  refcnt'[c] = Cardinality(Users(c)') + (IF c \in pinned' THEN 1 ELSE 0)
  BY <1>2, <1>3, <1>6
<1>8. RefcntExact'
  BY <1>7 DEF RefcntExact, Users
<1> QED
  BY <1>8 DEF IInv, PinsBounded

\* brelse takes its caller from the users of its buffer.
LEMMA RefcntPut ==
  ASSUME IInv, NEW h \in Hand, NEW b \in Buf, pc[h] = "put", buf[h] = b,
         pc' = [pc EXCEPT ![h] = "idle"], buf' = [buf EXCEPT ![h] = 1],
         refcnt' = [refcnt EXCEPT ![b] = @ - 1], pinned' = pinned
  PROVE  RefcntExact' /\ PinsBounded' /\ refcnt[b] - 1 \in Nat
<1>1. /\ pc \in [Hand -> {"idle", "locked", "put"} \cup Waiting \cup Holding]
      /\ buf \in [Hand -> Buf] /\ refcnt \in [Buf -> Nat]
  BY DEF IInv, TypeOK
<1>2. ASSUME NEW c \in Buf
      PROVE  refcnt[c] = Cardinality(Users(c)) + (IF c \in pinned THEN 1 ELSE 0)
  BY DEF IInv, RefcntExact, Users
<1>3. ASSUME NEW c \in Buf, c # b PROVE Users(c)' = Users(c) /\ refcnt'[c] = refcnt[c]
  BY <1>1, <1>3 DEF Users
<1>4. Users(b)' = Users(b) \ {h} /\ h \in Users(b) /\ refcnt'[b] = refcnt[b] - 1
  BY <1>1 DEF Users
<1>5. Cardinality(Users(b)') = Cardinality(Users(b)) - 1 /\ Cardinality(Users(b)') \in Nat
  BY <1>4, UsersFinite, FS_RemoveElement, FS_CardinalityType
<1>6. /\ refcnt'[b] = Cardinality(Users(b)') + (IF b \in pinned' THEN 1 ELSE 0)
      /\ refcnt[b] - 1 \in Nat
  BY <1>2, <1>4, <1>5, UsersFinite, SMTT(60)
<1>7. ASSUME NEW c \in Buf
      PROVE  refcnt'[c] = Cardinality(Users(c)') + (IF c \in pinned' THEN 1 ELSE 0)
  BY <1>2, <1>3, <1>6
<1>8. RefcntExact'
  BY <1>7 DEF RefcntExact, Users
<1> QED
  BY <1>6, <1>8 DEF IInv, PinsBounded

-----------------------------------------------------------------------------
(* Steps of a user                                                       *)

\* A step that leaves the list, the block numbers and the users' buffers alone.
LEMMA PlacesKept ==
  ASSUME IInv, UNCHANGED <<blockno, lru, want, buf>>,
         \A q \in Hand : pc'[q] = "idle" <=> pc[q] = "idle"
  PROVE  Listed' /\ Wanted' /\ OneCopy'
<1>1. Listed'
  BY DEF IInv, Listed
<1>2. Wanted'
  BY DEF IInv, Wanted
<1>3. OneCopy'
  BY DEF IInv, OneCopy
<1> QED
  BY <1>1, <1>2, <1>3

\* The bget of a cached block.
LEMMA HitIInv ==
  ASSUME IInv, NEW h \in Hand, NEW k \in Block, bget(h, k), Hit(h, k)
  PROVE  IInv'
<1>1. PICK b \in Buf : /\ blockno[b] = k
                       /\ refcnt' = [refcnt EXCEPT ![b] = @ + 1]
                       /\ buf' = [buf EXCEPT ![h] = b]
                       /\ UNCHANGED <<blockno, valid>>
  BY DEF Hit, Cached
<1>2. /\ pc[h] = "idle" /\ pc' = [pc EXCEPT ![h] = "lock"]
      /\ want' = [want EXCEPT ![h] = k]
      /\ UNCHANGED <<data, owner, lru, pinned, disk, panicked>>
  BY DEF bget, MayGet, Goto
<1>3. TypeOK
  BY DEF IInv
<1>4. TypeOK'
  <2>1. refcnt[b] + 1 \in Nat
    BY <1>3, SMTT(60) DEF TypeOK
  <2> QED
    BY <1>1, <1>2, <1>3, <2>1 DEF TypeOK, Waiting
<1>5. RefcntExact' /\ PinsBounded'
  BY <1>1, <1>2, RefcntGot
<1>6. SleeperLocked'
  BY <1>1, <1>2, <1>3 DEF IInv, SleeperLocked, TypeOK
<1>7. Listed' /\ OneCopy'
  BY <1>1, <1>2 DEF IInv, Listed, OneCopy
<1>8. Wanted'
  BY <1>1, <1>2, <1>3 DEF IInv, Wanted, TypeOK
<1>9. Owners'
  BY <1>1, <1>2, <1>3, SMTT(60) DEF IInv, Owners, TypeOK, Holding
<1>10. Contents'
  BY <1>1, <1>2, <1>3 DEF IInv, Contents, TypeOK, Holding
<1>11. Clean'
  BY <1>1, <1>2, <1>3 DEF IInv, Clean, TypeOK
<1> QED
  BY <1>4, <1>5, <1>6, <1>7, <1>8, <1>9, <1>10, <1>11 DEF IInv

\* The bget that recycles a buffer: nobody points to it.
LEMMA RecycleIInv ==
  ASSUME IInv, NEW h \in Hand, NEW k \in Block, bget(h, k), Recycle(h, k)
  PROVE  IInv'
<1>0. LeastRecent(Unused) \in Unused
  BY LeastRecentIs DEF Recycle, Unused
<1>1. PICK b \in Buf : /\ refcnt[b] = 0
                       /\ blockno' = [blockno EXCEPT ![b] = k]
                       /\ valid' = [valid EXCEPT ![b] = FALSE]
                       /\ refcnt' = [refcnt EXCEPT ![b] = 1]
                       /\ buf' = [buf EXCEPT ![h] = b]
  BY <1>0 DEF Recycle, Unused
<1>2. /\ pc[h] = "idle" /\ pc' = [pc EXCEPT ![h] = "lock"]
      /\ want' = [want EXCEPT ![h] = k]
      /\ UNCHANGED <<data, owner, lru, pinned, disk, panicked>>
      /\ \A c \in Buf : blockno[c] # k
  BY DEF bget, MayGet, Goto, Recycle, Cached
<1>3. TypeOK
  BY DEF IInv
<1>4. b \notin pinned /\ \A q \in Hand : pc[q] # "idle" => buf[q] # b
  BY <1>1, UnusedFree
<1>5. TypeOK'
  BY <1>1, <1>2, <1>3 DEF TypeOK, Waiting
<1>6. RefcntExact' /\ PinsBounded'
  <2>1. refcnt' = [refcnt EXCEPT ![b] = @ + 1]
    BY <1>1, <1>3, SMTT(60) DEF TypeOK
  <2> QED
    BY <1>1, <1>2, <2>1, RefcntGot
<1>7. SleeperLocked'
  BY <1>1, <1>2, <1>3 DEF IInv, SleeperLocked, TypeOK
<1>8. Listed'
  BY <1>2 DEF IInv, Listed
<1>9. OneCopy'
  BY <1>1, <1>2, <1>3 DEF IInv, OneCopy, TypeOK
<1>10. Wanted'
  BY <1>1, <1>2, <1>3, <1>4 DEF IInv, Wanted, TypeOK
<1>11. Owners'
  BY <1>1, <1>2, <1>3, SMTT(60) DEF IInv, Owners, TypeOK, Holding
<1>12. Contents'
  <2> SUFFICES ASSUME NEW q \in Hand
               PROVE  /\ pc'[q] \in Holding => valid'[buf'[q]]
                      /\ pc'[q] = "written" => data'[buf'[q]] = disk'[blockno'[buf'[q]]]
    BY DEF Contents
  <2>1. CASE q = h
    BY <1>2, <1>3, <2>1 DEF TypeOK, Holding
  <2>2. CASE q # h /\ pc[q] \in Holding
    <3>1. buf[q] # b /\ buf[q] \in Buf /\ pc'[q] = pc[q] /\ buf'[q] = buf[q]
      BY <1>1, <1>2, <1>3, <1>4, <2>2 DEF TypeOK, Holding
    <3> QED
      BY <1>1, <1>2, <1>3, <3>1 DEF IInv, Contents, TypeOK
  <2>3. CASE q # h /\ pc[q] \notin Holding
    BY <1>2, <1>3, <2>3 DEF TypeOK, Holding
  <2> QED
    BY <2>1, <2>2, <2>3
<1>13. Clean'
  <2> SUFFICES ASSUME NEW c \in Buf, valid'[c]
               PROVE  /\ blockno'[c] \in Block
                      /\ \/ data'[c] = disk'[blockno'[c]]
                         \/ c \in pinned'
                         \/ \E q \in Hand : pc'[q] = "dirty" /\ buf'[q] = c
    BY DEF Clean
  <2>1. c # b /\ valid[c] /\ blockno'[c] = blockno[c]
    BY <1>1, <1>3 DEF TypeOK
  <2>2. ASSUME NEW q \in Hand, pc[q] = "dirty", buf[q] = c
        PROVE  pc'[q] = "dirty" /\ buf'[q] = c
    BY <1>1, <1>2, <1>3, <2>2 DEF TypeOK
  <2> QED
    BY <1>2, <2>1, <2>2, SMTT(60) DEF IInv, Clean
<1> QED
  BY <1>5, <1>6, <1>7, <1>8, <1>9, <1>10, <1>11, <1>12, <1>13 DEF IInv

\* A turn of acquiresleep: sleep, or take the free lock.
LEMMA AcquireIInv ==
  ASSUME IInv, NEW h \in Hand, acquiresleep(h)
  PROVE  IInv'
<1>1. PICK b \in Buf : b = buf[h]
  BY DEF IInv, TypeOK
<1>2. /\ pc[h] = "lock" /\ UNCHANGED <<blockno, valid, refcnt, data, lru, pinned, disk, want, buf, panicked>>
      /\ \/ owner[b] # Nobody /\ pc' = [pc EXCEPT ![h] = "asleep"] /\ owner' = owner
         \/ /\ owner[b] = Nobody /\ pc' = [pc EXCEPT ![h] = "locked"]
            /\ owner' = [owner EXCEPT ![b] = h]
  BY <1>1 DEF acquiresleep, Goto, bufs
<1>3. TypeOK
  BY DEF IInv
<1>4. TypeOK'
  <2>1. owner' \in [Buf -> Hand \cup {Nobody}]
    BY <1>2, <1>3 DEF TypeOK
  <2>2. pc' \in [Hand -> {"idle", "locked", "put"} \cup Waiting \cup Holding]
    BY <1>2, <1>3 DEF TypeOK, Waiting
  <2> QED
    BY <1>2, <1>3, <2>1, <2>2 DEF TypeOK
<1>5. \A q \in Hand : pc'[q] = "idle" <=> pc[q] = "idle"
  BY <1>2, <1>3 DEF TypeOK
<1>6. RefcntExact' /\ PinsBounded'
  BY <1>2, <1>5, RefcntKept
<1>7. Listed' /\ Wanted' /\ OneCopy'
  BY <1>2, <1>5, PlacesKept
<1>8. SleeperLocked'
  BY <1>1, <1>2, <1>3, HandFinite DEF IInv, SleeperLocked, TypeOK
<1>9. Owners'
  <2>1. CASE owner[b] # Nobody
    BY <1>1, <1>2, <1>3, <2>1, SMTT(60) DEF IInv, Owners, TypeOK, Holding
  <2>2. CASE owner[b] = Nobody
    <3> SUFFICES ASSUME NEW c \in Buf, NEW q \in Hand
                 PROVE  owner'[c] = q <=> pc'[q] \in Holding \cup {"locked"} /\ buf'[q] = c
      BY DEF Owners
    <3>1. owner[c] = q <=> pc[q] \in Holding \cup {"locked"} /\ buf[q] = c
      BY DEF IInv, Owners
    <3>2. CASE q = h
      BY <1>1, <1>2, <1>3, <2>2, <3>1, <3>2, SMTT(60) DEF TypeOK, Holding
    <3>3. CASE q # h
      BY <1>1, <1>2, <1>3, <2>2, <3>1, <3>3, HandFinite, SMTT(60) DEF TypeOK
    <3> QED
      BY <3>2, <3>3
  <2> QED
    BY <2>1, <2>2
<1>10. Contents'
  BY <1>2, <1>3, SMTT(60) DEF IInv, Contents, TypeOK, Holding
<1>11. Clean'
  BY <1>2, <1>3, SMTT(60) DEF IInv, Clean, TypeOK
<1> QED
  BY <1>4, <1>6, <1>7, <1>8, <1>9, <1>10, <1>11 DEF IInv

\* A user whose place is between acquiresleep and releasesleep is the only one
\* there with its buffer.
LEMMA OneHolder ==
  ASSUME IInv, NEW h \in Hand, pc[h] \in Holding \cup {"locked"},
         NEW q \in Hand, q # h, pc[q] \in Holding \cup {"locked"}
  PROVE  buf[q] # buf[h]
BY SMTT(60) DEF IInv, Owners, TypeOK

\* The steps of a user that owns the lock of its buffer and keeps it.
LEMMA OwnerKept ==
  ASSUME IInv, NEW h \in Hand, UNCHANGED <<owner, buf>>,
         pc[h] \in Holding \cup {"locked"}, pc'[h] \in Holding,
         \A q \in Hand : q # h => pc'[q] = pc[q]
  PROVE  /\ Owners' /\ SleeperLocked'
         /\ \A q \in Hand : pc'[q] = "idle" <=> pc[q] = "idle"
<1>1. Owners'
  BY DEF IInv, Owners, TypeOK
<1>2. SleeperLocked'
  BY DEF IInv, SleeperLocked, Holding
<1> QED
  BY <1>1, <1>2 DEF Holding

\* The rest of bread: the buffer gets the contents of its block.
LEMMA BreadIInv ==
  ASSUME IInv, NEW h \in Hand, bread(h)
  PROVE  IInv'
<1>1. PICK b \in Buf : b = buf[h]
  BY DEF IInv, TypeOK
<1>2. /\ pc[h] = "locked" /\ pc' = [pc EXCEPT ![h] = "have"]
      /\ data' = IF valid[b] THEN data ELSE [data EXCEPT ![b] = disk[blockno[b]]]
      /\ valid' = [valid EXCEPT ![b] = TRUE]
      /\ UNCHANGED <<blockno, refcnt, lru, pinned, owner, disk, want, buf, panicked>>
  BY <1>1 DEF bread, Goto
<1>3. TypeOK
  BY DEF IInv
<1>4. blockno[b] \in Block /\ disk[blockno[b]] \in Value
  BY <1>1, <1>2, <1>3 DEF IInv, Wanted, TypeOK
<1>5. pc'[h] = "have" /\ \A q \in Hand : q # h => pc'[q] = pc[q]
  BY <1>2, <1>3 DEF TypeOK
<1>6. TypeOK'
  <2>1. data' \in [Buf -> Value]
    BY <1>2, <1>3, <1>4 DEF TypeOK
  <2>2. pc' \in [Hand -> {"idle", "locked", "put"} \cup Waiting \cup Holding]
    BY <1>2, <1>3 DEF TypeOK, Holding
  <2> QED
    BY <1>2, <1>3, <2>1, <2>2 DEF TypeOK
<1>7. /\ Owners' /\ SleeperLocked'
      /\ \A q \in Hand : pc'[q] = "idle" <=> pc[q] = "idle"
  BY <1>2, <1>5, OwnerKept DEF Holding
<1>8. RefcntExact' /\ PinsBounded'
  BY <1>2, <1>7, RefcntKept
<1>9. Listed' /\ Wanted' /\ OneCopy'
  BY <1>2, <1>7, PlacesKept
<1>10. ASSUME NEW c \in Buf, c # b PROVE data'[c] = data[c] /\ valid'[c] = valid[c]
  BY <1>2, <1>3, <1>10 DEF TypeOK
<1>11. valid'[b] /\ (valid[b] => data'[b] = data[b])
       /\ (~valid[b] => data'[b] = disk[blockno[b]])
  BY <1>2, <1>3 DEF TypeOK
<1>12. Contents'
  <2> SUFFICES ASSUME NEW q \in Hand
               PROVE  /\ pc'[q] \in Holding => valid'[buf'[q]]
                      /\ pc'[q] = "written" => data'[buf'[q]] = disk'[blockno'[buf'[q]]]
    BY DEF Contents
  <2>1. CASE q = h
    BY <1>1, <1>2, <1>5, <1>11, <2>1
  <2>2. CASE q # h /\ pc[q] \in Holding
    <3>1. buf[q] \in Buf /\ buf[q] # b
      BY <1>1, <1>2, <1>3, <2>2, OneHolder DEF TypeOK
    <3> QED
      BY <1>2, <1>5, <1>10, <2>2, <3>1, SMTT(60) DEF IInv, Contents
  <2>3. CASE q # h /\ pc[q] \notin Holding
    BY <1>5, <2>3 DEF Holding
  <2> QED
    BY <2>1, <2>2, <2>3
<1>13. Clean'
  <2> SUFFICES ASSUME NEW c \in Buf, valid'[c]
               PROVE  /\ blockno[c] \in Block
                      /\ \/ data'[c] = disk[blockno[c]]
                         \/ c \in pinned
                         \/ \E q \in Hand : pc'[q] = "dirty" /\ buf[q] = c
    BY <1>2 DEF Clean
  <2>1. ASSUME NEW q \in Hand, pc[q] = "dirty" PROVE pc'[q] = "dirty"
    BY <1>2, <1>5, <2>1
  <2>2. CASE valid[c]
    <3>1. data'[c] = data[c]
      BY <1>10, <1>11, <2>2
    <3> QED
      BY <2>1, <2>2, <3>1 DEF IInv, Clean
  <2>3. CASE ~valid[c]
    BY <1>4, <1>10, <1>11, <2>3
  <2> QED
    BY <2>2, <2>3
<1> QED
  BY <1>6, <1>7, <1>8, <1>9, <1>12, <1>13 DEF IInv

\* A change of the contents.
LEMMA ModifyIInv ==
  ASSUME IInv, NEW h \in Hand, NEW v \in Value, modify(h, v)
  PROVE  IInv'
<1>1. PICK b \in Buf : b = buf[h]
  BY DEF IInv, TypeOK
<1>2. /\ pc[h] \in Holding /\ pc' = [pc EXCEPT ![h] = "dirty"]
      /\ data' = [data EXCEPT ![b] = v]
      /\ UNCHANGED <<blockno, valid, refcnt, lru, pinned, owner, disk, want, buf, panicked>>
  BY <1>1 DEF modify, Goto
<1>3. TypeOK
  BY DEF IInv
<1>4. pc'[h] = "dirty" /\ \A q \in Hand : q # h => pc'[q] = pc[q]
  BY <1>2, <1>3 DEF TypeOK
<1>5. TypeOK'
  BY <1>2, <1>3 DEF TypeOK, Holding
<1>6. /\ Owners' /\ SleeperLocked'
      /\ \A q \in Hand : pc'[q] = "idle" <=> pc[q] = "idle"
  BY <1>2, <1>4, OwnerKept DEF Holding
<1>7. RefcntExact' /\ PinsBounded'
  BY <1>2, <1>6, RefcntKept
<1>8. Listed' /\ Wanted' /\ OneCopy'
  BY <1>2, <1>6, PlacesKept
<1>9. ASSUME NEW c \in Buf, c # b PROVE data'[c] = data[c]
  BY <1>2, <1>3, <1>9 DEF TypeOK
<1>10. Contents'
  <2> SUFFICES ASSUME NEW q \in Hand
               PROVE  /\ pc'[q] \in Holding => valid[buf[q]]
                      /\ pc'[q] = "written" => data'[buf[q]] = disk[blockno[buf[q]]]
    BY <1>2 DEF Contents
  <2>1. CASE q = h
    BY <1>2, <1>4, <2>1 DEF IInv, Contents
  <2>2. CASE q # h /\ pc[q] \in Holding
    <3>1. buf[q] \in Buf /\ buf[q] # b
      BY <1>1, <1>2, <1>3, <2>2, OneHolder DEF TypeOK
    <3> QED
      BY <1>4, <1>9, <2>2, <3>1 DEF IInv, Contents
  <2>3. CASE q # h /\ pc[q] \notin Holding
    BY <1>4, <2>3 DEF Holding
  <2> QED
    BY <2>1, <2>2, <2>3
<1>11. Clean'
  <2> SUFFICES ASSUME NEW c \in Buf, valid[c]
               PROVE  /\ blockno[c] \in Block
                      /\ \/ data'[c] = disk[blockno[c]]
                         \/ c \in pinned
                         \/ \E q \in Hand : pc'[q] = "dirty" /\ buf[q] = c
    BY <1>2 DEF Clean
  <2>1. ASSUME NEW q \in Hand, pc[q] = "dirty" PROVE pc'[q] = "dirty"
    BY <1>4, <2>1
  <2>2. CASE c = b
    BY <1>1, <1>4, <2>2 DEF IInv, Clean
  <2>3. CASE c # b
    BY <1>9, <2>1, <2>3 DEF IInv, Clean
  <2> QED
    BY <2>2, <2>3
<1> QED
  BY <1>5, <1>6, <1>7, <1>8, <1>10, <1>11 DEF IInv

\* bwrite: the only buffer of the block now agrees with the disk.
LEMMA BwriteIInv ==
  ASSUME IInv, NEW h \in Hand, bwrite(h)
  PROVE  IInv'
<1>1. PICK b \in Buf : b = buf[h]
  BY DEF IInv, TypeOK
<1>2. /\ pc[h] \in Holding /\ pc' = [pc EXCEPT ![h] = "written"]
      /\ disk' = [disk EXCEPT ![blockno[b]] = data[b]]
      /\ UNCHANGED <<blockno, valid, refcnt, data, lru, pinned, owner, want, buf, panicked>>
  BY <1>1 DEF bwrite, Goto, bufs
<1>3. TypeOK
  BY DEF IInv
<1>4. blockno[b] \in Block /\ blockno[b] # NoBlock
  BY <1>1, <1>2, BlockAssumption DEF IInv, Wanted, Holding
<1>5. pc'[h] = "written" /\ \A q \in Hand : q # h => pc'[q] = pc[q]
  BY <1>2, <1>3 DEF TypeOK
<1>6. TypeOK'
  BY <1>2, <1>3 DEF TypeOK, Holding
<1>7. /\ Owners' /\ SleeperLocked'
      /\ \A q \in Hand : pc'[q] = "idle" <=> pc[q] = "idle"
  BY <1>2, <1>5, OwnerKept DEF Holding
<1>8. RefcntExact' /\ PinsBounded'
  BY <1>2, <1>7, RefcntKept
<1>9. Listed' /\ Wanted' /\ OneCopy'
  BY <1>2, <1>7, PlacesKept
<1>10. data[b] = disk'[blockno[b]]
  BY <1>2, <1>3, <1>4 DEF TypeOK
<1>11. ASSUME NEW c \in Buf, c # b PROVE disk'[blockno[c]] = disk[blockno[c]]
  <2>1. blockno[c] # blockno[b]
    BY <1>4, <1>11 DEF IInv, OneCopy
  <2> QED
    BY <1>2, <1>3, <2>1, SMTT(60) DEF TypeOK
<1>12. Contents'
  <2> SUFFICES ASSUME NEW q \in Hand
               PROVE  /\ pc'[q] \in Holding => valid[buf[q]]
                      /\ pc'[q] = "written" => data[buf[q]] = disk'[blockno[buf[q]]]
    BY <1>2 DEF Contents
  <2>1. CASE q = h
    BY <1>1, <1>2, <1>10, <2>1 DEF IInv, Contents
  <2>2. CASE q # h /\ pc[q] \in Holding
    <3>1. buf[q] \in Buf /\ buf[q] # b
      BY <1>1, <1>2, <1>3, <2>2, OneHolder DEF TypeOK
    <3> QED
      BY <1>5, <1>11, <2>2, <3>1 DEF IInv, Contents
  <2>3. CASE q # h /\ pc[q] \notin Holding
    BY <1>5, <2>3 DEF Holding
  <2> QED
    BY <2>1, <2>2, <2>3
<1>13. Clean'
  <2> SUFFICES ASSUME NEW c \in Buf, valid[c]
               PROVE  /\ blockno[c] \in Block
                      /\ \/ data[c] = disk'[blockno[c]]
                         \/ c \in pinned
                         \/ \E q \in Hand : pc'[q] = "dirty" /\ buf[q] = c
    BY <1>2 DEF Clean
  <2>1. CASE c = b
    BY <1>4, <1>10, <2>1
  <2>2. CASE c # b
    <3>1. ASSUME NEW q \in Hand, pc[q] = "dirty", buf[q] = c PROVE pc'[q] = "dirty"
      BY <1>1, <1>5, <2>2, <3>1
    <3> QED
      BY <1>11, <2>2, <3>1 DEF IInv, Clean
  <2> QED
    BY <2>1, <2>2
<1> QED
  BY <1>6, <1>7, <1>8, <1>9, <1>12, <1>13 DEF IInv

\* log_write of a block the log has already.
LEMMA AbsorbedIInv ==
  ASSUME IInv, NEW h \in Hand, bpin(h), buf[h] \in pinned
  PROVE  IInv'
<1>1. PICK b \in Buf : b = buf[h]
  BY DEF IInv, TypeOK
<1>2. /\ pc[h] = "dirty" /\ pc' = [pc EXCEPT ![h] = "have"]
      /\ UNCHANGED <<blockno, valid, refcnt, data, lru, pinned, owner, disk, want, buf, panicked>>
  BY <1>1 DEF bpin, Goto
<1>3. TypeOK
  BY DEF IInv
<1>4. pc'[h] = "have" /\ \A q \in Hand : q # h => pc'[q] = pc[q]
  BY <1>2, <1>3 DEF TypeOK
<1>5. TypeOK'
  BY <1>2, <1>3 DEF TypeOK, Holding
<1>6. /\ Owners' /\ SleeperLocked'
      /\ \A q \in Hand : pc'[q] = "idle" <=> pc[q] = "idle"
  BY <1>2, <1>4, OwnerKept DEF Holding
<1>7. RefcntExact' /\ PinsBounded'
  BY <1>2, <1>6, RefcntKept
<1>8. Listed' /\ Wanted' /\ OneCopy'
  BY <1>2, <1>6, PlacesKept
<1>9. Contents'
  BY <1>2, <1>4 DEF IInv, Contents, Holding
<1>10. Clean'
  BY <1>1, <1>2, <1>4, SMTT(60) DEF IInv, Clean
<1> QED
  BY <1>5, <1>6, <1>7, <1>8, <1>9, <1>10 DEF IInv

\* log_write of a block that is new to the log: the pin counts as one user.
LEMMA PinnedIInv ==
  ASSUME IInv, NEW h \in Hand, bpin(h), buf[h] \notin pinned
  PROVE  IInv'
<1>1. PICK b \in Buf : b = buf[h]
  BY DEF IInv, TypeOK
<1>2. /\ pc[h] = "dirty" /\ pc' = [pc EXCEPT ![h] = "have"]
      /\ b \notin pinned /\ Cardinality(pinned) < MaxPins
      /\ refcnt' = [refcnt EXCEPT ![b] = @ + 1] /\ pinned' = pinned \cup {b}
      /\ UNCHANGED <<blockno, valid, data, lru, owner, disk, want, buf, panicked>>
  BY <1>1 DEF bpin, Goto
<1>3. TypeOK
  BY DEF IInv
<1>4. pc'[h] = "have" /\ \A q \in Hand : q # h => pc'[q] = pc[q]
  BY <1>2, <1>3 DEF TypeOK
<1>5. TypeOK'
  <2>1. refcnt[b] + 1 \in Nat
    BY <1>3, SMTT(60) DEF TypeOK
  <2> QED
    BY <1>2, <1>3, <2>1 DEF TypeOK, Holding
<1>6. /\ Owners' /\ SleeperLocked'
      /\ \A q \in Hand : pc'[q] = "idle" <=> pc[q] = "idle"
  BY <1>2, <1>4, OwnerKept DEF Holding
<1>7. RefcntExact'
  <2> SUFFICES ASSUME NEW c \in Buf
               PROVE  refcnt'[c] = Cardinality(Users(c)') + (IF c \in pinned' THEN 1 ELSE 0)
    BY DEF RefcntExact, Users
  <2>1. refcnt[c] = Cardinality(Users(c)) + (IF c \in pinned THEN 1 ELSE 0)
    BY DEF IInv, RefcntExact, Users
  <2>2. Users(c)' = Users(c)
    BY <1>2, <1>6 DEF Users
  <2>3. CASE c = b
    <3>1. refcnt'[b] = refcnt[b] + 1 /\ b \in pinned'
      BY <1>2, <1>3 DEF TypeOK
    <3> QED
      BY <1>2, <2>1, <2>2, <2>3, <3>1, UsersFinite, SMTT(60)
  <2>4. CASE c # b
    BY <1>2, <1>3, <2>1, <2>2, <2>4 DEF TypeOK
  <2> QED
    BY <2>3, <2>4
<1>8. PinsBounded'
  <2>1. IsFiniteSet(pinned)
    BY <1>3, BufFinite, FS_Subset DEF TypeOK
  <2>2. Cardinality(pinned \cup {b}) = Cardinality(pinned) + 1 /\ Cardinality(pinned) \in Nat
    BY <1>2, <2>1, FS_AddElement, FS_CardinalityType
  <2> QED
    BY <1>2, <2>2, SizeAssumption, SMTT(60) DEF PinsBounded
<1>9. Listed' /\ Wanted' /\ OneCopy'
  BY <1>2, <1>6, PlacesKept
<1>10. Contents'
  BY <1>2, <1>4 DEF IInv, Contents, Holding
<1>11. Clean'
  BY <1>1, <1>2, <1>4, SMTT(60) DEF IInv, Clean
<1> QED
  BY <1>5, <1>6, <1>7, <1>8, <1>9, <1>10, <1>11 DEF IInv

\* install_trans unpins a buffer it has just written.
LEMMA UnpinnedIInv ==
  ASSUME IInv, NEW h \in Hand, bunpin(h)
  PROVE  IInv'
<1>1. PICK b \in Buf : b = buf[h]
  BY DEF IInv, TypeOK
<1>2. /\ pc[h] = "written" /\ b \in pinned
      /\ refcnt' = [refcnt EXCEPT ![b] = @ - 1] /\ pinned' = pinned \ {b}
      /\ UNCHANGED <<blockno, valid, data, lru, owner, disk, pc, want, buf, panicked>>
  BY <1>1 DEF bunpin
<1>3. TypeOK
  BY DEF IInv
<1>4. ASSUME NEW c \in Buf
      PROVE  refcnt[c] = Cardinality(Users(c)) + (IF c \in pinned THEN 1 ELSE 0)
  BY DEF IInv, RefcntExact, Users
<1>5. refcnt[b] - 1 \in Nat
  BY <1>2, <1>4, UsersFinite, SMTT(60)
<1>6. TypeOK'
  BY <1>2, <1>3, <1>5 DEF TypeOK
<1>7. RefcntExact'
  <2> SUFFICES ASSUME NEW c \in Buf
               PROVE  refcnt'[c] = Cardinality(Users(c)') + (IF c \in pinned' THEN 1 ELSE 0)
    BY DEF RefcntExact, Users
  <2>1. Users(c)' = Users(c)
    BY <1>2 DEF Users
  <2>2. CASE c = b
    <3>1. refcnt'[b] = refcnt[b] - 1 /\ b \notin pinned'
      BY <1>2, <1>3 DEF TypeOK
    <3> QED
      BY <1>2, <1>4, <2>1, <2>2, <3>1, UsersFinite, SMTT(60)
  <2>3. CASE c # b
    BY <1>2, <1>3, <1>4, <2>1, <2>3 DEF TypeOK
  <2> QED
    BY <2>2, <2>3
<1>8. PinsBounded'
  <2>1. IsFiniteSet(pinned)
    BY <1>3, BufFinite, FS_Subset DEF TypeOK
  <2>2. Cardinality(pinned \ {b}) = Cardinality(pinned) - 1 /\ Cardinality(pinned) \in Nat
    BY <1>2, <2>1, FS_RemoveElement, FS_CardinalityType
  <2> QED
    BY <1>2, <2>2, SizeAssumption, SMTT(60) DEF IInv, PinsBounded
<1>9. Listed' /\ Wanted' /\ OneCopy' /\ Owners' /\ SleeperLocked' /\ Contents'
  BY <1>2, SMTT(60) DEF IInv, Listed, Wanted, OneCopy, Owners, SleeperLocked, Contents
<1>10. Clean'
  <2> SUFFICES ASSUME NEW c \in Buf, valid[c]
               PROVE  /\ blockno[c] \in Block
                      /\ \/ data[c] = disk[blockno[c]]
                         \/ c \in pinned'
                         \/ \E q \in Hand : pc[q] = "dirty" /\ buf[q] = c
    BY <1>2 DEF Clean
  <2>1. data[b] = disk[blockno[b]]
    BY <1>1, <1>2 DEF IInv, Contents
  <2> QED
    BY <1>2, <2>1 DEF IInv, Clean
<1> QED
  BY <1>6, <1>7, <1>8, <1>9, <1>10 DEF IInv

\* releasesleep frees the lock and wakes all who sleep on it.
LEMMA ReleaseIInv ==
  ASSUME IInv, NEW h \in Hand, releasesleep(h)
  PROVE  IInv'
<1>1. PICK b \in Buf : b = buf[h]
  BY DEF IInv, TypeOK
<1>2. /\ pc[h] \in {"have", "written"} /\ owner[b] = h
      /\ owner' = [owner EXCEPT ![b] = Nobody]
      /\ pc' = [q \in Hand |-> IF q = h THEN "put"
                               ELSE IF pc[q] = "asleep" /\ buf[q] = b THEN "lock"
                               ELSE pc[q]]
      /\ UNCHANGED <<blockno, valid, refcnt, data, lru, pinned, disk, want, buf, panicked>>
  BY <1>1 DEF releasesleep, bufs
<1>3. TypeOK
  BY DEF IInv
<1>4. \A q \in Hand : pc'[q] = "idle" <=> pc[q] = "idle"
  BY <1>2
<1>5. \A q \in Hand : q # h /\ pc[q] \in Holding \cup {"locked"} => pc'[q] = pc[q]
  BY <1>2 DEF Holding
<1>6. \A q \in Hand : pc'[q] \in Holding \cup {"locked"} => q # h /\ pc[q] = pc'[q]
  BY <1>2 DEF Holding
<1>7. TypeOK'
  <2>1. pc' \in [Hand -> {"idle", "locked", "put"} \cup Waiting \cup Holding]
    BY <1>2, <1>3 DEF TypeOK, Waiting
  <2> QED
    BY <1>2, <1>3, <2>1 DEF TypeOK
<1>8. RefcntExact' /\ PinsBounded'
  BY <1>2, <1>4, RefcntKept
<1>9. Listed' /\ Wanted' /\ OneCopy'
  BY <1>2, <1>4, PlacesKept
<1>10. SleeperLocked'
  BY <1>2, <1>3 DEF IInv, SleeperLocked, TypeOK
<1>11. Owners'
  <2> SUFFICES ASSUME NEW c \in Buf, NEW q \in Hand
               PROVE  owner'[c] = q <=> pc'[q] \in Holding \cup {"locked"} /\ buf[q] = c
    BY <1>2, SMTT(60) DEF Owners
  <2>1. owner[c] = q <=> pc[q] \in Holding \cup {"locked"} /\ buf[q] = c
    BY DEF IInv, Owners
  <2>2. CASE c = b
    <3>1. owner'[c] = Nobody /\ Nobody # q
      BY <1>2, <1>3, <2>2, HandFinite DEF TypeOK
    <3>2. pc'[q] \in Holding \cup {"locked"} => buf[q] # b
      BY <1>1, <1>2, <1>6, OneHolder DEF Holding
    <3> QED
      BY <2>2, <3>1, <3>2
  <2>3. CASE c # b
    <3>1. owner'[c] = owner[c]
      BY <1>2, <1>3, <2>3 DEF TypeOK
    <3> QED
      BY <1>1, <1>5, <1>6, <2>1, <2>3, <3>1
  <2> QED
    BY <2>2, <2>3
<1>12. Contents'
  BY <1>2, <1>6 DEF IInv, Contents, Holding
<1>13. Clean'
  <2>1. ASSUME NEW q \in Hand, pc[q] = "dirty" PROVE pc'[q] = "dirty"
    BY <1>2, <2>1
  <2> QED
    BY <1>2, <2>1 DEF IInv, Clean
<1> QED
  BY <1>7, <1>8, <1>9, <1>10, <1>11, <1>12, <1>13 DEF IInv

\* brelse drops the reference and moves an unused buffer to the front.
LEMMA BrelseIInv ==
  ASSUME IInv, NEW h \in Hand, brelse(h)
  PROVE  IInv'
<1>1. PICK b \in Buf : b = buf[h]
  BY DEF IInv, TypeOK
<1>2. /\ pc[h] = "put" /\ pc' = [pc EXCEPT ![h] = "idle"]
      /\ refcnt' = [refcnt EXCEPT ![b] = @ - 1]
      /\ lru' = lru \/ lru' = MoveToFront(lru, b)
      /\ want' = [want EXCEPT ![h] = NoBlock] /\ buf' = [buf EXCEPT ![h] = 1]
      /\ UNCHANGED <<blockno, valid, data, pinned, owner, disk, panicked>>
  BY <1>1 DEF brelse, Goto
<1>3. TypeOK
  BY DEF IInv
<1>4. RefcntExact' /\ PinsBounded' /\ refcnt[b] - 1 \in Nat
  BY <1>1, <1>2, RefcntPut
<1>5. 1 \in Buf
  BY <1>1, SizeAssumption, SMTT(60) DEF Buf
<1>6. pc'[h] = "idle" /\ \A q \in Hand : q # h => pc'[q] = pc[q] /\ buf'[q] = buf[q]
  BY <1>2, <1>3 DEF TypeOK
<1>7. lru' \in Seq(Buf) /\ Listed'
  <2>1. lru \in Seq(Buf) /\ \E m \in 1..Len(lru) : lru[m] = b
    BY <1>3 DEF IInv, Listed, TypeOK
  <2>2. CASE lru' = MoveToFront(lru, b)
    <3>1. /\ lru' \in Seq(Buf)
          /\ \A m \in 1..Len(lru) : \E k \in 1..Len(lru') : lru'[k] = lru[m]
      BY <2>1, <2>2, MoveToFrontIs
    <3> QED
      BY <3>1 DEF IInv, Listed
  <2>3. CASE lru' = lru
    BY <2>1, <2>3 DEF IInv, Listed
  <2> QED
    BY <1>2, <2>2, <2>3
<1>8. TypeOK'
  BY <1>2, <1>3, <1>4, <1>5, <1>7 DEF TypeOK
<1>9. SleeperLocked'
  BY <1>2, <1>6 DEF IInv, SleeperLocked
<1>10. Wanted'
  BY <1>2, <1>3, <1>6 DEF IInv, Wanted, TypeOK
<1>11. OneCopy'
  BY <1>2 DEF IInv, OneCopy
<1>12. Owners'
  BY <1>2, <1>6, SMTT(60) DEF IInv, Owners, Holding
<1>13. Contents'
  BY <1>2, <1>6 DEF IInv, Contents, Holding
<1>14. Clean'
  BY <1>2, <1>6, SMTT(60) DEF IInv, Clean
<1> QED
  BY <1>4, <1>7, <1>8, <1>9, <1>10, <1>11, <1>12, <1>13, <1>14 DEF IInv

\* A step that changes panicked at most.
LEMMA SameIInv ==
  ASSUME IInv, panicked' \in BOOLEAN, UNCHANGED <<bufs, owner, disk, pc, want, buf>>
  PROVE  IInv'
<1>0. UNCHANGED <<blockno, valid, refcnt, data, lru, pinned, owner, disk, pc, want, buf>>
  BY DEF bufs
<1>1. TypeOK'
  BY <1>0 DEF IInv, TypeOK
<1>2. RefcntExact' /\ PinsBounded'
  BY <1>0, RefcntKept
<1>3. Listed' /\ Wanted' /\ OneCopy'
  BY <1>0, PlacesKept
<1>4. SleeperLocked'
  BY <1>0 DEF IInv, SleeperLocked
<1>5. Owners'
  BY <1>0, SMTT(60) DEF IInv, Owners
<1>6. Contents'
  BY <1>0 DEF IInv, Contents
<1>7. Clean'
  BY <1>0, SMTT(60) DEF IInv, Clean
<1> QED
  BY <1>1, <1>2, <1>3, <1>4, <1>5, <1>6, <1>7 DEF IInv

\* The bget that finds no buffer.
LEMMA PanicIInv ==
  ASSUME IInv, NEW h \in Hand, NEW k \in Block, bget_panics(h, k)
  PROVE  IInv'
BY SameIInv DEF bget_panics

-----------------------------------------------------------------------------
(* Safety                                                                  *)

\* Every step keeps the inductive invariant.
LEMMA NextIInv ==
  IInv /\ [Next]_vars => IInv'
<1> SUFFICES ASSUME IInv, [Next]_vars PROVE IInv'
  OBVIOUS
<1>1. CASE UNCHANGED vars
  <2>1. panicked' \in BOOLEAN /\ UNCHANGED <<bufs, owner, disk, pc, want, buf>>
    BY <1>1 DEF vars, IInv, TypeOK
  <2> QED
    BY <2>1, SameIInv
<1>2. CASE \E h \in Hand : Step(h)
  <2>1. PICK h \in Hand : Step(h)
    BY <1>2
  <2>2. ASSUME NEW k \in Block, bget(h, k) PROVE IInv'
    BY <2>2, HitIInv, RecycleIInv DEF bget
  <2>3. CASE acquiresleep(h)
    BY <2>3, AcquireIInv
  <2>4. CASE releasesleep(h)
    BY <2>4, ReleaseIInv
  <2>5. CASE bread(h)
    BY <2>5, BreadIInv
  <2>6. CASE bwrite(h)
    BY <2>6, BwriteIInv
  <2>7. CASE bpin(h)
    BY <2>7, AbsorbedIInv, PinnedIInv
  <2>8. CASE bunpin(h)
    BY <2>8, UnpinnedIInv
  <2>9. CASE brelse(h)
    BY <2>9, BrelseIInv
  <2>10. ASSUME NEW v \in Value, modify(h, v) PROVE IInv'
    BY <2>10, ModifyIInv
  <2>11. ASSUME NEW k \in Block, bget_panics(h, k) PROVE IInv'
    BY <2>11, PanicIInv
  <2> QED
    BY <2>1, <2>2, <2>3, <2>4, <2>5, <2>6, <2>7, <2>8, <2>9, <2>10, <2>11 DEF Step
<1> QED
  BY <1>1, <1>2 DEF Next

\* A buffer that is counted has a user or is pinned.
LEMMA CountedInUse ==
  ASSUME IInv, NEW b \in Buf, refcnt[b] # 0
  PROVE  InUse(b)
<1> SUFFICES ASSUME b \notin pinned PROVE \E h \in Hand : pc[h] # "idle" /\ buf[h] = b
  BY DEF InUse
<1>0. refcnt[b] = Cardinality(Users(b)) + (IF b \in pinned THEN 1 ELSE 0)
  BY DEF IInv, RefcntExact, Users
<1>1. refcnt[b] = Cardinality(Users(b))
  BY <1>0, UsersFinite, SMTT(60)
<1>2. Users(b) # {}
  BY <1>1, FS_EmptySet
<1> QED
  BY <1>2 DEF Users

\* bget gives up only when all buffers are in use; every other step leaves panicked
\* alone, and none is taken afterwards.
LEMMA NextBgetSafe ==
  IInv /\ BgetSafe /\ [Next]_vars => BgetSafe'
<1> SUFFICES ASSUME IInv, BgetSafe, [Next]_vars PROVE BgetSafe'
  OBVIOUS
<1>1. CASE UNCHANGED vars
  BY <1>1 DEF BgetSafe, InUse, vars, bufs
<1>2. ASSUME NEW h \in Hand, NEW k \in Block, bget_panics(h, k) PROVE BgetSafe'
  <2>1. Unused = {} /\ UNCHANGED <<pc, buf, pinned>>
    BY <1>2 DEF bget_panics, bufs
  <2>2. ASSUME NEW b \in Buf PROVE InUse(b)
    BY <2>1, CountedInUse DEF Unused
  <2> QED
    BY <2>1, <2>2 DEF BgetSafe, InUse
<1>3. ASSUME ~panicked, panicked' = panicked PROVE BgetSafe'
  BY <1>3 DEF BgetSafe
<1>4. ASSUME ~panicked, NEW h \in Hand, Step(h) PROVE BgetSafe'
  <2>1. CASE \E k \in Block : bget(h, k)
    BY <1>3, <1>4, <2>1 DEF bget
  <2>2. CASE \E k \in Block : bget_panics(h, k)
    BY <1>2, <2>2
  <2>3. CASE acquiresleep(h) \/ releasesleep(h)
    BY <1>3, <1>4, <2>3 DEF acquiresleep, releasesleep
  <2>4. CASE bread(h) \/ bwrite(h)
    BY <1>3, <1>4, <2>4 DEF bread, bwrite
  <2>5. CASE bpin(h) \/ bunpin(h) \/ brelse(h)
    BY <1>3, <1>4, <2>5 DEF bpin, bunpin, brelse
  <2>6. CASE \E v \in Value : modify(h, v)
    BY <1>3, <1>4, <2>6 DEF modify
  <2> QED
    BY <1>4, <2>1, <2>2, <2>3, <2>4, <2>5, <2>6 DEF Step
<1> QED
  BY <1>1, <1>4 DEF Next

\* The inductive invariant gives the invariant of the buffers.
LEMMA IInvExact ==
  IInv /\ BgetSafe => BuffersExact
<1> SUFFICES ASSUME IInv PROVE OwnsBuffer
  BY DEF IInv, BuffersExact
<1>1. OwnsBuffer
  <2> SUFFICES ASSUME NEW h \in Hand, pc[h] \in Holding
               PROVE  /\ owner[buf[h]] = h /\ valid[buf[h]]
                      /\ Cached(want[h]) = {buf[h]}
    BY DEF OwnsBuffer
  <2>1. buf[h] \in Buf /\ pc[h] # "idle"
    BY DEF IInv, TypeOK, Holding
  <2>2. owner[buf[h]] = h /\ valid[buf[h]]
    BY <2>1 DEF IInv, Owners, Contents
  <2>3. want[h] # NoBlock /\ blockno[buf[h]] = want[h]
    BY <2>1, BlockAssumption DEF IInv, Wanted
  <2>4. Cached(want[h]) = {buf[h]}
    BY <2>1, <2>3 DEF Cached, IInv, OneCopy
  <2> QED
    BY <2>2, <2>4
<1> QED
  BY <1>1

(***************************************************************************)
(* The inductive invariant holds throughout.                               *)
(***************************************************************************)
THEOREM Invariance == Spec => []IInv
<1> QED
  BY InitIInv, NextIInv, PTL DEF Spec

(***************************************************************************)
(* Reference counts, sleep locks and block numbers of the buffers agree    *)
(* with what the users of bread, bwrite, bpin and brelse are doing, and    *)
(* bget panics only when every buffer is in use.                           *)
(***************************************************************************)
THEOREM BuffersAreExact == Spec => []BuffersExact
<1>1. Init => BgetSafe
  BY DEF Init, BgetSafe
<1> QED
  BY <1>1, Invariance, NextBgetSafe, IInvExact, PTL DEF Spec

(***************************************************************************)
(* Nobody sleeps in acquiresleep on a lock that is free.                   *)
(***************************************************************************)
THEOREM SleepersAreLocked == Spec => []SleeperLocked
<1>1. IInv => SleeperLocked
  BY DEF IInv
<1> QED
  BY <1>1, Invariance, PTL

-----------------------------------------------------------------------------
(* Refinement of BlockMemory                                               *)

\* No block of bn is in two buffers.
Single(bn, k) == \A b, c \in Buf : bn[b] = k /\ bn[c] = k => b = c

\* Current for the fields bn, vd, dt of the buffers and the disk dk.
CurrentOf(bn, vd, dt, dk, k) ==
  IF \E b \in {c \in Buf : bn[c] = k} : vd[b]
    THEN dt[CHOOSE b \in {c \in Buf : bn[c] = k} : vd[b]]
    ELSE dk[k]

\* The contents of a block are those of its valid buffer or of the disk.
LEMMA CurrentOfIs ==
  ASSUME NEW bn, NEW vd, NEW dt, NEW dk, NEW k, Single(bn, k)
  PROVE  /\ \A b \in Buf : bn[b] = k /\ vd[b] => CurrentOf(bn, vd, dt, dk, k) = dt[b]
         /\ (\A b \in Buf : bn[b] = k => ~vd[b]) => CurrentOf(bn, vd, dt, dk, k) = dk[k]
<1>1. ASSUME NEW b \in Buf, bn[b] = k, vd[b]
      PROVE  CurrentOf(bn, vd, dt, dk, k) = dt[b]
  <2> DEFINE c == CHOOSE c \in {c \in Buf : bn[c] = k} : vd[c]
  <2>1. c \in Buf /\ bn[c] = k
    BY <1>1
  <2>2. c = b
    BY <1>1, <2>1 DEF Single
  <2>3. CurrentOf(bn, vd, dt, dk, k) = dt[c]
    BY <1>1 DEF CurrentOf
  <2> QED
    BY <2>2, <2>3
<1>2. ASSUME \A b \in Buf : bn[b] = k => ~vd[b]
      PROVE  CurrentOf(bn, vd, dt, dk, k) = dk[k]
  BY <1>2 DEF CurrentOf
<1> QED
  BY <1>1, <1>2

\* Current(k) and Current(k)'.
LEMMA CurrentIs ==
  ASSUME IInv, IInv', NEW k \in Block
  PROVE  /\ Single(blockno, k) /\ Single(blockno', k)
         /\ Current(k) = CurrentOf(blockno, valid, data, disk, k)
         /\ Current(k)' = CurrentOf(blockno', valid', data', disk', k)
<1>1. Single(blockno, k) /\ Single(blockno', k)
  BY BlockAssumption DEF IInv, OneCopy, Single
<1>2. Current(k) = CurrentOf(blockno, valid, data, disk, k)
  BY DEF Current, CurrentOf, Cached
<1>3. Current(k)' = CurrentOf(blockno', valid', data', disk', k)
  BY DEF Current, CurrentOf, Cached
<1> QED
  BY <1>1, <1>2, <1>3

\* Contents that a step does not change: a valid buffer stays what it is, and a
\* buffer that comes or goes agrees with the disk.
LEMMA CurrentKept ==
  ASSUME IInv, IInv', NEW k \in Block,
         \A b \in Buf : blockno[b] = k /\ valid[b] =>
            \/ blockno'[b] = k /\ valid'[b] /\ data'[b] = data[b]
            \/ /\ \A c \in Buf : blockno'[c] = k => ~valid'[c]
               /\ data[b] = disk'[k],
         (\A b \in Buf : blockno[b] = k => ~valid[b]) =>
            /\ disk'[k] = disk[k]
            /\ \A b \in Buf : blockno'[b] = k /\ valid'[b] => data'[b] = disk[k]
  PROVE  Current(k)' = Current(k)
<1>1. /\ Single(blockno, k) /\ Single(blockno', k)
      /\ Current(k) = CurrentOf(blockno, valid, data, disk, k)
      /\ Current(k)' = CurrentOf(blockno', valid', data', disk', k)
  BY CurrentIs
<1>2. /\ \A b \in Buf : blockno[b] = k /\ valid[b] => Current(k) = data[b]
      /\ (\A b \in Buf : blockno[b] = k => ~valid[b]) => Current(k) = disk[k]
  BY <1>1, CurrentOfIs, SMTT(60)
<1>3. /\ \A b \in Buf : blockno'[b] = k /\ valid'[b] => Current(k)' = data'[b]
      /\ (\A b \in Buf : blockno'[b] = k => ~valid'[b]) => Current(k)' = disk'[k]
  BY <1>1, CurrentOfIs, SMTT(60)
<1>4. CASE \E b \in Buf : blockno[b] = k /\ valid[b]
  <2>1. PICK b \in Buf : blockno[b] = k /\ valid[b]
    BY <1>4
  <2>2. Current(k) = data[b]
    BY <1>2, <2>1
  <2> HIDE DEF Current
  <2>3. CASE blockno'[b] = k /\ valid'[b] /\ data'[b] = data[b]
    BY <1>3, <2>2, <2>3
  <2>4. CASE (\A c \in Buf : blockno'[c] = k => ~valid'[c]) /\ data[b] = disk'[k]
    BY <1>3, <2>2, <2>4
  <2> QED
    BY <2>1, <2>3, <2>4
<1>5. CASE \A b \in Buf : blockno[b] = k => ~valid[b]
  <2>1. Current(k) = disk[k]
    BY <1>2, <1>5
  <2>2. CASE \E b \in Buf : blockno'[b] = k /\ valid'[b]
    BY <1>3, <1>5, <2>1, <2>2
  <2>3. CASE \A b \in Buf : blockno'[b] = k => ~valid'[b]
    BY <1>3, <1>5, <2>1, <2>3
  <2> QED
    BY <2>2, <2>3
<1> QED
  BY <1>4, <1>5

\* A user that holds a block holds it alone.
LEMMA HolderIs ==
  ASSUME IInv, NEW h \in Hand, pc[h] \in Holding \cup {"locked"}
  PROVE  want[h] \in Block /\ Holders(want[h]) = {h}
<1>1. want[h] \in Block /\ blockno[buf[h]] = want[h] /\ buf[h] \in Buf
  BY DEF IInv, Wanted, TypeOK, Holding
<1>2. ASSUME NEW q \in Hand, pc[q] \in Holding \cup {"locked"}, want[q] = want[h], q # h
      PROVE  FALSE
  <2>1. blockno[buf[q]] = want[q] /\ buf[q] \in Buf
    BY <1>2 DEF IInv, Wanted, TypeOK, Holding
  <2>2. buf[q] = buf[h]
    BY <1>1, <1>2, <2>1, BlockAssumption DEF IInv, OneCopy
  <2> QED
    BY <1>2, <2>2, OneHolder
<1> QED
  BY <1>1, <1>2 DEF Holders

\* Nothing that BlockMemory shows has changed.
Stutters == \A k \in Block : Current(k)' = Current(k) /\ Holders(k)' = Holders(k)

\* A step that lets nobody in or out of the locks changes no holder.
LEMMA HoldersKept ==
  ASSUME NEW k,
         \A q \in Hand : /\ pc'[q] \in Holding \cup {"locked"} <=> pc[q] \in Holding \cup {"locked"}
                         /\ pc[q] \in Holding \cup {"locked"} => want'[q] = want[q]
  PROVE  Holders(k)' = Holders(k)
BY DEF Holders

\* bget changes no contents: the buffer it recycles agrees with the disk.
LEMMA BgetMaps ==
  ASSUME IInv, IInv', NEW h \in Hand, NEW j \in Block, bget(h, j)
  PROVE  Stutters
<1> SUFFICES ASSUME NEW k \in Block
             PROVE  Current(k)' = Current(k) /\ Holders(k)' = Holders(k)
  BY DEF Stutters
<1>1. TypeOK
  BY DEF IInv
<1>2. /\ pc[h] = "idle" /\ pc' = [pc EXCEPT ![h] = "lock"]
      /\ want' = [want EXCEPT ![h] = j]
      /\ UNCHANGED <<data, disk>>
  BY DEF bget, MayGet, Goto
<1>3. Holders(k)' = Holders(k)
  BY <1>1, <1>2, HoldersKept DEF TypeOK, Holding
<1>4. CASE Hit(h, j)
  <2>1. UNCHANGED <<blockno, valid>>
    BY <1>4 DEF Hit
  <2>2. Current(k)' = Current(k)
    BY <1>2, <2>1, CurrentKept
  <2> QED
    BY <1>3, <2>2
<1>5. CASE Recycle(h, j)
  <2>1. LeastRecent(Unused) \in Unused
    BY <1>5, LeastRecentIs DEF Recycle, Unused
  <2>2. PICK b \in Buf : /\ refcnt[b] = 0
                         /\ blockno' = [blockno EXCEPT ![b] = j]
                         /\ valid' = [valid EXCEPT ![b] = FALSE]
    BY <1>5, <2>1 DEF Recycle, Unused
  <2>3. \A c \in Buf : blockno[c] # j
    BY <1>5 DEF Recycle, Cached
  <2>4. b \notin pinned /\ \A q \in Hand : pc[q] # "idle" => buf[q] # b
    BY <2>2, UnusedFree
  <2>5. valid[b] => data[b] = disk[blockno[b]]
    BY <2>4 DEF IInv, Clean
  <2>6. blockno'[b] = j /\ ~valid'[b]
    BY <1>1, <2>2 DEF TypeOK
  <2>7. ASSUME NEW c \in Buf, c # b PROVE blockno'[c] = blockno[c] /\ valid'[c] = valid[c]
    BY <1>1, <2>2, <2>7 DEF TypeOK
  <2>8. \A c \in Buf : blockno[c] = k /\ blockno[b] = k => c = b
    BY BlockAssumption DEF IInv, OneCopy
  <2>9. ASSUME NEW c \in Buf, blockno[c] = k, valid[c]
        PROVE  \/ blockno'[c] = k /\ valid'[c] /\ data'[c] = data[c]
               \/ /\ \A d \in Buf : blockno'[d] = k => ~valid'[d]
                  /\ data[c] = disk'[k]
    <3>1. CASE c = b
      BY <1>2, <2>3, <2>5, <2>6, <2>7, <2>8, <2>9, <3>1
    <3>2. CASE c # b
      BY <1>2, <2>7, <2>9, <3>2
    <3> QED
      BY <3>1, <3>2
  <2>10. ASSUME \A c \in Buf : blockno[c] = k => ~valid[c]
         PROVE  \A c \in Buf : blockno'[c] = k => ~valid'[c]
    BY <2>6, <2>7, <2>10
  <2>11. Current(k)' = Current(k)
    BY <1>2, <2>9, <2>10, CurrentKept
  <2> QED
    BY <1>3, <2>11
<1> QED
  BY <1>4, <1>5 DEF bget

\* acquiresleep of a free lock is Hold.
LEMMA AcquireMaps ==
  ASSUME IInv, IInv', NEW h \in Hand, acquiresleep(h)
  PROVE  Stutters \/ \E k \in Block : Memory!Hold(h, k)
<1>1. PICK b \in Buf : b = buf[h]
  BY DEF IInv, TypeOK
<1>2. /\ pc[h] = "lock" /\ UNCHANGED <<blockno, valid, data, disk, want, buf>>
      /\ \/ owner[b] # Nobody /\ pc' = [pc EXCEPT ![h] = "asleep"]
         \/ owner[b] = Nobody /\ pc' = [pc EXCEPT ![h] = "locked"]
  BY <1>1 DEF acquiresleep, Goto, bufs
<1>3. TypeOK
  BY DEF IInv
<1>4. ASSUME NEW k \in Block PROVE Current(k)' = Current(k)
  BY <1>2, CurrentKept
<1>5. CASE pc' = [pc EXCEPT ![h] = "asleep"]
  <2>1. ASSUME NEW k \in Block PROVE Holders(k)' = Holders(k)
    BY <1>2, <1>3, <1>5, HoldersKept DEF TypeOK, Holding
  <2> QED
    BY <1>4, <2>1 DEF Stutters
<1>6. CASE owner[b] = Nobody /\ pc' = [pc EXCEPT ![h] = "locked"]
  <2>1. want[h] \in Block /\ blockno[b] = want[h]
    BY <1>1, <1>2 DEF IInv, Wanted
  <2>2. Holders(want[h]) = {}
    <3> SUFFICES ASSUME NEW q \in Hand, pc[q] \in Holding \cup {"locked"}, want[q] = want[h]
                 PROVE  FALSE
      BY DEF Holders
    <3>1. blockno[buf[q]] = want[q] /\ buf[q] \in Buf
      BY DEF IInv, Wanted, TypeOK, Holding
    <3>2. buf[q] = b
      BY <2>1, <3>1, BlockAssumption DEF IInv, OneCopy
    <3>3. owner[b] = q
      BY <3>2 DEF IInv, Owners
    <3> QED
      BY <1>6, <3>3, HandFinite
  <2>3. pc'[h] = "locked" /\ \A q \in Hand : q # h => pc'[q] = pc[q]
    BY <1>3, <1>6 DEF TypeOK
  <2>4. ASSUME NEW k \in Block
        PROVE  Holders(k)' = IF k = want[h] THEN {h} ELSE Holders(k)
    BY <1>2, <2>2, <2>3 DEF Holders, Holding
  <2>5. Memory!Hold(h, want[h])
    BY <1>4, <2>1, <2>2, <2>4 DEF Memory!Hold
  <2> QED
    BY <2>1, <2>5
<1> QED
  BY <1>2, <1>5, <1>6

\* releasesleep is Drop.
LEMMA ReleaseMaps ==
  ASSUME IInv, IInv', NEW h \in Hand, releasesleep(h)
  PROVE  \E k \in Block : Memory!Drop(h, k)
<1>1. /\ pc[h] \in {"have", "written"}
      /\ pc' = [q \in Hand |-> IF q = h THEN "put"
                               ELSE IF pc[q] = "asleep" /\ buf[q] = buf[h] THEN "lock"
                               ELSE pc[q]]
      /\ UNCHANGED <<blockno, valid, data, disk, want, buf>>
  BY DEF releasesleep, bufs
<1>2. want[h] \in Block /\ Holders(want[h]) = {h}
  BY <1>1, HolderIs DEF Holding
<1>3. ASSUME NEW k \in Block PROVE Current(k)' = Current(k)
  BY <1>1, CurrentKept
<1>4. \A q \in Hand : pc'[q] \in Holding \cup {"locked"} <=>
                        q # h /\ pc[q] \in Holding \cup {"locked"}
  BY <1>1 DEF Holding
<1>5. ASSUME NEW k \in Block
      PROVE  Holders(k)' = IF k = want[h] THEN {} ELSE Holders(k)
  BY <1>1, <1>2, <1>4 DEF Holders
<1>6. Memory!Drop(h, want[h])
  BY <1>2, <1>3, <1>5 DEF Memory!Drop
<1> QED
  BY <1>2, <1>6

\* A change of a held buffer is Write.
LEMMA ModifyMaps ==
  ASSUME IInv, IInv', NEW h \in Hand, NEW v \in Value, modify(h, v)
  PROVE  \E k \in Block : Memory!Write(h, k, v)
<1>1. PICK b \in Buf : b = buf[h]
  BY DEF IInv, TypeOK
<1>2. /\ pc[h] \in Holding /\ pc' = [pc EXCEPT ![h] = "dirty"]
      /\ data' = [data EXCEPT ![b] = v]
      /\ UNCHANGED <<blockno, valid, disk, want, buf>>
  BY <1>1 DEF modify, Goto
<1>3. TypeOK
  BY DEF IInv
<1>4. PICK j \in Block : j = want[h] /\ Holders(j) = {h}
  BY <1>2, HolderIs
<1>5. blockno[b] = j /\ valid[b]
  BY <1>1, <1>2, <1>4 DEF IInv, Wanted, Contents, Holding
<1>6. data'[b] = v /\ \A c \in Buf : c # b => data'[c] = data[c]
  BY <1>2, <1>3 DEF TypeOK
<1>7. Current(j)' = v
  <2>1. /\ Single(blockno', j)
        /\ Current(j)' = CurrentOf(blockno', valid', data', disk', j)
    BY <1>4, CurrentIs
  <2>2. \A c \in Buf : blockno'[c] = j /\ valid'[c] =>
          CurrentOf(blockno', valid', data', disk', j) = data'[c]
    BY <2>1, CurrentOfIs, SMTT(60)
  <2>3. CurrentOf(blockno', valid', data', disk', j) = data'[b]
    BY <1>2, <1>5, <2>2
  <2> QED
    BY <1>6, <2>1, <2>3
<1>8. ASSUME NEW k \in Block, k # j PROVE Current(k)' = Current(k)
  BY <1>2, <1>5, <1>6, <1>8, CurrentKept
<1>9. ASSUME NEW k \in Block PROVE Holders(k)' = Holders(k)
  BY <1>2, <1>3, HoldersKept DEF TypeOK, Holding
<1>10. Memory!Write(h, j, v)
  BY <1>4, <1>7, <1>8, <1>9 DEF Memory!Write
<1> QED
  BY <1>4, <1>10

\* Reading a block into its buffer changes no contents.
LEMMA BreadMaps ==
  ASSUME IInv, IInv', NEW h \in Hand, bread(h)
  PROVE  Stutters
<1> SUFFICES ASSUME NEW k \in Block
             PROVE  Current(k)' = Current(k) /\ Holders(k)' = Holders(k)
  BY DEF Stutters
<1>1. PICK b \in Buf : b = buf[h]
  BY DEF IInv, TypeOK
<1>2. /\ pc[h] = "locked" /\ pc' = [pc EXCEPT ![h] = "have"]
      /\ data' = IF valid[b] THEN data ELSE [data EXCEPT ![b] = disk[blockno[b]]]
      /\ valid' = [valid EXCEPT ![b] = TRUE]
      /\ UNCHANGED <<blockno, disk, want>>
  BY <1>1 DEF bread, Goto
<1>3. TypeOK
  BY DEF IInv
<1>4. Holders(k)' = Holders(k)
  BY <1>2, <1>3, HoldersKept DEF TypeOK, Holding
<1>5. ASSUME NEW c \in Buf, valid[c] PROVE valid'[c] /\ data'[c] = data[c]
  BY <1>2, <1>3, <1>5 DEF TypeOK
<1>6. ASSUME NEW c \in Buf, ~valid[c], valid'[c] PROVE data'[c] = disk[blockno[c]]
  BY <1>2, <1>3, <1>6 DEF TypeOK
<1>7. Current(k)' = Current(k)
  BY <1>2, <1>5, <1>6, CurrentKept
<1> QED
  BY <1>4, <1>7

\* The disk gets what the block's buffer has.
LEMMA BwriteMaps ==
  ASSUME IInv, IInv', NEW h \in Hand, bwrite(h)
  PROVE  Stutters
<1> SUFFICES ASSUME NEW k \in Block
             PROVE  Current(k)' = Current(k) /\ Holders(k)' = Holders(k)
  BY DEF Stutters
<1>1. PICK b \in Buf : b = buf[h]
  BY DEF IInv, TypeOK
<1>2. /\ pc[h] \in Holding /\ pc' = [pc EXCEPT ![h] = "written"]
      /\ disk' = [disk EXCEPT ![blockno[b]] = data[b]]
      /\ UNCHANGED <<blockno, valid, data, want>>
  BY <1>1 DEF bwrite, Goto, bufs
<1>3. TypeOK
  BY DEF IInv
<1>4. Holders(k)' = Holders(k)
  BY <1>2, <1>3, HoldersKept DEF TypeOK, Holding
<1>5. valid[b]
  BY <1>1, <1>2 DEF IInv, Contents
<1>6. blockno[b] # k => disk'[k] = disk[k]
  BY <1>2, <1>3 DEF TypeOK
<1>7. (\A c \in Buf : blockno[c] = k => ~valid[c]) => disk'[k] = disk[k]
  BY <1>5, <1>6
<1>8. Current(k)' = Current(k)
  BY <1>2, <1>7, CurrentKept
<1> QED
  BY <1>4, <1>8

\* Neither do the reference counts.
LEMMA CountsMap ==
  ASSUME IInv, IInv', NEW h \in Hand, bpin(h) \/ bunpin(h) \/ brelse(h)
  PROVE  Stutters
<1> SUFFICES ASSUME NEW k \in Block
             PROVE  Current(k)' = Current(k) /\ Holders(k)' = Holders(k)
  BY DEF Stutters
<1>1. UNCHANGED <<blockno, valid, data, disk>>
  BY DEF bpin, bunpin, brelse
<1>2. TypeOK
  BY DEF IInv
<1>3. Holders(k)' = Holders(k)
  <2>1. CASE bpin(h)
    BY <1>2, <2>1, HoldersKept DEF bpin, Goto, TypeOK, Holding
  <2>2. CASE bunpin(h)
    BY <2>2, HoldersKept DEF bunpin
  <2>3. CASE brelse(h)
    BY <1>2, <2>3, HoldersKept DEF brelse, Goto, TypeOK, Holding
  <2> QED
    BY <2>1, <2>2, <2>3
<1>4. Current(k)' = Current(k)
  BY <1>1, CurrentKept
<1> QED
  BY <1>3, <1>4

\* At the start every block has the contents it has on the disk.
LEMMA InitMaps ==
  Init => Memory!Init
<1> SUFFICES ASSUME Init PROVE Memory!Init
  OBVIOUS
<1>1. ASSUME NEW k \in Block PROVE Current(k) = Zero
  BY DEF Init, Current, Cached
<1>2. ASSUME NEW k \in Block PROVE Holders(k) = {}
  BY DEF Init, Holders, Holding
<1> QED
  BY <1>1, <1>2 DEF Memory!Init

\* Every step is a step of BlockMemory or changes nothing there.
LEMMA NextMaps ==
  IInv /\ IInv' /\ [Next]_vars => [Memory!Next]_(Memory!vars)
<1> SUFFICES ASSUME IInv, IInv', [Next]_vars PROVE Memory!Next \/ Stutters
  BY DEF Memory!vars, Stutters
<1>1. CASE UNCHANGED vars
  BY <1>1 DEF vars, bufs, Stutters, Current, Cached, Holders
<1>2. CASE \E h \in Hand : Step(h)
  <2>1. PICK h \in Hand : Step(h)
    BY <1>2
  <2>2. ASSUME NEW k \in Block, bget(h, k) PROVE Stutters
    BY <2>2, BgetMaps
  <2>3. CASE acquiresleep(h)
    BY <2>3, AcquireMaps DEF Memory!Next
  <2>4. CASE releasesleep(h)
    BY <2>4, ReleaseMaps DEF Memory!Next
  <2>5. CASE bread(h)
    BY <2>5, BreadMaps
  <2>6. CASE bwrite(h)
    BY <2>6, BwriteMaps
  <2>7. CASE bpin(h) \/ bunpin(h) \/ brelse(h)
    BY <2>7, CountsMap
  <2>8. ASSUME NEW v \in Value, modify(h, v) PROVE Memory!Next
    BY <2>8, ModifyMaps DEF Memory!Next
  <2>9. ASSUME NEW k \in Block, bget_panics(h, k) PROVE Stutters
    BY <2>9 DEF bget_panics, bufs, Stutters, Current, Cached, Holders
  <2> QED
    BY <2>1, <2>2, <2>3, <2>4, <2>5, <2>6, <2>7, <2>8, <2>9 DEF Step
<1> QED
  BY <1>1, <1>2 DEF Next

(***************************************************************************)
(* The cache implements BlockMemory: whatever is recycled, pinned, written *)
(* back or read again, a block has one contents, changed only by the one   *)
(* process that holds it.                                                  *)
(***************************************************************************)
THEOREM CacheIsCoherent == Spec => Coherent
<1>1. IInv /\ [Next]_vars => IInv'
  BY NextIInv
<1> QED
  BY InitMaps, NextMaps, Invariance, <1>1, PTL DEF Spec, Coherent, Memory!Spec
=============================================================================
