----------------------------- MODULE PipeProofs -----------------------------
(***************************************************************************)
(* Proofs about Pipe, for any number of readers and writers and any size   *)
(* of the ring and of the counters.                                        *)
(*                                                                         *)
(* NobodyStranded speaks of the states in which pi->lock is free.  It is   *)
(* not inductive: what has to be carried through a critical section is who *)
(* still owes the sleepers a wakeup (Owed), and for that who holds the     *)
(* lock (Locking) and what the open flags and the descriptors have to do   *)
(* with each other (Ends).                                                 *)
(***************************************************************************)
EXTENDS Pipe, Integers, SequenceTheorems, TLAPS

\* Most steps are first-order; the ones that need arithmetic or many facts at once
\* name the SMT solver.
USE ZenonT(60)

\* A writer runs pipewrite and a reader piperead.
Sides == \A p \in Proc :
  /\ p \in Writer => pc[p] \in {"user", "close", "closed", "w_acquire",
                                "w_loop", "w_body", "w_asleep"}
  /\ p \in Reader => pc[p] \in {"user", "close", "closed", "r_acquire",
                                "r_loop", "r_sleep", "r_asleep", "r_copy"}

\* Between acquire and release or sleep the process holds pi->lock.
Locking == \A p \in Proc :
  lock = p <=> pc[p] \in {"w_loop", "w_body", "r_loop", "r_sleep", "r_copy"}

\* The last close of an end is the only one that goes on to pipeclose, and an
\* end is open until then.
Ends ==
  /\ \A p \in Proc : p \in fds <=> pc[p] \notin {"close", "closed"}
  /\ \A p \in Proc : pc[p] = "close" => \A q \in End(p) : q # p => pc[q] = "closed"
  /\ readopen <=> \E p \in Reader : pc[p] # "closed"
  /\ writeopen <=> \E p \in Writer : pc[p] # "closed"
  /\ freed <=> ~readopen /\ ~writeopen

\* No call copies more than it was asked for.
Calls == \A p \in Proc : /\ i[p] <= n[p]
                         /\ pc[p] = "user" => i[p] = 0
                         /\ pc[p] = "w_body" => i[p] < n[p]

\* The ring holds PIPESIZE bytes at most.
Bounded == Count <= PIPESIZE

\* Somebody inside the pipe code will call wakeup before pi->lock is free.
OwedWriters == (\E p \in Proc : pc[p] = "w_asleep") =>
  readopen /\ (Full \/ \E q \in Proc : pc[q] = "r_copy")
OwedReaders == (\E p \in Proc : pc[p] = "r_asleep") =>
  writeopen /\ (Empty \/ \E q \in Proc : pc[q] \in {"w_loop", "w_body"})
Owed == OwedWriters /\ ((\E p \in Writer : killed[p]) \/ OwedReaders)

\* piperead found the pipe empty and its write end open, pipewrite found the read
\* end open, and each of them holds pi->lock since.
Waiting == \A p \in Proc : /\ pc[p] = "r_sleep" => Empty /\ writeopen
                           /\ pc[p] = "w_body" => readopen

IInv == TypeOK /\ Sides /\ Locking /\ Ends /\ Calls /\ Bounded
        /\ Waiting /\ Owed

-----------------------------------------------------------------------------
(* Arithmetic of the counters                                              *)

\* Reducing a number below twice the modulus.
LEMMA ModOnce ==
  \A m \in Nat, x \in Nat :
    m > 0 /\ x < m + m => x % m = IF x < m THEN x ELSE x - m
<1> SUFFICES ASSUME NEW m \in Nat, NEW x \in Nat, m > 0, x < m + m
             PROVE  x % m = IF x < m THEN x ELSE x - m
  OBVIOUS
<1>1. CASE x < m
  BY <1>1, SMTT(60)
<1>2. CASE x >= m
  BY <1>2, SMTT(60)
<1> QED
  BY <1>1, <1>2, SMTT(60)

\* How far w is ahead of r, without the modulus, and when that is PIPESIZE.
LEMMA Distance ==
  \A r, w \in 0..M-1 :
    /\ (w + M - r) % M = IF r <= w THEN w - r ELSE w + M - r
    /\ w = (r + PIPESIZE) % M <=> (w + M - r) % M = PIPESIZE
<1> SUFFICES ASSUME NEW r \in 0..M-1, NEW w \in 0..M-1
             PROVE  /\ (w + M - r) % M = IF r <= w THEN w - r ELSE w + M - r
                    /\ w = (r + PIPESIZE) % M <=> (w + M - r) % M = PIPESIZE
  OBVIOUS
<1>1. M \in Nat /\ M > 0 /\ PIPESIZE \in Nat /\ PIPESIZE < M
  BY SizeAssumption, SMTT(60)
<1>2. (w + M - r) % M = IF r <= w THEN w - r ELSE w + M - r
  BY <1>1, ModOnce, SMTT(60)
<1>3. (r + PIPESIZE) % M = IF r + PIPESIZE < M THEN r + PIPESIZE ELSE r + PIPESIZE - M
  BY <1>1, ModOnce, SMTT(60)
<1> QED
  BY <1>1, <1>2, <1>3, SMTT(60)

\* What Count, Full and Empty say.
LEMMA CountIs ==
  ASSUME TypeOK
  PROVE  /\ Count = IF nread <= nwrite THEN nwrite - nread ELSE nwrite + M - nread
         /\ Count \in 0..M-1
         /\ Full <=> Count = PIPESIZE
         /\ Empty <=> Count = 0
<1>1. nread \in 0..M-1 /\ nwrite \in 0..M-1
  BY DEF TypeOK, Place
<1>2. Count = IF nread <= nwrite THEN nwrite - nread ELSE nwrite + M - nread
  BY <1>1, Distance DEF Count
<1>3. Full <=> Count = PIPESIZE
  BY <1>1, Distance DEF Count, Full
<1> QED
  BY <1>1, <1>2, <1>3, SizeAssumption, SMTT(60) DEF Empty

\* A counter that goes on by one.
LEMMA NextIs ==
  ASSUME NEW x \in 0..M-1
  PROVE  /\ (x + 1) % M \in 0..M-1
         /\ (x + 1) % M = IF x + 1 = M THEN 0 ELSE x + 1
<1>1. M \in Nat /\ M > 1 /\ x + 1 \in Nat /\ x + 1 < M + M
  BY SizeAssumption, SMTT(60)
<1> QED
  BY <1>1, ModOnce, SMTT(60)

-----------------------------------------------------------------------------
(* The inductive invariant                                                 *)

\* It holds when pipealloc returns.
LEMMA InitIInv == Init => IInv
<1> SUFFICES ASSUME Init PROVE IInv
  OBVIOUS
<1>1. /\ fds \subseteq Proc
      /\ fds \cap Reader # {} /\ fds \cap Writer # {}
  BY HoldersAssumption DEF Init, Proc
<1>2. TypeOK
  <2>1. (CHOOSE ch \in Byte : TRUE) \in Byte
    BY ByteAssumption
  <2>2. data \in [0..PIPESIZE-1 -> Byte]
    BY <2>1 DEF Init
  <2>3. 0 \in 0..M-1 /\ 0 \in 0..MaxN
    BY SizeAssumption, SMTT(60)
  <2> QED
    BY <1>1, <2>2, <2>3 DEF Init, TypeOK, Place
<1>3. Sides /\ Locking /\ Calls
  <2>1. Sides
    BY DEF Init, Sides
  <2>2. Locking
    BY ProcAssumption DEF Init, Locking, Proc
  <2>3. Calls
    BY SMTT(60) DEF Init, Calls
  <2> QED
    BY <2>1, <2>2, <2>3
<1>6. Ends
  <2>1. \A p \in Proc : pc[p] = IF p \in fds THEN "user" ELSE "closed"
    BY DEF Init
  <2> QED
    BY <1>1, <2>1 DEF Init, Ends, Proc
<1>4. Bounded
  <2>1. Empty
    BY DEF Init, Empty
  <2> QED
    BY <1>2, <2>1, CountIs, SizeAssumption, SMTT(60) DEF Bounded
<1>5. Waiting /\ Owed
  BY DEF Init, Waiting, Owed, OwedWriters, OwedReaders
<1> QED
  BY <1>2, <1>3, <1>4, <1>5, <1>6 DEF IInv

\* The steps that leave the ring and the flags alone: their parts of the
\* invariant do not change.
LEMMA RingUnchanged ==
  ASSUME Bounded, UNCHANGED <<nread, nwrite>>
  PROVE  Bounded' /\ Full' = Full /\ Empty' = Empty
  BY DEF Bounded, Count, Full, Empty

\* The steps that neither close a descriptor nor pipeclose.
LEMMA EndsUnchanged ==
  ASSUME Ends, UNCHANGED <<fds, readopen, writeopen, freed>>,
         \A q \in Proc : /\ pc'[q] = "closed" <=> pc[q] = "closed"
                         /\ pc'[q] = "close" <=> pc[q] = "close"
  PROVE  Ends'
<1>1. \A q \in Proc : q \in fds' <=> pc'[q] \notin {"close", "closed"}
  BY DEF Ends
<1>2. ASSUME NEW q \in Proc, pc'[q] = "close", NEW r \in End(q), r # q
      PROVE  pc'[r] = "closed"
  BY <1>2 DEF Ends, End, Proc
<1>3. /\ readopen' <=> \E q \in Reader : pc'[q] # "closed"
      /\ writeopen' <=> \E q \in Writer : pc'[q] # "closed"
      /\ freed' <=> ~readopen' /\ ~writeopen'
  BY DEF Ends, Proc
<1> QED
  BY <1>1, <1>2, <1>3 DEF Ends, End

\* read or write is called.
LEMMA CallIInv ==
  ASSUME IInv, NEW p \in Proc, NEW k \in 0..MaxN, call(p, k)
  PROVE  IInv'
<1> USE DEF call, pipe, Goto
<1>1. TypeOK' /\ Sides' /\ Locking' /\ Ends'
  BY ProcAssumption, SMTT(60) DEF IInv, TypeOK, Place, Sides, Locking, Ends, End, Proc
<1>4. Calls'
  BY SizeAssumption, SMTT(60) DEF IInv, TypeOK, Place, Calls
<1>2. Bounded' /\ Full' = Full /\ Empty' = Empty
  BY RingUnchanged DEF IInv
<1>3. Waiting' /\ Owed'
  BY <1>2
     DEF IInv, TypeOK, Place, Sides, Waiting, Owed, OwedWriters, OwedReaders,
         Proc
<1> QED
  BY <1>1, <1>2, <1>3, <1>4 DEF IInv

\* The lock is taken, at the start of a call or at the end of sleep.
LEMMA AcquireIInv ==
  ASSUME IInv, NEW p \in Proc, acquire(p)
  PROVE  IInv'
<1> USE DEF acquire, pipe, Goto
<1>1. TypeOK' /\ Sides' /\ Locking'
  BY ProcAssumption DEF IInv, TypeOK, Place, Sides, Locking, Proc
<1>2. Ends'
  BY ProcAssumption DEF IInv, TypeOK, Place, Sides, Ends, End, Proc
<1>3. Calls'
  BY DEF IInv, TypeOK, Place, Calls
<1>4. Bounded' /\ Full' = Full /\ Empty' = Empty
  BY RingUnchanged DEF IInv
<1>5. Waiting' /\ Owed'
  BY <1>4
     DEF IInv, TypeOK, Place, Sides, Locking, Waiting, Owed, OwedWriters,
         OwedReaders, Proc
<1> QED
  BY <1>1, <1>2, <1>3, <1>4, <1>5 DEF IInv

\* The head of the loop of pipewrite: the way out wakes the readers, except for a
\* killed writer and one without readers.
LEMMA WLoopIInv ==
  ASSUME IInv, NEW p \in Proc, w_loop(p)
  PROVE  IInv'
<1> USE DEF w_loop, pipe
<1>1. p \in Writer /\ lock = p /\ 0 \in 0..MaxN
  BY SizeAssumption, SMTT(60) DEF IInv, TypeOK, Place, Sides, Locking, Proc
<1>2. Bounded' /\ Full' = Full /\ Empty' = Empty
  BY RingUnchanged DEF IInv
<1>3. CASE i[p] >= n[p] /\ pc' = WakeReaders(p, "user") /\ Return(p)
  <2> USE <1>3 DEF Return
  <2>0. \A q \in Proc : pc'[q] = IF q = p THEN "user"
                                 ELSE IF pc[q] = "r_asleep" THEN "r_acquire" ELSE pc[q]
    BY DEF WakeReaders
  <2>1. TypeOK' /\ Sides' /\ Locking'
    BY <1>1, ProcAssumption
       DEF IInv, TypeOK, Place, Sides, Locking, Proc, WakeReaders
  <2>2. Ends'
    BY <1>1, <2>0, EndsUnchanged DEF IInv
  <2>3. Calls'
    BY <2>0, SMTT(60) DEF IInv, TypeOK, Place, Calls
  <2>4. Waiting' /\ Owed'
    BY <1>1, <1>2, <2>0
       DEF IInv, Locking, Waiting, Owed, OwedWriters, OwedReaders
  <2> QED
    BY <1>2, <2>1, <2>2, <2>3, <2>4 DEF IInv
<1>4. CASE i[p] < n[p] /\ (~readopen \/ killed[p]) /\ Goto(p, "user") /\ Return(p)
  <2> USE <1>4 DEF Return, Goto
  <2>1. TypeOK' /\ Sides' /\ Locking'
    BY <1>1, ProcAssumption DEF IInv, TypeOK, Place, Sides, Locking, Proc
  <2>2. Ends'
    BY <1>1, EndsUnchanged DEF IInv, TypeOK, Place
  <2>3. Calls'
    BY SMTT(60) DEF IInv, TypeOK, Place, Calls
  <2>4. ~readopen => \A q \in Proc : pc[q] # "r_asleep"
    BY DEF IInv, TypeOK, Place, Sides, Ends, Proc
  <2>5. Waiting' /\ Owed'
    BY <1>1, <1>2, <2>4
       DEF IInv, TypeOK, Place, Locking, Waiting, Owed, OwedWriters, OwedReaders
  <2> QED
    BY <1>2, <2>1, <2>2, <2>3, <2>5 DEF IInv
<1>5. CASE i[p] < n[p] /\ readopen /\ Goto(p, "w_body") /\ UNCHANGED <<lock, n, i>>
  <2> USE <1>5 DEF Goto
  <2>1. TypeOK' /\ Sides' /\ Locking' /\ Calls'
    BY <1>1, ProcAssumption DEF IInv, TypeOK, Place, Sides, Locking, Calls, Proc
  <2>2. Ends'
    BY <1>1, EndsUnchanged DEF IInv, TypeOK, Place
  <2>3. Waiting' /\ Owed'
    BY <1>1, <1>2
       DEF IInv, TypeOK, Place, Locking, Waiting, Owed, OwedWriters, OwedReaders
  <2> QED
    BY <1>2, <2>1, <2>2, <2>3 DEF IInv
<1> QED
  BY <1>3, <1>4, <1>5

\* The loop of piperead that waits for bytes.
LEMMA RLoopIInv ==
  ASSUME IInv, NEW p \in Proc, r_loop(p)
  PROVE  IInv'
<1>1. p \in Reader /\ lock = p
  BY DEF r_loop, IInv, TypeOK, Place, Sides, Locking, Proc
<1>0. 0 \in 0..MaxN
  BY SizeAssumption, SMTT(60)
<1>2. /\ UNCHANGED <<pipe, freed, fds, killed>>
      /\ lock' = (IF pc'[p] = "user" THEN Nobody ELSE lock)
      /\ pc'[p] = "user" => Return(p)
      /\ pc'[p] # "user" => UNCHANGED <<n, i>>
      /\ pc'[p] \in {"user", "r_sleep", "r_copy"}
      /\ pc' \in [Proc -> Place]
      /\ \A q \in Proc : q # p => pc'[q] = pc[q]
      /\ pc[p] = "r_loop"
  BY DEF r_loop, Goto, IInv, TypeOK, Place, Return
<1>3. TypeOK' /\ Sides' /\ Locking'
  <2>1. TypeOK'
    <3>1. n' \in [Proc -> 0..MaxN] /\ i' \in [Proc -> 0..MaxN]
      BY <1>0, <1>2 DEF IInv, TypeOK, Return
    <3>2. lock' \in Proc \cup {Nobody}
      BY <1>1, <1>2
    <3> QED
      BY <1>2, <3>1, <3>2 DEF IInv, TypeOK, pipe
  <2>2. Sides' /\ Locking'
    BY <1>1, <1>2, ProcAssumption DEF IInv, TypeOK, Place, Sides, Locking, Proc
  <2> QED
    BY <2>1, <2>2
<1>4. Ends'
  BY <1>2, EndsUnchanged DEF IInv, TypeOK, Place, pipe
<1>5. Calls'
  <2> SUFFICES ASSUME NEW q \in Proc
               PROVE  i'[q] <= n'[q] /\ (pc'[q] = "user" => i'[q] = 0)
                                     /\ (pc'[q] = "w_body" => i'[q] < n'[q])
    BY DEF Calls
  <2>1. CASE pc'[p] = "user"
    BY <1>2, <2>1, SMTT(60) DEF IInv, TypeOK, Place, Calls, Return
  <2>2. CASE pc'[p] # "user"
    BY <1>2, <2>2 DEF IInv, TypeOK, Place, Calls
  <2> QED
    BY <2>1, <2>2
<1>6. Bounded' /\ Full' = Full /\ Empty' = Empty
  BY <1>2, RingUnchanged DEF IInv, pipe
<1>7. Waiting' /\ Owed'
  BY <1>1, <1>2, <1>6, SMTT(60)
     DEF r_loop, Goto, pipe, IInv, TypeOK, Place, Locking, Waiting, Owed,
         OwedWriters, OwedReaders
<1> QED
  BY <1>3, <1>4, <1>5, <1>6, <1>7 DEF IInv

\* sleep of piperead: the pipe is still empty, for pi->lock was never released.
LEMMA RSleepIInv ==
  ASSUME IInv, NEW p \in Proc, r_sleep(p)
  PROVE  IInv'
<1> USE DEF r_sleep, pipe, Goto
<1>1. TypeOK' /\ Sides' /\ Locking'
  BY ProcAssumption DEF IInv, TypeOK, Place, Sides, Locking, Proc
<1>2. Ends'
  BY ProcAssumption DEF IInv, TypeOK, Place, Sides, Ends, End, Proc
<1>3. Calls'
  BY DEF IInv, TypeOK, Place, Calls
<1>4. Bounded' /\ Full' = Full /\ Empty' = Empty
  BY RingUnchanged DEF IInv
<1>5. Waiting' /\ Owed'
  BY <1>4
     DEF IInv, TypeOK, Place, Sides, Locking, Waiting, Owed, OwedWriters,
         OwedReaders, Proc
<1> QED
  BY <1>1, <1>2, <1>3, <1>4, <1>5 DEF IInv

\* fileclose: only the last descriptor of an end leads to pipeclose.
LEMMA FilecloseIInv ==
  ASSUME IInv, NEW p \in Proc, fileclose(p)
  PROVE  IInv'
<1> USE DEF fileclose, pipe
<1>1. /\ pc'[p] \in {"close", "closed"}
      /\ pc'[p] = "close" <=> fds \cap End(p) = {p}
      /\ \A q \in Proc : q # p => pc'[q] = pc[q]
      /\ pc' \in [Proc -> Place]
  BY DEF Goto, IInv, TypeOK, Place
<1>2. TypeOK' /\ Sides' /\ Locking'
  BY <1>1, ProcAssumption DEF IInv, TypeOK, Place, Sides, Locking, Proc
<1>3. Ends'
  <2>1. p \in End(p) /\ End(p) \subseteq Proc
    BY DEF End, Proc
  <2>2. \A q \in Proc : q \in fds' <=> pc'[q] \notin {"close", "closed"}
    BY <1>1 DEF IInv, Ends
  <2>3. \A q \in Proc : pc[q] = "close" => p \notin End(q)
    BY DEF IInv, Ends
  <2>4. ASSUME NEW q \in Proc, pc'[q] = "close", NEW r \in End(q), r # q
        PROVE  pc'[r] = "closed"
    <3>1. CASE q # p
      BY <1>1, <2>3, <2>4, <3>1 DEF IInv, Ends, End, Proc
    <3>2. CASE q = p
      <4>1. r \notin fds /\ r \in Proc
        BY <1>1, <2>1, <2>4, <3>2, SMTT(60)
      <4>2. pc[r] \in {"close", "closed"}
        BY <4>1 DEF IInv, Ends
      <4>3. p \in End(r)
        BY <2>4, <3>2, ProcAssumption DEF End, Proc
      <4> QED
        BY <1>1, <2>3, <2>4, <3>2, <4>1, <4>2, <4>3
    <3> QED
      BY <3>1, <3>2
  <2>5. \E q \in End(p) : pc'[q] # "closed"
    <3>1. CASE pc'[p] = "close"
      BY <2>1, <3>1
    <3>2. CASE fds \cap End(p) # {p}
      <4>1. PICK q \in fds \cap End(p) : q # p
        BY <2>1, <3>2
      <4> QED
        BY <1>1, <2>1, <4>1 DEF IInv, Ends
    <3> QED
      BY <1>1, <3>1, <3>2
  <2>6. /\ readopen' <=> \E q \in Reader : pc'[q] # "closed"
        /\ writeopen' <=> \E q \in Writer : pc'[q] # "closed"
    BY <1>1, <2>5, ProcAssumption DEF IInv, Ends, End, Proc
  <2>7. freed' <=> ~readopen' /\ ~writeopen'
    BY DEF IInv, Ends
  <2> QED
    BY <2>2, <2>4, <2>6, <2>7 DEF Ends, End
<1>4. Calls'
  BY <1>1 DEF IInv, TypeOK, Place, Calls
<1>5. Bounded' /\ Full' = Full /\ Empty' = Empty
  BY RingUnchanged DEF IInv
<1>6. Waiting' /\ Owed'
  BY <1>1, <1>5 DEF IInv, TypeOK, Place, Waiting, Owed, OwedWriters, OwedReaders
<1> QED
  BY <1>2, <1>3, <1>4, <1>5, <1>6 DEF IInv

\* pipeclose wakes the other end; nobody is left at its own.
LEMMA PipecloseIInv ==
  ASSUME IInv, NEW p \in Proc, pipeclose(p)
  PROVE  IInv'
<1> USE DEF pipeclose
<1>1. /\ pc'[p] = "closed"
      /\ \A q \in Proc : q # p =>
           pc'[q] = IF p \in Writer
                    THEN IF pc[q] = "r_asleep" THEN "r_acquire" ELSE pc[q]
                    ELSE IF pc[q] = "w_asleep" THEN "w_acquire" ELSE pc[q]
      /\ pc' \in [Proc -> Place]
  BY DEF WakeReaders, WakeWriters, IInv, TypeOK, Place
<1>2. \A q \in End(p) : pc'[q] = "closed"
  BY <1>1 DEF IInv, Ends, End, Proc
<1>3. /\ readopen' \in BOOLEAN /\ writeopen' \in BOOLEAN /\ freed' \in BOOLEAN
      /\ readopen' = (readopen /\ p \in Writer)
      /\ writeopen' = (writeopen /\ p \notin Writer)
  BY DEF IInv, TypeOK, Place
<1>4. TypeOK'
  BY <1>1, <1>3 DEF IInv, TypeOK, Place
<1>5. Sides' /\ Locking'
  BY <1>1, ProcAssumption DEF IInv, TypeOK, Place, Sides, Locking, Proc
<1>6. Ends'
  <2>1. \A q \in Proc : q \in fds' <=> pc'[q] \notin {"close", "closed"}
    BY <1>1 DEF IInv, Ends
  <2>2. ASSUME NEW q \in Proc, pc'[q] = "close", NEW r \in End(q), r # q
        PROVE  pc'[r] = "closed"
    BY <1>1, <2>2 DEF IInv, Ends, End, Proc
  <2>3. /\ readopen' <=> \E q \in Reader : pc'[q] # "closed"
        /\ writeopen' <=> \E q \in Writer : pc'[q] # "closed"
    BY <1>1, <1>2, <1>3, ProcAssumption DEF IInv, Ends, End, Proc
  <2> QED
    BY <2>1, <2>2, <2>3 DEF Ends, End
<1>7. Calls'
  BY <1>1 DEF IInv, TypeOK, Place, Calls
<1>8. Bounded' /\ Full' = Full /\ Empty' = Empty
  BY RingUnchanged DEF IInv
<1>9. Waiting' /\ Owed'
  BY <1>1, <1>2, <1>3, <1>5, <1>8, ProcAssumption
     DEF IInv, Sides, Locking, Waiting, Owed, OwedWriters, OwedReaders, End, Proc
<1> QED
  BY <1>4, <1>5, <1>6, <1>7, <1>8, <1>9 DEF IInv

\* kill makes a sleeper runnable.
LEMMA KillIInv ==
  ASSUME IInv, NEW p \in Proc, kill(p)
  PROVE  IInv'
<1> USE DEF kill, pipe
<1>1. TypeOK' /\ Sides' /\ Locking'
  BY ProcAssumption DEF IInv, TypeOK, Place, Sides, Locking, Proc
<1>2. Ends'
  BY ProcAssumption DEF IInv, TypeOK, Place, Sides, Ends, End, Proc
<1>3. Calls'
  BY DEF IInv, TypeOK, Place, Calls
<1>4. Bounded' /\ Full' = Full /\ Empty' = Empty
  BY RingUnchanged DEF IInv
<1>5. Waiting' /\ Owed'
  BY <1>4
     DEF IInv, TypeOK, Place, Sides, Locking, Waiting, Owed, OwedWriters,
         OwedReaders, Proc
<1> QED
  BY <1>1, <1>2, <1>3, <1>4, <1>5 DEF IInv

\* The body of the loop of pipewrite: every way out of it wakes the readers.
LEMMA WBodyIInv ==
  ASSUME IInv, NEW p \in Proc, w_body(p)
  PROVE  IInv'
<1>1. p \in Writer /\ lock = p /\ pc[p] = "w_body"
  BY DEF w_body, IInv, TypeOK, Place, Sides, Locking, Proc
<1>2. 0 \in 0..MaxN
  BY SizeAssumption, SMTT(60)
<1>3. UNCHANGED <<nread, readopen, writeopen, freed, fds, killed>>
  BY DEF w_body
<1>4. CASE /\ ~Full
           /\ \E ch \in Byte : data' = [data EXCEPT ![nwrite % PIPESIZE] = ch]
           /\ nwrite' = (nwrite + 1) % M
           /\ i' = [i EXCEPT ![p] = @ + 1]
           /\ Goto(p, "w_loop")
           /\ UNCHANGED <<lock, n>>
  <2> USE <1>4 DEF Goto
  <2>1. nwrite' \in 0..M-1 /\ nwrite' = IF nwrite + 1 = M THEN 0 ELSE nwrite + 1
    BY NextIs DEF IInv, TypeOK, Place
  <2>2. TypeOK'
    <3>1. i[p] + 1 \in 0..MaxN
      BY <1>1, SizeAssumption, SMTT(60) DEF IInv, TypeOK, Place, Calls
    <3>2. data' \in [0..PIPESIZE-1 -> Byte]
      BY DEF IInv, TypeOK, Place
    <3> QED
      BY <1>3, <2>1, <3>1, <3>2 DEF IInv, TypeOK, Place
  <2>3. Sides' /\ Locking'
    BY <1>1, ProcAssumption DEF IInv, TypeOK, Place, Sides, Locking, Proc
  <2>4. Ends'
    BY <1>1, <1>3, EndsUnchanged DEF IInv, TypeOK, Place
  <2>5. Calls'
    BY <1>1, SMTT(60) DEF IInv, TypeOK, Place, Calls
  <2>6. Bounded'
    <3>1. Count < PIPESIZE
      BY CountIs, SizeAssumption, SMTT(60) DEF IInv, Bounded
    <3>2. Count' = IF nread <= nwrite' THEN nwrite' - nread ELSE nwrite' + M - nread
      BY <1>3, <2>1, Distance DEF IInv, TypeOK, Place, Count
    <3> QED
      <4>1. /\ M \in Nat /\ M > PIPESIZE /\ PIPESIZE \in Nat
            /\ nread \in 0..M-1 /\ nwrite \in 0..M-1
        BY SizeAssumption DEF IInv, TypeOK
      <4>2. Count = IF nread <= nwrite THEN nwrite - nread ELSE nwrite + M - nread
        BY CountIs DEF IInv
      <4>3. Count' <= PIPESIZE
        BY <2>1, <3>1, <3>2, <4>1, <4>2, SMTT(60)
      <4> QED
        BY <4>3 DEF Bounded
  <2>7. Waiting'
    BY <1>1, <2>3 DEF IInv, TypeOK, Place, Locking, Waiting
  <2>8. Owed'
    <3>1. pc'[p] = "w_loop" /\ \A q \in Proc : q # p => pc'[q] = pc[q]
      BY DEF IInv, TypeOK, Place
    <3>2. \A q \in Proc : pc[q] # "r_copy"
      BY <1>1 DEF IInv, Locking
    <3> QED
      BY <1>1, <1>3, <3>1, <3>2 DEF IInv, Owed, OwedWriters, OwedReaders
  <2> QED
    BY <2>2, <2>3, <2>4, <2>5, <2>6, <2>7, <2>8 DEF IInv
<1>5. CASE ~(/\ ~Full
             /\ \E ch \in Byte : data' = [data EXCEPT ![nwrite % PIPESIZE] = ch]
             /\ nwrite' = (nwrite + 1) % M
             /\ i' = [i EXCEPT ![p] = @ + 1]
             /\ Goto(p, "w_loop")
             /\ UNCHANGED <<lock, n>>)
  <2>1. /\ UNCHANGED <<data, nwrite>> /\ lock' = Nobody
        /\ \/ Full /\ pc' = WakeReaders(p, "w_asleep") /\ UNCHANGED <<n, i>>
           \/ pc' = WakeReaders(p, "user") /\ Return(p)
    BY <1>5 DEF w_body, Return
  <2>2. /\ pc'[p] = "user" \/ (Full /\ pc'[p] = "w_asleep")
        /\ \A q \in Proc : q # p =>
             pc'[q] = IF pc[q] = "r_asleep" THEN "r_acquire" ELSE pc[q]
        /\ pc' \in [Proc -> Place]
    BY <2>1 DEF WakeReaders, IInv, TypeOK, Place
  <2>3. /\ pc'[p] = "user" => i' = [i EXCEPT ![p] = 0] /\ n' = [n EXCEPT ![p] = 0]
        /\ pc'[p] # "user" => UNCHANGED <<n, i>>
    BY <2>1 DEF WakeReaders, Return
  <2>4. TypeOK'
    BY <1>2, <1>3, <2>1, <2>2, <2>3 DEF IInv, TypeOK, Place
  <2>5. Sides' /\ Locking'
    BY <1>1, <2>1, <2>2, ProcAssumption DEF IInv, Sides, Locking, Proc
  <2>6. Ends'
    BY <1>1, <1>3, <2>2, EndsUnchanged DEF IInv
  <2>7. Calls'
    BY <1>1, <2>2, <2>3, SMTT(60) DEF IInv, TypeOK, Place, Calls
  <2>8. Bounded' /\ Full' = Full /\ Empty' = Empty
    BY <1>3, <2>1, RingUnchanged DEF IInv
  <2>9. Waiting' /\ OwedReaders'
    BY <1>1, <2>2 DEF IInv, Locking, Waiting, OwedReaders
  <2>10. OwedWriters'
    <3>1. Full => \A q \in Proc : pc[q] # "r_copy"
      BY <1>1 DEF IInv, Locking
    <3>2. pc'[p] = "w_asleep" => readopen
      BY <1>1 DEF IInv, Waiting
    <3> QED
      BY <1>1, <1>3, <2>2, <2>8, <3>1, <3>2 DEF IInv, Locking, Owed, OwedWriters
  <2> QED
    BY <2>4, <2>5, <2>6, <2>7, <2>8, <2>9, <2>10 DEF IInv, Owed
<1> QED
  BY <1>4, <1>5

\* The copy loop of piperead: the bytes it took are room the writers hear of
\* before it returns.
LEMMA RCopyIInv ==
  ASSUME IInv, NEW p \in Proc, r_copy(p)
  PROVE  IInv'
<1>1. p \in Reader /\ lock = p /\ pc[p] = "r_copy"
  BY DEF r_copy, IInv, TypeOK, Place, Sides, Locking, Proc
<1>2. 0 \in 0..MaxN
  BY SizeAssumption, SMTT(60)
<1>3. UNCHANGED <<data, nwrite, readopen, writeopen, freed, fds, killed>>
  BY DEF r_copy
<1>4. /\ nread' \in 0..M-1
      /\ Bounded'
      /\ nread' # nread => ~Empty
  <2>1. CASE nread' = nread
    BY <1>3, <2>1, RingUnchanged DEF IInv, TypeOK
  <2>2. CASE nread' = (nread + 1) % M /\ ~Empty
    <3>1. /\ M \in Nat /\ M > PIPESIZE /\ PIPESIZE \in Nat
          /\ nread \in 0..M-1 /\ nwrite \in 0..M-1
      BY SizeAssumption DEF IInv, TypeOK
    <3>2. nread' \in 0..M-1 /\ nread' = IF nread + 1 = M THEN 0 ELSE nread + 1
      BY <2>2, <3>1, NextIs
    <3>3. Count = IF nread <= nwrite THEN nwrite - nread ELSE nwrite + M - nread
      BY CountIs DEF IInv
    <3>4. Count' = IF nread' <= nwrite THEN nwrite - nread' ELSE nwrite + M - nread'
      BY <1>3, <3>1, <3>2, Distance DEF Count
    <3>5. Count <= PIPESIZE /\ nread # nwrite
      BY <2>2 DEF IInv, Bounded, Empty
    <3>6. Count' <= PIPESIZE
      BY <3>1, <3>2, <3>3, <3>4, <3>5, SMTT(60)
    <3> QED
      BY <2>2, <3>2, <3>6 DEF Bounded
  <2> QED
    BY <2>1, <2>2 DEF r_copy
<1>5. CASE i[p] < n[p] /\ i' = [i EXCEPT ![p] = @ + 1] /\ UNCHANGED <<pc, lock, n>>
  <2> USE <1>5
  <2>1. TypeOK'
    <3>1. i[p] + 1 \in 0..MaxN
      BY SizeAssumption, SMTT(60) DEF IInv, TypeOK
    <3> QED
      BY <1>3, <1>4, <3>1 DEF IInv, TypeOK
  <2>2. Sides' /\ Locking'
    BY DEF IInv, Sides, Locking
  <2>3. Ends'
    BY <1>3, EndsUnchanged DEF IInv
  <2>4. Calls'
    BY <1>1, SMTT(60) DEF IInv, TypeOK, Calls
  <2>5. Waiting' /\ OwedWriters'
    BY <1>1, <1>3 DEF IInv, Locking, Waiting, Owed, OwedWriters
  <2>6. (\E q \in Writer : killed[q]) \/ OwedReaders'
    <3>1. Empty => nread' = nread
      BY <1>4
    <3>2. \A q \in Proc : pc[q] \notin {"w_loop", "w_body"}
      BY <1>1 DEF IInv, Locking
    <3> QED
      BY <1>1, <1>3, <3>1, <3>2 DEF IInv, Owed, OwedReaders, Empty
  <2> QED
    BY <1>3, <1>4, <2>1, <2>2, <2>3, <2>4, <2>5, <2>6 DEF IInv, Owed
<1>6. CASE pc' = WakeWriters(p, "user") /\ Return(p)
  <2>1. /\ pc'[p] = "user"
        /\ \A q \in Proc : q # p =>
             pc'[q] = IF pc[q] = "w_asleep" THEN "w_acquire" ELSE pc[q]
        /\ pc' \in [Proc -> Place]
    BY <1>6 DEF WakeWriters, IInv, TypeOK, Place
  <2>2. TypeOK'
    BY <1>2, <1>3, <1>4, <1>6, <2>1 DEF Return, IInv, TypeOK
  <2>3. Sides' /\ Locking'
    BY <1>1, <1>6, <2>1, ProcAssumption DEF Return, IInv, Sides, Locking, Proc
  <2>4. Ends'
    BY <1>1, <1>3, <2>1, EndsUnchanged DEF IInv
  <2>5. Calls'
    BY <1>6, <2>1, SMTT(60) DEF Return, IInv, TypeOK, Calls
  <2>6. \A q \in Proc : pc'[q] # "w_asleep" /\ pc'[q] # "r_sleep" /\ pc'[q] # "w_body"
    BY <1>1, <2>1 DEF IInv, Locking
  <2>7. (\E q \in Writer : killed[q]) \/ OwedReaders'
    <3>1. Empty => nread' = nread
      BY <1>4
    <3>2. \A q \in Proc : pc[q] \notin {"w_loop", "w_body"}
      BY <1>1 DEF IInv, Locking
    <3> QED
      BY <1>1, <1>3, <2>1, <3>1, <3>2 DEF IInv, Owed, OwedReaders, Empty
  <2>8. Waiting' /\ Owed'
    BY <1>3, <2>6, <2>7 DEF Waiting, Owed, OwedWriters
  <2> QED
    BY <1>4, <2>2, <2>3, <2>4, <2>5, <2>8 DEF IInv
<1> QED
  BY <1>5, <1>6 DEF r_copy

\* Every step keeps it.
LEMMA NextIInv == IInv /\ [Next]_vars => IInv'
<1> SUFFICES ASSUME IInv, [Next]_vars PROVE IInv'
  OBVIOUS
<1>1. CASE UNCHANGED vars
  BY <1>1 DEF vars, pipe, IInv, TypeOK, Sides, Locking, Ends, End, Calls, Bounded,
              Count, Waiting, Owed, OwedWriters, OwedReaders, Full, Empty
<1>2. CASE done
  BY <1>1, <1>2 DEF done
<1>3. ASSUME NEW p \in Proc,
             \/ acquire(p) \/ inside(p) \/ fileclose(p) \/ pipeclose(p) \/ kill(p)
             \/ \E k \in 0..MaxN : call(p, k)
      PROVE  IInv'
  BY <1>3, AcquireIInv, WLoopIInv, WBodyIInv, RLoopIInv, RSleepIInv, RCopyIInv,
     FilecloseIInv, PipecloseIInv, KillIInv, CallIInv DEF inside
<1> QED
  BY <1>1, <1>2, <1>3 DEF Next

\* The invariant holds in every reachable state.
THEOREM Invariance == Spec => []IInv
<1> QED
  BY InitIInv, NextIInv, PTL DEF Spec

-----------------------------------------------------------------------------
(* The properties                                                          *)

\* The ring, the counters and the calls stay within their bounds, and pipeclose
\* frees the page only when every process has closed its descriptor.
THEOREM RingIsSafe == Spec => []RingSafe
<1>1. IInv => RingSafe
  BY DEF IInv, Ends, RingSafe, FreedUnused, Proc
<1> QED
  BY <1>1, Invariance, PTL

\* While pi->lock is free, a writer sleeps only on a full pipe that has readers
\* and, unless a writer was killed, a reader only on an empty one that has writers.
THEOREM NobodyIsStranded == Spec => []NobodyStranded
<1>1. IInv => NobodyStranded
  <2> SUFFICES ASSUME IInv PROVE NobodyStranded
    OBVIOUS
  <2>1. lock = Nobody => \A q \in Proc : pc[q] \notin {"w_loop", "w_body", "r_copy"}
    BY ProcAssumption DEF IInv, Locking, Proc
  <2> QED
    BY <2>1 DEF IInv, Owed, OwedWriters, OwedReaders, NobodyStranded,
                WriterNotStranded, ReaderWoken, ReaderNotStranded
<1> QED
  BY <1>1, Invariance, PTL

-----------------------------------------------------------------------------
(* The pipe implements ByteStream                                          *)

\* The bytes in the pipe, oldest first: what queue stands for in Stream.
Held == [k \in 1..Count |-> data[(nread + k - 1) % PIPESIZE]]

\* Quotient and remainder.
LEMMA DivMod ==
  ASSUME NEW m \in Nat, m > 0, NEW x \in Nat
  PROVE  \E q \in Nat, r \in 0..m-1 : x = m * q + r
<1>1. x \div m \in Nat
  BY SMTT(60)
<1>2. x % m \in 0..m-1
  BY SMTT(60)
<1>3. x = m * (x \div m) + (x % m)
  BY SMTT(60)
<1> QED
  BY <1>1, <1>2, <1>3

\* A number written with a remainder has that remainder.
LEMMA ModIs ==
  ASSUME NEW m \in Nat, m > 0, NEW q \in Nat, NEW r \in 0..m-1
  PROVE  (m * q + r) % m = r
  BY SMTT(60)

\* The place of a byte in the ring does not change when its counter wraps.
LEMMA SamePlace ==
  ASSUME NEW x \in Nat
  PROVE  /\ x % PIPESIZE \in 0..PIPESIZE-1
         /\ (x + M) % PIPESIZE = x % PIPESIZE
<1>1. PIPESIZE \in Nat /\ PIPESIZE > 0 /\ M \in Nat /\ M % PIPESIZE = 0
  BY SizeAssumption, SMTT(60)
<1>2. PICK j \in Nat : M = PIPESIZE * j
  BY <1>1, SMTT(60)
<1>3. PICK q \in Nat, r \in 0..PIPESIZE-1 : x = PIPESIZE * q + r
  BY <1>1, DivMod
<1>4. x + M = PIPESIZE * (q + j) + r /\ q + j \in Nat
  BY <1>1, <1>2, <1>3, SMTT(60)
<1>5. (PIPESIZE * q + r) % PIPESIZE = r
  BY <1>1, ModIs
<1>6. (PIPESIZE * (q + j) + r) % PIPESIZE = r
  BY <1>1, <1>4, ModIs
<1> QED
  BY <1>3, <1>4, <1>5, <1>6

\* Bytes fewer than PIPESIZE apart have places of their own.
LEMMA OwnPlace ==
  ASSUME NEW x \in Nat, NEW d \in 1..PIPESIZE-1
  PROVE  (x + d) % PIPESIZE # x % PIPESIZE
<1>1. PIPESIZE \in Nat /\ PIPESIZE > 0
  BY SizeAssumption, SMTT(60)
<1>2. PICK q \in Nat, r \in 0..PIPESIZE-1 : x = PIPESIZE * q + r
  BY <1>1, DivMod
<1>3. (PIPESIZE * q + r) % PIPESIZE = r
  BY <1>1, ModIs
<1>4. CASE r + d < PIPESIZE
  <2>1. x + d = PIPESIZE * q + (r + d) /\ r + d \in 0..PIPESIZE-1
    BY <1>1, <1>2, <1>4, SMTT(60)
  <2>2. (PIPESIZE * q + (r + d)) % PIPESIZE = r + d
    BY <1>1, <2>1, ModIs
  <2>3. r + d # r
    BY <1>1, SMTT(60)
  <2> QED
    BY <1>2, <1>3, <2>1, <2>2, <2>3
<1>5. CASE r + d >= PIPESIZE
  <2> DEFINE e == r + d - PIPESIZE
  <2>1. x + d = PIPESIZE * (q + 1) + e /\ e \in 0..PIPESIZE-1 /\ q + 1 \in Nat
    BY <1>1, <1>2, <1>5, SMTT(60)
  <2>2. (PIPESIZE * (q + 1) + e) % PIPESIZE = e
    BY <1>1, <2>1, ModIs
  <2>3. e # r
    BY <1>1, SMTT(60)
  <2> QED
    BY <1>2, <1>3, <2>1, <2>2, <2>3
<1> QED
  BY <1>1, <1>2, <1>4, <1>5, SMTT(60)

\* The pipe holds a sequence of bytes, PIPESIZE at most.
LEMMA HeldIs ==
  ASSUME IInv
  PROVE  /\ Count \in 0..PIPESIZE
         /\ Held \in Seq(Byte)
         /\ Len(Held) = Count
         /\ \A k \in 1..Count : Held[k] = data[(nread + k - 1) % PIPESIZE]
<1>1. Count \in 0..PIPESIZE
  BY CountIs, SizeAssumption, SMTT(60) DEF IInv, Bounded
<1>2. ASSUME NEW k \in 1..Count PROVE data[(nread + k - 1) % PIPESIZE] \in Byte
  <2>1. nread + k - 1 \in Nat
    BY <1>1, SizeAssumption, SMTT(60) DEF IInv, TypeOK
  <2>2. (nread + k - 1) % PIPESIZE \in 0..PIPESIZE-1
    BY <2>1, SamePlace
  <2> QED
    BY <2>2 DEF IInv, TypeOK
<1> QED
  BY <1>1, <1>2, SizeAssumption, SMTT(60) DEF Held

\* One more in either counter moves Count by one.
LEMMA CountMoves ==
  ASSUME IInv
  PROVE  /\ ~Empty => ((nwrite + M - ((nread + 1) % M)) % M) = Count - 1
         /\ ~Full => (((nwrite + 1) % M) + M - nread) % M = Count + 1
<1>1. /\ M \in Nat /\ M > PIPESIZE /\ PIPESIZE \in Nat
      /\ nread \in 0..M-1 /\ nwrite \in 0..M-1
  BY SizeAssumption DEF IInv, TypeOK
<1>2. Count = IF nread <= nwrite THEN nwrite - nread ELSE nwrite + M - nread
  BY CountIs DEF IInv
<1>3. ASSUME ~Empty PROVE (nwrite + M - ((nread + 1) % M)) % M = Count - 1
  <2>1. PICK r \in 0..M-1 : /\ r = (nread + 1) % M
                            /\ r = IF nread + 1 = M THEN 0 ELSE nread + 1
    BY <1>1, NextIs
  <2>2. (nwrite + M - r) % M = IF r <= nwrite THEN nwrite - r ELSE nwrite + M - r
    BY <1>1, Distance
  <2>3. (nwrite + M - r) % M = Count - 1
    BY <1>1, <1>2, <1>3, <2>1, <2>2, SMTT(60) DEF Empty
  <2> QED
    BY <2>1, <2>3
<1>4. ASSUME ~Full PROVE (((nwrite + 1) % M) + M - nread) % M = Count + 1
  <2>1. PICK w \in 0..M-1 : /\ w = (nwrite + 1) % M
                            /\ w = IF nwrite + 1 = M THEN 0 ELSE nwrite + 1
    BY <1>1, NextIs
  <2>2. (w + M - nread) % M = IF nread <= w THEN w - nread ELSE w + M - nread
    BY <1>1, Distance
  <2>3. Count < PIPESIZE
    BY <1>1, <1>4, HeldIs, CountIs, SMTT(60) DEF IInv
  <2>4. (w + M - nread) % M = Count + 1
    BY <1>1, <1>2, <2>1, <2>2, <2>3, SMTT(60)
  <2> QED
    BY <2>1, <2>4
<1> QED
  BY <1>3, <1>4

\* What Tail and Append return, element by element.
LEMMA TailAppend ==
  ASSUME NEW S, NEW s \in Seq(S), NEW e \in S
  PROVE  /\ s # <<>> => Tail(s) = [k \in 1..Len(s)-1 |-> s[k + 1]]
         /\ Append(s, e) = [k \in 1..Len(s)+1 |-> IF k = Len(s) + 1 THEN e ELSE s[k]]
<1>1. ASSUME s # <<>> PROVE Tail(s) = [k \in 1..Len(s)-1 |-> s[k + 1]]
  <2> DEFINE t == [k \in 1..Len(s)-1 |-> s[k + 1]]
  <2>1. Len(s) \in Nat \ {0} /\ \A k \in 1..Len(s) : s[k] \in S
    BY <1>1, SMTT(60)
  <2>2. t \in Seq(S) /\ Len(t) = Len(s) - 1
    BY <2>1, SMTT(60)
  <2>3. /\ Tail(s) \in Seq(S) /\ Len(Tail(s)) = Len(s) - 1
        /\ \A k \in 1..Len(s)-1 : Tail(s)[k] = s[k + 1]
    BY <1>1, HeadTailProperties
  <2> QED
    BY <2>2, <2>3, SeqEqual
<1>2. Append(s, e) = [k \in 1..Len(s)+1 |-> IF k = Len(s) + 1 THEN e ELSE s[k]]
  <2> DEFINE t == [k \in 1..Len(s)+1 |-> IF k = Len(s) + 1 THEN e ELSE s[k]]
  <2>1. Len(s) \in Nat /\ \A k \in 1..Len(s) : s[k] \in S
    BY SMTT(60)
  <2>2. t \in Seq(S) /\ Len(t) = Len(s) + 1
    BY <2>1, SMTT(60)
  <2>3. /\ Append(s, e) \in Seq(S) /\ Len(Append(s, e)) = Len(s) + 1
        /\ \A k \in 1..Len(s)+1 : Append(s, e)[k] = t[k]
    BY <2>1, SMTT(60)
  <2> QED
    BY <2>2, <2>3, SeqEqual
<1> QED
  BY <1>1, <1>2

\* piperead takes the oldest byte.
LEMMA TakeStep ==
  ASSUME IInv, ~Empty, nread' = (nread + 1) % M, UNCHANGED <<data, nwrite>>
  PROVE  Held # <<>> /\ Held' = Tail(Held)
<1>1. Count' = Count - 1
  BY CountMoves DEF Count
<1>2. Count \in 0..PIPESIZE /\ Count # 0
  BY HeldIs, CountIs DEF IInv
<1>3. Held # <<>> /\ Len(Tail(Held)) = Count - 1 /\ Tail(Held) \in Seq(Byte)
  BY <1>2, HeldIs, SizeAssumption, SMTT(60)
<1>4. ASSUME NEW k \in 1..Count-1
      PROVE  data[(nread' + k - 1) % PIPESIZE] = Held[k + 1]
  <2>1. k + 1 \in 1..Count /\ nread \in 0..M-1 /\ M \in Nat /\ k - 1 \in Nat
    BY <1>2, SizeAssumption, SMTT(60) DEF IInv, TypeOK
  <2>2. nread' = IF nread + 1 = M THEN 0 ELSE nread + 1
    BY <2>1, NextIs
  <2>3. CASE nread + 1 = M
    <3>1. ((k - 1) + M) % PIPESIZE = (k - 1) % PIPESIZE
      BY <2>1, SamePlace
    <3>2. nread + (k + 1) - 1 = (k - 1) + M /\ nread' + k - 1 = k - 1
      BY <2>1, <2>2, <2>3, SMTT(60)
    <3> QED
      BY <2>1, <3>1, <3>2, HeldIs
  <2>4. CASE nread + 1 # M
    <3>1. nread + (k + 1) - 1 = nread' + k - 1
      BY <2>1, <2>2, <2>4, SMTT(60)
    <3> QED
      BY <2>1, <3>1, HeldIs
  <2> QED
    BY <2>3, <2>4
<1>5. Held' = [k \in 1..Count-1 |-> Held[k + 1]]
  BY <1>1, <1>4 DEF Held
<1>6. Tail(Held) = [k \in 1..Count-1 |-> Held[k + 1]]
  BY <1>2, <1>3, HeldIs, TailAppend, ByteAssumption
<1> QED
  BY <1>3, <1>5, <1>6

\* pipewrite adds the newest byte, and overwrites none that was not read.
LEMMA PutStep ==
  ASSUME IInv, ~Full, NEW ch \in Byte, nwrite' = (nwrite + 1) % M, nread' = nread,
         data' = [data EXCEPT ![nwrite % PIPESIZE] = ch]
  PROVE  Len(Held) < PIPESIZE /\ Held' = Append(Held, ch)
<1>1. Count' = Count + 1
  BY CountMoves DEF Count
<1>2. Count \in 0..PIPESIZE /\ Count < PIPESIZE /\ Len(Held) = Count
  BY HeldIs, CountIs, SizeAssumption, SMTT(60) DEF IInv
<1>3. /\ M \in Nat /\ PIPESIZE \in Nat /\ nread \in 0..M-1 /\ nwrite \in 0..M-1
      /\ nwrite = nread + Count \/ nwrite + M = nread + Count
  BY CountIs, SizeAssumption, SMTT(60) DEF IInv, TypeOK
<1>4. /\ nwrite % PIPESIZE = (nread + Count) % PIPESIZE
      /\ nwrite % PIPESIZE \in 0..PIPESIZE-1
  BY <1>3, SamePlace, SMTT(60)
<1>5. ASSUME NEW k \in 1..Count
      PROVE  data'[(nread + k - 1) % PIPESIZE] = Held[k]
  <2> DEFINE x == nread + k - 1
             d == Count - k + 1
  <2>1. x \in Nat /\ d \in 1..PIPESIZE-1 /\ x + d = nread + Count
    BY <1>2, <1>3, SMTT(60)
  <2> HIDE DEF x, d
  <2>2. (x + d) % PIPESIZE # x % PIPESIZE
    BY <2>1, OwnPlace
  <2>3. x % PIPESIZE \in 0..PIPESIZE-1
    BY <2>1, SamePlace
  <2>4. data'[x % PIPESIZE] = data[x % PIPESIZE]
    BY <1>4, <2>1, <2>2, <2>3 DEF IInv, TypeOK
  <2> QED
    BY <2>4, HeldIs DEF x
<1>6. data'[(nread + (Count + 1) - 1) % PIPESIZE] = ch
  <2>1. nread + (Count + 1) - 1 = nread + Count
    BY <1>2, <1>3, SMTT(60)
  <2> QED
    BY <1>4, <2>1 DEF IInv, TypeOK
<1>7. Held' = [k \in 1..Count+1 |-> IF k = Count + 1 THEN ch ELSE Held[k]]
  BY <1>1, <1>2, <1>5, <1>6, SMTT(60) DEF Held
<1>8. Append(Held, ch) = [k \in 1..Count+1 |-> IF k = Count + 1 THEN ch ELSE Held[k]]
  <2>1. Held \in Seq(Byte)
    BY HeldIs
  <2>2. Append(Held, ch) = [k \in 1..Len(Held)+1 |->
                              IF k = Len(Held) + 1 THEN ch ELSE Held[k]]
    BY <2>1, TailAppend, SMTT(60)
  <2> QED
    BY <1>2, <2>2
<1> QED
  BY <1>2, <1>7, <1>8

\* Every step of the pipe is a step of the queue, or leaves it alone.
LEMMA FifoStep ==
  ASSUME IInv, [Next]_vars
  PROVE  [Stream!Next]_Held
<1>1. CASE UNCHANGED <<data, nread, nwrite>>
  BY <1>1 DEF Held, Count
<1>2. ASSUME NEW p \in Proc, w_body(p), nwrite' # nwrite PROVE Stream!Next
  <2>1. PICK ch \in Byte : /\ ~Full /\ nwrite' = (nwrite + 1) % M /\ nread' = nread
                           /\ data' = [data EXCEPT ![nwrite % PIPESIZE] = ch]
    BY <1>2 DEF w_body
  <2>2. Len(Held) < PIPESIZE /\ Held' = Append(Held, ch)
    BY <2>1, PutStep
  <2> QED
    BY <2>2 DEF Stream!Next, Stream!Put, Held
<1>3. ASSUME NEW p \in Proc, r_copy(p), nread' # nread PROVE Stream!Next
  <2>1. ~Empty /\ nread' = (nread + 1) % M /\ UNCHANGED <<data, nwrite>>
    BY <1>3 DEF r_copy
  <2>2. Held # <<>> /\ Held' = Tail(Held)
    BY <2>1, TakeStep
  <2> QED
    BY <2>2 DEF Stream!Next, Stream!Take, Held
<1>4. ASSUME NEW p \in Proc, w_body(p), nwrite' = nwrite PROVE UNCHANGED <<data, nread>>
  <2>1. (nwrite + 1) % M # nwrite
    <3>1. nwrite \in 0..M-1 /\ M \in Nat /\ M > 1
      BY SizeAssumption, SMTT(60) DEF IInv, TypeOK
    <3> QED
      BY <3>1, NextIs, SMTT(60)
  <2> QED
    BY <1>4, <2>1 DEF w_body
<1>5. ASSUME NEW p \in Proc, r_copy(p) PROVE UNCHANGED <<data, nwrite>>
  BY <1>5 DEF r_copy
<1>6. \/ UNCHANGED <<data, nread, nwrite>>
      \/ \E p \in Proc : w_body(p) \/ r_copy(p)
  BY DEF Next, vars, pipe, done, acquire, inside, w_loop, r_loop, r_sleep,
         fileclose, pipeclose, kill, call
<1> QED
  BY <1>1, <1>2, <1>3, <1>4, <1>5, <1>6

\* The pipe is a bounded queue: bytes leave it in the order they came in, none
\* twice, none overwritten and none invented, across the wrap of the counters.
THEOREM PipeIsFifo == Spec => Fifo
<1>1. Init => Stream!Init
  <2> SUFFICES ASSUME Init PROVE Held = <<>>
    BY DEF Stream!Init, Held
  <2>1. Count = 0
    BY InitIInv, CountIs DEF IInv, Init, Empty
  <2> QED
    BY <2>1, SMTT(60) DEF Held
<1>2. IInv /\ [Next]_vars => [Stream!Next]_Held
  BY FifoStep
<1> QED
  BY <1>1, <1>2, Invariance, PTL DEF Spec, Fifo, Stream!Spec, Held
=============================================================================
