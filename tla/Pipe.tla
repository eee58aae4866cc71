-------------------------------- MODULE Pipe --------------------------------
(***************************************************************************)
(* One pipe of kernel/pipe.c, read and written by processes that share its *)
(* two file descriptors, while some of them are killed.                    *)
(*                                                                         *)
(* pi->lock is state and a step is one turn of a loop, so that a kill,     *)
(* which needs only the victim's p->lock, falls between any two.  sleep    *)
(* releases pi->lock and blocks in one step: that is what Proc.tla shows   *)
(* of it.  A file descriptor's last close calls pipeclose (file.c:59-83).  *)
(***************************************************************************)
EXTENDS Naturals, Sequences

CONSTANTS Reader,     \* processes that have the read end open
          Writer,     \* processes that have the write end open
          Killable,   \* the processes that somebody kills
          Holders,    \* the sets of processes that may share the pipe at first
          Nobody,     \* holder of a free lock
          Byte,
          PIPESIZE,   \* size of pi->data
          M,          \* nread and nwrite count modulo M (2^32)
          MaxN        \* bound: bytes one call asks for

ASSUME ProcAssumption == Reader \cap Writer = {} /\ Nobody \notin Reader \cup Writer
ASSUME HoldersAssumption == \A s \in Holders : /\ s \subseteq Reader \cup Writer
                                               /\ s \cap Reader # {} /\ s \cap Writer # {}
ASSUME ByteAssumption == Byte # {}
ASSUME SizeAssumption == /\ PIPESIZE \in Nat \ {0} /\ M \in Nat /\ MaxN \in Nat
                         /\ M > PIPESIZE /\ M % PIPESIZE = 0

Proc == Reader \cup Writer

VARIABLES data, nread, nwrite, readopen, writeopen,   \* struct pipe
          lock,     \* who holds pi->lock
          freed,    \* kfree(pi) was called
          fds,      \* processes whose descriptor is open
          killed,
          pc,
          n, i      \* the parameter and the counter of a call

pipe == <<data, nread, nwrite, readopen, writeopen>>
vars == <<pipe, lock, freed, fds, killed, pc, n, i>>

Place == {"user", "close", "closed",
          "w_acquire", "w_loop", "w_body", "w_asleep",
          "r_acquire", "r_loop", "r_sleep", "r_asleep", "r_copy"}

TypeOK ==
  /\ data \in [0..PIPESIZE-1 -> Byte]
  /\ nread \in 0..M-1 /\ nwrite \in 0..M-1
  /\ readopen \in BOOLEAN /\ writeopen \in BOOLEAN
  /\ lock \in Proc \cup {Nobody}
  /\ freed \in BOOLEAN
  /\ fds \subseteq Proc
  /\ killed \in [Proc -> BOOLEAN]
  /\ pc \in [Proc -> Place]
  /\ n \in [Proc -> 0..MaxN] /\ i \in [Proc -> 0..MaxN]

\* pipealloc; the garbage kalloc left in data is never read.
Init == /\ data \in [0..PIPESIZE-1 -> {CHOOSE ch \in Byte : TRUE}]
        /\ nread = 0 /\ nwrite = 0
        /\ readopen = TRUE /\ writeopen = TRUE
        /\ lock = Nobody
        /\ freed = FALSE
        /\ fds \in Holders
        /\ killed = [p \in Proc |-> FALSE]
        /\ pc = [p \in Proc |-> IF p \in fds THEN "user" ELSE "closed"]
        /\ n = [p \in Proc |-> 0] /\ i = [p \in Proc |-> 0]

Empty == nread = nwrite
\* Mutant of Full: the writer goes one byte too far.
FullOffByOne == nwrite = (nread + PIPESIZE + 1) % M
Full == nwrite = (nread + PIPESIZE) % M

Goto(p, l) == pc' = [pc EXCEPT ![p] = l]

\* pc after p went to l and wakeup(&pi->nread), or wakeup(&pi->nwrite).
WakeReaders(p, l) == [q \in Proc |-> IF q = p THEN l
                                     ELSE IF pc[q] = "r_asleep" THEN "r_acquire"
                                     ELSE pc[q]]
WakeWriters(p, l) == [q \in Proc |-> IF q = p THEN l
                                     ELSE IF pc[q] = "w_asleep" THEN "w_acquire"
                                     ELSE pc[q]]

\* The call of p returns: its local variables are gone.
Return(p) == /\ lock' = Nobody
             /\ n' = [n EXCEPT ![p] = 0]
             /\ i' = [i EXCEPT ![p] = 0]

-----------------------------------------------------------------------------
(* read and write                                                          *)

\* A killed process exits instead (usertrap).
call(p, k) ==
  /\ pc[p] = "user" /\ p \in fds /\ ~killed[p]
  /\ n' = [n EXCEPT ![p] = k]
  /\ Goto(p, IF p \in Writer THEN "w_acquire" ELSE "r_acquire")
  /\ UNCHANGED <<pipe, lock, freed, fds, killed, i>>

\* acquire(&pi->lock), at the start of a call or at the end of sleep.
acquire(p) ==
  /\ pc[p] \in {"w_acquire", "r_acquire"}
  /\ lock = Nobody
  /\ lock' = p
  /\ Goto(p, IF p \in Writer THEN "w_loop" ELSE "r_loop")
  /\ UNCHANGED <<pipe, freed, fds, killed, n, i>>

\* Mutant of w_loop: the wakeup is missing.
WLoopQuiet(p) ==
  /\ pc[p] = "w_loop"
  /\ IF i[p] < n[p] /\ readopen /\ ~killed[p]
       THEN Goto(p, "w_body") /\ UNCHANGED <<lock, n, i>>
       ELSE Goto(p, "user") /\ Return(p)
  /\ UNCHANGED <<pipe, freed, fds, killed>>

\* The head of the loop of pipewrite.
w_loop(p) ==
  /\ pc[p] = "w_loop"
  /\ \/ /\ i[p] >= n[p]
        /\ pc' = WakeReaders(p, "user")
        /\ Return(p)
     \/ /\ i[p] < n[p] /\ (~readopen \/ killed[p])
        /\ Goto(p, "user")
        /\ Return(p)
     \/ /\ i[p] < n[p] /\ readopen /\ ~killed[p]
        /\ Goto(p, "w_body")
        /\ UNCHANGED <<lock, n, i>>
  /\ UNCHANGED <<pipe, freed, fds, killed>>

\* The rest of the loop: sleep on a full pipe, else copy a byte unless copyin
\* fails.
w_body(p) ==
  /\ pc[p] = "w_body"
  /\ \/ /\ Full
        /\ pc' = WakeReaders(p, "w_asleep")
        /\ lock' = Nobody
        /\ UNCHANGED <<data, nwrite, n, i>>
     \/ /\ ~Full
        /\ pc' = WakeReaders(p, "user")
        /\ Return(p)
        /\ UNCHANGED <<data, nwrite>>
     \/ /\ ~Full
        /\ \E ch \in Byte : data' = [data EXCEPT ![nwrite % PIPESIZE] = ch]
        /\ nwrite' = (nwrite + 1) % M
        /\ i' = [i EXCEPT ![p] = @ + 1]
        /\ Goto(p, "w_loop")
        /\ UNCHANGED <<lock, n>>
  /\ UNCHANGED <<nread, readopen, writeopen, freed, fds, killed>>

\* The first loop of piperead.
r_loop(p) ==
  /\ pc[p] = "r_loop"
  /\ \/ /\ Empty /\ writeopen /\ killed[p]
        /\ Goto(p, "user")
        /\ Return(p)
     \/ /\ Empty /\ writeopen /\ ~killed[p]
        /\ Goto(p, "r_sleep")
        /\ UNCHANGED <<lock, n, i>>
     \/ /\ ~(Empty /\ writeopen)
        /\ Goto(p, "r_copy")
        /\ UNCHANGED <<lock, n, i>>
  /\ UNCHANGED <<pipe, freed, fds, killed>>

r_sleep(p) ==
  /\ pc[p] = "r_sleep"
  /\ Goto(p, "r_asleep")
  /\ lock' = Nobody
  /\ UNCHANGED <<pipe, freed, fds, killed, n, i>>

\* The copy loop of piperead; a byte whose copyout fails is gone.
r_copy(p) ==
  /\ pc[p] = "r_copy"
  /\ \/ /\ i[p] = n[p] \/ Empty
        /\ pc' = WakeWriters(p, "user")
        /\ Return(p)
        /\ UNCHANGED nread
     \/ /\ i[p] < n[p] /\ ~Empty
        /\ nread' = (nread + 1) % M
        /\ \/ /\ i' = [i EXCEPT ![p] = @ + 1]
              /\ UNCHANGED <<pc, lock, n>>
           \/ /\ pc' = WakeWriters(p, "user")
              /\ Return(p)
  /\ UNCHANGED <<data, nwrite, readopen, writeopen, freed, fds, killed>>

-----------------------------------------------------------------------------
(* close and kill                                                          *)

\* The processes at the same end of the pipe.
End(p) == IF p \in Writer THEN Writer ELSE Reader

\* fileclose: the last reference goes on to pipeclose.
fileclose(p) ==
  /\ pc[p] = "user" /\ p \in fds
  /\ fds' = fds \ {p}
  /\ Goto(p, IF fds \cap End(p) = {p} THEN "close" ELSE "closed")
  /\ UNCHANGED <<pipe, lock, freed, killed, n, i>>

\* Mutants of pipeclose: the page is freed when one end is closed; nobody is
\* woken.
PipecloseOr(p) ==
  /\ pc[p] = "close" /\ lock = Nobody
  /\ writeopen' = (writeopen /\ p \notin Writer)
  /\ readopen' = (readopen /\ p \notin Reader)
  /\ pc' = IF p \in Writer THEN WakeReaders(p, "closed") ELSE WakeWriters(p, "closed")
  /\ freed' = TRUE
  /\ UNCHANGED <<data, nread, nwrite, lock, fds, killed, n, i>>
PipecloseQuiet(p) ==
  /\ pc[p] = "close" /\ lock = Nobody
  /\ writeopen' = (writeopen /\ p \notin Writer)
  /\ readopen' = (readopen /\ p \notin Reader)
  /\ Goto(p, "closed")
  /\ freed' = (~readopen' /\ ~writeopen')
  /\ UNCHANGED <<data, nread, nwrite, lock, fds, killed, n, i>>

pipeclose(p) ==
  /\ pc[p] = "close"
  /\ lock = Nobody
  /\ IF p \in Writer
       THEN /\ writeopen' = FALSE
            /\ pc' = WakeReaders(p, "closed")
            /\ UNCHANGED readopen
       ELSE /\ readopen' = FALSE
            /\ pc' = WakeWriters(p, "closed")
            /\ UNCHANGED writeopen
  /\ freed' = (~readopen' /\ ~writeopen')
  /\ UNCHANGED <<data, nread, nwrite, lock, fds, killed, n, i>>

\* kkill of p: a sleeper runs again and reacquires pi->lock.  It makes no
\* difference to the pipe once p has closed it.
kill(p) ==
  /\ p \in Killable /\ ~killed[p] /\ pc[p] # "closed"
  /\ killed' = [killed EXCEPT ![p] = TRUE]
  /\ pc' = [pc EXCEPT ![p] = CASE @ = "r_asleep" -> "r_acquire"
                               [] @ = "w_asleep" -> "w_acquire"
                               [] OTHER -> @]
  /\ UNCHANGED <<pipe, lock, freed, fds, n, i>>

\* Everybody has closed the pipe.
done == /\ \A p \in Proc : pc[p] = "closed"
        /\ UNCHANGED vars

inside(p) == w_loop(p) \/ w_body(p) \/ r_loop(p) \/ r_sleep(p) \/ r_copy(p)

Next == \/ \E p \in Proc : \/ acquire(p) \/ inside(p) \/ fileclose(p)
                           \/ pipeclose(p) \/ kill(p)
                           \/ \E k \in 0..MaxN : call(p, k)
        \/ done

Spec == Init /\ [][Next]_vars

\* A process in the pipe code keeps running, and a spinlock that is free again
\* and again is acquired.  Nobody has to call, to close or to kill.
Fairness == \A p \in Proc : SF_vars(acquire(p) \/ inside(p) \/ pipeclose(p))

FairSpec == Spec /\ Fairness

-----------------------------------------------------------------------------
(* Properties.                                                             *)

Count == (nwrite + M - nread) % M

(***************************************************************************)
(* The pipe implements a bounded queue: bytes leave it in the order they   *)
(* came in, none twice and none invented, across the wrap of the counters. *)
(***************************************************************************)
Stream == INSTANCE ByteStream
            WITH Capacity <- PIPESIZE,
                 queue <- [k \in 1..Count |-> data[(nread + k - 1) % PIPESIZE]]
Fifo == Stream!Spec

\* No writer sleeps in pipewrite while there is room, or after the read end was
\* closed: whoever made it so called wakeup(&pi->nwrite).
WriterNotStranded ==
  lock = Nobody /\ (\E p \in Proc : pc[p] = "w_asleep") => Full /\ readopen

\* No reader sleeps in piperead (//DOC: pipe-empty, pipe.c:113) while there is
\* something to read, or after the write end was closed.
ReaderNotStranded ==
  lock = Nobody /\ (\E p \in Proc : pc[p] = "r_asleep") => Empty /\ writeopen

\* The same as long as no writer was killed: pipewrite wakes the readers on
\* every other way out, and before it sleeps.
ReaderWoken == (\E p \in Writer : killed[p]) \/ ReaderNotStranded

\* The page of the pipe is freed only when no process is in the pipe code, on
\* its way there or asleep in it.
FreedUnused == freed => \A p \in Proc : pc[p] = "closed"

\* A read or a write returns once the other end is closed: end of file, or -1.
ReadReturns == \A p \in Reader : ~writeopen /\ pc[p] # "user" ~>
                                 pc[p] \in {"user", "closed"}
WriteReturns == \A p \in Writer : ~readopen /\ pc[p] # "user" ~>
                                  pc[p] \in {"user", "closed"}

\* Nobody sleeps in a pipe who could go on: every change a sleeper waits for is
\* followed by its wakeup before pi->lock is released.
NobodyStranded == WriterNotStranded /\ ReaderWoken

\* The ring and the calls stay within their bounds, and pipeclose frees them only
\* when nobody uses them.
RingSafe == TypeOK /\ FreedUnused

\* Both ends notice that the other one was closed (pipeclose wakes both).
CallsReturn == ReadReturns /\ WriteReturns
=============================================================================
