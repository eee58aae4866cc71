----------------------------- MODULE VirtioDisk -----------------------------
(***************************************************************************)
(* The disk driver of kernel/virtio_disk.c and the device it talks to      *)
(* through descriptors and two rings in shared memory.                     *)
(*                                                                         *)
(* The driver's steps are its critical sections under disk.vdisk_lock, cut *)
(* where the device could look: the avail entry is written in one step and *)
(* avail->idx in the next, and each turn of the interrupt handler's loop   *)
(* is a step.  A buffer is named by the process that has it locked; the    *)
(* buffer cache keeps one buffer per sector.  A field that nobody may read *)
(* before it is written again becomes Null: a read of it would be noticed. *)
(***************************************************************************)
EXTENDS Naturals, FiniteSets

CONSTANTS Proc,      \* processes with a locked buffer
          Sector,
          Value,
          Zero,
          Null,      \* null pointer
          Intr,      \* the holder of vdisk_lock in virtio_disk_intr
          NUM,       \* descriptors, and entries of each ring
          M          \* the ring counters count modulo M (2^16)

ASSUME ProcAssumption == IsFiniteSet(Proc) /\ Null \notin Proc /\ Intr \notin Proc /\ Intr # Null
ASSUME ValueAssumption == Zero \in Value
ASSUME SizeAssumption == /\ NUM \in Nat \ {0} /\ M \in Nat \ {0}
                         /\ M % NUM = 0

Desc == 0..NUM-1

VARIABLES free,              \* disk.free
          desc,              \* disk.desc: addr (an ops or status entry, or a
                             \* buffer), next, and the NEXT flag
          ops,               \* disk.ops: type and sector
          info,              \* disk.info[].b
          status,            \* disk.info[].status
          ring, avail_idx,   \* disk.avail
          used, used_end,    \* disk.used: ring, and idx
          used_idx,          \* disk.used_idx
          lock,              \* who holds vdisk_lock
          busy,              \* b->disk
          data,              \* b->data
          pc, req,           \* place and request of each process
          idx,               \* idx[0] of virtio_disk_rw
          irq,               \* device: interrupt raised and not acknowledged
          seen, work,        \* device: avail entries seen, requests in work
          disk               \* device: the sectors

descs == <<free, desc, ops, info>>
rings == <<ring, avail_idx, used_idx>>
device == <<status, used, used_end, irq, seen, work, disk>>
procs == <<busy, data, pc, req, idx>>
vars == <<descs, rings, device, procs, lock>>

NoDesc == [addr |-> Null, next |-> 0, more |-> FALSE]
NoReq == [write |-> FALSE, sector |-> Null, value |-> Zero]

TypeOK ==
  /\ free \in [Desc -> BOOLEAN]
  /\ desc \in [Desc -> [addr : Desc \cup Proc \cup {Null}, next : Desc, more : BOOLEAN]]
  /\ ops \in [Desc -> [write : BOOLEAN, sector : Sector] \cup {Null}]
  /\ info \in [Desc -> Proc \cup {Null}]
  /\ status \in [Desc -> {0, 255, Null}]
  /\ {ring, used} \subseteq [0..NUM-1 -> Desc \cup {Null}]
  /\ {avail_idx, used_end, used_idx, seen} \subseteq 0..M-1
  /\ lock \in Proc \cup {Intr, Null}
  /\ busy \in [Proc -> BOOLEAN]
  /\ data \in [Proc -> Value]
  /\ pc \in [Proc -> {"idle", "alloc", "nodesc", "publish", "asleep", "woken"}]
  /\ req \in [Proc -> [write : BOOLEAN, sector : Sector \cup {Null}, value : Value]]
  /\ idx \in [Proc -> Desc]
  /\ irq \in BOOLEAN
  /\ work \subseteq Desc
  /\ disk \in [Sector -> Value]

Init ==
  /\ free = [d \in Desc |-> TRUE]
  /\ desc = [d \in Desc |-> NoDesc]
  /\ ops = [d \in Desc |-> Null]
  /\ info = [d \in Desc |-> Null]
  /\ status = [d \in Desc |-> Null]
  /\ ring = [k \in 0..NUM-1 |-> Null] /\ used = [k \in 0..NUM-1 |-> Null]
  /\ avail_idx = 0 /\ used_end = 0 /\ used_idx = 0 /\ seen = 0
  /\ lock = Null
  /\ busy = [p \in Proc |-> FALSE]
  /\ data = [p \in Proc |-> Zero]
  /\ pc = [p \in Proc |-> "idle"]
  /\ req = [p \in Proc |-> NoReq]
  /\ idx = [p \in Proc |-> 0]
  /\ irq = FALSE
  /\ work = {}
  /\ disk = [s \in Sector |-> Zero]

Goto(p, l) == pc' = [pc EXCEPT ![p] = l]
Free == {d \in Desc : free[d]}
\* The descriptors alloc_desc finds first, second and third.
Nth(k) == CHOOSE d \in Free : Cardinality({e \in Free : e < d}) = k - 1

\* pc after p went to l and wakeup(&disk.free[0]).
WakeAllocators(p, l) == [q \in Proc |-> IF q = p THEN l
                                        ELSE IF pc[q] = "nodesc" THEN "alloc"
                                        ELSE pc[q]]

-----------------------------------------------------------------------------
(* virtio_disk_rw                                                          *)

\* The buffer cache calls virtio_disk_rw for a buffer it has locked.  The
\* value is what the transfer must leave in the buffer and in the sector.
call(p, w, s, v) ==
  /\ pc[p] = "idle"
  /\ \A q \in Proc : req[q].sector # s
  /\ w \/ v = disk[s]
  /\ req' = [req EXCEPT ![p] = [write |-> w, sector |-> s, value |-> v]]
  /\ data' = IF w THEN [data EXCEPT ![p] = v] ELSE data
  /\ Goto(p, "alloc")
  /\ UNCHANGED <<descs, rings, device, lock, busy, idx>>

\* alloc3_desc fails: it gives back what it took, waking all who wait for
\* descriptors, and the process waits for some.
alloc_fail(p) ==
  /\ pc[p] = "alloc" /\ lock = Null
  /\ Cardinality(Free) < 3
  /\ pc' = IF Free = {} THEN [pc EXCEPT ![p] = "nodesc"] ELSE WakeAllocators(p, "nodesc")
  /\ UNCHANGED <<descs, rings, device, lock, busy, data, req, idx>>

\* Mutant of record: the buffer is recorded under the second descriptor.
RecordSecond(p, d) == /\ info' = [info EXCEPT ![Nth(2)] = p]
                      /\ status' = [status EXCEPT ![d] = 255]

\* What virtio_disk_intr needs to know of the request with head d.
record(p, d) == /\ info' = [info EXCEPT ![d] = p]
                /\ status' = [status EXCEPT ![d] = 255]

\* The three descriptors, the request and the avail entry are written.
fill(p) ==
  LET a == Nth(1)  b == Nth(2)  c == Nth(3) IN
  /\ free' = [free EXCEPT ![a] = FALSE, ![b] = FALSE, ![c] = FALSE]
  /\ desc' = [desc EXCEPT
       ![a] = [addr |-> a, next |-> b, more |-> TRUE],
       ![b] = [addr |-> p, next |-> c, more |-> TRUE],
       ![c] = [addr |-> a, next |-> 0, more |-> FALSE]]
  /\ ops' = [ops EXCEPT ![a] = [write |-> req[p].write, sector |-> req[p].sector]]
  /\ record(p, a)
  /\ ring' = [ring EXCEPT ![avail_idx % NUM] = a]
  /\ idx' = [idx EXCEPT ![p] = a]

alloc(p) ==
  /\ pc[p] = "alloc" /\ lock = Null
  /\ Cardinality(Free) >= 3
  /\ fill(p)
  /\ busy' = [busy EXCEPT ![p] = TRUE]
  /\ lock' = p
  /\ Goto(p, "publish")
  /\ UNCHANGED <<avail_idx, used_idx, used, used_end, irq, seen, work, disk, data, req>>

\* The device is told, and the process sleeps: b->disk is still 1, since the
\* interrupt handler needs the lock to clear it.
publish(p) ==
  /\ pc[p] = "publish"
  /\ avail_idx' = (avail_idx + 1) % M
  /\ lock' = Null
  /\ Goto(p, "asleep")
  /\ UNCHANGED <<descs, ring, used_idx, device, busy, data, req, idx>>

\* The descriptors free_chain visits from head d.
Chain(d) == LET e == desc[d].next IN
            {d} \cup (IF ~desc[d].more THEN {}
                      ELSE {e} \cup (IF desc[e].more THEN {desc[e].next} ELSE {}))

\* disk.info[idx[0]].b = 0, free_chain and the return; the client's buffer and
\* request are forgotten.
return(p) ==
  /\ info' = [info EXCEPT ![idx[p]] = Null]
  /\ ops' = [ops EXCEPT ![idx[p]] = Null]
  /\ status' = [status EXCEPT ![idx[p]] = Null]
  /\ free' = [d \in Desc |-> free[d] \/ d \in Chain(idx[p])]
  /\ desc' = [d \in Desc |-> IF d \in Chain(idx[p]) THEN NoDesc ELSE desc[d]]
  /\ pc' = WakeAllocators(p, "idle")
  /\ req' = [req EXCEPT ![p] = NoReq]
  /\ data' = [data EXCEPT ![p] = Zero]
  /\ idx' = [idx EXCEPT ![p] = 0]

\* Mutant of finish: an if instead of the while around sleep.
FinishIf(p) ==
  /\ pc[p] = "woken" /\ lock = Null
  /\ return(p)
  /\ UNCHANGED <<busy, rings, used, used_end, irq, seen, work, disk, lock>>

\* Awake: sleep again while the disk has the buffer.
finish(p) ==
  /\ pc[p] = "woken" /\ lock = Null
  /\ \/ /\ busy[p]
        /\ Goto(p, "asleep")
        /\ UNCHANGED <<descs, status, data, req, idx>>
     \/ /\ ~busy[p]
        /\ return(p)
  /\ UNCHANGED <<busy, rings, used, used_end, irq, seen, work, disk, lock>>

\* kkill wakes a process wherever it sleeps; the driver does not look at
\* p->killed.
kill(p) ==
  /\ pc[p] \in {"asleep", "nodesc"}
  /\ Goto(p, IF pc[p] = "asleep" THEN "woken" ELSE "alloc")
  /\ UNCHANGED <<descs, rings, device, lock, busy, data, req, idx>>

-----------------------------------------------------------------------------
(* The device                                                              *)

fetch ==
  /\ seen # avail_idx
  /\ work' = work \cup {ring[seen % NUM]}
  /\ ring' = [ring EXCEPT ![seen % NUM] = Null]
  /\ seen' = (seen + 1) % M
  /\ UNCHANGED <<descs, avail_idx, used_idx, status, used, used_end, irq, disk, procs, lock>>

\* A request in work is done, in any order: the device follows the chain to
\* the operation, the data and the status byte.
serve(d) ==
  /\ d \in work
  /\ LET data_desc == desc[desc[d].next]
         op == ops[desc[d].addr]
         b == data_desc.addr
     IN /\ disk' = IF op.write THEN [disk EXCEPT ![op.sector] = data[b]] ELSE disk
        /\ data' = IF op.write THEN data ELSE [data EXCEPT ![b] = disk[op.sector]]
        /\ status' = [status EXCEPT ![desc[data_desc.next].addr] = 0]
  /\ work' = work \ {d}
  /\ used' = [used EXCEPT ![used_end % NUM] = d]
  /\ used_end' = (used_end + 1) % M
  /\ irq' = TRUE
  /\ UNCHANGED <<descs, rings, seen, busy, pc, req, idx, lock>>

-----------------------------------------------------------------------------
(* virtio_disk_intr                                                        *)

\* The lock is taken and the interrupt acknowledged.
intr_enter ==
  /\ irq /\ lock = Null
  /\ irq' = FALSE
  /\ lock' = Intr
  /\ UNCHANGED <<descs, rings, status, used, used_end, seen, work, disk, procs>>

\* Mutant of intr_loop: no wakeup.
IntrLoopQuiet ==
  /\ lock = Intr /\ used_idx # used_end
  /\ busy' = [busy EXCEPT ![info[used[used_idx % NUM]]] = FALSE]
  /\ used_idx' = (used_idx + 1) % M
  /\ UNCHANGED <<descs, ring, avail_idx, device, data, pc, req, idx, lock>>

\* One entry of the used ring: the buffer is its process's again.
intr_loop ==
  /\ lock = Intr /\ used_idx # used_end
  /\ LET b == info[used[used_idx % NUM]]
     IN /\ busy' = [busy EXCEPT ![b] = FALSE]
        /\ pc' = [pc EXCEPT ![b] = IF @ = "asleep" THEN "woken" ELSE @]
  /\ used_idx' = (used_idx + 1) % M
  /\ used' = [used EXCEPT ![used_idx % NUM] = Null]
  /\ UNCHANGED <<descs, ring, avail_idx, status, used_end, irq, seen, work, disk,
                 data, req, idx, lock>>

\* Mutant of intr_exit: an if instead of the while over the used ring.
IntrExitEarly ==
  /\ lock = Intr
  /\ lock' = Null
  /\ UNCHANGED <<descs, rings, device, procs>>

intr_exit ==
  /\ lock = Intr /\ used_idx = used_end
  /\ lock' = Null
  /\ UNCHANGED <<descs, rings, device, procs>>

handler == intr_enter \/ intr_loop \/ intr_exit

Next ==
  \/ \E p \in Proc :
       \/ \E w \in BOOLEAN, s \in Sector, v \in Value : call(p, w, s, v)
       \/ alloc_fail(p) \/ alloc(p) \/ publish(p) \/ finish(p) \/ kill(p)
  \/ fetch \/ (\E d \in Desc : serve(d))
  \/ handler

Spec == Init /\ [][Next]_vars

\* The device does what it was told and interrupts are taken; vdisk_lock, free
\* again and again, is acquired.  Nobody has to call, and nothing is assumed
\* of who gets the descriptors.
Fairness == /\ WF_vars(fetch) /\ \A d \in Desc : WF_vars(serve(d))
            /\ SF_vars(intr_enter) /\ WF_vars(intr_loop) /\ WF_vars(intr_exit)
            /\ \A p \in Proc : WF_vars(publish(p)) /\ SF_vars(finish(p))

FairSpec == Spec /\ Fairness

-----------------------------------------------------------------------------
(* Properties                                                              *)

InFlight == {p \in Proc : pc[p] \in {"publish", "asleep", "woken"}}

\* virtio_disk_rw returns only when the device has moved the data: the buffer
\* and the sector hold what was written, or what the sector held, even if
\* the process is woken by a kill.
Served == [][\A p \in Proc : pc[p] = "woken" /\ pc'[p] = "idle" =>
               data[p] = req[p].value /\ disk[req[p].sector] = req[p].value]_vars

\* free[] and the chains agree: requests in flight have three descriptors each,
\* none in common, and all others are free.  With it free_desc never panics.
DescriptorsExact ==
  /\ \A p \in InFlight : Cardinality(Chain(idx[p])) = 3
  /\ \A p, q \in InFlight : p # q => Chain(idx[p]) \cap Chain(idx[q]) = {}
  /\ Free = Desc \ UNION {Chain(idx[p]) : p \in InFlight}

\* A used entry names a request whose status is 0 and whose buffer still waits
\* for it: virtio_disk_intr neither panics nor follows a null pointer.
UsedEntriesValid ==
  \A k \in 0..((used_end + M - used_idx) % M) - 1 :
    LET d == used[(used_idx + k) % NUM]
    IN /\ status[d] = 0
       /\ info[d] \in InFlight /\ idx[info[d]] = d /\ busy[info[d]]

\* No completion is lost: while the used ring has an entry the driver has not
\* seen, an interrupt is pending or the handler is in its loop.
CompletionNotLost == used_idx # used_end => irq \/ lock = Intr

\* No process sleeps for descriptors while three are free.
AllocatorNotStranded ==
  (\E p \in Proc : pc[p] = "nodesc") => Cardinality(Free) < 3

\* No process sleeps for a buffer the disk is done with.
SleeperBusy == \A p \in Proc : pc[p] = "asleep" => busy[p]

\* A request that has its descriptors completes and virtio_disk_rw returns.
RequestCompletes == \A p \in Proc : pc[p] = "asleep" ~> pc[p] = "idle"

\* Driver and device agree on the descriptors: each is free or in one chain, and
\* every used entry leads the interrupt handler to a request still in flight.
RingsExact == TypeOK /\ DescriptorsExact /\ UsedEntriesValid

\* No interrupt and no wakeup of the driver is lost.
NobodyStranded == CompletionNotLost /\ AllocatorNotStranded /\ SleeperBusy
=============================================================================
