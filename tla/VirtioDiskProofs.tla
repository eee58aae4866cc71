-------------------------- MODULE VirtioDiskProofs --------------------------
(***************************************************************************)
(* Proofs about VirtioDisk, for any number of processes, descriptors and   *)
(* ring entries and any modulus of the ring counters.                      *)
(*                                                                         *)
(* The descriptor chains are the processes' until they free them (Chained, *)
(* ChainsApart, FreeRest), a request that was published is in exactly one  *)
(* of the avail ring, the device and the used ring until the interrupt     *)
(* handler clears b->disk (Posting), and until the device has served it    *)
(* the transfer is still to be done (Transfers).                           *)
(***************************************************************************)
EXTENDS VirtioDisk, FiniteSetTheorems, RingLemmas, WellFoundedInduction

\* Most steps are first-order; the ones that need arithmetic or many facts at once
\* name the SMT solver.
USE ZenonT(60)

\* Avail entries the device has not seen, used entries the driver has not seen.
Unfetched == Queue(ring, seen, avail_idx, NUM, M)
Unseen == Queue(used, used_idx, used_end, NUM, M)

\* The processes whose request was published and is not known to be done.
Posted == {p \in InFlight : pc[p] # "publish" /\ busy[p]}

\* Head p's request is still to be served.
Pending(p) == \/ pc[p] \in {"alloc", "nodesc", "publish"}
              \/ p \in InFlight /\ idx[p] \in Unfetched \cup work

\* a, b and c are the chain of p's request, which leads the device to the
\* operation, the buffer and the status.
Linked(ds, p, a, b, c) ==
  /\ a # b /\ b # c /\ a # c
  /\ ds[a] = [addr |-> a, next |-> b, more |-> TRUE]
  /\ ds[b] = [addr |-> p, next |-> c, more |-> TRUE]
  /\ ds[c] = [addr |-> a, next |-> 0, more |-> FALSE]

\* A request in flight has a chain of three descriptors, and its head leads the
\* driver to the buffer.
Chained ==
  \A p \in InFlight :
    /\ \E b, c \in Desc : Linked(desc, p, idx[p], b, c)
    /\ info[idx[p]] = p
    /\ ops[idx[p]] = [write |-> req[p].write, sector |-> req[p].sector]

ChainsApart == \A p, q \in InFlight : p # q => Chain(idx[p]) \cap Chain(idx[q]) = {}

FreeRest == \A d \in Desc : free[d] <=> \A p \in InFlight : d \notin Chain(idx[p])

\* Who is about to publish holds the lock, and its entry is the next.
Publishing ==
  \A p \in Proc : /\ pc[p] = "publish" <=> lock = p
                  /\ pc[p] = "publish" => busy[p] /\ ring[avail_idx % NUM] = idx[p]

\* A posted request is in one place.
Posting ==
  /\ Distinct(ring, seen, avail_idx, NUM, M) /\ Distinct(used, used_idx, used_end, NUM, M)
  /\ Unfetched \cap work = {} /\ Unfetched \cap Unseen = {} /\ work \cap Unseen = {}
  /\ Unfetched \cup work \cup Unseen = {idx[p] : p \in Posted}
  /\ \A d \in Unseen : status[d] = 0

\* No two requests are for the same sector.
Sectors ==
  /\ \A p \in Proc : pc[p] # "idle" => req[p].sector \in Sector
  /\ \A p, q \in Proc : pc[p] # "idle" /\ pc[q] # "idle" /\ p # q =>
       req[p].sector # req[q].sector

\* What is to be written is in the buffer and what is to be read is in the
\* sector, and once the request was served it is in both.
Transfers ==
  \A p \in Proc : pc[p] # "idle" =>
    /\ req[p].write \/ ~Pending(p) => data[p] = req[p].value
    /\ ~req[p].write \/ ~Pending(p) => disk[req[p].sector] = req[p].value

IInv == /\ TypeOK /\ Chained /\ ChainsApart /\ FreeRest /\ Publishing /\ Posting
        /\ Sectors /\ Transfers /\ NobodyStranded

-----------------------------------------------------------------------------
(* What the invariant says of a request and of the rings                   *)

\* Chain for the descriptors ds.
ChainOf(ds, d) == LET e == ds[d].next IN
                  {d} \cup (IF ~ds[d].more THEN {}
                            ELSE {e} \cup (IF ds[e].more THEN {ds[e].next} ELSE {}))

\* free_chain visits the three descriptors of a request.
LEMMA LinkedChain ==
  ASSUME NEW ds, NEW p, NEW a, NEW b, NEW c, Linked(ds, p, a, b, c)
  PROVE  ChainOf(ds, a) = {a, b, c}
<1>1. ds[a].next = b /\ ds[a].more = TRUE /\ ds[b].next = c /\ ds[b].more = TRUE
  BY SMTT(60) DEF Linked
<1> QED
  BY <1>1 DEF ChainOf

\* The descriptors of a request.
LEMMA ChainIs ==
  ASSUME IInv, NEW p \in InFlight
  PROVE  \E b, c \in Desc : /\ Linked(desc, p, idx[p], b, c)
                            /\ Chain(idx[p]) = {idx[p], b, c}
<1>1. PICK b \in Desc, c \in Desc : Linked(desc, p, idx[p], b, c)
  BY DEF IInv, Chained
<1>2. Chain(idx[p]) = ChainOf(desc, idx[p])
  BY DEF Chain, ChainOf
<1>3. ChainOf(desc, idx[p]) = {idx[p], b, c}
  BY <1>1, LinkedChain, SMTT(60)
<1> QED
  BY <1>1, <1>2, <1>3

\* The heads of the requests in flight.
Heads == {idx[p] : p \in InFlight}

\* Two requests have different heads.
LEMMA HeadsDiffer ==
  ASSUME IInv, NEW p \in InFlight, NEW q \in InFlight, idx[p] = idx[q]
  PROVE  p = q
<1>1. idx[p] \in Chain(idx[p]) /\ idx[q] \in Chain(idx[q])
  BY DEF Chain
<1> QED
  BY <1>1 DEF IInv, ChainsApart

\* A queue of different entries of H is no longer than H has elements.
LEMMA QueueFits ==
  ASSUME NEW n, NEW m, RingSizes(n, m), NEW r \in 0..m-1, NEW w \in 0..m-1, NEW f,
         Distinct(f, r, w, n, m), NEW H, IsFiniteSet(H), Queue(f, r, w, n, m) \subseteq H
  PROVE  Ahead(w, r, m) <= Cardinality(H)
<1>1. m \in Nat \ {0}
  BY DEF RingSizes
<1>2. PICK a \in 0..m-1 : a = Ahead(w, r, m)
  BY <1>1, AheadIs
<1> DEFINE h == [k \in 0..a-1 |-> f[(r + k) % n]]
<1>3. h \in Injection(0..a-1, H)
  <2>1. \A k \in 0..a-1 : f[(r + k) % n] \in H
    BY <1>2 DEF Queue
  <2>2. \A i, j \in 0..a-1 : f[(r + i) % n] = f[(r + j) % n] => i = j
    BY <1>2 DEF Distinct
  <2>3. h \in [0..a-1 -> H]
    BY <2>1
  <2>4. \A i, j \in 0..a-1 : h[i] = h[j] => i = j
    BY <2>2
  <2> QED
    BY <2>3, <2>4 DEF Injection, IsInjective
<1>4. IsFiniteSet(0..a-1) /\ Cardinality(0..a-1) = a
  <2>1. 0 \in Int /\ a - 1 \in Int
    BY SMTT(60)
  <2> QED
    BY <2>1, FS_Interval, SMTT(60)
<1> HIDE DEF h
<1>5. Cardinality(0..a-1) <= Cardinality(H)
  BY <1>3, <1>4, FS_Injection
<1> QED
  BY <1>2, <1>4, <1>5

\* The sizes of the rings and the ranges of the counters.
LEMMA RingsAre ==
  /\ RingSizes(NUM, M) /\ NUM \in Nat \ {0} /\ M \in Nat \ {0}
  /\ IsFiniteSet(Desc) /\ Cardinality(Desc) = NUM
  /\ IInv => /\ avail_idx \in 0..M-1 /\ seen \in 0..M-1
             /\ used_end \in 0..M-1 /\ used_idx \in 0..M-1
             /\ ring \in [0..NUM-1 -> Desc \cup {Null}]
             /\ used \in [0..NUM-1 -> Desc \cup {Null}]
<1>1. RingSizes(NUM, M) /\ NUM \in Nat \ {0} /\ M \in Nat \ {0}
  BY SizeAssumption DEF RingSizes
<1>2. IsFiniteSet(Desc) /\ Cardinality(Desc) = NUM
  <2>1. 0 \in Int /\ NUM - 1 \in Int
    BY <1>1, SMTT(60)
  <2>2. IsFiniteSet(0..NUM-1)
        /\ Cardinality(0..NUM-1) = IF 0 > NUM - 1 THEN 0 ELSE NUM - 1 - 0 + 1
    BY <2>1, FS_Interval
  <2> QED
    BY <1>1, <2>2, SMTT(60) DEF Desc
<1>3. IInv => /\ avail_idx \in 0..M-1 /\ seen \in 0..M-1
              /\ used_end \in 0..M-1 /\ used_idx \in 0..M-1
              /\ ring \in [0..NUM-1 -> Desc \cup {Null}]
              /\ used \in [0..NUM-1 -> Desc \cup {Null}]
  BY DEF IInv, TypeOK
<1> QED
  BY <1>1, <1>2, <1>3

\* There are fewer requests than descriptors, and so than ring entries.
LEMMA HeadsFew ==
  ASSUME IInv
  PROVE  IsFiniteSet(Heads) /\ Cardinality(Heads) \in Nat /\ Cardinality(Heads) < NUM
<1>1. Heads \in SUBSET Desc
  BY SMTT(60) DEF Heads, InFlight, IInv, TypeOK
<1>2. Heads # Desc
  <2>1. CASE InFlight = {}
    <3>1. 0 \in Desc
      BY RingsAre, SMTT(60) DEF Desc
    <3> QED
      BY <2>1, <3>1 DEF Heads
  <2>2. CASE InFlight # {}
    <3>1. PICK p \in InFlight : TRUE
      BY <2>2
    <3>2. PICK b \in Desc : b \in Chain(idx[p]) /\ b # idx[p]
      BY ChainIs DEF Linked
    <3>3. ASSUME NEW q \in InFlight, idx[q] = b PROVE FALSE
      <4>1. b \in Chain(idx[q])
        BY <3>3 DEF Chain
      <4> QED
        BY <3>2, <3>3, <4>1 DEF IInv, ChainsApart
    <3> QED
      BY <3>2, <3>3 DEF Heads
  <2> QED
    BY <2>1, <2>2
<1>3. IsFiniteSet(Heads) /\ Cardinality(Heads) <= NUM /\ Cardinality(Heads) # NUM
  BY <1>1, <1>2, RingsAre, FS_Subset
<1>4. Cardinality(Heads) \in Nat
  BY <1>3, FS_CardinalityType
<1> QED
  BY <1>3, <1>4, RingsAre, SMTT(60)

\* So the rings are never full, and have room for a request that is not in them.
LEMMA RingsFit ==
  ASSUME IInv
  PROVE  /\ Ahead(avail_idx, seen, M) \in Nat /\ Ahead(avail_idx, seen, M) < NUM
         /\ Ahead(used_end, used_idx, M) \in Nat /\ Ahead(used_end, used_idx, M) < NUM
         /\ \A p \in InFlight : idx[p] \notin Unfetched => Ahead(avail_idx, seen, M) + 1 < NUM
         /\ \A p \in InFlight : idx[p] \notin Unseen => Ahead(used_end, used_idx, M) + 1 < NUM
<1>1. Unfetched \subseteq Heads /\ Unseen \subseteq Heads
  BY DEF IInv, Posting, Posted, Heads
<1>2. /\ Ahead(avail_idx, seen, M) \in Nat
      /\ Ahead(used_end, used_idx, M) \in Nat
  BY RingsAre, AheadIs, SMTT(60)
<1>3. /\ Distinct(ring, seen, avail_idx, NUM, M)
      /\ Distinct(used, used_idx, used_end, NUM, M)
  BY DEF IInv, Posting
<1>4. IsFiniteSet(Heads) /\ Cardinality(Heads) \in Nat /\ Cardinality(Heads) < NUM
  BY HeadsFew
<1>5. ASSUME NEW H, IsFiniteSet(H), Unfetched \subseteq H
      PROVE  Ahead(avail_idx, seen, M) <= Cardinality(H)
  BY <1>3, <1>5, RingsAre, QueueFits DEF Unfetched
<1>6. ASSUME NEW H, IsFiniteSet(H), Unseen \subseteq H
      PROVE  Ahead(used_end, used_idx, M) <= Cardinality(H)
  BY <1>3, <1>6, RingsAre, QueueFits DEF Unseen
<1>7. ASSUME NEW p \in InFlight
      PROVE  /\ IsFiniteSet(Heads \ {idx[p]})
             /\ Cardinality(Heads \ {idx[p]}) = Cardinality(Heads) - 1
  <2>1. idx[p] \in Heads
    BY DEF Heads
  <2> QED
    BY <1>4, <2>1, FS_RemoveElement
<1>8. Ahead(avail_idx, seen, M) < NUM /\ Ahead(used_end, used_idx, M) < NUM
  BY <1>1, <1>2, <1>4, <1>5, <1>6, RingsAre, SMTT(60)
<1>9. ASSUME NEW p \in InFlight, idx[p] \notin Unfetched
      PROVE  Ahead(avail_idx, seen, M) + 1 < NUM
  <2>1. Ahead(avail_idx, seen, M) <= Cardinality(Heads) - 1
    <3>1. Unfetched \subseteq Heads \ {idx[p]}
      BY <1>1, <1>9
    <3> QED
      BY <1>5, <1>7, <3>1
  <2> QED
    BY <1>2, <1>4, <2>1, RingsAre, SMTT(60)
<1>10. ASSUME NEW p \in InFlight, idx[p] \notin Unseen
       PROVE  Ahead(used_end, used_idx, M) + 1 < NUM
  <2>1. Ahead(used_end, used_idx, M) <= Cardinality(Heads) - 1
    <3>1. Unseen \subseteq Heads \ {idx[p]}
      BY <1>1, <1>10
    <3> QED
      BY <1>6, <1>7, <3>1
  <2> QED
    BY <1>2, <1>4, <2>1, RingsAre, SMTT(60)
<1> QED
  BY <1>2, <1>8, <1>9, <1>10

\* Nth returns what it looks for when there is one.
LEMMA NthFound ==
  ASSUME NEW k, NEW x \in Free, Cardinality({e \in Free : e < x}) = k - 1
  PROVE  Nth(k) \in Free /\ Cardinality({e \in Free : e < Nth(k)}) = k - 1
BY DEF Nth

\* The first three free descriptors are free and different.
LEMMA NthIs ==
  ASSUME Cardinality(Free) >= 3
  PROVE  /\ Nth(1) \in Free /\ Nth(2) \in Free /\ Nth(3) \in Free
         /\ Nth(1) # Nth(2) /\ Nth(2) # Nth(3) /\ Nth(1) # Nth(3)
<1>1. Free \in SUBSET Nat /\ IsFiniteSet(Free) /\ Cardinality(Free) \in Nat
  BY RingsAre, FS_Subset, FS_CardinalityType, SMTT(60) DEF Free, Desc
<1>2. ASSUME NEW S \in SUBSET Nat, S # {} PROVE \E x \in S : \A y \in S : x <= y
  <2>1. PICK x \in S : \A y \in S : ~(<<y, x>> \in OpToRel(<, Nat))
    BY <1>2, WFMin, NatLessThanWellFounded
  <2>2. ASSUME NEW y \in S PROVE x <= y
    <3>1. y < x => <<y, x>> \in OpToRel(<, Nat)
      BY DEF OpToRel
    <3>2. ~(y < x)
      BY <2>1, <3>1
    <3> QED
      BY <3>2, SMTT(60)
  <2> QED
    BY <2>2
<1>3. Free # {}
  BY <1>1, FS_EmptySet, SMTT(60)
<1>4. PICK x \in Free : \A y \in Free : x <= y
  BY <1>1, <1>2, <1>3
<1>5. Cardinality({e \in Free : e < x}) = 1 - 1
  <2>1. \A e \in Free : ~(e < x)
    BY <1>1, <1>4, SMTT(60)
  <2>2. {e \in Free : e < x} = {}
    BY <2>1
  <2> QED
    BY <2>2, FS_EmptySet, SMTT(60)
<1>6. IsFiniteSet(Free \ {x}) /\ Cardinality(Free \ {x}) = Cardinality(Free) - 1
  BY <1>1, FS_RemoveElement
<1>7. Free \ {x} # {} /\ Free \ {x} \in SUBSET Nat
  BY <1>1, <1>6, FS_EmptySet, SMTT(60)
<1>8. PICK y \in Free \ {x} : \A z \in Free \ {x} : y <= z
  BY <1>2, <1>7
<1>9. Cardinality({e \in Free : e < y}) = 2 - 1
  <2>1. x \in Nat /\ y \in Nat /\ x < y
    BY <1>1, <1>4, <1>8, SMTT(60)
  <2>2. \A e \in Free : e # x => ~(e < y)
    BY <1>1, <1>8, SMTT(60)
  <2>3. {e \in Free : e < y} = {x}
    BY <2>1, <2>2
  <2>4. Cardinality({e \in Free : e < y}) = 1
    BY <2>3, FS_Singleton
  <2> QED
    BY <2>4, SMTT(60)
<1>10. Cardinality((Free \ {x}) \ {y}) = Cardinality(Free) - 1 - 1
  <2>1. Cardinality((Free \ {x}) \ {y}) = Cardinality(Free \ {x}) - 1
    BY <1>6, FS_RemoveElement
  <2> QED
    BY <1>6, <2>1
<1>11. (Free \ {x}) \ {y} # {} /\ (Free \ {x}) \ {y} \in SUBSET Nat
  BY <1>1, <1>10, FS_EmptySet, SMTT(60)
<1>12. PICK z \in (Free \ {x}) \ {y} : \A u \in (Free \ {x}) \ {y} : z <= u
  BY <1>2, <1>11
<1>13. Cardinality({e \in Free : e < z}) = 3 - 1
  <2>1. x \in Nat /\ y \in Nat /\ z \in Nat /\ x < z /\ y < z
    BY <1>1, <1>4, <1>8, <1>12, SMTT(60)
  <2>2. \A e \in Free : e # x /\ e # y => ~(e < z)
    BY <1>1, <1>12, SMTT(60)
  <2>3. {e \in Free : e < z} = {x} \cup {y}
    BY <2>1, <2>2
  <2>4. y \notin {x} /\ IsFiniteSet({x}) /\ Cardinality({x}) = 1
    BY FS_Singleton
  <2>5. Cardinality({x} \cup {y}) = 1 + 1
    BY <2>4, FS_AddElement
  <2> QED
    BY <2>3, <2>5, SMTT(60)
<1>14. Nth(1) \in Free /\ Cardinality({e \in Free : e < Nth(1)}) = 1 - 1
  BY <1>5, NthFound
<1>15. Nth(2) \in Free /\ Cardinality({e \in Free : e < Nth(2)}) = 2 - 1
  BY <1>9, NthFound
<1>16. Nth(3) \in Free /\ Cardinality({e \in Free : e < Nth(3)}) = 3 - 1
  BY <1>13, NthFound
<1>17. Nth(1) # Nth(2) /\ Nth(2) # Nth(3) /\ Nth(1) # Nth(3)
  BY <1>14, <1>15, <1>16, SMTT(60)
<1> QED
  BY <1>14, <1>15, <1>16, <1>17

-----------------------------------------------------------------------------
(* What a step leaves alone                                                *)

\* A step that keeps the requests in flight and the descriptors.
LEMMA ChainsKept ==
  ASSUME IInv, UNCHANGED <<free, desc, ops, info, idx>>,
         \A q \in Proc : pc'[q] \in {"publish", "asleep", "woken"} <=> q \in InFlight,
         \A q \in InFlight : req'[q] = req[q]
  PROVE  Chained' /\ ChainsApart' /\ FreeRest' /\ InFlight' = InFlight
<1>1. InFlight' = InFlight
  BY DEF InFlight
<1>2. ASSUME NEW q \in InFlight PROVE Chain(idx[q])' = Chain(idx[q])
  BY DEF Chain
<1>3. Chained'
  BY <1>1 DEF IInv, Chained
<1>4. ChainsApart'
  BY <1>1, <1>2 DEF IInv, ChainsApart
<1>5. FreeRest'
  BY <1>1, <1>2 DEF IInv, FreeRest
<1> QED
  BY <1>1, <1>3, <1>4, <1>5

\* A step that keeps the rings, the device and the posted requests.
LEMMA RingsKept ==
  ASSUME IInv, UNCHANGED <<ring, avail_idx, used_idx, status, used, used_end, seen, work, idx>>,
         Posted' = Posted
  PROVE  Posting' /\ Unfetched' = Unfetched /\ Unseen' = Unseen
<1>1. Unfetched' = Unfetched /\ Unseen' = Unseen
  BY DEF Unfetched, Unseen
<1>2. {idx'[p] : p \in Posted'} = {idx[p] : p \in Posted}
  OBVIOUS
<1>3. /\ Distinct(ring, seen, avail_idx, NUM, M)' <=> Distinct(ring, seen, avail_idx, NUM, M)
      /\ Distinct(used, used_idx, used_end, NUM, M)' <=> Distinct(used, used_idx, used_end, NUM, M)
  OBVIOUS
<1> QED
  BY <1>1, <1>2, <1>3 DEF IInv, Posting

\* A step that keeps the contents, the requests and which of them are pending.
LEMMA TransfersKept ==
  ASSUME IInv, UNCHANGED <<req, data, disk>>,
         \A q \in Proc : pc'[q] = "idle" <=> pc[q] = "idle",
         \A q \in Proc : pc[q] # "idle" => (Pending(q)' <=> Pending(q))
  PROVE  Sectors' /\ Transfers'
<1>1. Sectors'
  BY DEF IInv, Sectors
<1>2. Transfers'
  BY DEF IInv, Transfers
<1> QED
  BY <1>1, <1>2

\* Whether a request is pending, from its place and the rings.
LEMMA PendingKept ==
  ASSUME NEW q \in Proc, idx'[q] = idx[q],
         Unfetched' \cup work' = Unfetched \cup work,
         pc'[q] \in {"publish", "asleep", "woken"} <=> pc[q] \in {"publish", "asleep", "woken"},
         pc'[q] \in {"alloc", "nodesc", "publish"} <=> pc[q] \in {"alloc", "nodesc", "publish"}
  PROVE  Pending(q)' <=> Pending(q)
BY DEF Pending, InFlight

\* Nothing is in flight at the start.
LEMMA InitIInv ==
  Init => IInv
<1> SUFFICES ASSUME Init PROVE IInv
  OBVIOUS
<1>1. RingSizes(NUM, M) /\ NUM \in Nat \ {0} /\ M \in Nat \ {0} /\ 0 \in 0..M-1 /\ 0 \in Desc
  BY RingsAre, SMTT(60) DEF Desc
<1>2. InFlight = {}
  BY DEF Init, InFlight
<1>3. TypeOK
  <2>1. /\ free \in [Desc -> BOOLEAN]
        /\ ops \in [Desc -> [write : BOOLEAN, sector : Sector] \cup {Null}]
        /\ info \in [Desc -> Proc \cup {Null}]
        /\ status \in [Desc -> {0, 255, Null}]
        /\ busy \in [Proc -> BOOLEAN]
        /\ data \in [Proc -> Value]
        /\ pc \in [Proc -> {"idle", "alloc", "nodesc", "publish", "asleep", "woken"}]
        /\ disk \in [Sector -> Value]
    BY ValueAssumption DEF Init
  <2>2. desc \in [Desc -> [addr : Desc \cup Proc \cup {Null}, next : Desc, more : BOOLEAN]]
    BY <1>1 DEF Init, NoDesc
  <2>3. req \in [Proc -> [write : BOOLEAN, sector : Sector \cup {Null}, value : Value]]
    BY ValueAssumption DEF Init, NoReq
  <2>4. {ring, used} \subseteq [0..NUM-1 -> Desc \cup {Null}]
    BY DEF Init
  <2>5. {avail_idx, used_end, used_idx, seen} \subseteq 0..M-1
    BY <1>1 DEF Init
  <2>6. idx \in [Proc -> Desc]
    BY <1>1 DEF Init
  <2>7. lock \in Proc \cup {Intr, Null} /\ irq \in BOOLEAN /\ work \subseteq Desc
    BY DEF Init
  <2> QED
    BY <2>1, <2>2, <2>3, <2>4, <2>5, <2>6, <2>7 DEF TypeOK
<1>4. Chained /\ ChainsApart
  BY <1>2 DEF Chained, ChainsApart
<1>5. FreeRest
  BY <1>2 DEF FreeRest, Init
<1>6. Publishing
  BY ProcAssumption DEF Publishing, Init
<1>7. Posting
  <2>1. Posted = {}
    BY <1>2 DEF Posted
  <2>2. /\ Unfetched = {} /\ Distinct(ring, seen, avail_idx, NUM, M)
        /\ Unseen = {} /\ Distinct(used, used_idx, used_end, NUM, M)
    BY <1>1, QueueEmpty DEF Init, Unfetched, Unseen
  <2>3. {idx[p] : p \in Posted} = {}
    BY <2>1
  <2>4. work = {}
    BY DEF Init
  <2> QED
    BY <2>2, <2>3, <2>4 DEF Posting
<1>8. Sectors /\ Transfers
  BY DEF Init, Sectors, Transfers
<1>9. NobodyStranded
  BY DEF Init, NobodyStranded, CompletionNotLost, AllocatorNotStranded, SleeperBusy
<1> QED
  BY <1>3, <1>4, <1>5, <1>6, <1>7, <1>8, <1>9 DEF IInv

\* A step that puts nobody to sleep and keeps what sleepers wait for.
LEMMA SleepersKept ==
  ASSUME IInv, UNCHANGED <<used_idx, used_end, irq, lock, free, busy>>,
         \A q \in Proc : pc'[q] \in {"nodesc", "asleep"} => pc[q] = pc'[q]
  PROVE  NobodyStranded'
<1>1. Free' = Free
  BY DEF Free
<1>2. CompletionNotLost'
  BY DEF IInv, NobodyStranded, CompletionNotLost
<1>3. AllocatorNotStranded'
  BY <1>1 DEF IInv, NobodyStranded, AllocatorNotStranded
<1>4. SleeperBusy'
  BY DEF IInv, NobodyStranded, SleeperBusy
<1> QED
  BY <1>2, <1>3, <1>4 DEF NobodyStranded

-----------------------------------------------------------------------------
(* Steps of a process                                                      *)

\* A call of virtio_disk_rw.
LEMMA CallIInv ==
  ASSUME IInv, NEW p \in Proc, NEW w \in BOOLEAN, NEW s \in Sector, NEW v \in Value,
         call(p, w, s, v)
  PROVE  IInv'
<1>1. /\ pc[p] = "idle" /\ pc' = [pc EXCEPT ![p] = "alloc"]
      /\ \A q \in Proc : req[q].sector # s
      /\ w \/ v = disk[s]
      /\ req' = [req EXCEPT ![p] = [write |-> w, sector |-> s, value |-> v]]
      /\ data' = IF w THEN [data EXCEPT ![p] = v] ELSE data
      /\ UNCHANGED <<free, desc, ops, info, ring, avail_idx, used_idx, status, used,
                     used_end, irq, seen, work, disk, lock, busy, idx>>
  BY DEF call, Goto, descs, rings, device
<1>2. TypeOK
  BY DEF IInv
<1>3. /\ pc'[p] = "alloc" /\ \A q \in Proc : q # p => pc'[q] = pc[q]
      /\ req'[p] = [write |-> w, sector |-> s, value |-> v]
      /\ \A q \in Proc : q # p => req'[q] = req[q]
      /\ \A q \in Proc : q # p => data'[q] = data[q]
      /\ w => data'[p] = v
  <2>1. pc'[p] = "alloc" /\ \A q \in Proc : q # p => pc'[q] = pc[q]
    BY <1>1, <1>2 DEF TypeOK
  <2>2. /\ req'[p] = [write |-> w, sector |-> s, value |-> v]
        /\ \A q \in Proc : q # p => req'[q] = req[q]
    BY <1>1, <1>2 DEF TypeOK
  <2>3. (\A q \in Proc : q # p => data'[q] = data[q]) /\ (w => data'[p] = v)
    BY <1>1, <1>2 DEF TypeOK
  <2> QED
    BY <2>1, <2>2, <2>3
<1>4. TypeOK'
  <2>1. pc' \in [Proc -> {"idle", "alloc", "nodesc", "publish", "asleep", "woken"}]
    BY <1>1, <1>2 DEF TypeOK
  <2>2. data' \in [Proc -> Value]
    BY <1>1, <1>2 DEF TypeOK
  <2>3. req' \in [Proc -> [write : BOOLEAN, sector : Sector \cup {Null}, value : Value]]
    BY <1>1, <1>2 DEF TypeOK
  <2> QED
    BY <1>1, <1>2, <2>1, <2>2, <2>3 DEF TypeOK
<1>5. p \notin InFlight
  BY <1>1 DEF InFlight
<1>6. Chained' /\ ChainsApart' /\ FreeRest' /\ InFlight' = InFlight
  <2>1. \A q \in Proc : pc'[q] \in {"publish", "asleep", "woken"} <=> q \in InFlight
    BY <1>1, <1>3 DEF InFlight
  <2>2. \A q \in InFlight : req'[q] = req[q]
    BY <1>3, <1>5 DEF InFlight
  <2> QED
    BY <1>1, <2>1, <2>2, ChainsKept
<1>7. Publishing'
  BY <1>1, <1>3, SMTT(60) DEF IInv, Publishing
<1>8. Posting' /\ Unfetched' = Unfetched /\ Unseen' = Unseen
  <2>1. Posted' = Posted
    BY <1>1, <1>3, <1>5, <1>6 DEF Posted, InFlight
  <2> QED
    BY <1>1, <2>1, RingsKept
<1>9. Sectors'
  <2>1. \A q \in Proc : req'[q].sector \in Sector \/ pc'[q] = "idle"
    BY <1>3, SMTT(60) DEF IInv, Sectors
  <2>2. ASSUME NEW q \in Proc, NEW r \in Proc, pc'[q] # "idle", pc'[r] # "idle", q # r
        PROVE  req'[q].sector # req'[r].sector
    BY <1>1, <1>3, <2>2, SMTT(60) DEF IInv, Sectors
  <2> QED
    BY <2>1, <2>2 DEF Sectors
<1>10. Transfers'
  <2> SUFFICES ASSUME NEW q \in Proc, pc'[q] # "idle"
               PROVE  /\ req'[q].write \/ ~Pending(q)' => data'[q] = req'[q].value
                      /\ ~req'[q].write \/ ~Pending(q)' => disk'[req'[q].sector] = req'[q].value
    BY DEF Transfers
  <2>1. CASE q = p
    <3>1. Pending(q)'
      BY <1>3, <2>1 DEF Pending
    <3>2. req'[p].write = w /\ req'[p].sector = s /\ req'[p].value = v
      BY <1>3, SMTT(60)
    <3> QED
      BY <1>1, <1>3, <2>1, <3>1, <3>2
  <2>2. CASE q # p
    <3>1. Pending(q)' <=> Pending(q)
      BY <1>1, <1>3, <1>8, <2>2, PendingKept
    <3> QED
      BY <1>1, <1>3, <2>2, <3>1 DEF IInv, Transfers
  <2> QED
    BY <2>1, <2>2
<1>11. NobodyStranded'
  BY <1>1, <1>3, SleepersKept
<1> QED
  BY <1>4, <1>6, <1>7, <1>8, <1>9, <1>10, <1>11 DEF IInv

\* A step that changes nothing but places: it goes to sleep only where that is
\* right, and neither starts nor ends a request or its publication.
LEMMA MoveIInv ==
  ASSUME IInv,
         pc' \in [Proc -> {"idle", "alloc", "nodesc", "publish", "asleep", "woken"}],
         \A q \in Proc :
           /\ pc'[q] = "idle" <=> pc[q] = "idle"
           /\ pc'[q] = "publish" <=> pc[q] = "publish"
           /\ pc'[q] \in {"alloc", "nodesc"} <=> pc[q] \in {"alloc", "nodesc"}
           /\ pc'[q] \in {"asleep", "woken"} <=> pc[q] \in {"asleep", "woken"}
           /\ pc'[q] = "nodesc" => pc[q] = "nodesc" \/ Cardinality(Free) < 3
           /\ pc'[q] = "asleep" => pc[q] = "asleep" \/ busy[q],
         UNCHANGED <<descs, rings, device, lock, busy, data, req, idx>>
  PROVE  IInv'
<1>1. UNCHANGED <<free, desc, ops, info, ring, avail_idx, used_idx, status, used,
                  used_end, irq, seen, work, disk, lock, busy, data, req, idx>>
  BY DEF descs, rings, device
<1>2. TypeOK'
  BY <1>1 DEF IInv, TypeOK
<1>3. Chained' /\ ChainsApart' /\ FreeRest' /\ InFlight' = InFlight
  <2>1. \A q \in Proc : pc'[q] \in {"publish", "asleep", "woken"} <=> q \in InFlight
    BY DEF InFlight
  <2> QED
    BY <1>1, <2>1, ChainsKept
<1>4. Publishing'
  BY <1>1 DEF IInv, Publishing
<1>5. Posting' /\ Unfetched' = Unfetched /\ Unseen' = Unseen
  <2>1. Posted' = Posted
    BY <1>1, <1>3 DEF Posted, InFlight
  <2> QED
    BY <1>1, <2>1, RingsKept
<1>6. Sectors' /\ Transfers'
  <2>1. ASSUME NEW q \in Proc PROVE Pending(q)' <=> Pending(q)
    BY <1>1, <1>5, PendingKept
  <2> QED
    BY <1>1, <2>1, TransfersKept
<1>7. NobodyStranded'
  <2>1. Free' = Free
    BY <1>1 DEF Free
  <2>2. CompletionNotLost'
    BY <1>1 DEF IInv, NobodyStranded, CompletionNotLost
  <2>3. AllocatorNotStranded'
    BY <2>1 DEF IInv, NobodyStranded, AllocatorNotStranded
  <2>4. SleeperBusy'
    BY <1>1 DEF IInv, NobodyStranded, SleeperBusy
  <2> QED
    BY <2>2, <2>3, <2>4 DEF NobodyStranded
<1> QED
  BY <1>2, <1>3, <1>4, <1>5, <1>6, <1>7 DEF IInv

\* Waiting for descriptors, a kill, and going back to sleep move a process.
LEMMA AllocFailIInv ==
  ASSUME IInv, NEW p \in Proc, alloc_fail(p)
  PROVE  IInv'
<1>1. /\ pc[p] = "alloc" /\ Cardinality(Free) < 3
      /\ \/ pc' = [pc EXCEPT ![p] = "nodesc"]
         \/ pc' = WakeAllocators(p, "nodesc")
      /\ UNCHANGED <<descs, rings, device, lock, busy, data, req, idx>>
  BY DEF alloc_fail
<1>2. pc \in [Proc -> {"idle", "alloc", "nodesc", "publish", "asleep", "woken"}]
  BY DEF IInv, TypeOK
<1>3. pc' \in [Proc -> {"idle", "alloc", "nodesc", "publish", "asleep", "woken"}]
  BY <1>1, <1>2 DEF WakeAllocators
<1>4. \A q \in Proc : \/ pc'[q] = pc[q]
                      \/ pc[q] \in {"alloc", "nodesc"} /\ pc'[q] \in {"alloc", "nodesc"}
  BY <1>1, <1>2 DEF WakeAllocators
<1> QED
  BY <1>1, <1>3, <1>4, MoveIInv

\* A killed process is woken.
LEMMA KillIInv ==
  ASSUME IInv, NEW p \in Proc, kill(p)
  PROVE  IInv'
<1>1. /\ pc[p] \in {"asleep", "nodesc"}
      /\ pc' = [pc EXCEPT ![p] = IF pc[p] = "asleep" THEN "woken" ELSE "alloc"]
      /\ UNCHANGED <<descs, rings, device, lock, busy, data, req, idx>>
  BY DEF kill, Goto
<1>2. pc \in [Proc -> {"idle", "alloc", "nodesc", "publish", "asleep", "woken"}]
  BY DEF IInv, TypeOK
<1>3. pc' \in [Proc -> {"idle", "alloc", "nodesc", "publish", "asleep", "woken"}]
  BY <1>1, <1>2
<1>4. \A q \in Proc : \/ pc'[q] = pc[q]
                      \/ pc[q] = "nodesc" /\ pc'[q] = "alloc"
                      \/ pc[q] = "asleep" /\ pc'[q] = "woken"
  BY <1>1, <1>2
<1> QED
  BY <1>1, <1>3, <1>4, MoveIInv

\* Woken too early, a process sleeps again.
LEMMA SleepAgainIInv ==
  ASSUME IInv, NEW p \in Proc, finish(p), busy[p]
  PROVE  IInv'
<1>1. /\ pc[p] = "woken" /\ pc' = [pc EXCEPT ![p] = "asleep"]
      /\ UNCHANGED <<descs, rings, device, lock, busy, data, req, idx>>
  BY DEF finish, Goto, rings, device
<1>2. pc \in [Proc -> {"idle", "alloc", "nodesc", "publish", "asleep", "woken"}]
  BY DEF IInv, TypeOK
<1>3. pc' \in [Proc -> {"idle", "alloc", "nodesc", "publish", "asleep", "woken"}]
  BY <1>1, <1>2
<1>4. \A q \in Proc : pc'[q] = pc[q] \/ (q = p /\ pc'[q] = "asleep")
  BY <1>1, <1>2
<1> QED
  BY <1>1, <1>3, <1>4, MoveIInv

\* QueuePop for the rings of the driver, whose read entries become Null.
LEMMA RingPop ==
  ASSUME NEW r \in 0..M-1, NEW w \in 0..M-1, NEW f \in [0..NUM-1 -> Desc \cup {Null}],
         Ahead(w, r, M) <= NUM, r # w, Distinct(f, r, w, NUM, M)
  PROVE  LET g == [f EXCEPT ![r % NUM] = Null]
             s == (r + 1) % M
         IN /\ f[r % NUM] \in Queue(f, r, w, NUM, M)
            /\ Queue(g, s, w, NUM, M) = Queue(f, r, w, NUM, M) \ {f[r % NUM]}
            /\ Distinct(g, s, w, NUM, M)
            /\ g \in [0..NUM-1 -> Desc \cup {Null}]
<1> DEFINE S == Desc \cup {Null}
<1>1. f \in [0..NUM-1 -> S] /\ Null \in S
  OBVIOUS
<1>2. RingSizes(NUM, M)
  BY RingsAre
<1> HIDE DEF S
<1>3. PICK g : g = [f EXCEPT ![r % NUM] = Null]
  OBVIOUS
<1>4. PICK s : s = (r + 1) % M
  OBVIOUS
<1>5. \A e \in S : \A h : h = [f EXCEPT ![r % NUM] = e] =>
        \A t : t = (r + 1) % M =>
          /\ f[r % NUM] \in Queue(f, r, w, NUM, M)
          /\ Queue(h, t, w, NUM, M) = Queue(f, r, w, NUM, M) \ {f[r % NUM]}
          /\ Distinct(h, t, w, NUM, M)
          /\ h \in [0..NUM-1 -> S]
  BY <1>1, <1>2, QueuePop
<1>6. /\ f[r % NUM] \in Queue(f, r, w, NUM, M)
      /\ Queue(g, s, w, NUM, M) = Queue(f, r, w, NUM, M) \ {f[r % NUM]}
      /\ Distinct(g, s, w, NUM, M)
      /\ g \in [0..NUM-1 -> S]
  BY <1>1, <1>3, <1>4, <1>5
<1> QED
  BY <1>3, <1>4, <1>6 DEF S

\* A request in flight whose process is not in Posted is in no ring.
LEMMA NotPosted ==
  ASSUME IInv, NEW p \in InFlight, p \notin Posted
  PROVE  idx[p] \notin Unfetched /\ idx[p] \notin work /\ idx[p] \notin Unseen
<1>1. ASSUME NEW q \in Posted PROVE idx[q] # idx[p]
  <2>1. q \in InFlight /\ q # p
    BY DEF Posted
  <2> QED
    BY <2>1, HeadsDiffer
<1> QED
  BY <1>1 DEF IInv, Posting

\* What is in the rings and in the device is the head of a posted request.
LEMMA PostedIs ==
  ASSUME IInv, NEW d \in Unfetched \cup work \cup Unseen
  PROVE  \E p \in Proc : p \in Posted /\ p \in InFlight /\ idx[p] = d /\ d \in Desc
<1>1. PICK p \in Posted : idx[p] = d
  BY DEF IInv, Posting
<1>2. p \in InFlight /\ p \in Proc
  BY DEF Posted, InFlight
<1> QED
  BY <1>1, <1>2 DEF IInv, TypeOK

\* avail->idx moves: the request is posted.
LEMMA PublishIInv ==
  ASSUME IInv, NEW p \in Proc, publish(p)
  PROVE  IInv'
<1>1. /\ pc[p] = "publish" /\ pc' = [pc EXCEPT ![p] = "asleep"]
      /\ avail_idx' = (avail_idx + 1) % M /\ lock' = Null
      /\ UNCHANGED <<free, desc, ops, info, ring, used_idx, status, used, used_end, irq,
                     seen, work, disk, busy, data, req, idx>>
  BY DEF publish, Goto, descs, device
<1>2. TypeOK
  BY DEF IInv
<1>3. pc'[p] = "asleep" /\ \A q \in Proc : q # p => pc'[q] = pc[q]
  BY <1>1, <1>2 DEF TypeOK
<1>4. lock = p /\ busy[p] /\ ring[avail_idx % NUM] = idx[p]
  BY <1>1 DEF IInv, Publishing
<1>5. p \in InFlight /\ p \notin Posted
  BY <1>1 DEF InFlight, Posted
<1>6. idx[p] \notin Unfetched /\ idx[p] \notin work /\ idx[p] \notin Unseen
  BY <1>5, NotPosted
<1>7. avail_idx' \in 0..M-1
  BY <1>1, RingsAre, StepIs
<1>8. /\ Unfetched' = Unfetched \cup {idx[p]}
      /\ Distinct(ring, seen, avail_idx, NUM, M)'
  <2>1. Ahead(avail_idx, seen, M) + 1 < NUM
    BY <1>5, <1>6, RingsFit
  <2>2. /\ RingSizes(NUM, M) /\ seen \in 0..M-1 /\ avail_idx \in 0..M-1
        /\ Distinct(ring, seen, avail_idx, NUM, M)
    BY RingsAre DEF IInv, Posting
  <2>3. /\ Queue(ring, seen, avail_idx', NUM, M)
             = Queue(ring, seen, avail_idx, NUM, M) \cup {ring[avail_idx % NUM]}
        /\ ring[avail_idx % NUM] \notin Queue(ring, seen, avail_idx, NUM, M) =>
             Distinct(ring, seen, avail_idx', NUM, M)
    BY <1>1, <2>1, <2>2, QueueGrow, SMTT(60)
  <2> QED
    BY <1>1, <1>4, <1>6, <2>3 DEF Unfetched
<1>9. TypeOK'
  <2>1. pc' \in [Proc -> {"idle", "alloc", "nodesc", "publish", "asleep", "woken"}]
    BY <1>1, <1>2 DEF TypeOK
  <2>2. {avail_idx', used_end', used_idx', seen'} \subseteq 0..M-1
    BY <1>1, <1>2, <1>7, SMTT(60) DEF TypeOK
  <2> QED
    BY <1>1, <1>2, <2>1, <2>2 DEF TypeOK
<1>10. Chained' /\ ChainsApart' /\ FreeRest' /\ InFlight' = InFlight
  <2>1. \A q \in Proc : pc'[q] \in {"publish", "asleep", "woken"} <=> q \in InFlight
    BY <1>1, <1>3 DEF InFlight
  <2> QED
    BY <1>1, <2>1, ChainsKept
<1>11. Publishing'
  <2>1. ASSUME NEW q \in Proc PROVE pc'[q] # "publish" /\ lock' # q
    <3>1. q # p => pc[q] # "publish"
      BY <1>4 DEF IInv, Publishing
    <3> QED
      BY <1>1, <1>3, <3>1, ProcAssumption
  <2> QED
    BY <2>1 DEF Publishing
<1>12. Posting'
  <2>1. Posted' = Posted \cup {p}
    BY <1>1, <1>3, <1>4, <1>5, <1>10 DEF Posted, InFlight
  <2>2. {idx'[q] : q \in Posted'} = {idx[q] : q \in Posted} \cup {idx[p]}
    BY <1>1, <2>1
  <2>3. Unseen' = Unseen
    BY <1>1 DEF Unseen
  <2>4. Distinct(used, used_idx, used_end, NUM, M)'
    BY <1>1 DEF IInv, Posting
  <2>5. Unfetched' \cup work' \cup Unseen' = {idx'[q] : q \in Posted'}
    BY <1>1, <1>8, <2>2, <2>3 DEF IInv, Posting
  <2>6. Unfetched' \cap work' = {} /\ Unfetched' \cap Unseen' = {} /\ work' \cap Unseen' = {}
    BY <1>1, <1>6, <1>8, <2>3 DEF IInv, Posting
  <2>7. \A d \in Unseen' : status'[d] = 0
    BY <1>1, <2>3 DEF IInv, Posting
  <2> QED
    BY <1>8, <2>4, <2>5, <2>6, <2>7 DEF Posting
<1>13. Sectors' /\ Transfers'
  <2>1. ASSUME NEW q \in Proc PROVE Pending(q)' <=> Pending(q)
    <3>1. CASE q = p
      BY <1>1, <1>5, <1>8, <1>10, <3>1 DEF Pending
    <3>2. CASE q # p
      <4>1. q \in InFlight => idx[q] # idx[p]
        BY <1>5, <3>2, HeadsDiffer
      <4> QED
        BY <1>1, <1>3, <1>8, <1>10, <3>2, <4>1 DEF Pending
    <3> QED
      BY <3>1, <3>2
  <2>2. \A q \in Proc : pc'[q] = "idle" <=> pc[q] = "idle"
    BY <1>1, <1>3
  <2> QED
    BY <1>1, <2>1, <2>2, TransfersKept
<1>14. NobodyStranded'
  <2>1. CompletionNotLost'
    BY <1>1, <1>4, ProcAssumption DEF IInv, NobodyStranded, CompletionNotLost
  <2>2. AllocatorNotStranded'
    BY <1>1, <1>3 DEF IInv, NobodyStranded, AllocatorNotStranded, Free
  <2>3. SleeperBusy'
    BY <1>1, <1>3, <1>4 DEF IInv, NobodyStranded, SleeperBusy
  <2> QED
    BY <2>1, <2>2, <2>3 DEF NobodyStranded
<1> QED
  BY <1>8, <1>9, <1>10, <1>11, <1>12, <1>13, <1>14 DEF IInv

-----------------------------------------------------------------------------
(* Steps of the device                                                     *)

\* The device takes a request from the avail ring.
LEMMA FetchIInv ==
  ASSUME IInv, fetch
  PROVE  IInv'
<1>1. /\ seen # avail_idx /\ work' = work \cup {ring[seen % NUM]}
      /\ ring' = [ring EXCEPT ![seen % NUM] = Null] /\ seen' = (seen + 1) % M
      /\ UNCHANGED <<free, desc, ops, info, avail_idx, used_idx, status, used, used_end,
                     irq, disk, busy, data, pc, req, idx, lock>>
  BY DEF fetch, descs, procs
<1>2. TypeOK
  BY DEF IInv
<1>3. /\ RingSizes(NUM, M) /\ seen \in 0..M-1 /\ avail_idx \in 0..M-1
      /\ ring \in [0..NUM-1 -> Desc \cup {Null}]
      /\ Distinct(ring, seen, avail_idx, NUM, M)
      /\ Ahead(avail_idx, seen, M) < NUM /\ Ahead(avail_idx, seen, M) <= NUM
  BY RingsAre, RingsFit, SMTT(60) DEF IInv, Posting
<1>4. /\ ring[seen % NUM] \in Unfetched
      /\ Unfetched' = Unfetched \ {ring[seen % NUM]}
      /\ Distinct(ring, seen, avail_idx, NUM, M)'
      /\ ring' \in [0..NUM-1 -> Desc \cup {Null}]
  <2>2. /\ ring[seen % NUM] \in Queue(ring, seen, avail_idx, NUM, M)
        /\ Queue(ring', seen', avail_idx, NUM, M)
             = Queue(ring, seen, avail_idx, NUM, M) \ {ring[seen % NUM]}
        /\ Distinct(ring', seen', avail_idx, NUM, M)
        /\ ring' \in [0..NUM-1 -> Desc \cup {Null}]
    BY <1>1, <1>3, RingPop
  <2> QED
    BY <1>1, <2>2 DEF Unfetched
<1>5. PICK d \in Desc : d = ring[seen % NUM]
  BY <1>4, PostedIs
<1>6. TypeOK'
  <2>1. seen' \in 0..M-1
    BY <1>1, RingsAre, StepIs
  <2>2. {ring', used'} \subseteq [0..NUM-1 -> Desc \cup {Null}]
    BY <1>1, <1>2, <1>4 DEF TypeOK
  <2>3. {avail_idx', used_end', used_idx', seen'} \subseteq 0..M-1
    BY <1>1, <1>2, <2>1, SMTT(60) DEF TypeOK
  <2>4. work' \subseteq Desc
    BY <1>1, <1>2, <1>5 DEF TypeOK
  <2> QED
    BY <1>1, <1>2, <2>2, <2>3, <2>4 DEF TypeOK
<1>7. Chained' /\ ChainsApart' /\ FreeRest' /\ InFlight' = InFlight
  <2>1. \A q \in Proc : pc'[q] \in {"publish", "asleep", "woken"} <=> q \in InFlight
    BY <1>1 DEF InFlight
  <2> QED
    BY <1>1, <2>1, ChainsKept
<1>8. Publishing'
  <2>1. avail_idx % NUM # seen % NUM
    BY <1>1, <1>3, EndApart
  <2>2. avail_idx % NUM \in 0..NUM-1
    BY <1>3, SamePlace, SMTT(60)
  <2>3. ring'[avail_idx % NUM] = ring[avail_idx % NUM]
    BY <1>1, <1>3, <2>1, <2>2
  <2> QED
    BY <1>1, <2>3 DEF IInv, Publishing
<1>9. Unfetched' \cup work' = Unfetched \cup work
  BY <1>1, <1>4
<1>10. Posting'
  <2>1. Posted' = Posted
    BY <1>1, <1>7 DEF Posted
  <2>2. Unseen' = Unseen
    BY <1>1 DEF Unseen
  <2>3. Distinct(used, used_idx, used_end, NUM, M)'
    BY <1>1 DEF IInv, Posting
  <2>4. Unfetched' \cup work' \cup Unseen' = {idx'[q] : q \in Posted'}
    BY <1>1, <1>9, <2>1, <2>2, SMTT(60) DEF IInv, Posting
  <2>5. Unfetched' \cap work' = {} /\ Unfetched' \cap Unseen' = {} /\ work' \cap Unseen' = {}
    BY <1>1, <1>4, <2>2 DEF IInv, Posting
  <2>6. \A e \in Unseen' : status'[e] = 0
    BY <1>1, <2>2 DEF IInv, Posting
  <2> QED
    BY <1>4, <2>3, <2>4, <2>5, <2>6 DEF Posting
<1>11. Sectors' /\ Transfers'
  <2>1. ASSUME NEW q \in Proc PROVE Pending(q)' <=> Pending(q)
    BY <1>1, <1>9, PendingKept
  <2> QED
    BY <1>1, <2>1, TransfersKept
<1>12. NobodyStranded'
  BY <1>1, SleepersKept
<1> QED
  BY <1>6, <1>7, <1>8, <1>10, <1>11, <1>12 DEF IInv

\* QueuePut for the rings of the driver.
LEMMA RingPut ==
  ASSUME NEW r \in 0..M-1, NEW w \in 0..M-1, NEW f \in [0..NUM-1 -> Desc \cup {Null}],
         NEW d \in Desc, Ahead(w, r, M) < NUM, Distinct(f, r, w, NUM, M)
  PROVE  LET g == [f EXCEPT ![w % NUM] = d]
         IN /\ Queue(g, r, w, NUM, M) = Queue(f, r, w, NUM, M)
            /\ Distinct(g, r, w, NUM, M)
            /\ g[w % NUM] = d /\ g \in [0..NUM-1 -> Desc \cup {Null}]
<1> DEFINE S == Desc \cup {Null}
<1>1. f \in [0..NUM-1 -> S] /\ d \in S
  OBVIOUS
<1>2. RingSizes(NUM, M)
  BY RingsAre
<1> HIDE DEF S
<1>3. /\ Queue(Put(f, w % NUM, d), r, w, NUM, M) = Queue(f, r, w, NUM, M)
      /\ Distinct(Put(f, w % NUM, d), r, w, NUM, M)
      /\ Put(f, w % NUM, d)[w % NUM] = d /\ Put(f, w % NUM, d) \in [0..NUM-1 -> S]
  BY <1>1, <1>2, QueuePut, SMTT(60)
<1> QED
  BY <1>3 DEF S, Put

\* What the device reads in the chain of a request, and what serving it does.
LEMMA ServeIs ==
  ASSUME IInv, NEW p \in InFlight, p \in Proc, serve(idx[p])
  PROVE  /\ disk' = IF req[p].write THEN [disk EXCEPT ![req[p].sector] = data[p]] ELSE disk
         /\ data' = IF req[p].write THEN data
                    ELSE [data EXCEPT ![p] = disk[req[p].sector]]
         /\ status' = [status EXCEPT ![idx[p]] = 0]
<1>1. PICK b \in Desc, c \in Desc : Linked(desc, p, idx[p], b, c)
  BY DEF IInv, Chained
<1>2. desc[idx[p]].next = b /\ desc[idx[p]].addr = idx[p]
  BY <1>1, SMTT(60) DEF Linked
<1>3. desc[b].next = c /\ desc[b].addr = p /\ desc[c].addr = idx[p]
  BY <1>1, SMTT(60) DEF Linked
<1>4. ops[idx[p]].write = req[p].write /\ ops[idx[p]].sector = req[p].sector
  <2>1. ops[idx[p]] = [write |-> req[p].write, sector |-> req[p].sector]
    BY DEF IInv, Chained
  <2> QED
    BY <2>1, SMTT(60)
<1>5. /\ disk' = IF ops[desc[idx[p]].addr].write
                 THEN [disk EXCEPT ![ops[desc[idx[p]].addr].sector]
                                     = data[desc[desc[idx[p]].next].addr]]
                 ELSE disk
      /\ data' = IF ops[desc[idx[p]].addr].write THEN data
                 ELSE [data EXCEPT ![desc[desc[idx[p]].next].addr]
                                     = disk[ops[desc[idx[p]].addr].sector]]
      /\ status' = [status EXCEPT ![desc[desc[desc[idx[p]].next].next].addr] = 0]
  BY DEF serve
<1>6. /\ ops[desc[idx[p]].addr].write = req[p].write
      /\ ops[desc[idx[p]].addr].sector = req[p].sector
      /\ desc[desc[idx[p]].next].addr = p
      /\ desc[desc[desc[idx[p]].next].next].addr = idx[p]
  BY <1>2, <1>3, <1>4
<1> QED
  BY <1>5, <1>6

\* The device serves a request.
LEMMA ServeIInv ==
  ASSUME IInv, NEW d \in Desc, serve(d)
  PROVE  IInv'
<1>1. /\ d \in work /\ work' = work \ {d}
      /\ used' = [used EXCEPT ![used_end % NUM] = d]
      /\ used_end' = (used_end + 1) % M /\ irq' = TRUE
      /\ UNCHANGED <<free, desc, ops, info, ring, avail_idx, used_idx, seen, busy, pc, req,
                     idx, lock>>
  BY DEF serve, descs, rings
<1>2. TypeOK
  BY DEF IInv
<1>3. PICK p \in Proc : p \in Posted /\ p \in InFlight /\ idx[p] = d
  BY <1>1, PostedIs
<1>4. /\ disk' = IF req[p].write THEN [disk EXCEPT ![req[p].sector] = data[p]] ELSE disk
      /\ data' = IF req[p].write THEN data ELSE [data EXCEPT ![p] = disk[req[p].sector]]
      /\ status' = [status EXCEPT ![d] = 0]
  BY <1>3, ServeIs
<1>5. pc[p] # "idle" /\ req[p].sector \in Sector
  BY <1>3 DEF InFlight, IInv, Sectors
<1>6. d \notin Unfetched /\ d \notin Unseen
  BY <1>1 DEF IInv, Posting
<1>7. /\ Unseen' = Unseen \cup {d}
      /\ Distinct(used, used_idx, used_end, NUM, M)'
      /\ used' \in [0..NUM-1 -> Desc \cup {Null}]
  <2>1. /\ RingSizes(NUM, M) /\ used_idx \in 0..M-1 /\ used_end \in 0..M-1
        /\ used \in [0..NUM-1 -> Desc \cup {Null}]
        /\ Distinct(used, used_idx, used_end, NUM, M)
        /\ Ahead(used_end, used_idx, M) < NUM
    BY RingsAre, RingsFit DEF IInv, Posting
  <2>2. /\ Queue(used', used_idx, used_end, NUM, M) = Queue(used, used_idx, used_end, NUM, M)
        /\ Distinct(used', used_idx, used_end, NUM, M)
        /\ used'[used_end % NUM] = d /\ used' \in [0..NUM-1 -> Desc \cup {Null}]
    <3>1. LET g == [used EXCEPT ![used_end % NUM] = d]
          IN /\ Queue(g, used_idx, used_end, NUM, M) = Queue(used, used_idx, used_end, NUM, M)
             /\ Distinct(g, used_idx, used_end, NUM, M)
             /\ g[used_end % NUM] = d /\ g \in [0..NUM-1 -> Desc \cup {Null}]
      BY <2>1, RingPut
    <3> QED
      BY <1>1, <3>1
  <2>3. Ahead(used_end, used_idx, M) + 1 < NUM
    BY <1>3, <1>6, RingsFit
  <2>4. /\ Queue(used', used_idx, used_end', NUM, M)
             = Queue(used', used_idx, used_end, NUM, M) \cup {used'[used_end % NUM]}
        /\ Distinct(used', used_idx, used_end, NUM, M)
           /\ used'[used_end % NUM] \notin Queue(used', used_idx, used_end, NUM, M) =>
             Distinct(used', used_idx, used_end', NUM, M)
    <3>1. \A f : /\ Queue(f, used_idx, used_end', NUM, M)
                       = Queue(f, used_idx, used_end, NUM, M) \cup {f[used_end % NUM]}
                 /\ Distinct(f, used_idx, used_end, NUM, M)
                    /\ f[used_end % NUM] \notin Queue(f, used_idx, used_end, NUM, M) =>
                      Distinct(f, used_idx, used_end', NUM, M)
      BY <1>1, <2>1, <2>3, QueueGrow, SMTT(60)
    <3> QED
      BY <3>1
  <2> QED
    BY <1>1, <1>6, <2>2, <2>4 DEF Unseen
<1>8. TypeOK'
  <2>1. used_end' \in 0..M-1
    BY <1>1, RingsAre, StepIs
  <2>2. {ring', used'} \subseteq [0..NUM-1 -> Desc \cup {Null}]
    BY <1>1, <1>2, <1>7, SMTT(60) DEF TypeOK
  <2>3. {avail_idx', used_end', used_idx', seen'} \subseteq 0..M-1
    BY <1>1, <1>2, <2>1, SMTT(60) DEF TypeOK
  <2>4. work' \subseteq Desc
    BY <1>1, <1>2 DEF TypeOK
  <2>5. disk' \in [Sector -> Value] /\ data' \in [Proc -> Value]
    BY <1>2, <1>4, <1>5 DEF TypeOK
  <2>6. status' \in [Desc -> {0, 255, Null}]
    BY <1>2, <1>4 DEF TypeOK
  <2> QED
    BY <1>1, <1>2, <2>2, <2>3, <2>4, <2>5, <2>6 DEF TypeOK
<1>9. Chained' /\ ChainsApart' /\ FreeRest' /\ InFlight' = InFlight
  <2>1. \A q \in Proc : pc'[q] \in {"publish", "asleep", "woken"} <=> q \in InFlight
    BY <1>1 DEF InFlight
  <2> QED
    BY <1>1, <2>1, ChainsKept
<1>10. Publishing'
  BY <1>1 DEF IInv, Publishing
<1>11. Posting'
  <2>1. Posted' = Posted
    BY <1>1, <1>9 DEF Posted
  <2>2. Unfetched' = Unfetched
    BY <1>1 DEF Unfetched
  <2>3. Distinct(ring, seen, avail_idx, NUM, M)'
    BY <1>1 DEF IInv, Posting
  <2>4. Unfetched' \cup work' \cup Unseen' = {idx'[q] : q \in Posted'}
    <3>1. work' \cup Unseen' = work \cup Unseen
      BY <1>1, <1>7
    <3> QED
      BY <1>1, <2>1, <2>2, <3>1, SMTT(60) DEF IInv, Posting
  <2>5. Unfetched' \cap work' = {} /\ Unfetched' \cap Unseen' = {} /\ work' \cap Unseen' = {}
    BY <1>1, <1>6, <1>7, <2>2 DEF IInv, Posting
  <2>6. ASSUME NEW e \in Unseen' PROVE status'[e] = 0
    <3>1. CASE e = d
      BY <1>2, <1>4, <3>1 DEF TypeOK
    <3>2. CASE e # d
      <4>1. e \in Unseen /\ status[e] = 0
        BY <1>7, <3>2 DEF IInv, Posting
      <4>2. e \in Desc
        BY <4>1, PostedIs
      <4> QED
        BY <1>2, <1>4, <3>2, <4>1, <4>2 DEF TypeOK
    <3> QED
      BY <3>1, <3>2
  <2> QED
    BY <1>7, <2>3, <2>4, <2>5, <2>6 DEF Posting
<1>12. Sectors'
  BY <1>1 DEF IInv, Sectors
<1>13. Transfers'
  <2> SUFFICES ASSUME NEW q \in Proc, pc'[q] # "idle"
               PROVE  /\ req'[q].write \/ ~Pending(q)' => data'[q] = req'[q].value
                      /\ ~req'[q].write \/ ~Pending(q)' =>
                           disk'[req'[q].sector] = req'[q].value
    BY DEF Transfers
  <2>1. Unfetched' = Unfetched
    BY <1>1 DEF Unfetched
  <2>2. CASE q = p
    <3>1. Pending(p)
      BY <1>1, <1>3 DEF Pending
    <3>2. /\ req[p].write => data[p] = req[p].value
          /\ ~req[p].write => disk[req[p].sector] = req[p].value
      BY <1>5, <3>1 DEF IInv, Transfers
    <3>3. req[p].write \in BOOLEAN /\ disk \in [Sector -> Value] /\ data \in [Proc -> Value]
      BY <1>2 DEF TypeOK
    <3>4. data'[p] = req[p].value /\ disk'[req[p].sector] = req[p].value
      <4>1. CASE req[p].write
        BY <1>4, <1>5, <3>2, <3>3, <4>1
      <4>2. CASE ~req[p].write
        BY <1>4, <1>5, <3>2, <3>3, <4>2
      <4> QED
        BY <4>1, <4>2
    <3> QED
      BY <1>1, <2>2, <3>4
  <2>3. CASE q # p
    <3>1. req[q].sector # req[p].sector /\ req[q].sector \in Sector
      BY <1>1, <1>5, <2>3 DEF IInv, Sectors
    <3>2. disk'[req[q].sector] = disk[req[q].sector] /\ data'[q] = data[q]
      BY <1>2, <1>4, <1>5, <2>3, <3>1 DEF TypeOK
    <3>3. q \in InFlight => idx[q] # d
      BY <1>3, <2>3, HeadsDiffer
    <3>4. Pending(q)' <=> Pending(q)
      BY <1>1, <1>9, <2>1, <3>3 DEF Pending
    <3>5. /\ req[q].write \/ ~Pending(q) => data[q] = req[q].value
          /\ ~req[q].write \/ ~Pending(q) => disk[req[q].sector] = req[q].value
      BY <1>1 DEF IInv, Transfers
    <3> QED
      BY <1>1, <3>2, <3>4, <3>5
  <2> QED
    BY <2>2, <2>3
<1>14. NobodyStranded'
  <2>1. CompletionNotLost'
    BY <1>1 DEF CompletionNotLost
  <2>2. AllocatorNotStranded'
    BY <1>1 DEF IInv, NobodyStranded, AllocatorNotStranded, Free
  <2>3. SleeperBusy'
    BY <1>1 DEF IInv, NobodyStranded, SleeperBusy
  <2> QED
    BY <2>1, <2>2, <2>3 DEF NobodyStranded
<1> QED
  BY <1>8, <1>9, <1>10, <1>11, <1>12, <1>13, <1>14 DEF IInv

-----------------------------------------------------------------------------
(* Steps of the interrupt handler                                          *)

\* The handler takes the lock and acknowledges the interrupt, or leaves.
LEMMA IntrEnterIInv ==
  ASSUME IInv, intr_enter \/ intr_exit
  PROVE  IInv'
<1>1. /\ lock \notin Proc /\ lock' \notin Proc /\ lock' \in {Intr, Null}
      /\ irq' \in BOOLEAN /\ (used_idx # used_end => lock' = Intr)
      /\ UNCHANGED <<free, desc, ops, info, ring, avail_idx, used_idx, status, used,
                     used_end, seen, work, disk, busy, data, pc, req, idx>>
  BY ProcAssumption DEF intr_enter, intr_exit, descs, rings, device, procs, IInv, TypeOK
<1>2. TypeOK
  BY DEF IInv
<1>3. TypeOK'
  BY <1>1, <1>2 DEF TypeOK
<1>4. Chained' /\ ChainsApart' /\ FreeRest' /\ InFlight' = InFlight
  <2>1. \A q \in Proc : pc'[q] \in {"publish", "asleep", "woken"} <=> q \in InFlight
    BY <1>1 DEF InFlight
  <2> QED
    BY <1>1, <2>1, ChainsKept
<1>5. Publishing'
  BY <1>1 DEF IInv, Publishing
<1>6. Posting' /\ Unfetched' = Unfetched /\ Unseen' = Unseen
  <2>1. Posted' = Posted
    BY <1>1, <1>4 DEF Posted
  <2> QED
    BY <1>1, <2>1, RingsKept
<1>7. Sectors' /\ Transfers'
  <2>1. ASSUME NEW q \in Proc PROVE Pending(q)' <=> Pending(q)
    BY <1>1, <1>6, PendingKept
  <2> QED
    BY <1>1, <2>1, TransfersKept
<1>8. NobodyStranded'
  <2>1. CompletionNotLost'
    BY <1>1 DEF CompletionNotLost
  <2>2. AllocatorNotStranded'
    BY <1>1 DEF IInv, NobodyStranded, AllocatorNotStranded, Free
  <2>3. SleeperBusy'
    BY <1>1 DEF IInv, NobodyStranded, SleeperBusy
  <2> QED
    BY <2>1, <2>2, <2>3 DEF NobodyStranded
<1> QED
  BY <1>3, <1>4, <1>5, <1>6, <1>7, <1>8 DEF IInv

\* The handler takes an entry of the used ring and wakes the process.
LEMMA IntrLoopIInv ==
  ASSUME IInv, intr_loop
  PROVE  IInv'
<1>1. /\ lock = Intr /\ used_idx # used_end
      /\ busy' = [busy EXCEPT ![info[used[used_idx % NUM]]] = FALSE]
      /\ pc' = [pc EXCEPT ![info[used[used_idx % NUM]]] =
                  IF @ = "asleep" THEN "woken" ELSE @]
      /\ used_idx' = (used_idx + 1) % M /\ used' = [used EXCEPT ![used_idx % NUM] = Null]
      /\ UNCHANGED <<free, desc, ops, info, ring, avail_idx, status, used_end, irq, seen,
                     work, disk, data, req, idx, lock>>
  BY DEF intr_loop, descs
<1>2. TypeOK
  BY DEF IInv
<1>3. /\ used[used_idx % NUM] \in Unseen
      /\ Unseen' = Unseen \ {used[used_idx % NUM]}
      /\ Distinct(used, used_idx, used_end, NUM, M)'
      /\ used' \in [0..NUM-1 -> Desc \cup {Null}]
  <2>1. /\ used_idx \in 0..M-1 /\ used_end \in 0..M-1
        /\ used \in [0..NUM-1 -> Desc \cup {Null}]
        /\ Distinct(used, used_idx, used_end, NUM, M)
        /\ Ahead(used_end, used_idx, M) <= NUM
    BY RingsAre, RingsFit, SMTT(60) DEF IInv, Posting
  <2>2. LET g == [used EXCEPT ![used_idx % NUM] = Null]
            s == (used_idx + 1) % M
        IN /\ used[used_idx % NUM] \in Queue(used, used_idx, used_end, NUM, M)
           /\ Queue(g, s, used_end, NUM, M)
                = Queue(used, used_idx, used_end, NUM, M) \ {used[used_idx % NUM]}
           /\ Distinct(g, s, used_end, NUM, M)
           /\ g \in [0..NUM-1 -> Desc \cup {Null}]
    BY <1>1, <2>1, RingPop
  <2> QED
    BY <1>1, <2>2 DEF Unseen
<1>4. PICK p \in Proc : /\ p \in Posted /\ p \in InFlight /\ idx[p] \in Desc
                        /\ idx[p] = used[used_idx % NUM]
  BY <1>3, PostedIs
<1>5. info[used[used_idx % NUM]] = p
  BY <1>4 DEF IInv, Chained
<1>6. /\ busy' = [busy EXCEPT ![p] = FALSE]
      /\ pc' = [pc EXCEPT ![p] = IF pc[p] = "asleep" THEN "woken" ELSE pc[p]]
  BY <1>1, <1>5
<1>7. pc[p] \in {"asleep", "woken"}
  BY <1>4 DEF Posted, InFlight
<1>8. pc'[p] = "woken" /\ \A q \in Proc : q # p => pc'[q] = pc[q]
  BY <1>2, <1>6, <1>7 DEF TypeOK
<1>9. ~busy'[p] /\ \A q \in Proc : q # p => busy'[q] = busy[q]
  BY <1>2, <1>6 DEF TypeOK
<1>10. idx[p] \in Unseen /\ idx[p] \notin Unfetched /\ idx[p] \notin work
  BY <1>3, <1>4 DEF IInv, Posting
<1>11. TypeOK'
  <2>1. used_idx' \in 0..M-1
    BY <1>1, RingsAre, StepIs
  <2>2. {ring', used'} \subseteq [0..NUM-1 -> Desc \cup {Null}]
    BY <1>1, <1>2, <1>3 DEF TypeOK
  <2>3. {avail_idx', used_end', used_idx', seen'} \subseteq 0..M-1
    BY <1>1, <1>2, <2>1 DEF TypeOK
  <2>4. pc' \in [Proc -> {"idle", "alloc", "nodesc", "publish", "asleep", "woken"}]
    BY <1>2, <1>6, <1>7 DEF TypeOK
  <2>5. busy' \in [Proc -> BOOLEAN]
    BY <1>2, <1>6 DEF TypeOK
  <2> QED
    BY <1>1, <1>2, <2>2, <2>3, <2>4, <2>5 DEF TypeOK
<1>12. Chained' /\ ChainsApart' /\ FreeRest' /\ InFlight' = InFlight
  <2>1. \A q \in Proc : pc'[q] \in {"publish", "asleep", "woken"} <=> q \in InFlight
    BY <1>4, <1>8 DEF InFlight
  <2> QED
    BY <1>1, <2>1, ChainsKept
<1>13. Publishing'
  <2>1. \A q \in Proc : pc'[q] # "publish" /\ lock' # q
    BY <1>1, <1>8, ProcAssumption DEF IInv, Publishing
  <2> QED
    BY <2>1 DEF Publishing
<1>14. Posting'
  <2>1. Posted' = Posted \ {p}
    BY <1>4, <1>7, <1>8, <1>9, <1>12 DEF Posted, InFlight
  <2>2. Unfetched' = Unfetched
    BY <1>1 DEF Unfetched
  <2>3. Distinct(ring, seen, avail_idx, NUM, M)'
    BY <1>1 DEF IInv, Posting
  <2>4. {idx'[q] : q \in Posted'} = {idx[q] : q \in Posted} \ {idx[p]}
    <3>1. \A q \in Posted : q # p => idx[q] # idx[p]
      BY <1>4, HeadsDiffer DEF Posted
    <3> QED
      BY <1>1, <2>1, <3>1
  <2>5. Unfetched' \cup work' \cup Unseen' = {idx'[q] : q \in Posted'}
    BY <1>1, <1>3, <1>4, <1>10, <2>2, <2>4 DEF IInv, Posting
  <2>6. Unfetched' \cap work' = {} /\ Unfetched' \cap Unseen' = {} /\ work' \cap Unseen' = {}
    BY <1>1, <1>3, <2>2 DEF IInv, Posting
  <2>7. \A d \in Unseen' : status'[d] = 0
    BY <1>1, <1>3 DEF IInv, Posting
  <2> QED
    BY <1>3, <2>3, <2>5, <2>6, <2>7 DEF Posting
<1>15. Sectors' /\ Transfers'
  <2>1. Unfetched' = Unfetched
    BY <1>1 DEF Unfetched
  <2>2. ASSUME NEW q \in Proc PROVE Pending(q)' <=> Pending(q)
    BY <1>1, <1>7, <1>8, <2>1, PendingKept
  <2>3. \A q \in Proc : pc'[q] = "idle" <=> pc[q] = "idle"
    BY <1>7, <1>8
  <2> QED
    BY <1>1, <2>2, <2>3, TransfersKept
<1>16. NobodyStranded'
  <2>1. CompletionNotLost'
    BY <1>1 DEF CompletionNotLost
  <2>2. AllocatorNotStranded'
    BY <1>1, <1>8 DEF IInv, NobodyStranded, AllocatorNotStranded, Free
  <2>3. SleeperBusy'
    BY <1>8, <1>9 DEF IInv, NobodyStranded, SleeperBusy
  <2> QED
    BY <2>1, <2>2, <2>3 DEF NobodyStranded
<1> QED
  BY <1>11, <1>12, <1>13, <1>14, <1>15, <1>16 DEF IInv

-----------------------------------------------------------------------------
(* Descriptors are taken and given back                                    *)

\* A change of descriptors outside its chain leaves a request its chain.
LEMMA OtherChain ==
  ASSUME IInv, NEW q \in InFlight, NEW ds, NEW C, C \cap Chain(idx[q]) = {},
         \A d \in Desc \ C : ds[d] = desc[d]
  PROVE  /\ \E b, c \in Desc : Linked(ds, q, idx[q], b, c)
         /\ ChainOf(ds, idx[q]) = Chain(idx[q])
<1>1. PICK b \in Desc, c \in Desc : /\ Linked(desc, q, idx[q], b, c)
                                    /\ Chain(idx[q]) = {idx[q], b, c}
  BY ChainIs
<1>2. idx[q] \in Desc
  BY DEF IInv, TypeOK, InFlight
<1>3. ds[idx[q]] = desc[idx[q]] /\ ds[b] = desc[b] /\ ds[c] = desc[c]
  BY <1>1, <1>2
<1>4. Linked(ds, q, idx[q], b, c)
  BY <1>1, <1>3 DEF Linked
<1>5. ChainOf(ds, idx[q]) = {idx[q], b, c}
  BY <1>4, LinkedChain, SMTT(60)
<1> QED
  BY <1>1, <1>4, <1>5

\* Head and chain of a request are not free.
LEMMA ChainNotFree ==
  ASSUME IInv, NEW q \in InFlight
  PROVE  Free \cap Chain(idx[q]) = {} /\ idx[q] \in Chain(idx[q])
<1>1. \A d \in Free : d \notin Chain(idx[q])
  BY DEF IInv, FreeRest, Free
<1> QED
  BY <1>1 DEF Chain

\* The three descriptors are taken and filled in.
LEMMA AllocIInv ==
  ASSUME IInv, NEW p \in Proc, alloc(p)
  PROVE  IInv'
<1>1. PICK a \in Desc, b \in Desc, c \in Desc :
        /\ a = Nth(1) /\ b = Nth(2) /\ c = Nth(3)
        /\ {a, b, c} \subseteq Free /\ a # b /\ b # c /\ a # c
  BY NthIs, SMTT(60) DEF alloc, Free
<1>2. /\ free' = [free EXCEPT ![a] = FALSE, ![b] = FALSE, ![c] = FALSE]
      /\ desc' = [desc EXCEPT
           ![a] = [addr |-> a, next |-> b, more |-> TRUE],
           ![b] = [addr |-> p, next |-> c, more |-> TRUE],
           ![c] = [addr |-> a, next |-> 0, more |-> FALSE]]
      /\ ops' = [ops EXCEPT ![a] = [write |-> req[p].write, sector |-> req[p].sector]]
      /\ info' = [info EXCEPT ![a] = p] /\ status' = [status EXCEPT ![a] = 255]
      /\ ring' = [ring EXCEPT ![avail_idx % NUM] = a]
      /\ idx' = [idx EXCEPT ![p] = a]
  BY <1>1 DEF alloc, fill, record
<1>3. /\ pc[p] = "alloc" /\ lock = Null /\ Cardinality(Free) >= 3
      /\ busy' = [busy EXCEPT ![p] = TRUE] /\ lock' = p
      /\ pc' = [pc EXCEPT ![p] = "publish"]
      /\ UNCHANGED <<avail_idx, used_idx, used, used_end, irq, seen, work, disk, data, req>>
  BY DEF alloc, Goto
<1>4. TypeOK
  BY DEF IInv
<1>5. pc'[p] = "publish" /\ \A q \in Proc : q # p => pc'[q] = pc[q]
  BY <1>3, <1>4 DEF TypeOK
<1>6. idx'[p] = a /\ \A q \in Proc : q # p => idx'[q] = idx[q]
  BY <1>2, <1>4 DEF TypeOK
<1>7. p \notin InFlight /\ InFlight' = InFlight \cup {p}
  BY <1>3, <1>5 DEF InFlight
<1>8. req[p].sector \in Sector
  BY <1>3 DEF IInv, Sectors
<1>9. /\ Unfetched' = Unfetched /\ Distinct(ring, seen, avail_idx, NUM, M)'
      /\ ring'[avail_idx % NUM] = a /\ ring' \in [0..NUM-1 -> Desc \cup {Null}]
  <2>1. /\ seen \in 0..M-1 /\ avail_idx \in 0..M-1
        /\ ring \in [0..NUM-1 -> Desc \cup {Null}]
        /\ Distinct(ring, seen, avail_idx, NUM, M)
        /\ Ahead(avail_idx, seen, M) < NUM
    BY RingsAre, RingsFit DEF IInv, Posting
  <2>2. LET g == [ring EXCEPT ![avail_idx % NUM] = a]
        IN /\ Queue(g, seen, avail_idx, NUM, M) = Queue(ring, seen, avail_idx, NUM, M)
           /\ Distinct(g, seen, avail_idx, NUM, M)
           /\ g[avail_idx % NUM] = a /\ g \in [0..NUM-1 -> Desc \cup {Null}]
    BY <2>1, RingPut
  <2> QED
    BY <1>2, <1>3, <2>2 DEF Unfetched
<1>10. TypeOK'
  <2>1. 0 \in Desc
    BY RingsAre, SMTT(60) DEF Desc
  <2>2. free' \in [Desc -> BOOLEAN]
    BY <1>2, <1>4 DEF TypeOK
  <2>3. desc' \in [Desc -> [addr : Desc \cup Proc \cup {Null}, next : Desc, more : BOOLEAN]]
    <3> DEFINE D == [addr : Desc \cup Proc \cup {Null}, next : Desc, more : BOOLEAN]
    <3>1. /\ [addr |-> a, next |-> b, more |-> TRUE] \in D
          /\ [addr |-> p, next |-> c, more |-> TRUE] \in D
          /\ [addr |-> a, next |-> 0, more |-> FALSE] \in D
      BY <2>1
    <3>2. desc \in [Desc -> D]
      BY <1>4 DEF TypeOK
    <3> HIDE DEF D
    <3>3. desc' \in [Desc -> D]
      BY <1>2, <3>1, <3>2
    <3> QED
      BY <3>3 DEF D
  <2>4. ops' \in [Desc -> [write : BOOLEAN, sector : Sector] \cup {Null}]
    <3>1. req[p].write \in BOOLEAN
      BY <1>4 DEF TypeOK
    <3> QED
      BY <1>2, <1>4, <1>8, <3>1 DEF TypeOK
  <2>5. info' \in [Desc -> Proc \cup {Null}] /\ status' \in [Desc -> {0, 255, Null}]
    BY <1>2, <1>4 DEF TypeOK
  <2>6. {ring', used'} \subseteq [0..NUM-1 -> Desc \cup {Null}]
    BY <1>3, <1>4, <1>9 DEF TypeOK
  <2>7. pc' \in [Proc -> {"idle", "alloc", "nodesc", "publish", "asleep", "woken"}]
    BY <1>3, <1>4 DEF TypeOK
  <2>8. busy' \in [Proc -> BOOLEAN] /\ idx' \in [Proc -> Desc]
    BY <1>2, <1>3, <1>4 DEF TypeOK
  <2> QED
    BY <1>3, <1>4, <2>2, <2>3, <2>4, <2>5, <2>6, <2>7, <2>8 DEF TypeOK
<1>11. ASSUME NEW q \in InFlight
       PROVE  /\ \E e, f \in Desc : Linked(desc', q, idx'[q], e, f)
              /\ Chain(idx[q])' = Chain(idx[q]) /\ {a, b, c} \cap Chain(idx[q]) = {}
              /\ idx'[q] = idx[q] /\ idx[q] # a /\ idx[q] \in Desc
  <2>1. {a, b, c} \cap Chain(idx[q]) = {} /\ idx[q] # a
    BY <1>1, ChainNotFree
  <2>2. \A d \in Desc \ {a, b, c} : desc'[d] = desc[d]
    BY <1>2, <1>4 DEF TypeOK
  <2>3. /\ \E e, f \in Desc : Linked(desc', q, idx[q], e, f)
        /\ ChainOf(desc', idx[q]) = Chain(idx[q])
    BY <2>1, <2>2, OtherChain
  <2>4. q \in Proc /\ q # p
    BY <1>7 DEF InFlight
  <2>5. idx'[q] = idx[q] /\ idx[q] \in Desc
    BY <1>4, <1>6, <2>4 DEF TypeOK
  <2>6. Chain(idx[q])' = ChainOf(desc', idx'[q])
    BY DEF Chain, ChainOf
  <2> QED
    BY <2>1, <2>3, <2>5, <2>6
<1>12. Linked(desc', p, idx'[p], b, c) /\ Chain(idx[p])' = {a, b, c}
  <2>1. /\ desc'[a] = [addr |-> a, next |-> b, more |-> TRUE]
        /\ desc'[b] = [addr |-> p, next |-> c, more |-> TRUE]
        /\ desc'[c] = [addr |-> a, next |-> 0, more |-> FALSE]
    BY <1>1, <1>2, <1>4 DEF TypeOK
  <2>2. Linked(desc', p, a, b, c)
    BY <1>1, <2>1 DEF Linked
  <2>3. ChainOf(desc', a) = {a, b, c}
    BY <2>2, LinkedChain, SMTT(60)
  <2>4. Chain(idx[p])' = ChainOf(desc', idx'[p])
    BY DEF Chain, ChainOf
  <2> QED
    BY <1>6, <2>2, <2>3, <2>4
<1>13. Chained'
  <2> SUFFICES ASSUME NEW q \in InFlight'
               PROVE  /\ \E e, f \in Desc : Linked(desc', q, idx'[q], e, f)
                      /\ info'[idx'[q]] = q
                      /\ ops'[idx'[q]] = [write |-> req'[q].write, sector |-> req'[q].sector]
    BY DEF Chained
  <2>1. CASE q = p
    BY <1>2, <1>3, <1>4, <1>6, <1>12, <2>1 DEF TypeOK
  <2>2. CASE q \in InFlight
    <3>1. /\ info[idx[q]] = q
          /\ ops[idx[q]] = [write |-> req[q].write, sector |-> req[q].sector]
      BY <2>2 DEF IInv, Chained
    <3>2. info'[idx[q]] = info[idx[q]] /\ ops'[idx[q]] = ops[idx[q]]
      BY <1>2, <1>4, <1>11, <2>2 DEF TypeOK
    <3> QED
      BY <1>3, <1>11, <2>2, <3>1, <3>2
  <2> QED
    BY <1>7, <2>1, <2>2
<1>14. ChainsApart'
  <2> SUFFICES ASSUME NEW q \in InFlight', NEW r \in InFlight', q # r
               PROVE  Chain(idx[q])' \cap Chain(idx[r])' = {}
    BY DEF ChainsApart
  <2>1. CASE q \in InFlight /\ r \in InFlight
    <3>1. Chain(idx[q]) \cap Chain(idx[r]) = {}
      BY <2>1 DEF IInv, ChainsApart
    <3> QED
      BY <1>11, <2>1, <3>1
  <2>2. CASE q = p /\ r \in InFlight
    BY <1>11, <1>12, <2>2
  <2>3. CASE r = p /\ q \in InFlight
    BY <1>11, <1>12, <2>3
  <2> QED
    BY <1>7, <2>1, <2>2, <2>3
<1>15. FreeRest'
  <2> SUFFICES ASSUME NEW d \in Desc
               PROVE  free'[d] <=> \A q \in InFlight' : d \notin Chain(idx[q])'
    BY DEF FreeRest
  <2>1. free'[d] <=> free[d] /\ d \notin {a, b, c}
    BY <1>2, <1>4 DEF TypeOK
  <2>2. free[d] <=> \A q \in InFlight : d \notin Chain(idx[q])
    BY DEF IInv, FreeRest
  <2>3. \A q \in InFlight : Chain(idx[q])' = Chain(idx[q])
    BY <1>11
  <2> QED
    BY <1>7, <1>12, <2>1, <2>2, <2>3
<1>16. Publishing'
  <2>1. \A q \in Proc : q # p => pc'[q] # "publish" /\ lock' # q
    BY <1>3, <1>5, ProcAssumption DEF IInv, Publishing
  <2>2. busy'[p]
    BY <1>3, <1>4 DEF TypeOK
  <2> QED
    BY <1>3, <1>5, <1>6, <1>9, <2>1, <2>2 DEF Publishing
<1>17. Posting'
  <2>1. Posted' = Posted
    <3>1. \A q \in InFlight : busy'[q] = busy[q] /\ pc'[q] = pc[q]
      BY <1>3, <1>4, <1>5, <1>7 DEF TypeOK, InFlight
    <3> QED
      BY <1>5, <1>7, <3>1 DEF Posted
  <2>2. {idx'[q] : q \in Posted'} = {idx[q] : q \in Posted}
    <3>1. \A q \in Posted : idx'[q] = idx[q]
      BY <1>11 DEF Posted
    <3> QED
      BY <2>1, <3>1
  <2>3. Unseen' = Unseen /\ Distinct(used, used_idx, used_end, NUM, M)'
    BY <1>3 DEF Unseen, IInv, Posting
  <2>4. Unfetched' \cup work' \cup Unseen' = {idx'[q] : q \in Posted'}
    BY <1>3, <1>9, <2>2, <2>3 DEF IInv, Posting
  <2>5. Unfetched' \cap work' = {} /\ Unfetched' \cap Unseen' = {} /\ work' \cap Unseen' = {}
    BY <1>3, <1>9, <2>3 DEF IInv, Posting
  <2>6. ASSUME NEW d \in Unseen' PROVE status'[d] = 0
    <3>1. d \in Unseen /\ status[d] = 0
      BY <2>3 DEF IInv, Posting
    <3>2. PICK q \in Proc : q \in InFlight /\ idx[q] = d /\ d \in Desc
      BY <3>1, PostedIs
    <3>3. d # a
      BY <1>11, <3>2
    <3> QED
      BY <1>2, <1>4, <3>1, <3>2, <3>3 DEF TypeOK
  <2> QED
    BY <1>9, <2>3, <2>4, <2>5, <2>6 DEF Posting
<1>18. Sectors' /\ Transfers'
  <2>1. ASSUME NEW q \in Proc PROVE Pending(q)' <=> Pending(q)
    <3>1. CASE q = p
      BY <1>3, <1>5, <3>1 DEF Pending
    <3>2. CASE q # p
      BY <1>3, <1>5, <1>6, <1>9, <3>2, PendingKept
    <3> QED
      BY <3>1, <3>2
  <2>2. \A q \in Proc : pc'[q] = "idle" <=> pc[q] = "idle"
    BY <1>3, <1>5
  <2> QED
    BY <1>3, <2>1, <2>2, TransfersKept
<1>19. NobodyStranded'
  <2>1. CompletionNotLost'
    BY <1>3, ProcAssumption DEF IInv, NobodyStranded, CompletionNotLost
  <2>2. AllocatorNotStranded'
    <3>1. ~(Cardinality(Free) < 3)
      <4>1. Cardinality(Free) \in Nat
        BY RingsAre, FS_Subset, FS_CardinalityType DEF Free
      <4> QED
        BY <1>3, <4>1, SMTT(60)
    <3>2. \A q \in Proc : pc'[q] # "nodesc"
      BY <1>5, <3>1 DEF IInv, NobodyStranded, AllocatorNotStranded
    <3> QED
      BY <3>2 DEF AllocatorNotStranded
  <2>3. SleeperBusy'
    BY <1>3, <1>4, <1>5 DEF IInv, NobodyStranded, SleeperBusy, TypeOK
  <2> QED
    BY <2>1, <2>2, <2>3 DEF NobodyStranded
<1> QED
  BY <1>10, <1>13, <1>14, <1>15, <1>16, <1>17, <1>18, <1>19 DEF IInv

\* The request is done: its chain is freed, and who waits for descriptors woken.
LEMMA ReturnIInv ==
  ASSUME IInv, NEW p \in Proc, finish(p), ~busy[p]
  PROVE  IInv'
<1>1. /\ pc[p] = "woken" /\ lock = Null
      /\ info' = [info EXCEPT ![idx[p]] = Null]
      /\ ops' = [ops EXCEPT ![idx[p]] = Null]
      /\ status' = [status EXCEPT ![idx[p]] = Null]
      /\ free' = [d \in Desc |-> free[d] \/ d \in Chain(idx[p])]
      /\ desc' = [d \in Desc |-> IF d \in Chain(idx[p]) THEN NoDesc ELSE desc[d]]
      /\ pc' = WakeAllocators(p, "idle")
      /\ req' = [req EXCEPT ![p] = NoReq]
      /\ data' = [data EXCEPT ![p] = Zero]
      /\ idx' = [idx EXCEPT ![p] = 0]
      /\ UNCHANGED <<busy, ring, avail_idx, used_idx, used, used_end, irq, seen, work, disk,
                     lock>>
  BY DEF finish, return, rings
<1>2. TypeOK
  BY DEF IInv
<1>3. /\ pc'[p] = "idle"
      /\ \A q \in Proc : q # p => pc'[q] = IF pc[q] = "nodesc" THEN "alloc" ELSE pc[q]
  BY <1>1 DEF WakeAllocators
<1>4. \A q \in Proc : q # p => idx'[q] = idx[q] /\ req'[q] = req[q] /\ data'[q] = data[q]
  BY <1>1, <1>2 DEF TypeOK
<1>5. p \in InFlight /\ p \notin Posted /\ InFlight' = InFlight \ {p}
  BY <1>1, <1>3 DEF InFlight, Posted
<1>6. 0 \in Desc
  BY RingsAre, SMTT(60) DEF Desc
<1>7. TypeOK'
  <2>1. free' \in [Desc -> BOOLEAN]
    <3>1. \A d \in Desc : (free[d] \/ d \in Chain(idx[p])) \in BOOLEAN
      OBVIOUS
    <3> QED
      BY <1>1, <3>1
  <2>2. desc' \in [Desc -> [addr : Desc \cup Proc \cup {Null}, next : Desc, more : BOOLEAN]]
    <3> DEFINE D == [addr : Desc \cup Proc \cup {Null}, next : Desc, more : BOOLEAN]
    <3>1. NoDesc \in D
      BY <1>6 DEF NoDesc
    <3>2. desc \in [Desc -> D]
      BY <1>2 DEF TypeOK
    <3> HIDE DEF D
    <3>3. desc' \in [Desc -> D]
      BY <1>1, <3>1, <3>2
    <3> QED
      BY <3>3 DEF D
  <2>3. ops' \in [Desc -> [write : BOOLEAN, sector : Sector] \cup {Null}]
    BY <1>1, <1>2 DEF TypeOK
  <2>4. info' \in [Desc -> Proc \cup {Null}] /\ status' \in [Desc -> {0, 255, Null}]
    BY <1>1, <1>2 DEF TypeOK
  <2>5. pc' \in [Proc -> {"idle", "alloc", "nodesc", "publish", "asleep", "woken"}]
    BY <1>1, <1>2 DEF TypeOK, WakeAllocators
  <2>6. req' \in [Proc -> [write : BOOLEAN, sector : Sector \cup {Null}, value : Value]]
    <3> DEFINE R == [write : BOOLEAN, sector : Sector \cup {Null}, value : Value]
    <3>1. NoReq \in R
      BY ValueAssumption DEF NoReq
    <3>2. req \in [Proc -> R]
      BY <1>2 DEF TypeOK
    <3> HIDE DEF R
    <3>3. req' \in [Proc -> R]
      BY <1>1, <3>1, <3>2
    <3> QED
      BY <3>3 DEF R
  <2>7. data' \in [Proc -> Value] /\ idx' \in [Proc -> Desc]
    BY <1>1, <1>2, <1>6, ValueAssumption DEF TypeOK
  <2> QED
    BY <1>1, <1>2, <2>1, <2>2, <2>3, <2>4, <2>5, <2>6, <2>7 DEF TypeOK
<1>8. ASSUME NEW q \in InFlight, q # p
      PROVE  /\ \E e, f \in Desc : Linked(desc', q, idx'[q], e, f)
             /\ Chain(idx[q])' = Chain(idx[q]) /\ Chain(idx[p]) \cap Chain(idx[q]) = {}
             /\ idx'[q] = idx[q] /\ idx[q] # idx[p] /\ idx[q] \in Desc /\ q \in Proc
  <2>1. Chain(idx[p]) \cap Chain(idx[q]) = {}
    BY <1>5, <1>8 DEF IInv, ChainsApart
  <2>2. \A d \in Desc \ Chain(idx[p]) : desc'[d] = desc[d]
    BY <1>1
  <2>3. /\ \E e, f \in Desc : Linked(desc', q, idx[q], e, f)
        /\ ChainOf(desc', idx[q]) = Chain(idx[q])
    BY <2>1, <2>2, OtherChain
  <2>4. q \in Proc
    BY DEF InFlight
  <2>5. idx'[q] = idx[q] /\ idx[q] \in Desc
    BY <1>2, <1>4, <1>8, <2>4 DEF TypeOK
  <2>6. Chain(idx[q])' = ChainOf(desc', idx'[q])
    BY DEF Chain, ChainOf
  <2>7. idx[q] # idx[p]
    BY <1>5, <1>8, HeadsDiffer
  <2> QED
    BY <2>1, <2>3, <2>4, <2>5, <2>6, <2>7
<1>9. Chained'
  <2> SUFFICES ASSUME NEW q \in InFlight, q # p
               PROVE  /\ \E e, f \in Desc : Linked(desc', q, idx'[q], e, f)
                      /\ info'[idx'[q]] = q
                      /\ ops'[idx'[q]] = [write |-> req'[q].write, sector |-> req'[q].sector]
    BY <1>5 DEF Chained
  <2>1. /\ info[idx[q]] = q
        /\ ops[idx[q]] = [write |-> req[q].write, sector |-> req[q].sector]
    BY DEF IInv, Chained
  <2>2. info'[idx[q]] = info[idx[q]] /\ ops'[idx[q]] = ops[idx[q]]
    BY <1>1, <1>2, <1>8 DEF TypeOK
  <2>3. req'[q] = req[q]
    BY <1>4, <1>8
  <2> QED
    BY <1>8, <2>1, <2>2, <2>3
<1>10. ChainsApart'
  <2> SUFFICES ASSUME NEW q \in InFlight', NEW r \in InFlight', q # r
               PROVE  Chain(idx[q])' \cap Chain(idx[r])' = {}
    BY DEF ChainsApart
  <2>1. Chain(idx[q]) \cap Chain(idx[r]) = {}
    BY <1>5 DEF IInv, ChainsApart
  <2> QED
    BY <1>5, <1>8, <2>1
<1>11. FreeRest'
  <2> SUFFICES ASSUME NEW d \in Desc
               PROVE  free'[d] <=> \A q \in InFlight' : d \notin Chain(idx[q])'
    BY DEF FreeRest
  <2>1. free'[d] <=> free[d] \/ d \in Chain(idx[p])
    BY <1>1
  <2>2. free[d] <=> \A q \in InFlight : d \notin Chain(idx[q])
    BY DEF IInv, FreeRest
  <2>3. \A q \in InFlight : q # p => /\ Chain(idx[q])' = Chain(idx[q])
                                     /\ Chain(idx[p]) \cap Chain(idx[q]) = {}
    BY <1>8
  <2> QED
    BY <1>5, <2>1, <2>2, <2>3
<1>12. Publishing'
  <2>1. \A q \in Proc : pc'[q] # "publish" /\ lock' # q
    BY <1>1, <1>3, ProcAssumption DEF IInv, Publishing
  <2> QED
    BY <2>1 DEF Publishing
<1>13. Unfetched' = Unfetched /\ Unseen' = Unseen
  BY <1>1 DEF Unfetched, Unseen
<1>14. Posting'
  <2>1. Posted' = Posted
    <3>1. \A q \in InFlight : q # p => pc'[q] = pc[q]
      BY <1>3 DEF InFlight
    <3> QED
      BY <1>1, <1>5, <3>1 DEF Posted
  <2>2. {idx'[q] : q \in Posted'} = {idx[q] : q \in Posted}
    <3>1. \A q \in Posted : idx'[q] = idx[q]
      BY <1>5, <1>8 DEF Posted
    <3> QED
      BY <2>1, <3>1
  <2>3. /\ Distinct(ring, seen, avail_idx, NUM, M)'
        /\ Distinct(used, used_idx, used_end, NUM, M)'
    BY <1>1 DEF IInv, Posting
  <2>4. Unfetched' \cup work' \cup Unseen' = {idx'[q] : q \in Posted'}
    BY <1>1, <1>13, <2>2 DEF IInv, Posting
  <2>5. Unfetched' \cap work' = {} /\ Unfetched' \cap Unseen' = {} /\ work' \cap Unseen' = {}
    BY <1>1, <1>13 DEF IInv, Posting
  <2>6. ASSUME NEW d \in Unseen' PROVE status'[d] = 0
    <3>1. d \in Unseen /\ status[d] = 0
      BY <1>13 DEF IInv, Posting
    <3>2. d # idx[p]
      BY <1>5, <3>1, NotPosted
    <3>3. d \in Desc
      BY <3>1, PostedIs
    <3> QED
      BY <1>1, <1>2, <3>1, <3>2, <3>3 DEF TypeOK
  <2> QED
    BY <2>3, <2>4, <2>5, <2>6 DEF Posting
<1>15. \A q \in Proc : pc'[q] # "idle" => pc[q] # "idle" /\ q # p
  BY <1>3
<1>16. Sectors'
  BY <1>4, <1>15, SMTT(60) DEF IInv, Sectors
<1>17. Transfers'
  <2> SUFFICES ASSUME NEW q \in Proc, q # p, pc[q] # "idle"
               PROVE  /\ req'[q].write \/ ~Pending(q)' => data'[q] = req'[q].value
                      /\ ~req'[q].write \/ ~Pending(q)' =>
                           disk'[req'[q].sector] = req'[q].value
    BY <1>15 DEF Transfers
  <2>1. Pending(q)' <=> Pending(q)
    <3>1. Unfetched' \cup work' = Unfetched \cup work
      BY <1>1, <1>13
    <3> QED
      BY <1>3, <1>4, <3>1, PendingKept
  <2>2. /\ req[q].write \/ ~Pending(q) => data[q] = req[q].value
        /\ ~req[q].write \/ ~Pending(q) => disk[req[q].sector] = req[q].value
    BY DEF IInv, Transfers
  <2> QED
    BY <1>1, <1>4, <2>1, <2>2
<1>18. NobodyStranded'
  <2>1. CompletionNotLost'
    BY <1>1 DEF IInv, NobodyStranded, CompletionNotLost
  <2>2. AllocatorNotStranded'
    <3>1. \A q \in Proc : pc'[q] # "nodesc"
      BY <1>3
    <3> QED
      BY <3>1 DEF AllocatorNotStranded
  <2>3. SleeperBusy'
    BY <1>1, <1>3 DEF IInv, NobodyStranded, SleeperBusy
  <2> QED
    BY <2>1, <2>2, <2>3 DEF NobodyStranded
<1> QED
  BY <1>7, <1>9, <1>10, <1>11, <1>12, <1>14, <1>16, <1>17, <1>18 DEF IInv

-----------------------------------------------------------------------------
(* The theorems                                                            *)

\* Every step keeps the invariant.
LEMMA NextIInv == IInv /\ [Next]_vars => IInv'
<1> SUFFICES ASSUME IInv, [Next]_vars PROVE IInv'
  OBVIOUS
<1>1. ASSUME NEW p \in Proc,
             NEW w \in BOOLEAN, NEW s \in Sector, NEW v \in Value, call(p, w, s, v)
      PROVE  IInv'
  BY <1>1, CallIInv
<1>2. ASSUME NEW p \in Proc, alloc_fail(p) \/ alloc(p) \/ publish(p) \/ kill(p) PROVE IInv'
  BY <1>2, AllocFailIInv, AllocIInv, PublishIInv, KillIInv
<1>3. ASSUME NEW p \in Proc, finish(p) PROVE IInv'
  BY <1>3, SleepAgainIInv, ReturnIInv
<1>4. ASSUME fetch \/ \E d \in Desc : serve(d) PROVE IInv'
  BY <1>4, FetchIInv, ServeIInv
<1>5. ASSUME handler PROVE IInv'
  BY <1>5, IntrEnterIInv, IntrLoopIInv DEF handler
<1>6. CASE UNCHANGED vars
  <2>1. UNCHANGED <<free, desc, ops, info, ring, avail_idx, used_idx, status, used, used_end,
                    irq, seen, work, disk, busy, data, pc, req, idx, lock>>
    BY <1>6 DEF vars, descs, rings, device, procs
  <2>2. UNCHANGED <<descs, rings, device, lock, busy, data, req, idx>>
    BY <2>1 DEF descs, rings, device
  <2>3. pc' \in [Proc -> {"idle", "alloc", "nodesc", "publish", "asleep", "woken"}]
    BY <2>1 DEF IInv, TypeOK
  <2>4. AllocatorNotStranded' /\ SleeperBusy'
    BY <2>1 DEF IInv, NobodyStranded, AllocatorNotStranded, SleeperBusy, Free
  <2> QED
    BY <2>1, <2>2, <2>3, <2>4, MoveIInv
<1> QED
  BY <1>1, <1>2, <1>3, <1>4, <1>5, <1>6 DEF Next

\* The invariant says that the rings and the descriptors are exact.
LEMMA IInvExact == IInv => RingsExact
<1> SUFFICES ASSUME IInv PROVE RingsExact
  OBVIOUS
<1>1. DescriptorsExact
  <2>1. ASSUME NEW p \in InFlight PROVE Cardinality(Chain(idx[p])) = 3
    <3>1. PICK b \in Desc, c \in Desc : /\ Linked(desc, p, idx[p], b, c)
                                        /\ Chain(idx[p]) = {idx[p], b, c}
      BY ChainIs
    <3>2. idx[p] # b /\ b # c /\ idx[p] # c
      BY <3>1 DEF Linked
    <3>3. IsFiniteSet({c}) /\ Cardinality({c}) = 1
      BY FS_Singleton
    <3>4. IsFiniteSet({c} \cup {b}) /\ Cardinality({c} \cup {b}) = 1 + 1
      BY <3>2, <3>3, FS_AddElement
    <3>5. Cardinality(({c} \cup {b}) \cup {idx[p]}) = 1 + 1 + 1
      <4>1. idx[p] \notin {c} \cup {b}
        BY <3>2
      <4> QED
        BY <3>4, <4>1, FS_AddElement
    <3>6. ({c} \cup {b}) \cup {idx[p]} = Chain(idx[p])
      BY <3>1
    <3> QED
      BY <3>5, <3>6, SMTT(60)
  <2>2. Free = Desc \ UNION {Chain(idx[p]) : p \in InFlight}
    BY DEF IInv, FreeRest, Free
  <2> QED
    BY <2>1, <2>2 DEF DescriptorsExact, IInv, ChainsApart
<1>2. UsedEntriesValid
  <2> SUFFICES ASSUME NEW k \in 0..((used_end + M - used_idx) % M) - 1,
                      NEW d, d = used[(used_idx + k) % NUM]
               PROVE  /\ status[d] = 0
                      /\ info[d] \in InFlight /\ idx[info[d]] = d /\ busy[info[d]]
    BY DEF UsedEntriesValid
  <2>1. d \in Unseen
    BY DEF Unseen, Queue, Ahead
  <2>2. PICK p \in Proc : p \in Posted /\ p \in InFlight /\ idx[p] = d
    BY <2>1, PostedIs
  <2>3. info[d] = p /\ busy[p]
    BY <2>2 DEF IInv, Chained, Posted
  <2>4. status[d] = 0
    BY <2>1 DEF IInv, Posting
  <2> QED
    BY <2>2, <2>3, <2>4
<1> QED
  BY <1>1, <1>2 DEF RingsExact, IInv

\* virtio_disk_rw returns only from its last lines, where b->disk is 0.
LEMMA ReturnsDone ==
  ASSUME IInv, Next, NEW p \in Proc, pc[p] = "woken", pc'[p] = "idle"
  PROVE  ~busy[p]
<1>1. TypeOK
  BY DEF IInv
<1>2. ASSUME NEW q \in Proc, NEW l, l # "idle", pc' = [pc EXCEPT ![q] = l] PROVE FALSE
  BY <1>1, <1>2 DEF TypeOK
<1>3. ASSUME NEW q \in Proc, NEW l, l # "idle" \/ q # p, pc' = WakeAllocators(q, l)
      PROVE  FALSE
  BY <1>3 DEF WakeAllocators
<1>4. ASSUME pc' = pc PROVE FALSE
  BY <1>4
<1>5. ASSUME NEW q \in Proc,
             NEW w \in BOOLEAN, NEW s \in Sector, NEW v \in Value, call(q, w, s, v)
      PROVE  FALSE
  BY <1>2, <1>5 DEF call, Goto
<1>6. ASSUME NEW q \in Proc, alloc_fail(q) \/ alloc(q) \/ publish(q) \/ kill(q) PROVE FALSE
  BY <1>2, <1>3, <1>6 DEF alloc_fail, alloc, publish, kill, Goto
<1>7. ASSUME NEW q \in Proc, finish(q) PROVE q = p /\ ~busy[p]
  BY <1>2, <1>3, <1>7 DEF finish, return, Goto
<1>8. ASSUME fetch \/ (\E d \in Desc : serve(d)) \/ intr_enter \/ intr_exit PROVE FALSE
  BY <1>4, <1>8 DEF fetch, serve, intr_enter, intr_exit, procs
<1>9. ASSUME intr_loop PROVE FALSE
  <2>1. PICK b : pc' = [pc EXCEPT ![b] = IF pc[b] = "asleep" THEN "woken" ELSE pc[b]]
    BY <1>9 DEF intr_loop
  <2> QED
    BY <1>1, <2>1 DEF TypeOK
<1> QED
  BY <1>5, <1>6, <1>7, <1>8, <1>9 DEF Next, handler

(***************************************************************************)
(* The inductive invariant holds throughout.                               *)
(***************************************************************************)
THEOREM Invariance == Spec => []IInv
<1> QED
  BY InitIInv, NextIInv, PTL DEF Spec

(***************************************************************************)
(* Every descriptor is free or in the chain of exactly one request of      *)
(* virtio_disk_rw, and every used entry leads virtio_disk_intr to a buffer *)
(* that waits for it: neither free_desc nor the handler panics.            *)
(***************************************************************************)
THEOREM RingsAreExact == Spec => []RingsExact
<1> QED
  BY Invariance, IInvExact, PTL

(***************************************************************************)
(* No interrupt and no wakeup is lost: a used entry has an interrupt or    *)
(* the handler's loop coming, nobody sleeps for descriptors while three    *)
(* are free, and nobody sleeps for a buffer the disk is done with.         *)
(***************************************************************************)
THEOREM NobodyIsStranded == Spec => []NobodyStranded
<1>1. IInv => NobodyStranded
  BY DEF IInv
<1> QED
  BY <1>1, Invariance, PTL

(***************************************************************************)
(* When virtio_disk_rw returns the transfer is done, whatever order the    *)
(* device serves requests in and whoever is woken early.                   *)
(***************************************************************************)
THEOREM RequestsAreServed == Spec => Served
<1> DEFINE A == \A p \in Proc : pc[p] = "woken" /\ pc'[p] = "idle" =>
                  data[p] = req[p].value /\ disk[req[p].sector] = req[p].value
<1>1. IInv /\ [Next]_vars => [A]_vars
  <2> SUFFICES ASSUME IInv, Next, NEW p \in Proc, pc[p] = "woken", pc'[p] = "idle"
               PROVE  data[p] = req[p].value /\ disk[req[p].sector] = req[p].value
    OBVIOUS
  <2>1. p \in InFlight /\ p \notin Posted
    BY ReturnsDone DEF InFlight, Posted
  <2>2. ~Pending(p)
    BY <2>1, NotPosted DEF Pending
  <2> QED
    BY <2>2 DEF IInv, Transfers
<1> QED
  BY <1>1, Invariance, PTL DEF Spec, Served
=============================================================================
