----------------------------- MODULE RingLemmas -----------------------------
(***************************************************************************)
(* Rings: an array of n entries, entered and left at two counters that     *)
(* count modulo m, a multiple of n.  The two rings the disk driver shares  *)
(* with the device are of this kind, and so is the console's input buffer. *)
(***************************************************************************)
EXTENDS Integers, TLAPS

\* Most steps are first-order; the ones that need arithmetic or many facts at once
\* name the SMT solver.
USE ZenonT(60)

RingSizes(n, m) == n \in Nat \ {0} /\ m \in Nat \ {0} /\ m % n = 0

\* How far counter w is ahead of counter r.
Ahead(w, r, m) == (w + m - r) % m

\* The entries of the array f from counter r up to counter w, and that they
\* differ from each other.
Queue(f, r, w, n, m) == {f[(r + k) % n] : k \in 0..Ahead(w, r, m)-1}
Distinct(f, r, w, n, m) ==
  \A i, j \in 0..Ahead(w, r, m)-1 : f[(r + i) % n] = f[(r + j) % n] => i = j

\* The entries from counter r on have places of their own.
Apart(r, n) == /\ \A k \in Nat : (r + k) % n \in 0..n-1
               /\ \A i, j \in 0..n-1 : (r + i) % n = (r + j) % n => i = j

-----------------------------------------------------------------------------
(* Arithmetic of the counters                                              *)

\* Reducing a number below twice the modulus.
LEMMA ModOnce ==
  \A m \in Nat, x \in Nat :
    m > 0 /\ x < m + m => x % m = IF x < m THEN x ELSE x - m
<1> SUFFICES ASSUME NEW m \in Nat, NEW x \in Nat, m > 0, x < m + m
             PROVE  x % m = IF x < m THEN x ELSE x - m
  OBVIOUS
<1>1. CASE x < m
  BY <1>1, SMTT(60)
<1>2. CASE x >= m
  BY <1>2, SMTT(60)
<1> QED
  BY <1>1, <1>2, SMTT(60)

\* Quotient and remainder.
LEMMA DivMod ==
  ASSUME NEW m \in Nat, m > 0, NEW x \in Nat
  PROVE  \E q \in Nat, r \in 0..m-1 : x = m * q + r
<1>1. x \div m \in Nat
  BY SMTT(60)
<1>2. x % m \in 0..m-1
  BY SMTT(60)
<1>3. x = m * (x \div m) + (x % m)
  BY SMTT(60)
<1> QED
  BY <1>1, <1>2, <1>3

\* A number written with a remainder has that remainder.
LEMMA ModIs ==
  ASSUME NEW m \in Nat, m > 0, NEW q \in Nat, NEW r \in 0..m-1
  PROVE  (m * q + r) % m = r
  BY SMTT(60)

\* The place of an entry in the ring does not change when its counter wraps.
LEMMA SamePlace ==
  ASSUME NEW n, NEW m, RingSizes(n, m), NEW x \in Nat
  PROVE  /\ x % n \in 0..n-1
         /\ (x + m) % n = x % n
<1>1. n \in Nat /\ n > 0 /\ m \in Nat /\ m % n = 0
  BY SMTT(60) DEF RingSizes
<1>2. PICK j \in Nat : m = n * j
  BY <1>1, SMTT(60)
<1>3. PICK q \in Nat, r \in 0..n-1 : x = n * q + r
  BY <1>1, DivMod
<1>4. x + m = n * (q + j) + r /\ q + j \in Nat
  BY <1>1, <1>2, <1>3, SMTT(60)
<1>5. (n * q + r) % n = r
  BY <1>1, ModIs
<1>6. (n * (q + j) + r) % n = r
  BY <1>1, <1>4, ModIs
<1> QED
  BY <1>3, <1>4, <1>5, <1>6

\* Entries fewer than n apart have places of their own.
LEMMA OwnPlace ==
  ASSUME NEW n \in Nat \ {0}, NEW x \in Nat, NEW d \in 1..n-1
  PROVE  (x + d) % n # x % n
<1>1. n \in Nat /\ n > 0
  BY SMTT(60)
<1>2. PICK q \in Nat, r \in 0..n-1 : x = n * q + r
  BY <1>1, DivMod
<1>3. (n * q + r) % n = r
  BY <1>1, ModIs
<1>4. CASE r + d < n
  <2>1. x + d = n * q + (r + d) /\ r + d \in 0..n-1
    BY <1>2, <1>4, SMTT(60)
  <2>2. (n * q + (r + d)) % n = r + d
    BY <1>1, <2>1, ModIs
  <2>3. r + d # r
    BY SMTT(60)
  <2> QED
    BY <1>2, <1>3, <2>1, <2>2, <2>3
<1>5. CASE r + d >= n
  <2> DEFINE e == r + d - n
  <2>1. x + d = n * (q + 1) + e /\ e \in 0..n-1 /\ q + 1 \in Nat
    BY <1>2, <1>5, SMTT(60)
  <2>2. (n * (q + 1) + e) % n = e
    BY <1>1, <2>1, ModIs
  <2>3. e # r
    BY SMTT(60)
  <2> QED
    BY <1>2, <1>3, <2>1, <2>2, <2>3
<1> QED
  BY <1>2, <1>4, <1>5, SMTT(60)

\* The distance of two counters, without the modulus.
LEMMA AheadIs ==
  ASSUME NEW m \in Nat \ {0}, NEW r \in 0..m-1, NEW w \in 0..m-1
  PROVE  /\ Ahead(w, r, m) = IF r <= w THEN w - r ELSE w + m - r
         /\ Ahead(w, r, m) \in 0..m-1
         /\ Ahead(w, r, m) = 0 <=> w = r
<1>1. w + m - r \in Nat /\ w + m - r < m + m
  BY SMTT(60)
<1>2. Ahead(w, r, m) = IF w + m - r < m THEN w + m - r ELSE w + m - r - m
  BY <1>1, ModOnce, SMTT(60) DEF Ahead
<1> QED
  BY <1>2, SMTT(60)

\* A counter that goes on by one.
LEMMA StepIs ==
  ASSUME NEW m \in Nat \ {0}, NEW x \in 0..m-1
  PROVE  /\ (x + 1) % m \in 0..m-1
         /\ (x + 1) % m = IF x + 1 = m THEN 0 ELSE x + 1
<1>1. x + 1 \in Nat /\ x + 1 < m + m /\ m > 0
  BY SMTT(60)
<1>2. (x + 1) % m = IF x + 1 < m THEN x + 1 ELSE x + 1 - m
  BY <1>1, ModOnce, SMTT(60)
<1> QED
  BY <1>2, SMTT(60)

\* A step of either counter moves their distance by one.
LEMMA AheadMoves ==
  ASSUME NEW m \in Nat \ {0}, NEW r \in 0..m-1, NEW w \in 0..m-1
  PROVE  /\ Ahead(w, r, m) < m - 1 =>
              Ahead((w + 1) % m, r, m) = Ahead(w, r, m) + 1
         /\ w # r => Ahead(w, (r + 1) % m, m) = Ahead(w, r, m) - 1
<1>1. PICK v \in 0..m-1 : v = (w + 1) % m /\ v = IF w + 1 = m THEN 0 ELSE w + 1
  BY StepIs
<1>2. PICK s \in 0..m-1 : s = (r + 1) % m /\ s = IF r + 1 = m THEN 0 ELSE r + 1
  BY StepIs
<1>3. Ahead(w, r, m) = IF r <= w THEN w - r ELSE w + m - r
  BY AheadIs
<1>4. Ahead(v, r, m) = IF r <= v THEN v - r ELSE v + m - r
  BY AheadIs
<1>5. Ahead(w, s, m) = IF s <= w THEN w - s ELSE w + m - s
  BY AheadIs
<1>6. Ahead(w, r, m) < m - 1 => Ahead(v, r, m) = Ahead(w, r, m) + 1
  BY <1>1, <1>3, <1>4, SMTT(60)
<1>7. w # r => Ahead(w, s, m) = Ahead(w, r, m) - 1
  BY <1>2, <1>3, <1>5, SMTT(60)
<1> QED
  BY <1>1, <1>2, <1>6, <1>7

-----------------------------------------------------------------------------
(* Queues                                                                  *)

\* The array is at least as long as what lies between the counters may be.
LEMMA ModulusIs ==
  ASSUME NEW n, NEW m, RingSizes(n, m)
  PROVE  n <= m
<1>1. n \in Nat /\ n > 0 /\ m \in Nat /\ m > 0 /\ m % n = 0
  BY SMTT(60) DEF RingSizes
<1>2. m < n => m % n = m
  BY <1>1, SMTT(60)
<1> QED
  BY <1>1, <1>2, SMTT(60)

\* Where the entries are: those of a queue of at most n are apart, the counter w
\* points behind the last, and a step of r counts them anew.
LEMMA PlacesAre ==
  ASSUME NEW n, NEW m, RingSizes(n, m), NEW r \in 0..m-1, NEW w \in 0..m-1
  PROVE  /\ Apart(r, n)
         /\ w % n = (r + Ahead(w, r, m)) % n
         /\ \A k \in Nat : (((r + 1) % m) + k) % n = (r + (k + 1)) % n
<1>1. n \in Nat \ {0} /\ m \in Nat \ {0} /\ r \in Nat /\ w \in Nat
  BY SMTT(60) DEF RingSizes
<1>2. ASSUME NEW k \in Nat PROVE (r + k) % n \in 0..n-1
  <2>1. r + k \in Nat
    BY <1>1, SMTT(60)
  <2> QED
    BY <2>1, SamePlace
<1>3. ASSUME NEW i \in 0..n-1, NEW j \in 0..n-1, i < j PROVE (r + i) % n # (r + j) % n
  <2>1. r + i \in Nat /\ j - i \in 1..n-1 /\ r + i + (j - i) = r + j
    BY <1>1, <1>3, SMTT(60)
  <2>2. (r + i + (j - i)) % n # (r + i) % n
    BY <1>1, <2>1, OwnPlace
  <2> QED
    BY <2>1, <2>2
<1>4. ASSUME NEW i \in 0..n-1, NEW j \in 0..n-1, (r + i) % n = (r + j) % n PROVE i = j
  <2>1. i < j \/ j < i \/ i = j
    BY <1>1, SMTT(60)
  <2> QED
    BY <1>3, <1>4, <2>1
<1>5. w % n = (r + Ahead(w, r, m)) % n
  <2>1. Ahead(w, r, m) = IF r <= w THEN w - r ELSE w + m - r
    BY <1>1, AheadIs
  <2>2. r + Ahead(w, r, m) = IF r <= w THEN w ELSE w + m
    BY <1>1, <2>1, SMTT(60)
  <2>3. (w + m) % n = w % n
    BY <1>1, SamePlace
  <2> QED
    BY <2>2, <2>3
<1>6. ASSUME NEW k \in Nat PROVE (((r + 1) % m) + k) % n = (r + (k + 1)) % n
  <2>1. (r + 1) % m = IF r + 1 = m THEN 0 ELSE r + 1
    BY <1>1, StepIs
  <2>2. CASE r + 1 = m
    <3>1. ((r + 1) % m) + k = k /\ r + (k + 1) = k + m
      BY <1>1, <2>1, <2>2, SMTT(60)
    <3>2. (k + m) % n = k % n
      BY SamePlace
    <3> QED
      BY <3>1, <3>2
  <2>3. CASE r + 1 # m
    <3>1. ((r + 1) % m) + k = r + (k + 1)
      BY <1>1, <2>1, <2>3, SMTT(60)
    <3> QED
      BY <3>1
  <2> QED
    BY <2>2, <2>3
<1> QED
  BY <1>2, <1>4, <1>5, <1>6 DEF Apart

\* Between equal counters there is nothing.
LEMMA QueueEmpty ==
  ASSUME NEW n, NEW m, RingSizes(n, m), NEW r \in 0..m-1, NEW f
  PROVE  Queue(f, r, r, n, m) = {} /\ Distinct(f, r, r, n, m)
<1>1. Ahead(r, r, m) = 0
  BY AheadIs, SMTT(60) DEF RingSizes
<1> QED
  BY <1>1, SMTT(60) DEF Queue, Distinct

\* The ring f after d was written to its place k.
Put(f, k, d) == [f EXCEPT ![k] = d]

\* A write at w changes no entry of a queue that is not full.
LEMMA QueuePut ==
  ASSUME NEW n, NEW m, RingSizes(n, m), NEW r \in 0..m-1, NEW w \in 0..m-1,
         NEW S, NEW f \in [0..n-1 -> S], NEW d \in S, Ahead(w, r, m) < n
  PROVE  /\ Queue(Put(f, w % n, d), r, w, n, m) = Queue(f, r, w, n, m)
         /\ Distinct(f, r, w, n, m) => Distinct(Put(f, w % n, d), r, w, n, m)
         /\ Put(f, w % n, d)[w % n] = d /\ Put(f, w % n, d) \in [0..n-1 -> S]
<1> SUFFICES ASSUME NEW g, g = [f EXCEPT ![w % n] = d]
             PROVE  /\ Queue(g, r, w, n, m) = Queue(f, r, w, n, m)
                    /\ Distinct(f, r, w, n, m) => Distinct(g, r, w, n, m)
                    /\ g[w % n] = d /\ g \in [0..n-1 -> S]
  BY DEF Put
<1>1. n \in Nat \ {0} /\ m \in Nat \ {0}
  BY DEF RingSizes
<1>a. Ahead(w, r, m) \in 0..m-1
  BY <1>1, AheadIs
<1>b. Apart(r, n) /\ w % n = (r + Ahead(w, r, m)) % n
  BY PlacesAre
<1>2. PICK a \in 0..m-1 : a = Ahead(w, r, m) /\ w % n = (r + a) % n
  BY <1>a, <1>b
<1>3. w % n \in 0..n-1
  BY <1>1, SamePlace, SMTT(60)
<1>4. ASSUME NEW k \in 0..a-1 PROVE g[(r + k) % n] = f[(r + k) % n]
  <2>1. k \in 0..n-1 /\ a \in 0..n-1 /\ k # a /\ k \in Nat
    BY <1>1, <1>2, SMTT(60)
  <2>2. (r + k) % n # w % n /\ (r + k) % n \in 0..n-1
    BY <1>2, <1>b, <2>1 DEF Apart
  <2> QED
    BY <2>2
<1>5. Queue(g, r, w, n, m) = Queue(f, r, w, n, m)
  BY <1>2, <1>4 DEF Queue
<1>6. Distinct(f, r, w, n, m) => Distinct(g, r, w, n, m)
  BY <1>2, <1>4 DEF Distinct
<1> QED
  BY <1>3, <1>5, <1>6

\* A step of w puts the entry it pointed to in the queue.
LEMMA QueueGrow ==
  ASSUME NEW n, NEW m, RingSizes(n, m), NEW r \in 0..m-1, NEW w \in 0..m-1,
         NEW f, Ahead(w, r, m) + 1 < n,
         NEW v, v = (w + 1) % m
  PROVE  /\ Queue(f, r, v, n, m) = Queue(f, r, w, n, m) \cup {f[w % n]}
         /\ Distinct(f, r, w, n, m) /\ f[w % n] \notin Queue(f, r, w, n, m) =>
              Distinct(f, r, v, n, m)
<1>1. n \in Nat \ {0} /\ m \in Nat \ {0} /\ n <= m
  BY ModulusIs DEF RingSizes
<1>a. Ahead(w, r, m) \in 0..m-1
  BY <1>1, AheadIs
<1>b. Apart(r, n) /\ w % n = (r + Ahead(w, r, m)) % n
  BY PlacesAre
<1>2. PICK a \in 0..m-1 : a = Ahead(w, r, m) /\ w % n = (r + a) % n
  BY <1>a, <1>b
<1>3. Ahead(v, r, m) = a + 1
  BY <1>1, <1>2, AheadMoves, SMTT(60)
<1>4. 0..(a + 1)-1 = 0..a-1 \cup {a}
  BY SMTT(60)
<1>5. Queue(f, r, v, n, m) = {f[(r + k) % n] : k \in 0..a-1 \cup {a}}
  BY <1>3, <1>4 DEF Queue
<1>6. Queue(f, r, v, n, m) = Queue(f, r, w, n, m) \cup {f[w % n]}
  BY <1>2, <1>5 DEF Queue
<1>7. ASSUME Distinct(f, r, w, n, m), f[w % n] \notin Queue(f, r, w, n, m)
      PROVE  Distinct(f, r, v, n, m)
  <2>1. \A i, j \in 0..a-1 : f[(r + i) % n] = f[(r + j) % n] => i = j
    BY <1>2, <1>7 DEF Distinct
  <2>2. \A i \in 0..a-1 : f[(r + i) % n] # f[(r + a) % n]
    BY <1>2, <1>7 DEF Queue
  <2>3. \A i, j \in 0..a-1 \cup {a} : f[(r + i) % n] = f[(r + j) % n] => i = j
    BY <2>1, <2>2
  <2> QED
    BY <1>3, <1>4, <2>3 DEF Distinct
<1> QED
  BY <1>6, <1>7

\* A step of r takes the first entry from the queue, whatever is left in its place.
LEMMA QueuePop ==
  ASSUME NEW n, NEW m, RingSizes(n, m), NEW r \in 0..m-1, NEW w \in 0..m-1,
         NEW S, NEW f \in [0..n-1 -> S], NEW e \in S, Ahead(w, r, m) <= n, r # w,
         NEW g, g = [f EXCEPT ![r % n] = e], NEW s, s = (r + 1) % m,
         Distinct(f, r, w, n, m)
  PROVE  /\ f[r % n] \in Queue(f, r, w, n, m)
         /\ Queue(g, s, w, n, m) = Queue(f, r, w, n, m) \ {f[r % n]}
         /\ Distinct(g, s, w, n, m)
         /\ g \in [0..n-1 -> S]
<1>1. n \in Nat \ {0} /\ m \in Nat \ {0} /\ n <= m
  BY ModulusIs DEF RingSizes
<1>a. Ahead(w, r, m) \in 0..m-1 /\ Ahead(w, r, m) # 0
  BY <1>1, AheadIs, SMTT(60)
<1>b. Apart(r, n)
  BY PlacesAre
<1>2. PICK a \in 0..m-1 : a = Ahead(w, r, m) /\ a # 0
  BY <1>a
<1>3. Ahead(w, s, m) = a - 1
  BY <1>1, <1>2, AheadMoves
<1>4. r + 0 = r /\ 0 \in 0..a-1 /\ 0 \in 0..n-1
  BY <1>1, <1>2, SMTT(60)
<1>5. ASSUME NEW k \in 0..(a-1)-1
      PROVE  g[(s + k) % n] = f[(r + (k + 1)) % n] /\ k + 1 \in 1..a-1
  <2>1. k \in Nat /\ k + 1 \in 0..n-1 /\ k + 1 # 0 /\ k + 1 \in Nat /\ k + 1 \in 1..a-1
    BY <1>1, <1>2, SMTT(60)
  <2>2. (s + k) % n = (r + (k + 1)) % n
    BY <2>1, PlacesAre
  <2>3. (r + (k + 1)) % n # r % n /\ (r + (k + 1)) % n \in 0..n-1
    BY <1>b, <1>4, <2>1 DEF Apart
  <2> QED
    BY <2>1, <2>2, <2>3
<1>6. \A i, j \in 0..a-1 : f[(r + i) % n] = f[(r + j) % n] => i = j
  BY <1>2 DEF Distinct
<1>7. f[r % n] \in Queue(f, r, w, n, m)
  BY <1>2, <1>4 DEF Queue
<1>8. Queue(g, s, w, n, m) = {f[(r + k) % n] : k \in 1..a-1}
  <2>1. Queue(g, s, w, n, m) = {g[(s + k) % n] : k \in 0..(a-1)-1}
    BY <1>3 DEF Queue
  <2>2. \A k \in 1..a-1 : k - 1 \in 0..(a-1)-1 /\ (k - 1) + 1 = k
    BY SMTT(60)
  <2>3. \A k \in 1..a-1 : g[(s + (k - 1)) % n] = f[(r + k) % n]
    BY <1>5, <2>2
  <2>4. {g[(s + k) % n] : k \in 0..(a-1)-1} \subseteq {f[(r + k) % n] : k \in 1..a-1}
    BY <1>5
  <2>5. {f[(r + k) % n] : k \in 1..a-1} \subseteq {g[(s + k) % n] : k \in 0..(a-1)-1}
    <3> SUFFICES ASSUME NEW k \in 1..a-1
                 PROVE  \E i \in 0..(a-1)-1 : f[(r + k) % n] = g[(s + i) % n]
      OBVIOUS
    <3> QED
      BY <2>2, <2>3
  <2> QED
    BY <2>1, <2>4, <2>5
<1>9. Queue(f, r, w, n, m) = {f[(r + k) % n] : k \in 1..a-1} \cup {f[r % n]}
  <2>1. 0..a-1 = 1..a-1 \cup {0}
    BY <1>2, SMTT(60)
  <2>2. Queue(f, r, w, n, m) = {f[(r + k) % n] : k \in 1..a-1 \cup {0}}
    BY <1>2, <2>1 DEF Queue
  <2> QED
    BY <1>4, <2>2
<1>10. f[r % n] \notin {f[(r + k) % n] : k \in 1..a-1}
  <2>1. \A k \in 1..a-1 : k \in 0..a-1 /\ k # 0
    BY SMTT(60)
  <2> QED
    BY <1>4, <1>6, <2>1
<1>11. Distinct(g, s, w, n, m)
  <2> SUFFICES ASSUME NEW i \in 0..(a-1)-1, NEW j \in 0..(a-1)-1,
                      g[(s + i) % n] = g[(s + j) % n]
               PROVE  i = j
    BY <1>3 DEF Distinct
  <2>1. f[(r + (i + 1)) % n] = f[(r + (j + 1)) % n]
    BY <1>5
  <2>2. i + 1 \in 0..a-1 /\ j + 1 \in 0..a-1
    BY <1>2, SMTT(60)
  <2>3. i + 1 = j + 1
    BY <1>6, <2>1, <2>2
  <2> QED
    BY <2>3, SMTT(60)
<1> QED
  BY <1>7, <1>8, <1>9, <1>10, <1>11

\* The place at w is not that of the first entry.
LEMMA EndApart ==
  ASSUME NEW n, NEW m, RingSizes(n, m), NEW r \in 0..m-1, NEW w \in 0..m-1,
         Ahead(w, r, m) < n, r # w
  PROVE  w % n # r % n
<1>1. n \in Nat \ {0} /\ m \in Nat \ {0}
  BY DEF RingSizes
<1>2. Apart(r, n) /\ w % n = (r + Ahead(w, r, m)) % n
  BY PlacesAre
<1>3. Ahead(w, r, m) \in 0..m-1 /\ Ahead(w, r, m) # 0
  BY <1>1, AheadIs, SMTT(60)
<1>4. PICK a \in 0..n-1 : a = Ahead(w, r, m) /\ a # 0
  BY <1>1, <1>3, SMTT(60)
<1>5. 0 \in 0..n-1 /\ r + 0 = r
  BY <1>1, SMTT(60)
<1>6. (r + a) % n # (r + 0) % n
  BY <1>2, <1>4, <1>5 DEF Apart
<1> QED
  BY <1>2, <1>4, <1>5, <1>6
=============================================================================
