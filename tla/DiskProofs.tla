------------------------------ MODULE DiskProofs -------------------------------
(***************************************************************************)
(* Proofs about the two layers under the file system.                      *)
(*                                                                         *)
(* The disk driver (VirtioDisk), for any number of processes, any number   *)
(* of descriptors and any width of the ring indices that it divides: no    *)
(* transfer is lost, delivered twice or forgotten.  The buffer cache       *)
(* (Bio), for any numbers of processes, buffers and blocks: no write is    *)
(* lost, and no buffer is taken away from anybody who counts on it.        *)
(***************************************************************************)
EXTENDS VirtioDisk, FiniteSetTheorems, TLAPS

\* Remainders, by a name that hides them from the provers.
Mod(a, n) == a % n

\* The slot of the k-th entry after ring index f, and how many entries there are up to t.
Slot(f, k) == Mod(Mod(f + k, UINT16), NUM)
Count(f, t) == Mod(t - f, UINT16)

\* Descriptor i is in the ring between two indices.
Entry(ring, f, t, i) == \E k \in 0 .. Count(f, t) - 1 : ring[Slot(f, k)] = i

\* The device has not taken the request, and the driver has not seen that it is done.
Waiting(i) == Entry(avail, taken_idx, avail_idx, i)
Done(i) == Entry(used, seen_idx, used_idx, i)

\* Descriptor i starts the request of a transfer that is not over.
Pending(i) == \E p \in Procs : bdisk[p] /\ head[p] = i

\* No entry occurs twice in a ring, and there is room for one more.
RingOK(ring, f, t) ==
  /\ Count(f, t) < NUM
  /\ \A k \in 0 .. Count(f, t) - 1 : ring[Slot(f, k)] \in Descs
  /\ \A j, k \in 0 .. Count(f, t) - 1 : ring[Slot(f, j)] = ring[Slot(f, k)] => j = k

Rings == RingOK(avail, taken_idx, avail_idx) /\ RingOK(used, seen_idx, used_idx)

\* A transfer that is not over is in one place.
Placed ==
  \A i \in Descs :
    /\ Pending(i) <=> Waiting(i) \/ i \in busy \/ Done(i)
    /\ ~(Waiting(i) /\ i \in busy) /\ ~(Waiting(i) /\ Done(i)) /\ ~(i \in busy /\ Done(i))

\* A process has descriptors exactly while it waits for its transfer.
Heads ==
  \A p \in Procs :
    /\ head[p] # NULL <=> pc[p] \in {"wait", "asleep"}
    /\ bdisk[p] => head[p] # NULL
    /\ pc[p] = "asleep" => bdisk[p]
    /\ head[p] # NULL => info[head[p]] = p

\* Descriptor d belongs to the request that starts at i.
In(d, i) == d = i \/ d = next[i] \/ d = next[next[i]]

\* The descriptors in use make up the chains of the requests.
Chains ==
  /\ \A p \in Procs : head[p] # NULL =>
       /\ head[p] \in Descs /\ next[head[p]] \in Descs /\ next[next[head[p]]] \in Descs
       /\ next[head[p]] # head[p]
       /\ \A d \in Descs : In(d, head[p]) => d \notin free
  /\ \A p, q \in Procs : \A d \in Descs :
       head[p] # NULL /\ head[q] # NULL /\ In(d, head[p]) /\ In(d, head[q]) => p = q
  /\ \A d \in Descs : d \notin free => \E p \in Procs : head[p] # NULL /\ In(d, head[p])

IInv ==
  /\ TypeOK
  /\ Rings
  /\ Placed
  /\ Heads
  /\ Chains
  /\ NoLostCompletion

--------------------------------------------------------------------------------
(* Counters that wrap. *)

LEMMA ModWraps ==
  ASSUME NEW n \in Nat \ {0}, NEW a \in Int
  PROVE  /\ Mod(a, n) \in 0 .. n - 1
         /\ 0 <= a /\ a < n => Mod(a, n) = a
         /\ n <= a /\ a < 2 * n => Mod(a, n) = a - n
         /\ -n <= a /\ a < 0 => Mod(a, n) = a + n
BY DEF Mod

LEMMA ModUnique ==
  ASSUME NEW n \in Nat \ {0}, NEW q \in Int, NEW r \in 0 .. n - 1
  PROVE  Mod(n * q + r, n) = r
BY DEF Mod

LEMMA DivMod ==
  ASSUME NEW n \in Nat \ {0}, NEW a \in Int
  PROVE  (a \div n) \in Int /\ a = n * (a \div n) + Mod(a, n)
BY DEF Mod

\* Multiples of the modulus do not matter.
LEMMA ModMultiple ==
  ASSUME NEW n \in Nat \ {0}, NEW a \in Int, NEW m \in Int, Mod(m, n) = 0
  PROVE  Mod(a + m, n) = Mod(a, n)
<1> DEFINE q == a \div n
           c == m \div n
           r == Mod(a, n)
<1>1. /\ q \in Int /\ c \in Int /\ r \in 0 .. n - 1
      /\ a = n * q + r /\ m = n * c + 0
  <2>1. q \in Int /\ c \in Int /\ a = n * q + r /\ m = n * c + 0
    BY DivMod, Zenon
  <2>2. r \in 0 .. n - 1
    BY ModWraps, Zenon
  <2>. QED BY <2>1, <2>2, Zenon
<1> HIDE DEF q, c, r
<1>2. a + m = n * (q + c) + r /\ q + c \in Int
  BY <1>1
<1>3. Mod(n * (q + c) + r, n) = r
  BY <1>1, <1>2, ModUnique, Zenon
<1>. QED BY <1>2, <1>3, Zenon DEF r

\* Numbers less than the modulus apart have different remainders.
LEMMA ModDiffers ==
  ASSUME NEW n \in Nat \ {0}, NEW a \in Int, NEW i \in 0 .. n - 1, NEW j \in 0 .. n - 1,
         Mod(a + i, n) = Mod(a + j, n)
  PROVE  i = j
<1> DEFINE r == Mod(a, n)
<1>1. r \in 0 .. n - 1 /\ Mod(r, n) = r
  BY ModWraps
<1>2. Mod(a - r, n) = 0
  <2> DEFINE q == a \div n
  <2>1. q \in Int /\ a = n * q + r
    BY DivMod, Zenon
  <2>. HIDE DEF q, r
  <2>2. a - r = n * q + 0 /\ 0 \in 0 .. n - 1
    BY <1>1, <2>1
  <2>3. Mod(n * q + 0, n) = 0
    BY <2>1, <2>2, ModUnique, Zenon
  <2>. QED BY <2>2, <2>3, Zenon
<1> HIDE DEF r
<1>3. \A k \in 0 .. n - 1 : Mod(a + k, n) = IF r + k < n THEN r + k ELSE r + k - n
  <2> SUFFICES ASSUME NEW k \in 0 .. n - 1
               PROVE  Mod(a + k, n) = IF r + k < n THEN r + k ELSE r + k - n
    OBVIOUS
  <2>1. a + k = (r + k) + (a - r) /\ r + k \in Int /\ a - r \in Int
    BY <1>1
  <2>2. Mod((r + k) + (a - r), n) = Mod(r + k, n)
    BY <1>2, <2>1, ModMultiple, Zenon
  <2>3. Mod(r + k, n) = IF r + k < n THEN r + k ELSE r + k - n
    BY <1>1, <2>1, ModWraps
  <2>. QED BY <2>1, <2>2, <2>3
<1>. QED BY <1>1, <1>3

\* One of two counters, below the modulus, moves up or down by less than a turn.
LEMMA ModMoves ==
  ASSUME NEW n \in Nat \ {0}, NEW a \in 0 .. n - 1, NEW k \in 0 .. n - 1
  PROVE  /\ Mod(a + k, n) = IF a + k < n THEN a + k ELSE a + k - n
         /\ Mod(a - k, n) = IF a >= k THEN a - k ELSE a - k + n
<1>1. a + k \in Int /\ a - k \in Int
  OBVIOUS
<1>. QED BY <1>1, ModWraps

LEMMA Widths ==
  ASSUME Constants
  PROVE  /\ NUM \in Nat \ {0} /\ NUM >= 3 /\ UINT16 \in Nat \ {0} /\ Mod(UINT16, NUM) = 0
         /\ NUM <= UINT16
<1>1. /\ NUM \in Nat \ {0} /\ NUM >= 3 /\ UINT16 \in Nat \ {0} /\ Mod(UINT16, NUM) = 0
  BY DEF Constants, Mod
<1>2. UINT16 < NUM => Mod(UINT16, NUM) = UINT16
  BY <1>1, ModWraps
<1>. QED BY <1>1, <1>2

\* The indices wrap at a multiple of the number of slots, so wrapping does not move a slot.
LEMMA SlotIs ==
  ASSUME Constants, NEW f \in 0 .. UINT16 - 1, NEW k \in 0 .. NUM
  PROVE  Slot(f, k) = Mod(f + k, NUM) /\ Slot(f, k) \in Descs
<1>1. /\ NUM \in Nat \ {0} /\ UINT16 \in Nat \ {0} /\ Mod(UINT16, NUM) = 0 /\ NUM <= UINT16
  BY Widths
<1>2. Mod(f + k, UINT16) = f + k \/ Mod(f + k, UINT16) = f + k - UINT16
  <2>1. f + k \in Int /\ 0 <= f + k /\ f + k < 2 * UINT16
    BY <1>1
  <2>. QED BY <1>1, <2>1, ModWraps
<1>3. CASE Mod(f + k, UINT16) = f + k
  <2>1. f + k \in Int
    OBVIOUS
  <2>. QED BY <1>1, <1>3, <2>1, ModWraps DEF Slot, Descs
<1>4. CASE Mod(f + k, UINT16) = f + k - UINT16
  <2> DEFINE x == f + k - UINT16
  <2>1. f + k = x + UINT16 /\ x \in Int /\ f + k \in Int
    BY <1>1
  <2>. HIDE DEF x
  <2>2. Mod(x + UINT16, NUM) = Mod(x, NUM)
    BY <1>1, <2>1, ModMultiple
  <2>3. Mod(f + k, NUM) \in 0 .. NUM - 1
    BY <1>1, <2>1, ModWraps
  <2>. QED BY <1>4, <2>1, <2>2, <2>3 DEF Slot, Descs, x
<1>. QED BY <1>2, <1>3, <1>4

LEMMA SlotsDiffer ==
  ASSUME Constants, NEW f \in 0 .. UINT16 - 1, NEW j \in 0 .. NUM - 1, NEW k \in 0 .. NUM - 1,
         Slot(f, j) = Slot(f, k)
  PROVE  j = k
<1>1. NUM \in Nat \ {0} /\ UINT16 \in Nat \ {0} /\ f \in Int
  BY Widths
<1>2. j \in 0 .. NUM /\ k \in 0 .. NUM
  BY <1>1
<1>3. Mod(f + j, NUM) = Mod(f + k, NUM)
  BY <1>2, SlotIs
<1>. QED BY <1>1, <1>3, ModDiffers

\* The counts of entries, when one is added or taken.
LEMMA CountIs ==
  ASSUME Constants, NEW f \in 0 .. UINT16 - 1, NEW t \in 0 .. UINT16 - 1
  PROVE  /\ Count(f, t) \in 0 .. UINT16 - 1
         /\ Count(f, t) = IF t >= f THEN t - f ELSE t - f + UINT16
         /\ Count(f, t) = 0 <=> f = t
<1>1. UINT16 \in Nat \ {0}
  BY Widths
<1>2. Count(f, t) = IF t >= f THEN t - f ELSE t - f + UINT16
  BY <1>1, ModMoves, Zenon DEF Count
<1>. QED BY <1>1, <1>2

LEMMA NextIndex ==
  ASSUME Constants, NEW f \in 0 .. UINT16 - 1
  PROVE  /\ (f + 1) % UINT16 \in 0 .. UINT16 - 1
         /\ (f + 1) % UINT16 = IF f + 1 < UINT16 THEN f + 1 ELSE f + 1 - UINT16
<1>1. UINT16 \in Nat \ {0} /\ NUM <= UINT16 /\ NUM >= 3
  BY Widths
<1>2. 1 \in 0 .. UINT16 - 1
  BY <1>1, Widths
<1>3. Mod(f + 1, UINT16) = IF f + 1 < UINT16 THEN f + 1 ELSE f + 1 - UINT16
  BY <1>1, <1>2, ModMoves
<1>4. (f + 1) % UINT16 = Mod(f + 1, UINT16)
  BY DEF Mod
<1>5. Mod(f + 1, UINT16) \in 0 .. UINT16 - 1
  BY <1>1, <1>3
<1>. QED BY <1>3, <1>4, <1>5

\* An entry goes to the slot at t.
LEMMA CountPush ==
  ASSUME Constants, NEW f \in 0 .. UINT16 - 1, NEW t \in 0 .. UINT16 - 1, Count(f, t) + 1 < UINT16
  PROVE  Count(f, (t + 1) % UINT16) = Count(f, t) + 1
<1> DEFINE v == (t + 1) % UINT16
<1>1. UINT16 \in Nat \ {0}
  BY Widths
<1>2. v \in 0 .. UINT16 - 1 /\ v = IF t + 1 < UINT16 THEN t + 1 ELSE t + 1 - UINT16
  BY NextIndex
<1> HIDE DEF v
<1>3. Count(f, t) = IF t >= f THEN t - f ELSE t - f + UINT16
  BY CountIs
<1>4. Count(f, v) = IF v >= f THEN v - f ELSE v - f + UINT16
  BY <1>2, CountIs, Zenon
<1>5. Count(f, v) = Count(f, t) + 1
  BY <1>1, <1>2, <1>3, <1>4
<1>. QED BY <1>5 DEF v

\* The entry at f goes.
LEMMA CountPop ==
  ASSUME Constants, NEW f \in 0 .. UINT16 - 1, NEW t \in 0 .. UINT16 - 1, f # t
  PROVE  Count((f + 1) % UINT16, t) = Count(f, t) - 1
<1> DEFINE v == (f + 1) % UINT16
<1>1. UINT16 \in Nat \ {0}
  BY Widths
<1>2. v \in 0 .. UINT16 - 1 /\ v = IF f + 1 < UINT16 THEN f + 1 ELSE f + 1 - UINT16
  BY NextIndex
<1> HIDE DEF v
<1>3. Count(f, t) = IF t >= f THEN t - f ELSE t - f + UINT16
  BY CountIs
<1>4. Count(v, t) = IF t >= v THEN t - v ELSE t - v + UINT16
  BY <1>2, CountIs, Zenon
<1>5. Count(v, t) = Count(f, t) - 1
  BY <1>1, <1>2, <1>3, <1>4
<1>. QED BY <1>5 DEF v

LEMMA SlotNext ==
  ASSUME Constants, NEW f \in 0 .. UINT16 - 1, NEW k \in 0 .. NUM - 1
  PROVE  Slot((f + 1) % UINT16, k) = Slot(f, k + 1)
<1> DEFINE v == (f + 1) % UINT16
<1>1. /\ NUM \in Nat \ {0} /\ UINT16 \in Nat \ {0} /\ Mod(UINT16, NUM) = 0 /\ NUM <= UINT16
  BY Widths
<1>2. v \in 0 .. UINT16 - 1 /\ v = IF f + 1 < UINT16 THEN f + 1 ELSE f + 1 - UINT16
  BY NextIndex
<1> HIDE DEF v
<1>3. k \in 0 .. NUM /\ k + 1 \in 0 .. NUM
  BY <1>1
<1>4. Slot(v, k) = Mod(v + k, NUM) /\ Slot(f, k + 1) = Mod(f + (k + 1), NUM)
  BY <1>2, <1>3, SlotIs
<1>5. Mod(v + k, NUM) = Mod(f + (k + 1), NUM)
  <2>1. v + k \in Int
    BY <1>2
  <2>2. f + (k + 1) = v + k \/ f + (k + 1) = (v + k) + UINT16
    BY <1>1, <1>2
  <2>3. Mod((v + k) + UINT16, NUM) = Mod(v + k, NUM)
    BY <1>1, <2>1, ModMultiple
  <2>. QED BY <2>2, <2>3
<1>. QED BY <1>4, <1>5 DEF v

LEMMA SlotEnds ==
  ASSUME Constants, NEW f \in 0 .. UINT16 - 1, NEW t \in 0 .. UINT16 - 1
  PROVE  /\ Slot(f, 0) = f % NUM
         /\ Slot(f, Count(f, t)) = t % NUM
<1>1. /\ NUM \in Nat \ {0} /\ UINT16 \in Nat \ {0} /\ f \in Int /\ f + 0 = f
  BY Widths
<1>2. Mod(f, UINT16) = f
  BY <1>1, ModWraps
<1>3. Slot(f, 0) = f % NUM
  BY <1>1, <1>2 DEF Slot, Mod
<1> DEFINE c == Count(f, t)
<1>4. c \in 0 .. UINT16 - 1 /\ c = IF t >= f THEN t - f ELSE t - f + UINT16
  BY CountIs
<1> HIDE DEF c
<1>5. Mod(f + c, UINT16) = IF f + c < UINT16 THEN f + c ELSE f + c - UINT16
  BY <1>1, <1>4, ModMoves, ZenonT(60)
<1>6. Mod(f + c, UINT16) = t
  BY <1>1, <1>4, <1>5
<1>7. Slot(f, c) = t % NUM
  BY <1>6 DEF Slot, Mod
<1>. QED BY <1>3, <1>7 DEF c

--------------------------------------------------------------------------------
(* The two rings. *)

Index == 0 .. UINT16 - 1
Ring == [Descs -> Descs \cup {NULL}]

\* A ring index goes up, an entry is written, the first entry is forgotten.
Step(f) == (f + 1) % UINT16
Pushed(ring, t, i) == [ring EXCEPT ![t % NUM] = i]
Popped(ring, f) == [ring EXCEPT ![f % NUM] = NULL]
First(ring, f) == ring[f % NUM]

LEMMA RingPush ==
  ASSUME Constants, NEW f \in Index, NEW t \in Index, NEW ring \in Ring, RingOK(ring, f, t),
         Count(f, t) + 1 < NUM, NEW i \in Descs, ~Entry(ring, f, t, i)
  PROVE  /\ Step(t) \in Index /\ Pushed(ring, t, i) \in Ring
         /\ RingOK(Pushed(ring, t, i), f, Step(t))
         /\ \A d : Entry(Pushed(ring, t, i), f, Step(t), d) <=> Entry(ring, f, t, d) \/ d = i
<1> DEFINE new == Pushed(ring, t, i)
           u == Step(t)
<1> DEFINE c == Count(f, t)
<1>1. c \in Nat /\ c + 1 < NUM /\ NUM \in Nat /\ NUM <= UINT16 /\ UINT16 \in Nat
  BY CountIs, Widths DEF Index
<1>2. u \in Index /\ Count(f, u) = c + 1
  <2>1. c + 1 < UINT16
    BY <1>1
  <2>. QED BY <2>1, CountPush, NextIndex DEF Index, Step
<1>3. new \in Ring /\ Slot(f, c) = t % NUM /\ Slot(f, c) \in Descs
  <2>1. Slot(f, c) = t % NUM
    BY SlotEnds DEF Index
  <2>2. Slot(f, c) \in Descs
    <3>1. c \in 0 .. NUM
      BY <1>1
    <3>. QED BY <3>1, SlotIs DEF Index
  <2>. QED BY <2>1, <2>2 DEF Ring, Pushed
<1> HIDE DEF c, u
<1>4. \A k \in 0 .. c - 1 : Slot(f, k) \in Descs /\ Slot(f, k) # Slot(f, c)
  <2> SUFFICES ASSUME NEW k \in 0 .. c - 1
               PROVE  Slot(f, k) \in Descs /\ Slot(f, k) # Slot(f, c)
    OBVIOUS
  <2>1. k \in 0 .. NUM /\ k \in 0 .. NUM - 1 /\ c \in 0 .. NUM - 1 /\ k # c
    BY <1>1
  <2>. QED BY <2>1, SlotIs, SlotsDiffer DEF Index
<1>5. \A k \in 0 .. c - 1 : new[Slot(f, k)] = ring[Slot(f, k)]
  BY <1>3, <1>4 DEF Ring, Pushed
<1>6. new[Slot(f, c)] = i
  BY <1>3 DEF Ring, Pushed
<1> HIDE DEF new
<1>7. \A k \in 0 .. c : k = c \/ k \in 0 .. c - 1
  BY <1>1
<1>8. (c + 1) - 1 = c /\ c \in 0 .. c
  BY <1>1
<1>9. \A k \in 0 .. c - 1 : k \in 0 .. c
  BY <1>1
<1>10. /\ \A k \in 0 .. c - 1 : ring[Slot(f, k)] \in Descs /\ ring[Slot(f, k)] # i
       /\ \A j, k \in 0 .. c - 1 : ring[Slot(f, j)] = ring[Slot(f, k)] => j = k
  BY Zenon DEF RingOK, Entry, c
<1>11. \A d : Entry(new, f, u, d) <=> Entry(ring, f, t, d) \/ d = i
  <2> TAKE d
  <2>1. Entry(ring, f, t, d) <=> \E k \in 0 .. c - 1 : ring[Slot(f, k)] = d
    BY Zenon DEF Entry, c
  <2>2. Entry(new, f, u, d) <=> \E k \in 0 .. c : new[Slot(f, k)] = d
    BY <1>2, <1>8, Zenon DEF Entry
  <2>. QED BY <1>5, <1>6, <1>7, <1>8, <1>9, <2>1, <2>2, Zenon
<1>12. RingOK(new, f, u)
  <2>1. Count(f, u) < NUM
    BY <1>1, <1>2
  <2>2. \A k \in 0 .. c : new[Slot(f, k)] \in Descs
    BY <1>5, <1>6, <1>7, <1>10, Zenon
  <2>3. \A j, k \in 0 .. c : new[Slot(f, j)] = new[Slot(f, k)] => j = k
    BY <1>5, <1>6, <1>7, <1>10, Zenon
  <2>. QED BY <1>2, <1>8, <2>1, <2>2, <2>3, Zenon DEF RingOK
<1>. QED BY <1>2, <1>3, <1>11, <1>12, Zenon DEF new, u

LEMMA RingPop ==
  ASSUME Constants, NEW f \in Index, NEW t \in Index, f # t, NEW ring \in Ring, RingOK(ring, f, t)
  PROVE  /\ Step(f) \in Index /\ Popped(ring, f) \in Ring /\ RingOK(Popped(ring, f), Step(f), t)
         /\ First(ring, f) \in Descs /\ Entry(ring, f, t, First(ring, f))
         /\ \A d : Entry(Popped(ring, f), Step(f), t, d) <=> Entry(ring, f, t, d) /\ d # First(ring, f)
<1> DEFINE new == Popped(ring, f)
           u == Step(f)
<1> DEFINE c == Count(f, t)
<1>1. c \in Nat \ {0} /\ c < NUM /\ NUM \in Nat /\ NUM <= UINT16 /\ UINT16 \in Nat
  BY CountIs, Widths DEF Index, RingOK
<1>2. u \in Index /\ Count(u, t) = c - 1
  BY CountPop, NextIndex DEF Index, Step
<1>3. Slot(f, 0) = f % NUM /\ Slot(f, 0) \in Descs
  <2>1. 0 \in 0 .. NUM
    BY <1>1
  <2>. QED BY <2>1, SlotEnds, SlotIs DEF Index
<1>4. new \in Ring
  BY Zenon DEF Ring, Popped
<1>5. /\ \A k \in 0 .. c - 1 : ring[Slot(f, k)] \in Descs
      /\ \A j, k \in 0 .. c - 1 : ring[Slot(f, j)] = ring[Slot(f, k)] => j = k
  BY Zenon DEF RingOK, c
<1>6. 0 \in 0 .. c - 1
  BY <1>1
<1>7. \A k \in 0 .. (c - 1) - 1 :
        /\ k + 1 \in 0 .. c - 1 /\ k + 1 # 0
        /\ Slot(u, k) = Slot(f, k + 1) /\ new[Slot(u, k)] = ring[Slot(f, k + 1)]
  <2> SUFFICES ASSUME NEW k \in 0 .. (c - 1) - 1
               PROVE  /\ k + 1 \in 0 .. c - 1 /\ k + 1 # 0
                      /\ Slot(u, k) = Slot(f, k + 1) /\ new[Slot(u, k)] = ring[Slot(f, k + 1)]
    OBVIOUS
  <2>1. /\ k \in 0 .. NUM - 1 /\ k + 1 \in 0 .. NUM - 1 /\ 0 \in 0 .. NUM - 1 /\ k + 1 \in 0 .. NUM
        /\ k + 1 \in 0 .. c - 1 /\ k + 1 # 0
    BY <1>1
  <2>2. Slot(u, k) = Slot(f, k + 1)
    BY <2>1, SlotNext DEF Index, Step
  <2>3. Slot(f, k + 1) # Slot(f, 0) /\ Slot(f, k + 1) \in Descs
    BY <2>1, SlotsDiffer, SlotIs DEF Index
  <2>4. new[Slot(f, k + 1)] = ring[Slot(f, k + 1)]
    BY <1>3, <2>3 DEF Ring, Popped, new
  <2>. QED BY <2>1, <2>2, <2>4
<1> HIDE DEF u
<1>8. \A k \in 0 .. c - 1 : k # 0 => k - 1 \in 0 .. (c - 1) - 1 /\ (k - 1) + 1 = k
  BY <1>1
<1>9. \A d : Entry(new, u, t, d) <=> Entry(ring, f, t, d) /\ d # ring[f % NUM]
  <2> TAKE d
  <2>1. Entry(ring, f, t, d) <=> \E k \in 0 .. c - 1 : ring[Slot(f, k)] = d
    BY Zenon DEF Entry, c
  <2>2. Entry(new, u, t, d) <=> \E k \in 0 .. (c - 1) - 1 : new[Slot(u, k)] = d
    BY <1>2, Zenon DEF Entry
  <2>3. ASSUME NEW k \in 0 .. (c - 1) - 1, new[Slot(u, k)] = d
        PROVE  Entry(ring, f, t, d) /\ d # ring[f % NUM]
    BY <1>3, <1>5, <1>6, <1>7, <2>1, <2>3, ZenonT(60)
  <2>4. ASSUME NEW k \in 0 .. c - 1, ring[Slot(f, k)] = d, d # ring[f % NUM]
        PROVE  Entry(new, u, t, d)
    BY <1>3, <1>7, <1>8, <2>2, <2>4, Zenon
  <2>. QED BY <2>1, <2>2, <2>3, <2>4, Zenon
<1>10. RingOK(new, u, t)
  <2>1. c - 1 < NUM
    BY <1>1
  <2>2. \A k \in 0 .. (c - 1) - 1 : new[Slot(u, k)] \in Descs
    BY <1>5, <1>7, Zenon
  <2>3. ASSUME NEW j \in 0 .. (c - 1) - 1, NEW k \in 0 .. (c - 1) - 1, new[Slot(u, j)] = new[Slot(u, k)]
        PROVE  j = k
    <3>1. /\ j + 1 \in 0 .. c - 1 /\ new[Slot(u, j)] = ring[Slot(f, j + 1)]
          /\ k + 1 \in 0 .. c - 1 /\ new[Slot(u, k)] = ring[Slot(f, k + 1)]
      BY <1>7
    <3>2. j + 1 = k + 1
      BY <1>5, <2>3, <3>1, Zenon
    <3>. QED BY <3>2
  <2>. QED BY <1>2, <2>1, <2>2, <2>3, Zenon DEF RingOK
<1>11. ring[f % NUM] \in Descs /\ Entry(ring, f, t, ring[f % NUM])
  BY <1>3, <1>5, <1>6, Zenon DEF Entry, c
<1>. QED BY <1>2, <1>4, <1>9, <1>10, <1>11, Zenon DEF new, u, First

\* A ring without two of the descriptors has two slots left.
LEMMA RingRoom ==
  ASSUME Constants, NEW f \in Index, NEW t \in Index, NEW ring, RingOK(ring, f, t),
         NEW a \in Descs, NEW b \in Descs, a # b, ~Entry(ring, f, t, a), ~Entry(ring, f, t, b)
  PROVE  Count(f, t) + 1 < NUM
<1> DEFINE c == Count(f, t)
           S == 0 .. c - 1
           T == (Descs \ {a}) \ {b}
           g == [k \in S |-> ring[Slot(f, k)]]
<1>1. c \in Nat /\ NUM \in Nat
  BY CountIs, Widths DEF Index
<1>2. IsFiniteSet(T) /\ Cardinality(T) = NUM - 2
  <2>1. IsFiniteSet(Descs) /\ Cardinality(Descs) = NUM
    <3>1. NUM >= 3
      BY Widths
    <3>2. 0 \in Int /\ NUM - 1 \in Int /\ ~(0 > NUM - 1) /\ (NUM - 1) - 0 + 1 = NUM
      BY <1>1, <3>1
    <3>. QED BY <3>2, FS_Interval DEF Descs
  <2>2. IsFiniteSet(Descs \ {a}) /\ Cardinality(Descs \ {a}) = NUM - 1
    BY <2>1, FS_RemoveElement, Zenon
  <2>3. b \in Descs \ {a}
    OBVIOUS
  <2>4. IsFiniteSet(T) /\ Cardinality(T) = (NUM - 1) - 1
    BY <2>2, <2>3, FS_RemoveElement, Zenon
  <2>. QED BY <1>1, <2>4
<1>3. g \in Injection(S, T)
  <2>1. \A k \in S : ring[Slot(f, k)] \in T
    BY Zenon DEF RingOK, Entry
  <2>2. \A j, k \in S : ring[Slot(f, j)] = ring[Slot(f, k)] => j = k
    BY Zenon DEF RingOK
  <2>. QED BY <2>1, <2>2 DEF Injection, IsInjective
<1>4. Cardinality(S) = c
  <2>1. 0 \in Int /\ c - 1 \in Int /\ (IF 0 > c - 1 THEN 0 ELSE (c - 1) - 0 + 1) = c
    BY <1>1
  <2>. QED BY <2>1, FS_Interval, Zenon
<1> HIDE DEF g, S, T
<1>5. Cardinality(S) <= Cardinality(T)
  BY <1>2, <1>3, FS_Injection, Zenon
<1>6. c <= NUM - 2
  BY <1>2, <1>4, <1>5, Zenon
<1> HIDE DEF c
<1>7. c + 1 < NUM
  BY <1>1, <1>6
<1>. QED BY <1>7 DEF c

--------------------------------------------------------------------------------
(* What a step leaves alone. *)

LEMMA InvUse ==
  ASSUME IInv
  PROVE  /\ TypeOK /\ Rings /\ Placed /\ Heads /\ Chains /\ NoLostCompletion
         /\ taken_idx \in Index /\ avail_idx \in Index /\ seen_idx \in Index /\ used_idx \in Index
         /\ avail \in Ring /\ used \in Ring
         /\ RingOK(avail, taken_idx, avail_idx) /\ RingOK(used, seen_idx, used_idx)
BY DEF IInv, TypeOK, Index, Ring, Rings

requests == <<free, next, info, bdisk, head>>
rings == <<avail, avail_idx, taken_idx, used, used_idx, seen_idx, busy>>

\* Only the processes and the interrupt move.
LEMMA SameRequests ==
  ASSUME IInv, UNCHANGED requests, UNCHANGED rings
  PROVE  Rings' /\ Placed' /\ Chains'
<1>1. Rings /\ Placed /\ Chains
  BY InvUse
<1>2. Rings'
  BY <1>1, ZenonT(60) DEF requests, rings, Rings, RingOK, Count, Slot, Mod
<1>3. \A i : Waiting(i)' = Waiting(i) /\ Done(i)' = Done(i) /\ Pending(i)' = Pending(i)
  BY Zenon DEF requests, rings, Waiting, Done, Pending, Entry, Count, Slot, Mod
<1>4. Placed'
  BY <1>1, <1>3, Zenon DEF Placed, requests, rings
<1>5. Chains'
  BY <1>1 DEF Chains, In, requests
<1>. QED BY <1>2, <1>4, <1>5

\* A free descriptor is in no ring, and no chain has it.
LEMMA FreeIsUnused ==
  ASSUME IInv, NEW i \in free
  PROVE  /\ i \in Descs /\ ~Pending(i) /\ ~Waiting(i) /\ i \notin busy /\ ~Done(i)
         /\ \A q \in Procs : head[q] # NULL => ~In(i, head[q])
<1>1. i \in Descs
  BY DEF IInv, TypeOK
<1>2. \A q \in Procs : head[q] # NULL => ~In(i, head[q])
  BY <1>1, Zenon DEF IInv, Chains
<1>3. ~Pending(i)
  BY <1>2, Zenon DEF IInv, Heads, Pending, In
<1>. QED BY <1>1, <1>2, <1>3, Zenon DEF IInv, Placed

\* A request has one process.
LEMMA OneProcess ==
  ASSUME IInv, NEW p \in Procs, NEW q \in Procs, NEW d \in Descs, head[p] # NULL, head[q] # NULL,
         In(d, head[p]), In(d, head[q])
  PROVE  p = q
BY Zenon DEF IInv, Chains

--------------------------------------------------------------------------------
(* The steps of the processes that only change pc. *)

LEMMA ProcMoves ==
  ASSUME IInv, UNCHANGED requests, UNCHANGED rings, UNCHANGED <<intr, irq>>,
         pc' \in [Procs -> {"idle", "alloc", "nodesc", "wait", "asleep"}],
         \A q \in Procs :
           /\ pc'[q] \in {"wait", "asleep"} <=> pc[q] \in {"wait", "asleep"}
           /\ pc'[q] = "asleep" => bdisk[q]
           /\ pc'[q] = "nodesc" => Cardinality(free) < 3
  PROVE  IInv'
<1>1. TypeOK'
  BY DEF IInv, TypeOK, requests, rings
<1>2. Heads'
  BY Zenon DEF IInv, Heads, requests
<1>3. NoLostCompletion'
  BY Zenon DEF IInv, NoLostCompletion, requests, rings
<1>. QED BY <1>1, <1>2, <1>3, SameRequests, Zenon DEF IInv

LEMMA ProcOnly ==
  ASSUME IInv, NEW p \in Procs,
         virtio_disk_rw(p) \/ alloc3_desc_fails(p) \/ wait_again(p) \/ kkill(p)
  PROVE  IInv'
<1>1. UNCHANGED requests /\ UNCHANGED rings /\ UNCHANGED <<intr, irq>>
  BY Zenon DEF virtio_disk_rw, alloc3_desc_fails, wait_again, kkill, requests, rings, device
<1>2. /\ pc \in [Procs -> {"idle", "alloc", "nodesc", "wait", "asleep"}]
      /\ \A q \in Procs : pc[q] = "asleep" => bdisk[q]
      /\ \A q \in Procs : pc[q] = "nodesc" => Cardinality(free) < 3
  BY Zenon DEF IInv, TypeOK, NoLostCompletion
<1> DEFINE Move ==
             /\ pc' \in [Procs -> {"idle", "alloc", "nodesc", "wait", "asleep"}]
             /\ \A q \in Procs :
                  /\ pc'[q] \in {"wait", "asleep"} <=> pc[q] \in {"wait", "asleep"}
                  /\ pc'[q] = "asleep" => bdisk[q]
                  /\ pc'[q] = "nodesc" => Cardinality(free) < 3
<1>3. CASE virtio_disk_rw(p)
  <2>1. Move
    BY <1>2, <1>3 DEF virtio_disk_rw
  <2>. QED BY <1>1, <2>1, ProcMoves, Zenon
<1>4. CASE alloc3_desc_fails(p)
  <2>1. Move
    BY <1>2, <1>4 DEF alloc3_desc_fails, NoDescWoken
  <2>. QED BY <1>1, <2>1, ProcMoves, Zenon
<1>5. CASE wait_again(p)
  <2>1. Move
    BY <1>2, <1>5 DEF wait_again
  <2>. QED BY <1>1, <2>1, ProcMoves, Zenon
<1>6. CASE kkill(p)
  <2>1. Move
    BY <1>2, <1>6 DEF kkill
  <2>. QED BY <1>1, <2>1, ProcMoves, Zenon
<1>. QED BY <1>3, <1>4, <1>5, <1>6

\* The steps of the handler that do not read the ring.
LEMMA IntrOnly ==
  ASSUME IInv, virtio_disk_intr \/ intr_exit \/ intr_return
  PROVE  IInv'
<1>1. UNCHANGED requests /\ UNCHANGED rings /\ UNCHANGED pc
  BY Zenon DEF virtio_disk_intr, intr_exit, intr_return, requests, rings, device
<1>2. irq' \in BOOLEAN
  BY Zenon DEF virtio_disk_intr, intr_exit, intr_return, irq_after, device, IInv, TypeOK
<1>3. intr' \in {"no", "loop", "out"}
  BY Zenon DEF virtio_disk_intr, intr_exit, intr_return
<1>4. TypeOK'
  BY <1>1, <1>2, <1>3, Zenon DEF IInv, TypeOK, requests, rings
<1>5. Heads'
  BY <1>1, Zenon DEF IInv, Heads, requests
<1>6. seen_idx # used_idx => irq' \/ intr' = "loop"
  BY DEF virtio_disk_intr, intr_exit, intr_return, irq_after, device, IInv, NoLostCompletion
<1>7. NoLostCompletion'
  BY <1>1, <1>6, Zenon DEF IInv, NoLostCompletion, requests, rings
<1>. QED BY <1>1, <1>4, <1>5, <1>7, SameRequests, Zenon DEF IInv

--------------------------------------------------------------------------------
(* The device. *)

LEMMA DeviceTake ==
  ASSUME Constants, IInv, device_take
  PROVE  IInv'
<1> DEFINE i == First(avail, taken_idx)
<1>1. /\ taken_idx' \in Index /\ avail' \in Ring /\ RingOK(avail', taken_idx', avail_idx)
      /\ i \in Descs /\ Waiting(i)
      /\ \A d : Entry(avail', taken_idx', avail_idx, d) <=> Waiting(d) /\ d # i
  <2>1. /\ taken_idx # avail_idx /\ taken_idx' = Step(taken_idx)
        /\ avail' = Popped(avail, taken_idx)
    BY Zenon DEF device_take, Step, Popped
  <2>2. /\ taken_idx \in Index /\ avail_idx \in Index /\ avail \in Ring
        /\ RingOK(avail, taken_idx, avail_idx)
    BY InvUse, Zenon
  <2>. QED BY <2>1, <2>2, RingPop, Zenon DEF Waiting
<1>2. /\ UNCHANGED requests /\ UNCHANGED <<avail_idx, used, used_idx, seen_idx, pc, intr, irq>>
      /\ busy' = busy \cup {i}
  BY Zenon DEF device_take, requests, First
<1> HIDE DEF i
<1>3. TypeOK'
  BY <1>1, <1>2 DEF IInv, TypeOK, requests, Index, Ring
<1>4. Rings'
  <2>1. RingOK(used, seen_idx, used_idx)'
    BY <1>2, InvUse, Zenon DEF RingOK, Count, Slot, Mod
  <2>2. RingOK(avail, taken_idx, avail_idx)'
    BY <1>1, <1>2, Zenon DEF RingOK, Count, Slot, Mod
  <2>. QED BY <2>1, <2>2 DEF Rings
<1>5. Placed'
  <2>1. \A d : Done(d)' = Done(d) /\ Pending(d)' = Pending(d)
    BY <1>2, Zenon DEF requests, Done, Pending, Entry, Count, Slot, Mod
  <2>2. \A d : Waiting(d)' <=> Waiting(d) /\ d # i
    BY <1>1, <1>2, Zenon DEF Waiting, Entry, Count, Slot, Mod
  <2>3. Placed
    BY DEF IInv
  <2>. QED BY <1>1, <1>2, <2>1, <2>2, <2>3, Zenon DEF Placed
<1>6. Heads'
  BY <1>2, Zenon DEF IInv, Heads, requests
<1>7. Chains'
  BY <1>2 DEF IInv, Chains, In, requests
<1>8. NoLostCompletion'
  BY <1>2, Zenon DEF IInv, NoLostCompletion, requests
<1>. QED BY <1>3, <1>4, <1>5, <1>6, <1>7, <1>8 DEF IInv

LEMMA DeviceDone ==
  ASSUME Constants, IInv, NEW i \in Descs, device_done(i)
  PROVE  IInv'
<1>1. /\ i \in busy /\ UNCHANGED requests /\ busy' = busy \ {i} /\ irq' = TRUE
      /\ UNCHANGED <<avail, avail_idx, taken_idx, seen_idx, pc, intr>>
      /\ used' = Pushed(used, used_idx, i) /\ used_idx' = Step(used_idx)
  BY Zenon DEF device_done, driver, requests, Step, Pushed
<1>2. ~Waiting(i) /\ ~Done(i) /\ Pending(i)
  BY <1>1, Zenon DEF IInv, Placed
<1>3. PICK p \in Procs : bdisk[p] /\ head[p] = i
  BY <1>2, Zenon DEF Pending
<1>4. head[p] # NULL /\ next[i] \in Descs /\ next[i] # i
  BY <1>3, Zenon DEF IInv, Heads, Chains
<1>5. ~Done(next[i])
  <2> SUFFICES ASSUME Pending(next[i]) PROVE FALSE
    BY <1>4, Zenon DEF IInv, Placed
  <2>1. PICK q \in Procs : bdisk[q] /\ head[q] = next[i]
    BY Zenon DEF Pending
  <2>2. head[q] # NULL /\ In(next[i], head[q]) /\ In(next[i], head[p])
    BY <1>3, <2>1, Zenon DEF IInv, Heads, In
  <2>3. p = q
    BY <1>4, <2>2, OneProcess, Zenon
  <2>. QED BY <1>3, <1>4, <2>1, <2>3, Zenon
<1>6. Count(seen_idx, used_idx) + 1 < NUM
  BY <1>2, <1>4, <1>5, InvUse, RingRoom, Zenon DEF Done
<1>7. /\ used_idx' \in Index /\ used' \in Ring /\ RingOK(used', seen_idx, used_idx')
      /\ \A d : Entry(used', seen_idx, used_idx', d) <=> Done(d) \/ d = i
  <2>1. /\ seen_idx \in Index /\ used_idx \in Index /\ used \in Ring
        /\ RingOK(used, seen_idx, used_idx) /\ ~Entry(used, seen_idx, used_idx, i)
    BY <1>2, InvUse, Zenon DEF Done
  <2>. QED BY <1>1, <1>6, <2>1, RingPush, Zenon DEF Done
<1>8. TypeOK'
  BY <1>1, <1>7 DEF IInv, TypeOK, requests, Index, Ring
<1>9. Rings'
  <2>1. RingOK(avail, taken_idx, avail_idx)'
    BY <1>1, InvUse, Zenon DEF RingOK, Count, Slot, Mod
  <2>2. RingOK(used, seen_idx, used_idx)'
    <3>1. seen_idx' = seen_idx
      BY <1>1, Zenon
    <3>. QED BY <1>7, <3>1, Zenon DEF RingOK, Count, Slot, Mod
  <2>. QED BY <2>1, <2>2 DEF Rings
<1>10. Placed'
  <2>1. \A d : Waiting(d)' = Waiting(d) /\ Pending(d)' = Pending(d)
    BY <1>1, Zenon DEF requests, Waiting, Pending, Entry, Count, Slot, Mod
  <2>2. \A d : Done(d)' <=> Done(d) \/ d = i
    <3>1. seen_idx' = seen_idx
      BY <1>1, Zenon
    <3>. QED BY <1>7, <3>1, Zenon DEF Done, Entry, Count, Slot, Mod
  <2>3. Placed
    BY DEF IInv
  <2>. QED BY <1>1, <1>2, <2>1, <2>2, <2>3, Zenon DEF Placed
<1>11. Heads'
  BY <1>1, ZenonT(60) DEF IInv, Heads, requests
<1>12. Chains'
  BY <1>1 DEF IInv, Chains, In, requests
<1>13. NoLostCompletion'
  BY <1>1, Zenon DEF IInv, NoLostCompletion, requests
<1>. QED BY <1>8, <1>9, <1>10, <1>11, <1>12, <1>13 DEF IInv

--------------------------------------------------------------------------------
(* The handler reads an entry of the used ring. *)

LEMMA IntrEntry ==
  ASSUME Constants, IInv, intr_entry
  PROVE  IInv'
<1> DEFINE i == First(used, seen_idx)
<1>1. /\ seen_idx' \in Index /\ used' \in Ring /\ RingOK(used', seen_idx', used_idx)
      /\ i \in Descs /\ Done(i)
      /\ \A d : Entry(used', seen_idx', used_idx, d) <=> Done(d) /\ d # i
  <2>1. /\ seen_idx # used_idx /\ seen_idx' = Step(seen_idx)
        /\ used' = Popped(used, seen_idx)
    BY Zenon DEF intr_entry, Step, Popped
  <2>2. /\ seen_idx \in Index /\ used_idx \in Index /\ used \in Ring
        /\ RingOK(used, seen_idx, used_idx)
    BY InvUse, Zenon
  <2>. QED BY <2>1, <2>2, RingPop, Zenon DEF Done
<1>2. PICK p \in Procs : bdisk[p] /\ head[p] = i
  BY <1>1, Zenon DEF IInv, Placed, Pending
<1>3. head[p] # NULL /\ info[i] = p
  BY <1>2, Zenon DEF IInv, Heads
<1>4. /\ UNCHANGED <<free, next, info, head, avail, avail_idx, taken_idx, used_idx, busy, intr, irq>>
      /\ bdisk' = [bdisk EXCEPT ![p] = FALSE] /\ intr = "loop"
      /\ pc' = [pc EXCEPT ![p] = IF @ = "asleep" THEN "wait" ELSE @]
  BY <1>3, Zenon DEF intr_entry, entry_wakes, First
<1> HIDE DEF i
<1>5. /\ pc \in [Procs -> {"idle", "alloc", "nodesc", "wait", "asleep"}]
      /\ bdisk \in [Procs -> BOOLEAN]
  BY DEF IInv, TypeOK
<1>6. bdisk' \in [Procs -> BOOLEAN]
  BY <1>4, <1>5
<1>7. TypeOK'
  <2>1. pc' \in [Procs -> {"idle", "alloc", "nodesc", "wait", "asleep"}]
    BY <1>4, <1>5
  <2>2. used' \in [Descs -> Descs \cup {NULL}] /\ seen_idx' \in 0 .. UINT16 - 1
    BY <1>1 DEF Ring, Index
  <2>. QED BY <1>4, <1>6, <2>1, <2>2 DEF IInv, TypeOK
<1>8. Rings'
  <2>1. RingOK(avail, taken_idx, avail_idx)'
    BY <1>4, InvUse, Zenon DEF RingOK, Count, Slot, Mod
  <2>2. RingOK(used, seen_idx, used_idx)'
    BY <1>1, <1>4, Zenon DEF RingOK, Count, Slot, Mod
  <2>. QED BY <2>1, <2>2 DEF Rings
<1>9. /\ ~bdisk'[p] /\ \A q \in Procs : q # p => bdisk'[q] = bdisk[q]
      /\ \A q \in Procs : bdisk'[q] => bdisk[q] /\ q # p
  BY <1>4, <1>5, Zenon
<1>10. Placed'
  <2>1. \A d : Waiting(d)' = Waiting(d)
    BY <1>4, Zenon DEF Waiting, Entry, Count, Slot, Mod
  <2>2. \A d : Done(d)' <=> Done(d) /\ d # i
    BY <1>1, <1>4, Zenon DEF Done, Entry, Count, Slot, Mod
  <2>3. \A q \in Procs : bdisk[q] /\ head[q] = i => q = p
    BY <1>3, Zenon DEF IInv, Heads
  <2>4. \A d : Pending(d)' <=> Pending(d) /\ d # i
    BY <1>2, <1>4, <1>9, <2>3, Zenon DEF Pending
  <2>5. Placed
    BY DEF IInv
  <2>. QED BY <1>1, <1>4, <2>1, <2>2, <2>4, <2>5, Zenon DEF Placed
<1>11. \A q \in Procs :
         /\ pc'[q] \in {"wait", "asleep"} <=> pc[q] \in {"wait", "asleep"}
         /\ pc'[q] = "asleep" => pc[q] = "asleep" /\ q # p
         /\ pc'[q] = "nodesc" => pc[q] = "nodesc"
  BY <1>4, <1>5
<1>12. Heads'
  <2>1. head' = head /\ info' = info
    BY <1>4, ZenonT(60)
  <2>. QED BY <1>9, <1>11, <2>1, Zenon DEF IInv, Heads
<1>13. Chains'
  BY <1>4 DEF IInv, Chains, In
<1>14. NoLostCompletion'
  BY <1>4, <1>9, <1>11, Zenon DEF IInv, NoLostCompletion
<1>. QED BY <1>7, <1>8, <1>10, <1>12, <1>13, <1>14, SMTT(60) DEF IInv

--------------------------------------------------------------------------------
(* A request is made. *)

LEMMA Submit ==
  ASSUME Constants, IInv, NEW p \in Procs, submit(p)
  PROVE  IInv'
<1>1. PICK i0 \in free, i1 \in free, i2 \in free :
        /\ i0 < i1 /\ i1 < i2 /\ free' = free \ {i0, i1, i2}
        /\ next' = [next EXCEPT ![i0] = i1, ![i1] = i2, ![i2] = NULL]
        /\ info' = [info EXCEPT ![i0] = p] /\ head' = [head EXCEPT ![p] = i0]
        /\ avail' = Pushed(avail, avail_idx, i0)
  BY Zenon DEF submit, avail_slot, Pushed
<1>2. /\ avail_idx' = Step(avail_idx) /\ bdisk' = [bdisk EXCEPT ![p] = TRUE]
      /\ pc[p] = "alloc" /\ pc' = [pc EXCEPT ![p] = "asleep"]
      /\ UNCHANGED <<seen_idx, taken_idx, used, used_idx, busy, intr, irq>>
  BY Zenon DEF submit, Step, device
<1>3. /\ free \subseteq Descs /\ next \in [Descs -> Descs \cup {NULL}]
      /\ info \in [Descs -> Procs \cup {NULL}] /\ bdisk \in [Procs -> BOOLEAN]
      /\ pc \in [Procs -> {"idle", "alloc", "nodesc", "wait", "asleep"}]
      /\ head \in [Procs -> Descs \cup {NULL}] /\ NULL \notin Descs /\ NULL \notin Procs
  BY DEF IInv, TypeOK, Constants, Descs
<1>4. i0 # i1 /\ i1 # i2 /\ i0 # i2 /\ i0 \in Descs /\ i1 \in Descs /\ i2 \in Descs
  BY <1>1, <1>3 DEF Descs
<1>5. /\ ~Waiting(i0) /\ i0 \notin busy /\ ~Done(i0) /\ ~Pending(i0) /\ ~Waiting(i1)
      /\ \A q \in Procs : head[q] # NULL => ~In(i0, head[q]) /\ ~In(i1, head[q]) /\ ~In(i2, head[q])
  BY FreeIsUnused, Zenon
<1>6. head[p] = NULL /\ ~bdisk[p]
  BY <1>2, Zenon DEF IInv, Heads
<1>7. /\ avail_idx' \in Index /\ avail' \in Ring /\ RingOK(avail', taken_idx, avail_idx')
      /\ \A d : Entry(avail', taken_idx, avail_idx', d) <=> Waiting(d) \/ d = i0
  <2>1. /\ taken_idx \in Index /\ avail_idx \in Index /\ avail \in Ring
        /\ RingOK(avail, taken_idx, avail_idx) /\ ~Entry(avail, taken_idx, avail_idx, i0)
        /\ ~Entry(avail, taken_idx, avail_idx, i1)
    BY <1>5, InvUse, Zenon DEF Waiting
  <2>2. Count(taken_idx, avail_idx) + 1 < NUM
    BY <1>4, <2>1, RingRoom, Zenon
  <2>. QED BY <1>1, <1>2, <1>4, <2>1, <2>2, RingPush, Zenon DEF Waiting
<1>8. /\ head' \in [Procs -> Descs \cup {NULL}] /\ bdisk' \in [Procs -> BOOLEAN]
      /\ head'[p] = i0 /\ bdisk'[p] /\ pc'[p] = "asleep"
      /\ \A q \in Procs : q # p => head'[q] = head[q] /\ bdisk'[q] = bdisk[q] /\ pc'[q] = pc[q]
  BY <1>1, <1>2, <1>3, <1>4, Zenon
<1>9. TypeOK'
  <2>1. pc' \in [Procs -> {"idle", "alloc", "nodesc", "wait", "asleep"}]
    BY <1>2, <1>3
  <2>2. next' \in [Descs -> Descs \cup {NULL}] /\ info' \in [Descs -> Procs \cup {NULL}]
    BY <1>1, <1>3, <1>4
  <2>3. avail' \in [Descs -> Descs \cup {NULL}] /\ avail_idx' \in 0 .. UINT16 - 1
    BY <1>7 DEF Ring, Index
  <2>4. free' \subseteq Descs
    BY <1>1, <1>3
  <2>. QED BY <1>2, <1>8, <2>1, <2>2, <2>3, <2>4 DEF IInv, TypeOK
<1>10. Rings'
  <2>1. RingOK(used, seen_idx, used_idx)'
    BY <1>2, InvUse, Zenon DEF RingOK, Count, Slot, Mod
  <2>2. RingOK(avail, taken_idx, avail_idx)'
    <3>1. taken_idx' = taken_idx
      BY <1>2, Zenon
    <3>. QED BY <1>7, <3>1, Zenon DEF RingOK, Count, Slot, Mod
  <2>. QED BY <2>1, <2>2 DEF Rings
<1>11. Placed'
  <2>1. \A d : Done(d)' = Done(d)
    BY <1>2, Zenon DEF Done, Entry, Count, Slot, Mod
  <2>2. \A d : Waiting(d)' <=> Waiting(d) \/ d = i0
    <3>1. taken_idx' = taken_idx
      BY <1>2, Zenon
    <3>. QED BY <1>7, <3>1, Zenon DEF Waiting, Entry, Count, Slot, Mod
  <2>3. \A d : Pending(d)' <=> Pending(d) \/ d = i0
    BY <1>6, <1>8, Zenon DEF Pending
  <2>4. Placed /\ busy' = busy
    BY <1>2 DEF IInv
  <2>. QED BY <1>5, <2>1, <2>2, <2>3, <2>4, Zenon DEF Placed
<1>12. \A q \in Procs : head[q] # NULL =>
         head[q] \in Descs /\ head[q] # i0 /\ head[q] # i1 /\ head[q] # i2
  BY <1>3, <1>5, ZenonT(60) DEF In
<1>13. Heads'
  <2>1. info'[i0] = p /\ \A d \in Descs : d # i0 => info'[d] = info[d]
    BY <1>1, <1>3, <1>4
  <2>2. i0 # NULL
    BY <1>3, <1>4
  <2>3. Heads
    BY DEF IInv
  <2> SUFFICES ASSUME NEW q \in Procs
               PROVE  /\ head'[q] # NULL <=> pc'[q] \in {"wait", "asleep"}
                      /\ bdisk'[q] => head'[q] # NULL
                      /\ pc'[q] = "asleep" => bdisk'[q]
                      /\ head'[q] # NULL => info'[head'[q]] = q
    BY Zenon DEF Heads
  <2>4. CASE q = p
    BY <1>8, <2>1, <2>2, <2>4, Zenon
  <2>5. CASE q # p
    <3>1. head'[q] = head[q] /\ bdisk'[q] = bdisk[q] /\ pc'[q] = pc[q]
      BY <1>8, <2>5, Zenon
    <3>2. head[q] # NULL => info'[head[q]] = info[head[q]]
      BY <1>12, <2>1, Zenon
    <3>. QED BY <2>3, <3>1, <3>2, Zenon DEF Heads
  <2>. QED BY <2>4, <2>5
<1>14. Chains'
  <2>1. next'[i0] = i1 /\ next'[i1] = i2 /\ \A d \in Descs : d \notin {i0, i1, i2} => next'[d] = next[d]
    BY <1>1, <1>3, <1>4
  <2>2. Chains
    BY DEF IInv
  <2>3. \A q \in Procs : head[q] # NULL =>
          next[head[q]] \in Descs /\ next[head[q]] \notin {i0, i1, i2}
    BY <1>5, <2>2, Zenon DEF Chains, In
  <2>4. \A q \in Procs : head[q] # NULL =>
          next'[head[q]] = next[head[q]] /\ next'[next'[head[q]]] = next[next[head[q]]]
    BY <1>12, <2>1, <2>3, Zenon
  <2>5. \A d : In(d, head[p])' <=> d \in {i0, i1, i2}
    BY <1>8, <2>1, Zenon DEF In
  <2>6. \A q \in Procs : q # p /\ head[q] # NULL => \A d : In(d, head[q])' <=> In(d, head[q])
    <3> SUFFICES ASSUME NEW q \in Procs, q # p, head[q] # NULL
                 PROVE  \A d : In(d, head[q])' <=> In(d, head[q])
      BY Zenon
    <3>1. head'[q] = head[q]
      BY <1>8, Zenon
    <3>2. next'[head'[q]] = next[head[q]] /\ next'[next'[head'[q]]] = next[next[head[q]]]
      BY <2>4, <3>1, Zenon
    <3>. QED BY <3>1, <3>2, Zenon DEF In
  <2>7. ASSUME NEW q \in Procs, head'[q] # NULL
        PROVE  /\ head'[q] \in Descs /\ next'[head'[q]] \in Descs /\ next'[next'[head'[q]]] \in Descs
               /\ next'[head'[q]] # head'[q]
               /\ \A d \in Descs : In(d, head[q])' => d \notin free'
    <3>1. CASE q = p
      <4>1. head'[q] = i0 /\ next'[i0] = i1 /\ next'[i1] = i2
        BY <1>8, <2>1, <3>1, Zenon
      <4>2. \A d \in free' : d \notin {i0, i1, i2}
        BY <1>1, Zenon
      <4>. QED BY <1>4, <2>5, <3>1, <4>1, <4>2, Zenon
    <3>2. CASE q # p
      <4>1. head[q] # NULL /\ head'[q] = head[q]
        BY <1>8, <2>7, <3>2, Zenon
      <4>2. \A d \in free' : d \in free
        BY <1>1, Zenon
      <4>. QED BY <2>2, <2>4, <2>6, <3>2, <4>1, <4>2, Zenon DEF Chains
    <3>. QED BY <3>1, <3>2
  <2>8. ASSUME NEW q \in Procs, NEW r \in Procs, NEW d \in Descs, head'[q] # NULL, head'[r] # NULL,
               In(d, head[q])', In(d, head[r])'
        PROVE  q = r
    <3>1. CASE q = p /\ r # p
      BY <1>5, <1>8, <2>5, <2>6, <2>8, <3>1, Zenon
    <3>2. CASE q # p /\ r = p
      BY <1>5, <1>8, <2>5, <2>6, <2>8, <3>2, Zenon
    <3>3. CASE q # p /\ r # p
      <4>1. head[q] # NULL /\ head[r] # NULL
        BY <1>8, <2>8, <3>3, Zenon
      <4>2. In(d, head[q]) /\ In(d, head[r])
        BY <2>6, <2>8, <3>3, <4>1, Zenon
      <4>. QED BY <4>1, <4>2, OneProcess, Zenon
    <3>. QED BY <3>1, <3>2, <3>3
  <2>9. ASSUME NEW d \in Descs, d \notin free'
        PROVE  \E q \in Procs : head'[q] # NULL /\ In(d, head[q])'
    <3>1. CASE d \in {i0, i1, i2}
      BY <1>3, <1>4, <1>8, <2>5, <3>1, Zenon
    <3>2. CASE d \notin {i0, i1, i2}
      <4>1. d \notin free
        BY <1>1, <2>9, <3>2, Zenon
      <4>2. PICK q \in Procs : head[q] # NULL /\ In(d, head[q])
        BY <2>2, <4>1, Zenon DEF Chains
      <4>. QED BY <1>6, <1>8, <2>6, <4>2, Zenon
    <3>. QED BY <3>1, <3>2
  <2>. QED BY <2>7, <2>8, <2>9, Zenon DEF Chains
<1>15. NoLostCompletion'
  <2>1. NoLostCompletion
    BY DEF IInv
  <2>2. Cardinality(free) < 3 => Cardinality(free') < 3
    <3>1. IsFiniteSet(free)
      <4>1. IsFiniteSet(Descs)
        BY Widths, FS_Interval DEF Descs
      <4>. QED BY <1>3, <4>1, FS_Subset, Zenon
    <3>2. free' \subseteq free
      BY <1>1, Zenon
    <3>3. Cardinality(free') <= Cardinality(free) /\ Cardinality(free) \in Nat /\ Cardinality(free') \in Nat
      BY <3>1, <3>2, FS_Subset, FS_CardinalityType, Zenon
    <3>. QED BY <3>3
  <2>3. \A q \in Procs : pc'[q] = "nodesc" => pc[q] = "nodesc"
    BY <1>8
  <2>4. \A q \in Procs : pc'[q] = "asleep" => bdisk'[q]
    BY <1>13, Zenon DEF Heads
  <2>5. seen_idx' = seen_idx /\ used_idx' = used_idx /\ irq' = irq /\ intr' = intr
    BY <1>2
  <2>. QED BY <2>1, <2>2, <2>3, <2>4, <2>5, Zenon DEF NoLostCompletion
<1>. QED BY <1>9, <1>10, <1>11, <1>13, <1>14, <1>15 DEF IInv

--------------------------------------------------------------------------------
(* A request is over. *)

LEMMA Finish ==
  ASSUME Constants, IInv, NEW p \in Procs, finish(p)
  PROVE  IInv'
<1> DEFINE h == head[p]
           h1 == next[h]
           h2 == next[h1]
<1>1. /\ info' = [info EXCEPT ![h] = NULL] /\ free' = free \cup {h, h1, h2}
      /\ next' = [i \in Descs |-> IF i \in {h, h1, h2} THEN NULL ELSE next[i]]
      /\ head' = [head EXCEPT ![p] = NULL] /\ pc' = [NoDescWoken EXCEPT ![p] = "idle"]
      /\ pc[p] = "wait" /\ ~bdisk[p]
      /\ UNCHANGED <<avail, avail_idx, seen_idx, bdisk, intr, used, used_idx, irq, taken_idx, busy>>
  BY Zenon DEF finish, free_chain, chain, device
<1>2. /\ free \subseteq Descs /\ next \in [Descs -> Descs \cup {NULL}]
      /\ info \in [Descs -> Procs \cup {NULL}] /\ bdisk \in [Procs -> BOOLEAN]
      /\ pc \in [Procs -> {"idle", "alloc", "nodesc", "wait", "asleep"}]
      /\ head \in [Procs -> Descs \cup {NULL}] /\ NULL \notin Descs /\ NULL \notin Procs
  BY DEF IInv, TypeOK, Constants, Descs
<1>3. h # NULL /\ info[h] = p
  BY <1>1, Zenon DEF IInv, Heads
<1>4. h \in Descs /\ h1 \in Descs /\ h2 \in Descs
  BY <1>3, Zenon DEF IInv, Chains
<1>5. /\ head'[p] = NULL /\ pc'[p] = "idle"
      /\ \A q \in Procs : q # p => head'[q] = head[q]
      /\ \A q \in Procs : q # p => pc'[q] = IF pc[q] = "nodesc" THEN "alloc" ELSE pc[q]
  BY <1>1, <1>2 DEF NoDescWoken
<1>6. \A d : In(d, h) <=> d \in {h, h1, h2}
  BY Zenon DEF In
<1>7. \A q \in Procs : q # p /\ head[q] # NULL => \A d \in Descs : In(d, head[q]) => d \notin {h, h1, h2}
  BY <1>3, <1>6, OneProcess, Zenon
<1>8. \A q \in Procs : q # p /\ head[q] # NULL =>
        head[q] \in Descs /\ head[q] \notin {h, h1, h2}
        /\ next[head[q]] \in Descs /\ next[head[q]] \notin {h, h1, h2}
  BY <1>7, Zenon DEF IInv, Chains, In
<1>9. TypeOK'
  <2>1. pc' \in [Procs -> {"idle", "alloc", "nodesc", "wait", "asleep"}]
    BY <1>1, <1>2 DEF NoDescWoken
  <2>2. next' \in [Descs -> Descs \cup {NULL}]
    BY <1>1, <1>2
  <2>3. info' \in [Descs -> Procs \cup {NULL}]
    BY <1>1, <1>2, Zenon
  <2>4. free' \subseteq Descs
    BY <1>1, <1>2, <1>4
  <2>5. head' \in [Procs -> Descs \cup {NULL}]
    BY <1>1, <1>2
  <2>. QED BY <1>1, <2>1, <2>2, <2>3, <2>4, <2>5, SMTT(60) DEF IInv, TypeOK
<1>10. Rings'
  <2>1. RingOK(used, seen_idx, used_idx)'
    BY <1>1, InvUse, Zenon DEF RingOK, Count, Slot, Mod
  <2>2. RingOK(avail, taken_idx, avail_idx)'
    BY <1>1, InvUse, Zenon DEF RingOK, Count, Slot, Mod
  <2>. QED BY <2>1, <2>2 DEF Rings
<1>11. Placed'
  <2>1. \A d : Done(d)' = Done(d)
    BY <1>1, Zenon DEF Done, Entry, Count, Slot, Mod
  <2>2. \A d : Waiting(d)' = Waiting(d)
    BY <1>1, Zenon DEF Waiting, Entry, Count, Slot, Mod
  <2>3. \A d : Pending(d)' <=> Pending(d)
    <3>1. bdisk' = bdisk /\ ~bdisk[p]
      BY <1>1, Zenon
    <3>. QED BY <3>1, <1>5, Zenon DEF Pending
  <2>4. Placed /\ busy' = busy
    BY <1>1 DEF IInv
  <2>. QED BY <2>1, <2>2, <2>3, <2>4, Zenon DEF Placed
<1>12. Heads'
  <2>1. \A d \in Descs : d # h => info'[d] = info[d]
    BY <1>1, <1>2
  <2>2. bdisk' = bdisk /\ ~bdisk[p]
    BY <1>1, Zenon
  <2>3. Heads
    BY DEF IInv
  <2> SUFFICES ASSUME NEW q \in Procs
               PROVE  /\ head'[q] # NULL <=> pc'[q] \in {"wait", "asleep"}
                      /\ bdisk'[q] => head'[q] # NULL
                      /\ pc'[q] = "asleep" => bdisk'[q]
                      /\ head'[q] # NULL => info'[head'[q]] = q
    BY Zenon DEF Heads
  <2>4. CASE q = p
    BY <1>5, <2>2, <2>4
  <2>5. CASE q # p
    <3>1. /\ head'[q] = head[q] /\ bdisk'[q] = bdisk[q]
          /\ pc'[q] \in {"wait", "asleep"} <=> pc[q] \in {"wait", "asleep"}
          /\ pc'[q] = "asleep" => pc[q] = "asleep"
      BY <1>5, <2>2, <2>5
    <3>2. head[q] # NULL => info'[head[q]] = info[head[q]]
      BY <1>8, <2>1, <2>5, Zenon
    <3>. QED BY <2>3, <3>1, <3>2, Zenon DEF Heads
  <2>. QED BY <2>4, <2>5
<1>13. Chains'
  <2>1. \A d \in Descs : d \notin {h, h1, h2} => next'[d] = next[d]
    BY <1>1, Zenon
  <2>2. Chains
    BY DEF IInv
  <2>3. \A q \in Procs : head'[q] # NULL => q # p /\ head'[q] = head[q] /\ head[q] # NULL
    BY <1>5, Zenon
  <2>4. \A q \in Procs : head'[q] # NULL =>
          next'[head'[q]] = next[head[q]] /\ next'[next'[head'[q]]] = next[next[head[q]]]
    BY <1>8, <2>1, <2>3, ZenonT(60)
  <2>5. \A q \in Procs : head'[q] # NULL => \A d : In(d, head[q])' <=> In(d, head[q])
    BY <2>3, <2>4 DEF In
  <2>6. ASSUME NEW q \in Procs, head'[q] # NULL
        PROVE  /\ head'[q] \in Descs /\ next'[head'[q]] \in Descs /\ next'[next'[head'[q]]] \in Descs
               /\ next'[head'[q]] # head'[q]
               /\ \A d \in Descs : In(d, head[q])' => d \notin free'
    <3>1. q # p /\ head'[q] = head[q] /\ head[q] # NULL
      BY <2>3, <2>6, Zenon
    <3>2. /\ head[q] \in Descs /\ next[head[q]] \in Descs /\ next[next[head[q]]] \in Descs
          /\ next[head[q]] # head[q]
          /\ \A d \in Descs : In(d, head[q]) => d \notin free
      BY <2>2, <3>1, Zenon DEF Chains
    <3>3. \A d \in Descs : In(d, head[q]) => d \notin free'
      BY <1>1, <1>7, <3>1, <3>2, Zenon
    <3>. QED BY <2>4, <2>5, <2>6, <3>1, <3>2, <3>3, Zenon
  <2>7. ASSUME NEW q \in Procs, NEW r \in Procs, NEW d \in Descs, head'[q] # NULL, head'[r] # NULL,
               In(d, head[q])', In(d, head[r])'
        PROVE  q = r
    BY <2>3, <2>5, <2>7, OneProcess, Zenon
  <2>8. ASSUME NEW d \in Descs, d \notin free'
        PROVE  \E q \in Procs : head'[q] # NULL /\ In(d, head[q])'
    <3>1. d \notin free /\ ~In(d, h)
      BY <1>1, <1>6, <2>8, Zenon
    <3>2. PICK q \in Procs : head[q] # NULL /\ In(d, head[q])
      BY <2>2, <3>1, Zenon DEF Chains
    <3>3. q # p
      BY <3>1, <3>2, Zenon
    <3>4. head'[q] # NULL
      BY <1>5, <3>2, <3>3, Zenon
    <3>. QED BY <2>5, <3>2, <3>4, Zenon
  <2>. QED BY <2>6, <2>7, <2>8, Zenon DEF Chains
<1>14. NoLostCompletion'
  <2>1. NoLostCompletion
    BY DEF IInv
  <2>2. \A q \in Procs : pc'[q] # "nodesc"
    BY <1>5
  <2>3. \A q \in Procs : pc'[q] = "asleep" => bdisk'[q]
    BY <1>12, Zenon DEF Heads
  <2>4. seen_idx' = seen_idx /\ used_idx' = used_idx /\ irq' = irq /\ intr' = intr
    BY <1>1
  <2>. QED BY <2>1, <2>2, <2>3, <2>4, Zenon DEF NoLostCompletion
<1>. QED BY <1>9, <1>10, <1>11, <1>12, <1>13, <1>14 DEF IInv

--------------------------------------------------------------------------------
(* The theorems. *)

LEMMA InitHolds ==
  ASSUME Constants, Init
  PROVE  IInv
<1>1. NULL \notin Descs
  BY DEF Constants, Descs
<1>2. TypeOK
  <2>1. 0 \in 0 .. UINT16 - 1
    BY Widths
  <2>. QED BY <2>1, Zenon DEF Init, TypeOK
<1>3. Count(taken_idx, avail_idx) = 0 /\ Count(seen_idx, used_idx) = 0
  <2>1. UINT16 \in Nat \ {0} /\ 0 - 0 = 0
    BY DEF Constants
  <2>2. Mod(0, UINT16) = 0
    BY <2>1, ModWraps
  <2>. QED BY <2>1, <2>2 DEF Init, Count
<1>4. \A k \in 0 .. 0 - 1 : FALSE
  OBVIOUS
<1>5. Rings
  <2>1. 0 < NUM
    BY Widths
  <2>. QED BY <1>3, <1>4, <2>1, Zenon DEF Rings, RingOK
<1>6. \A p \in Procs : head[p] = NULL /\ bdisk[p] = FALSE /\ pc[p] = "idle"
  BY DEF Init
<1>7. Placed
  <2>1. \A i : ~Waiting(i) /\ ~Done(i)
    BY <1>3, <1>4, Zenon DEF Waiting, Done, Entry
  <2>2. \A i : ~Pending(i)
    BY <1>6, Zenon DEF Pending
  <2>3. busy = {}
    BY DEF Init
  <2>. QED BY <2>1, <2>2, <2>3, Zenon DEF Placed
<1>8. Heads
  BY <1>6 DEF Heads
<1>9. Chains
  BY <1>6 DEF Chains, Init
<1>10. NoLostCompletion
  BY <1>6 DEF NoLostCompletion, Init
<1>. QED BY <1>2, <1>5, <1>7, <1>8, <1>9, <1>10 DEF IInv

LEMMA NextHolds ==
  ASSUME Constants, IInv, [Next]_vars
  PROVE  IInv'
<1>1. ASSUME UNCHANGED vars PROVE IInv'
  <2>1. UNCHANGED requests /\ UNCHANGED rings /\ UNCHANGED <<pc, intr, irq>>
    BY <1>1, Zenon DEF vars, driver, device, requests, rings
  <2>2. TypeOK'
    BY <2>1, Zenon DEF IInv, TypeOK, requests, rings
  <2>3. Heads'
    BY <2>1, Zenon DEF IInv, Heads, requests
  <2>4. NoLostCompletion'
    BY <2>1, Zenon DEF IInv, NoLostCompletion, requests, rings
  <2>. QED BY <2>1, <2>2, <2>3, <2>4, SameRequests, Zenon DEF IInv
<1>. QED BY <1>1, ProcOnly, IntrOnly, DeviceTake, DeviceDone, IntrEntry, Submit, Finish, Zenon
         DEF Next, ProcStep

\* The inductive invariant of the disk driver: the entries of each ring are distinct and
\* leave a slot, every transfer that is not over is in one place, the descriptors in use
\* are the chains of the requests, and no sleeper is forgotten.
THEOREM VirtioInvariant ==
  ASSUME Constants
  PROVE  Spec => []IInv
BY InitHolds, NextHolds, PTL DEF Spec

\* The requests between two ring indices, as the model's property names them.
LEMMA BetweenIs ==
  ASSUME NEW ring, NEW f, NEW t, NEW i
  PROVE  i \in Between(ring, f, t) <=> Entry(ring, f, t, i)
BY Zenon DEF Between, Entry, Count, Slot, Mod

LEMMA IInvRequests ==
  ASSUME IInv
  PROVE  RequestsExact
<1>1. \A i : i \in Between(avail, taken_idx, avail_idx) <=> Waiting(i)
  BY BetweenIs, Zenon DEF Waiting
<1>2. \A i : i \in Between(used, seen_idx, used_idx) <=> Done(i)
  BY BetweenIs, Zenon DEF Done
<1>3. \A i : Waiting(i) \/ Done(i) => i \in Descs
  BY ZenonT(60) DEF IInv, Rings, RingOK, Waiting, Done, Entry
<1>4. busy \subseteq Descs /\ free \subseteq Descs
  BY DEF IInv, TypeOK
<1>5. Placed /\ Heads /\ Chains
  BY DEF IInv
<1>6. \A p \in Procs : bdisk[p] => head[p] \in Descs
  BY <1>5, Zenon DEF Heads, Chains
<1>7. \A i : i \in {head[p] : p \in {q \in Procs : bdisk[q]}} <=> Pending(i)
  BY Zenon DEF Pending
<1>8. \A p \in Procs : head[p] # NULL => \A d : d \in chain(head[p]) <=> d \in Descs /\ In(d, head[p])
  BY <1>5, ZenonT(60) DEF Chains, chain, In
<1>9. \A p, q \in InFlight : p # q => chain(head[p]) \cap chain(head[q]) = {}
  BY <1>8, OneProcess, Zenon DEF InFlight
<1>10. Descs \ free = UNION {chain(head[p]) : p \in InFlight}
  <2>1. ASSUME NEW d \in Descs \ free PROVE \E p \in InFlight : d \in chain(head[p])
    BY <1>5, <1>8, <2>1, Zenon DEF Chains, InFlight
  <2>2. ASSUME NEW p \in InFlight, NEW d \in chain(head[p]) PROVE d \in Descs \ free
    BY <1>5, <1>8, <2>2, Zenon DEF Chains, InFlight
  <2>. QED BY <2>1, <2>2, Zenon
<1>11. \A i : Pending(i) => i \in Descs
  BY <1>6, Zenon DEF Pending
<1> DEFINE waiting == Between(avail, taken_idx, avail_idx)
           done == Between(used, seen_idx, used_idx)
           pending == {head[p] : p \in {q \in Procs : bdisk[q]}}
<1>12. \A i : i \in waiting <=> Waiting(i)
  BY <1>1
<1>13. \A i : i \in done <=> Done(i)
  BY <1>2
<1>14. \A i : i \in pending <=> Pending(i)
  BY <1>7
<1> HIDE DEF waiting, done, pending
<1>15. waiting \cap busy = {} /\ busy \cap done = {} /\ waiting \cap done = {}
  BY <1>3, <1>4, <1>5, <1>12, <1>13, Zenon DEF Placed
<1>16. waiting \cup busy \cup done = pending
  BY <1>3, <1>4, <1>5, <1>11, <1>12, <1>13, <1>14, Zenon DEF Placed
<1>17. \A p \in Procs : bdisk[p] => info[head[p]] = p /\ pc[p] \in {"wait", "asleep"}
  BY <1>5, Zenon DEF Heads
<1>. QED BY <1>9, <1>10, <1>15, <1>16, <1>17, Zenon DEF RequestsExact, waiting, done, pending

\* A transfer that is not over is in exactly one place, and every descriptor is free or in
\* the chain of exactly one request, for any number of processes and descriptors and any
\* width of the ring indices that the number of descriptors divides.
THEOREM VirtioRequestsExact ==
  ASSUME Constants
  PROVE  Spec => []RequestsExact
BY VirtioInvariant, IInvRequests, PTL

\* The entry that the handler reads names a buffer, so it never writes through a null one.
THEOREM VirtioEntryHasBuffer ==
  ASSUME Constants
  PROVE  Spec => [](seen_idx # used_idx => info[used[seen_idx % NUM]] \in Procs)
<1>1. ASSUME IInv, seen_idx # used_idx PROVE info[used[seen_idx % NUM]] \in Procs
  <2>1. First(used, seen_idx) \in Descs /\ Entry(used, seen_idx, used_idx, First(used, seen_idx))
    BY <1>1, InvUse, RingPop, Zenon
  <2>2. Pending(First(used, seen_idx))
    BY <1>1, <2>1, Zenon DEF IInv, Placed, Done
  <2>. QED BY <1>1, <2>2, Zenon DEF IInv, Heads, Pending, First
<1>. QED BY <1>1, VirtioInvariant, PTL

\* Whoever sleeps on a transfer that the device has finished has an interrupt coming, and
\* nobody sleeps for descriptors while three are free.
THEOREM VirtioNoLostCompletion ==
  ASSUME Constants
  PROVE  Spec => []NoLostCompletion
<1>1. IInv => NoLostCompletion
  BY DEF IInv
<1>. QED BY <1>1, VirtioInvariant, PTL

--------------------------------------------------------------------------------
(* Buffers. *)

CONSTANTS Bufs, Blocks, Values, MAXPINS
VARIABLES lru, blockno, valid, refcnt, data, holder, pinned, disk, b_pc, buf, dirty, latest

B == INSTANCE Bio WITH pc <- b_pc

\* Finite sets are the same in Bio and here.
LEMMA SameSize == \A S : B!Cardinality(S) = Cardinality(S)
BY Zenon DEF B!Cardinality, Cardinality

LEMMA FinitePools ==
  ASSUME B!Constants
  PROVE  IsFiniteSet(Procs) /\ IsFiniteSet(Bufs)
BY Zenon DEF B!Constants, B!IsFiniteSet, IsFiniteSet

Owns(p) == b_pc[p] \in {"locked", "reading", "hold", "writing"}

InCall    == \A p \in Procs : b_pc[p] = "idle" <=> buf[p] = NULL
HasBlock  == \A p \in Procs : buf[p] # NULL => blockno[buf[p]] # NULL
HasLock   == \A p \in Procs : Owns(p) => holder[buf[p]] = p
LockOwned == \A b \in Bufs : holder[b] # NULL => Owns(holder[b]) /\ buf[holder[b]] = b
HasData   == \A p \in Procs : b_pc[p] \in {"hold", "writing"} => valid[buf[p]]
NoData    == \A p \in Procs : b_pc[p] = "reading" => ~valid[buf[p]]

Places == InCall /\ HasBlock /\ HasLock /\ LockOwned /\ HasData /\ NoData

\* b has contents of its block that the disk may not have: the log keeps it from being
\* recycled, or they are lost when it is.
Kept(b) == valid[b] /\ (b \in pinned \/ b \in dirty)

Coherent ==
  /\ \A b \in Bufs : valid[b] => blockno[b] # NULL /\ data[b] = latest[blockno[b]]
  /\ \A blk \in Blocks : disk[blk] # latest[blk] => \E b \in Bufs : blockno[b] = blk /\ Kept(b)

Unique == \A b, c \in Bufs : b # c /\ blockno[b] # NULL => blockno[b] # blockno[c]

Users(f, b) == {p \in Procs : f[p] = b}
Pins(s, b)  == IF b \in s THEN 1 ELSE 0

Exact == \A b \in Bufs : refcnt[b] = Cardinality(Users(buf, b)) + Pins(pinned, b)

Listed == \A b \in Bufs : \E i \in DOMAIN lru : lru[i] = b

BioInv == B!TypeOK /\ Places /\ B!NoLostRelease /\ Coherent /\ Unique /\ Exact /\ Listed

--------------------------------------------------------------------------------
(* Lemmas *)

\* A process in a call has a buffer with a block.
LEMMA InUse ==
  ASSUME B!Constants, BioInv, NEW p \in Procs, b_pc[p] # "idle"
  PROVE  buf[p] \in Bufs /\ blockno[buf[p]] \in Blocks /\ buf[p] # NULL
<1>1. buf[p] # NULL
  BY Zenon DEF BioInv, Places, InCall
<1>2. buf[p] \in Bufs
  BY <1>1, Zenon DEF BioInv, B!TypeOK
<1>3. blockno[buf[p]] # NULL
  BY <1>1, Zenon DEF BioInv, Places, HasBlock
<1>. QED BY <1>1, <1>2, <1>3, Zenon DEF BioInv, B!TypeOK

LEMMA UserAdded ==
  ASSUME B!Constants, NEW f, NEW g, NEW p \in Procs, NEW b \in Bufs,
         f[p] = NULL, g[p] = b, \A q \in Procs : q # p => g[q] = f[q]
  PROVE  /\ Cardinality(Users(f, b)) \in Nat
         /\ Cardinality(Users(g, b)) = Cardinality(Users(f, b)) + 1
         /\ \A c \in Bufs : c # b => Users(g, c) = Users(f, c)
<1>1. b # NULL /\ NULL \notin Bufs
  BY Zenon DEF B!Constants
<1>2. IsFiniteSet(Users(f, b)) /\ p \notin Users(f, b)
  <2>1. Users(f, b) \subseteq Procs
    BY Zenon DEF Users
  <2>2. IsFiniteSet(Users(f, b))
    BY <2>1, FinitePools, FS_Subset, Zenon
  <2>. QED BY <1>1, <2>2, Zenon DEF Users
<1>3. Users(g, b) = Users(f, b) \cup {p}
  BY Zenon DEF Users
<1>4. \A c \in Bufs : c # b => Users(g, c) = Users(f, c)
  BY <1>1, Zenon DEF Users
<1>. QED BY <1>2, <1>3, <1>4, FS_AddElement, FS_CardinalityType, ZenonT(60)

LEMMA CountType ==
  ASSUME B!Constants, NEW f, NEW b
  PROVE  IsFiniteSet(Users(f, b)) /\ Cardinality(Users(f, b)) \in Nat
<1>1. Users(f, b) \subseteq Procs
  BY Zenon DEF Users
<1>. QED BY <1>1, FinitePools, FS_Subset, FS_CardinalityType, Zenon

LEMMA PinsType ==
  ASSUME NEW s, NEW b
  PROVE  Pins(s, b) \in {0, 1} /\ (Pins(s, b) = 0 <=> b \notin s)
BY DEF Pins

\* A buffer without references has no user, no lock holder and no pin.
LEMMA NoReference ==
  ASSUME B!Constants, BioInv, NEW b \in Bufs, refcnt[b] = 0
  PROVE  b \notin pinned /\ holder[b] = NULL /\ \A p \in Procs : buf[p] # b
<1>1. refcnt[b] = Cardinality(Users(buf, b)) + Pins(pinned, b)
  BY Zenon DEF BioInv, Exact
<1>2. Cardinality(Users(buf, b)) = 0 /\ Pins(pinned, b) = 0
  BY <1>1, CountType, PinsType
<1>3. Users(buf, b) = {}
  BY <1>2, CountType, FS_EmptySet, Zenon
<1>4. \A p \in Procs : buf[p] # b
  BY <1>3, Zenon DEF Users
<1>5. holder[b] = NULL
  BY <1>4, Zenon DEF BioInv, Places, LockOwned, B!TypeOK
<1>. QED BY <1>2, <1>4, <1>5, PinsType, Zenon

\* The disk is old for a block that no buffer keeps.
LEMMA DiskIsLatest ==
  ASSUME BioInv, NEW blk \in Blocks, \A b \in Bufs : blockno[b] = blk => ~Kept(b)
  PROVE  disk[blk] = latest[blk]
BY Zenon DEF BioInv, Coherent

LEMMA ContentsKept ==
  ASSUME BioInv,
         UNCHANGED <<lru, blockno, valid, refcnt, data, pinned, disk, buf, dirty, latest>>
  PROVE  Coherent' /\ Unique' /\ Exact' /\ Listed'
<1>1. \A b \in Bufs : Kept(b)' <=> Kept(b)
  BY Zenon DEF Kept
<1>2. Coherent'
  BY <1>1, Zenon DEF BioInv, Coherent
<1>3. Unique' /\ Listed'
  BY Zenon DEF BioInv, Unique, Listed
<1>4. Exact'
  BY Zenon DEF BioInv, Exact
<1>. QED BY <1>2, <1>3, <1>4, Zenon

--------------------------------------------------------------------------------
(* Every step preserves the invariant. *)

\* Steps that only change where a process is.
LEMMA MoveStep ==
  ASSUME B!Constants, BioInv, NEW p \in Procs, NEW to, B!Move(p, to),
         to \in {"asleep", "reading", "hold", "writing"}, b_pc[p] # "idle",
         Owns(p) <=> to \in {"locked", "reading", "hold", "writing"},
         to \in {"hold", "writing"} => valid[buf[p]],
         to = "reading" => ~valid[buf[p]],
         to = "asleep" => holder[buf[p]] \notin {NULL, p},
         UNCHANGED <<B!cache, disk, buf, dirty, latest>>
  PROVE  BioInv'
<1>1. UNCHANGED <<lru, blockno, valid, refcnt, data, holder, pinned, disk, buf, dirty, latest>>
  BY Zenon DEF B!cache
<1>2. /\ b_pc' \in [Procs -> {"idle", "lock", "asleep", "locked", "reading", "hold", "writing", "released"}]
      /\ b_pc'[p] = to /\ \A q \in Procs : q # p => b_pc'[q] = b_pc[q]
  BY Zenon DEF B!Move, BioInv, B!TypeOK
<1>3. B!TypeOK'
  BY <1>1, <1>2, Zenon DEF BioInv, B!TypeOK
<1>4. \A q \in Procs : Owns(q)' <=> Owns(q)
  BY <1>2, Zenon DEF Owns
<1>5. Places'
  <2>1. InCall' /\ HasBlock'
    BY <1>1, <1>2, Zenon DEF BioInv, Places, InCall, HasBlock
  <2>2. HasLock'
    BY <1>1, <1>4, Zenon DEF BioInv, Places, HasLock
  <2>3. LockOwned'
    BY <1>1, <1>4, Zenon DEF BioInv, Places, LockOwned, B!TypeOK
  <2>4. HasData' /\ NoData'
    BY <1>1, <1>2, Zenon DEF BioInv, Places, HasData, NoData, B!TypeOK
  <2>. QED BY <2>1, <2>2, <2>3, <2>4, Zenon DEF Places
<1>6. B!NoLostRelease'
  BY <1>1, <1>2, Zenon DEF BioInv, B!NoLostRelease
<1>7. Coherent' /\ Unique' /\ Exact' /\ Listed'
  BY <1>1, ContentsKept, Zenon
<1>. QED BY <1>3, <1>5, <1>6, <1>7, Zenon DEF BioInv

LEMMA MoveSteps ==
  ASSUME B!Constants, BioInv, NEW p \in Procs,
         B!acquiresleep_sleep(p) \/ B!bread_valid(p) \/ B!bread_read(p) \/ B!bwrite(p)
  PROVE  BioInv'
<1>1. CASE B!acquiresleep_sleep(p)
  <2>1. b_pc[p] = "lock" /\ ~Owns(p) /\ holder[buf[p]] # NULL
    BY <1>1, Zenon DEF B!acquiresleep_sleep, Owns
  <2>2. holder[buf[p]] # p
    BY <2>1, InUse, Zenon DEF BioInv, Places, LockOwned, B!Constants
  <2>. QED BY <1>1, <2>1, <2>2, MoveStep, Zenon DEF B!acquiresleep_sleep
<1>2. CASE B!bread_valid(p)
  BY <1>2, MoveStep, Zenon DEF B!bread_valid, Owns
<1>3. CASE B!bread_read(p)
  BY <1>3, MoveStep, Zenon DEF B!bread_read, Owns
<1>4. CASE B!bwrite(p)
  <2>1. valid[buf[p]]
    BY <1>4, Zenon DEF B!bwrite, BioInv, Places, HasData
  <2>. QED BY <1>4, <2>1, MoveStep, Zenon DEF B!bwrite, Owns
<1>. QED BY <1>1, <1>2, <1>3, <1>4, Zenon

LEMMA HitStep ==
  ASSUME B!Constants, BioInv, NEW p \in Procs, NEW blk \in Blocks, B!bget_hit(p, blk)
  PROVE  BioInv'
<1>1. PICK b \in B!Cached(blk) :
        /\ refcnt' = [refcnt EXCEPT ![b] = @ + 1]
        /\ buf' = [buf EXCEPT ![p] = b]
  BY Zenon DEF B!bget_hit
<1>2. b \in Bufs /\ blockno[b] = blk /\ blk # NULL /\ b # NULL
  BY Zenon DEF B!Cached, B!Constants
<1>3. /\ b_pc[p] = "idle" /\ buf[p] = NULL /\ B!Move(p, "lock")
      /\ UNCHANGED <<lru, blockno, valid, data, holder, pinned, disk, dirty, latest>>
  BY Zenon DEF B!bget_hit, BioInv, Places, InCall
<1>4. /\ b_pc' \in [Procs -> {"idle", "lock", "asleep", "locked", "reading", "hold", "writing", "released"}]
      /\ b_pc'[p] = "lock" /\ \A q \in Procs : q # p => b_pc'[q] = b_pc[q]
  BY <1>3, Zenon DEF B!Move, BioInv, B!TypeOK
<1>5. /\ buf' \in [Procs -> Bufs \cup {NULL}]
      /\ buf'[p] = b /\ \A q \in Procs : q # p => buf'[q] = buf[q]
  BY <1>1, <1>2, Zenon DEF BioInv, B!TypeOK
<1>6. refcnt' \in [Bufs -> Nat] /\ refcnt'[b] = refcnt[b] + 1
      /\ \A c \in Bufs : c # b => refcnt'[c] = refcnt[c]
  BY <1>1, <1>2 DEF BioInv, B!TypeOK
<1>7. B!TypeOK'
  BY <1>3, <1>4, <1>5, <1>6, Zenon DEF BioInv, B!TypeOK
<1>8. \A q \in Procs : Owns(q)' <=> Owns(q)
  BY <1>3, <1>4, Zenon DEF Owns
<1>9. ~Owns(p)
  BY <1>3, Zenon DEF Owns
<1>10. Places'
  <2>1. InCall'
    BY <1>2, <1>4, <1>5, Zenon DEF BioInv, Places, InCall
  <2>2. HasBlock'
    BY <1>2, <1>3, <1>5, Zenon DEF BioInv, Places, HasBlock
  <2>3. HasLock'
    BY <1>3, <1>5, <1>8, <1>9, Zenon DEF BioInv, Places, HasLock
  <2>4. LockOwned'
    BY <1>3, <1>5, <1>8, <1>9, ZenonT(60) DEF BioInv, Places, LockOwned, B!TypeOK
  <2>5. HasData' /\ NoData'
    BY <1>3, <1>4, <1>5, Zenon DEF BioInv, Places, HasData, NoData
  <2>. QED BY <2>1, <2>2, <2>3, <2>4, <2>5, Zenon DEF Places
<1>11. B!NoLostRelease'
  BY <1>3, <1>4, <1>5, Zenon DEF BioInv, B!NoLostRelease
<1>12. Coherent'
  <2>1. \A c \in Bufs : Kept(c) => Kept(c)'
    BY <1>3, Zenon DEF Kept
  <2>. QED BY <1>3, <2>1, Zenon DEF BioInv, Coherent
<1>13. Unique' /\ Listed'
  BY <1>3, Zenon DEF BioInv, Unique, Listed
<1>14. Exact'
  <2>1. /\ Cardinality(Users(buf, b)) \in Nat
        /\ Cardinality(Users(buf', b)) = Cardinality(Users(buf, b)) + 1
        /\ \A c \in Bufs : c # b => Users(buf', c) = Users(buf, c)
    <3>1. buf[p] = NULL /\ buf'[p] = b /\ \A q \in Procs : q # p => buf'[q] = buf[q]
      BY <1>3, <1>5, Zenon
    <3>. QED BY <1>2, <3>1, UserAdded, ZenonT(60)
  <2>2. refcnt[b] = Cardinality(Users(buf, b)) + Pins(pinned, b)
    BY <1>2, Zenon DEF BioInv, Exact
  <2>3. refcnt'[b] = Cardinality(Users(buf', b)) + Pins(pinned, b)
    BY <1>6, <2>1, <2>2, PinsType
  <2>4. \A c \in Bufs : c # b => refcnt'[c] = Cardinality(Users(buf', c)) + Pins(pinned, c)
    BY <1>6, <2>1, Zenon DEF BioInv, Exact
  <2>. QED BY <1>3, <2>3, <2>4, Zenon DEF Exact
<1>. QED BY <1>7, <1>10, <1>11, <1>12, <1>13, <1>14, Zenon DEF BioInv

LEMMA RecycleStep ==
  ASSUME B!Constants, BioInv, NEW p \in Procs, NEW blk \in Blocks, B!bget_recycle(p, blk)
  PROVE  BioInv'
<1>1. PICK b \in Bufs :
        /\ B!Victim(b)
        /\ blockno' = [blockno EXCEPT ![b] = blk]
        /\ valid' = B!recycled_valid(b)
        /\ refcnt' = [refcnt EXCEPT ![b] = 1]
        /\ buf' = [buf EXCEPT ![p] = b]
        /\ dirty' = dirty \ {b}
        /\ latest' = [k \in Blocks |-> IF b \in dirty /\ k = blockno[b] THEN disk[k] ELSE latest[k]]
  BY Zenon DEF B!bget_recycle
<1>2. refcnt[b] = 0 /\ blk # NULL /\ b # NULL /\ \A c \in Bufs : blockno[c] # blk
  BY <1>1, Zenon DEF B!Victim, B!unused, B!bget_recycle, B!Cached, B!Constants
<1>3. b \notin pinned /\ holder[b] = NULL /\ \A q \in Procs : buf[q] # b
  BY <1>2, NoReference, Zenon
<1>4. /\ b_pc[p] = "idle" /\ buf[p] = NULL /\ B!Move(p, "lock")
      /\ UNCHANGED <<lru, data, holder, pinned, disk>>
  BY Zenon DEF B!bget_recycle, BioInv, Places, InCall
<1>5. /\ b_pc' \in [Procs -> {"idle", "lock", "asleep", "locked", "reading", "hold", "writing", "released"}]
      /\ b_pc'[p] = "lock" /\ \A q \in Procs : q # p => b_pc'[q] = b_pc[q]
  BY <1>4, Zenon DEF B!Move, BioInv, B!TypeOK
<1>6. /\ buf' \in [Procs -> Bufs \cup {NULL}]
      /\ buf'[p] = b /\ \A q \in Procs : q # p => buf'[q] = buf[q]
  BY <1>1, Zenon DEF BioInv, B!TypeOK
<1>7. /\ blockno' \in [Bufs -> Blocks \cup {NULL}]
      /\ blockno'[b] = blk /\ \A c \in Bufs : c # b => blockno'[c] = blockno[c]
  BY <1>1, Zenon DEF BioInv, B!TypeOK
<1>8. /\ valid' \in [Bufs -> BOOLEAN]
      /\ ~valid'[b] /\ \A c \in Bufs : c # b => valid'[c] = valid[c]
  BY <1>1, Zenon DEF BioInv, B!TypeOK, B!recycled_valid
<1>9. refcnt' \in [Bufs -> Nat] /\ refcnt'[b] = 1
      /\ \A c \in Bufs : c # b => refcnt'[c] = refcnt[c]
  BY <1>1 DEF BioInv, B!TypeOK
<1>10. B!TypeOK'
  <2>1. dirty' \subseteq Bufs /\ latest' \in [Blocks -> Values]
    BY <1>1, Zenon DEF BioInv, B!TypeOK
  <2>. QED BY <1>4, <1>5, <1>6, <1>7, <1>8, <1>9, <2>1, Zenon DEF BioInv, B!TypeOK
<1>11. \A q \in Procs : Owns(q)' <=> Owns(q)
  BY <1>4, <1>5, Zenon DEF Owns
<1>12. ~Owns(p)
  BY <1>4, Zenon DEF Owns
<1>13. Places'
  <2>1. InCall'
    BY <1>2, <1>5, <1>6, Zenon DEF BioInv, Places, InCall
  <2>2. HasBlock'
    <3> SUFFICES ASSUME NEW q \in Procs, buf'[q] # NULL
                 PROVE  blockno'[buf'[q]] # NULL
      BY Zenon DEF HasBlock
    <3>1. CASE q = p
      BY <1>2, <1>6, <1>7, <3>1, Zenon
    <3>2. CASE q # p
      <4>1. buf'[q] = buf[q] /\ buf[q] \in Bufs /\ buf[q] # b /\ blockno[buf[q]] # NULL
        BY <1>3, <1>6, <3>2, Zenon DEF BioInv, Places, HasBlock, B!TypeOK
      <4>. QED BY <1>7, <4>1, Zenon
    <3>. QED BY <3>1, <3>2, Zenon
  <2>3. HasLock'
    BY <1>4, <1>6, <1>11, <1>12, Zenon DEF BioInv, Places, HasLock
  <2>4. LockOwned'
    BY <1>4, <1>6, <1>11, <1>12, ZenonT(60) DEF BioInv, Places, LockOwned, B!TypeOK
  <2>5. HasData'
    <3> SUFFICES ASSUME NEW q \in Procs, b_pc'[q] \in {"hold", "writing"}
                 PROVE  valid'[buf'[q]]
      BY Zenon DEF HasData
    <3>1. q # p /\ b_pc[q] \in {"hold", "writing"} /\ buf'[q] = buf[q]
      BY <1>5, <1>6, Zenon
    <3>2. valid[buf[q]] /\ buf[q] \in Bufs /\ buf[q] # b
      BY <1>3, <3>1, InUse, Zenon DEF BioInv, Places, HasData
    <3>. QED BY <1>8, <3>1, <3>2, Zenon
  <2>6. NoData'
    <3> SUFFICES ASSUME NEW q \in Procs, b_pc'[q] = "reading"
                 PROVE  ~valid'[buf'[q]]
      BY Zenon DEF NoData
    <3>1. q # p /\ b_pc[q] = "reading" /\ buf'[q] = buf[q]
      BY <1>5, <1>6, Zenon
    <3>2. ~valid[buf[q]] /\ buf[q] \in Bufs /\ buf[q] # b
      BY <1>3, <3>1, InUse, Zenon DEF BioInv, Places, NoData
    <3>. QED BY <1>8, <3>1, <3>2, Zenon
  <2>. QED BY <2>1, <2>2, <2>3, <2>4, <2>5, <2>6, Zenon DEF Places
<1>14. B!NoLostRelease'
  BY <1>4, <1>5, <1>6, Zenon DEF BioInv, B!NoLostRelease
<1>15. Unique'
  BY <1>2, <1>7, Zenon DEF BioInv, Unique
<1>16. Coherent'
  <2>1. ASSUME NEW c \in Bufs, valid'[c]
        PROVE  blockno'[c] # NULL /\ data'[c] = latest'[blockno'[c]]
    <3>1. c # b /\ valid[c] /\ blockno'[c] = blockno[c] /\ data'[c] = data[c]
      BY <1>4, <1>7, <1>8, <2>1, Zenon
    <3>2. blockno[c] # NULL /\ data[c] = latest[blockno[c]]
      BY <3>1, Zenon DEF BioInv, Coherent
    <3>3. blockno[c] \in Blocks /\ blockno[c] # blockno[b]
      BY <3>1, <3>2, Zenon DEF BioInv, B!TypeOK, Unique
    <3>4. latest'[blockno[c]] = latest[blockno[c]]
      BY <1>1, <3>3, Zenon
    <3>. QED BY <3>1, <3>2, <3>4, Zenon
  <2>2. ASSUME NEW k \in Blocks, disk'[k] # latest'[k]
        PROVE  \E c \in Bufs : blockno'[c] = k /\ Kept(c)'
    <3>1. disk[k] # latest[k] /\ ~(b \in dirty /\ k = blockno[b])
      BY <1>1, <1>4, <2>2, Zenon
    <3>2. PICK c \in Bufs : blockno[c] = k /\ Kept(c)
      BY <3>1, Zenon DEF BioInv, Coherent
    <3>3. c # b
      BY <1>3, <3>1, <3>2, Zenon DEF Kept
    <3>4. Kept(c)'
      BY <1>1, <1>4, <1>8, <3>2, <3>3, Zenon DEF Kept
    <3>. QED BY <1>7, <3>2, <3>3, <3>4, Zenon
  <2>. QED BY <2>1, <2>2, Zenon DEF Coherent
<1>17. Listed'
  BY <1>4, Zenon DEF BioInv, Listed
<1>18. Exact'
  <2>1. /\ Cardinality(Users(buf, b)) \in Nat
        /\ Cardinality(Users(buf', b)) = Cardinality(Users(buf, b)) + 1
        /\ \A c \in Bufs : c # b => Users(buf', c) = Users(buf, c)
    BY <1>4, <1>6, UserAdded, ZenonT(60)
  <2>2. refcnt[b] = Cardinality(Users(buf, b)) + Pins(pinned, b)
    BY Zenon DEF BioInv, Exact
  <2>3. refcnt'[b] = Cardinality(Users(buf', b)) + Pins(pinned, b)
    BY <1>2, <1>9, <2>1, <2>2, PinsType
  <2>4. \A c \in Bufs : c # b => refcnt'[c] = Cardinality(Users(buf', c)) + Pins(pinned, c)
    BY <1>9, <2>1, Zenon DEF BioInv, Exact
  <2>. QED BY <1>4, <2>3, <2>4, Zenon DEF Exact
<1>. QED BY <1>10, <1>13, <1>14, <1>15, <1>16, <1>17, <1>18, Zenon DEF BioInv

LEMMA AcquireStep ==
  ASSUME B!Constants, BioInv, NEW p \in Procs, B!acquiresleep(p)
  PROVE  BioInv'
<1> DEFINE b == buf[p]
<1>1. b \in Bufs /\ b # NULL /\ p # NULL
  BY InUse, Zenon DEF B!acquiresleep, B!Constants
<1>2. /\ b_pc[p] = "lock" /\ holder[b] = NULL /\ holder' = [holder EXCEPT ![b] = p]
      /\ B!Move(p, "locked")
      /\ UNCHANGED <<lru, blockno, valid, refcnt, data, pinned, disk, buf, dirty, latest>>
  BY Zenon DEF B!acquiresleep
<1> HIDE DEF b
<1>3. /\ b_pc' \in [Procs -> {"idle", "lock", "asleep", "locked", "reading", "hold", "writing", "released"}]
      /\ b_pc'[p] = "locked" /\ \A q \in Procs : q # p => b_pc'[q] = b_pc[q]
  BY <1>2, Zenon DEF B!Move, BioInv, B!TypeOK
<1>4. /\ holder' \in [Bufs -> Procs \cup {NULL}]
      /\ holder'[b] = p /\ \A c \in Bufs : c # b => holder'[c] = holder[c]
  BY <1>1, <1>2, Zenon DEF BioInv, B!TypeOK
<1>5. B!TypeOK'
  BY <1>2, <1>3, <1>4, Zenon DEF BioInv, B!TypeOK
<1>6. Owns(p)' /\ ~Owns(p) /\ \A q \in Procs : q # p => (Owns(q)' <=> Owns(q))
  BY <1>2, <1>3, Zenon DEF Owns
<1>7. \A q \in Procs : Owns(q) => buf[q] # b
  BY <1>1, <1>2, Zenon DEF BioInv, Places, HasLock, B!Constants
<1>8. Places'
  <2>1. InCall' /\ HasBlock'
    BY <1>2, <1>3, Zenon DEF BioInv, Places, InCall, HasBlock
  <2>2. HasLock'
    <3> SUFFICES ASSUME NEW q \in Procs, Owns(q)' PROVE holder'[buf'[q]] = q
      BY Zenon DEF HasLock
    <3>1. CASE q = p
      BY <1>2, <1>4, <3>1, Zenon DEF b
    <3>2. CASE q # p
      <4>1. Owns(q) /\ buf[q] # b /\ b_pc[q] # "idle"
        BY <1>6, <1>7, <3>2, Zenon DEF Owns
      <4>2. buf[q] \in Bufs /\ holder[buf[q]] = q
        BY <4>1, InUse, Zenon DEF BioInv, Places, HasLock
      <4>. QED BY <1>2, <1>4, <4>1, <4>2, Zenon
    <3>. QED BY <3>1, <3>2, Zenon
  <2>3. LockOwned'
    <3> SUFFICES ASSUME NEW c \in Bufs, holder'[c] # NULL
                 PROVE  Owns(holder[c])' /\ buf'[holder'[c]] = c
      BY Zenon DEF LockOwned
    <3>1. CASE c = b
      BY <1>2, <1>4, <1>6, <3>1, Zenon DEF b
    <3>2. CASE c # b
      <4>1. holder'[c] = holder[c] /\ Owns(holder[c]) /\ buf[holder[c]] = c /\ holder[c] \in Procs
        BY <1>4, <3>2, Zenon DEF BioInv, Places, LockOwned, B!TypeOK
      <4>. QED BY <1>2, <1>6, <4>1, Zenon
    <3>. QED BY <3>1, <3>2, Zenon
  <2>4. HasData' /\ NoData'
    BY <1>2, <1>3, Zenon DEF BioInv, Places, HasData, NoData, B!TypeOK
  <2>. QED BY <2>1, <2>2, <2>3, <2>4, Zenon DEF Places
<1>9. B!NoLostRelease'
  <2> SUFFICES ASSUME NEW q \in Procs, b_pc'[q] = "asleep"
               PROVE  holder'[buf'[q]] # NULL /\ holder'[buf'[q]] # q
    BY Zenon DEF B!NoLostRelease
  <2>1. q # p /\ b_pc[q] = "asleep"
    BY <1>3, Zenon
  <2>2. holder[buf[q]] # NULL /\ holder[buf[q]] # q /\ buf[q] \in Bufs
    BY <2>1, InUse, Zenon DEF BioInv, B!NoLostRelease
  <2>3. buf[q] # b
    BY <1>2, <2>2, Zenon
  <2>. QED BY <1>2, <1>4, <2>2, <2>3, Zenon
<1>10. Coherent' /\ Unique' /\ Exact' /\ Listed'
  BY <1>2, ContentsKept, Zenon
<1>. QED BY <1>5, <1>8, <1>9, <1>10, Zenon DEF BioInv

LEMMA ReleaseStep ==
  ASSUME B!Constants, BioInv, NEW p \in Procs, B!brelse(p)
  PROVE  BioInv'
<1> DEFINE b == buf[p]
<1>1. b \in Bufs /\ b # NULL /\ p # NULL
  BY InUse, Zenon DEF B!brelse, B!Constants
<1>2. /\ b_pc[p] = "hold" /\ holder' = [holder EXCEPT ![b] = NULL]
      /\ b_pc' = [B!woken(b) EXCEPT ![p] = "released"]
      /\ UNCHANGED <<lru, blockno, valid, refcnt, data, pinned, disk, buf, dirty, latest>>
  BY Zenon DEF B!brelse
<1>3. holder[b] = p /\ Owns(p)
  BY <1>2, Zenon DEF BioInv, Places, HasLock, Owns
<1> HIDE DEF b
<1>4. /\ b_pc'[p] = "released"
      /\ \A q \in Procs : q # p =>
           b_pc'[q] = IF b_pc[q] = "asleep" /\ buf[q] = b THEN "lock" ELSE b_pc[q]
  BY <1>2, Zenon DEF B!woken
<1>5. b_pc' \in [Procs -> {"idle", "lock", "asleep", "locked", "reading", "hold", "writing", "released"}]
  <2>1. \A q \in Procs : b_pc'[q] \in {"idle", "lock", "asleep", "locked", "reading", "hold", "writing", "released"}
    BY <1>4, Zenon DEF BioInv, B!TypeOK
  <2>. QED BY <1>2, <2>1, Zenon DEF B!woken
<1>6. \A q \in Procs : q # p =>
        \/ b_pc'[q] = b_pc[q] /\ ~(b_pc[q] = "asleep" /\ buf[q] = b)
        \/ b_pc'[q] = "lock" /\ b_pc[q] = "asleep" /\ buf[q] = b
  BY <1>4, Zenon
<1>7. /\ holder' \in [Bufs -> Procs \cup {NULL}]
      /\ holder'[b] = NULL /\ \A c \in Bufs : c # b => holder'[c] = holder[c]
  BY <1>1, <1>2, Zenon DEF BioInv, B!TypeOK
<1>8. B!TypeOK'
  BY <1>2, <1>5, <1>7, Zenon DEF BioInv, B!TypeOK
<1>9. ~Owns(p)' /\ \A q \in Procs : q # p => (Owns(q)' <=> Owns(q))
  <2>1. \A q \in Procs : q # p => (Owns(q)' <=> Owns(q))
    BY <1>6, Zenon DEF Owns
  <2>. QED BY <1>4, <2>1, Zenon DEF Owns
<1>10. Places'
  <2>1. InCall'
    <3>1. b_pc'[p] # "idle" /\ b_pc[p] # "idle"
      BY <1>2, <1>4, Zenon
    <3>2. \A q \in Procs : b_pc'[q] = "idle" <=> b_pc[q] = "idle"
      BY <1>6, <3>1, Zenon
    <3>. QED BY <1>2, <3>2, Zenon DEF BioInv, Places, InCall
  <2>2. HasBlock'
    BY <1>2, Zenon DEF BioInv, Places, HasBlock
  <2>3. HasLock'
    <3> SUFFICES ASSUME NEW q \in Procs, Owns(q)' PROVE holder'[buf'[q]] = q
      BY Zenon DEF HasLock
    <3>1. q # p /\ Owns(q)
      BY <1>9, Zenon
    <3>2. b_pc[q] # "idle"
      BY <3>1, Zenon DEF Owns
    <3>3. buf[q] \in Bufs /\ holder[buf[q]] = q
      BY <3>1, <3>2, InUse, Zenon DEF BioInv, Places, HasLock
    <3>4. buf[q] # b
      BY <1>3, <3>1, <3>3, Zenon
    <3>. QED BY <1>2, <1>7, <3>3, <3>4, Zenon
  <2>4. LockOwned'
    <3> SUFFICES ASSUME NEW c \in Bufs, holder'[c] # NULL
                 PROVE  Owns(holder[c])' /\ buf'[holder'[c]] = c
      BY Zenon DEF LockOwned
    <3>1. c # b /\ holder'[c] = holder[c]
      BY <1>7, Zenon
    <3>2. Owns(holder[c]) /\ buf[holder[c]] = c /\ holder[c] \in Procs
      BY <3>1, Zenon DEF BioInv, Places, LockOwned, B!TypeOK
    <3>3. holder[c] # p
      BY <3>1, <3>2, Zenon DEF b
    <3>. QED BY <1>2, <1>9, <3>1, <3>2, <3>3, Zenon
  <2>5. HasData' /\ NoData'
    <3>1. \A q \in Procs : /\ b_pc'[q] \in {"hold", "writing"} => b_pc[q] \in {"hold", "writing"}
                           /\ b_pc'[q] = "reading" => b_pc[q] = "reading"
      BY <1>4, <1>6, Zenon
    <3>. QED BY <1>2, <3>1, Zenon DEF BioInv, Places, HasData, NoData
  <2>. QED BY <2>1, <2>2, <2>3, <2>4, <2>5, Zenon DEF Places
<1>11. B!NoLostRelease'
  <2> SUFFICES ASSUME NEW q \in Procs, b_pc'[q] = "asleep"
               PROVE  holder'[buf'[q]] # NULL /\ holder'[buf'[q]] # q
    BY Zenon DEF B!NoLostRelease
  <2>1. q # p /\ b_pc[q] = "asleep" /\ buf[q] # b
    BY <1>4, <1>6, Zenon
  <2>2. holder[buf[q]] # NULL /\ holder[buf[q]] # q /\ buf[q] \in Bufs
    BY <2>1, InUse, Zenon DEF BioInv, B!NoLostRelease
  <2>. QED BY <1>2, <1>7, <2>1, <2>2, Zenon
<1>12. Coherent' /\ Unique' /\ Exact' /\ Listed'
  BY <1>2, ContentsKept, Zenon
<1>. QED BY <1>8, <1>10, <1>11, <1>12, Zenon DEF BioInv

LEMMA ReadStep ==
  ASSUME B!Constants, BioInv, NEW p \in Procs, B!bread_done(p)
  PROVE  BioInv'
<1> DEFINE b == buf[p]
           blk == blockno[b]
<1>1. b \in Bufs /\ b # NULL /\ blk \in Blocks /\ blk # NULL
  BY InUse, Zenon DEF B!bread_done, B!Constants
<1>2. /\ b_pc[p] = "reading" /\ B!Move(p, "hold")
      /\ data' = [data EXCEPT ![b] = disk[blk]] /\ valid' = [valid EXCEPT ![b] = TRUE]
      /\ UNCHANGED <<lru, blockno, refcnt, holder, pinned, disk, buf, dirty, latest>>
  BY Zenon DEF B!bread_done
<1> HIDE DEF b, blk
<1>3. Owns(p) /\ buf[p] = b /\ blockno[b] = blk
  BY <1>2, Zenon DEF Owns, b, blk
<1>4. /\ b_pc' \in [Procs -> {"idle", "lock", "asleep", "locked", "reading", "hold", "writing", "released"}]
      /\ b_pc'[p] = "hold" /\ \A q \in Procs : q # p => b_pc'[q] = b_pc[q]
  BY <1>2, Zenon DEF B!Move, BioInv, B!TypeOK
<1>5. /\ valid' \in [Bufs -> BOOLEAN]
      /\ valid'[b] /\ \A c \in Bufs : c # b => valid'[c] = valid[c]
  BY <1>1, <1>2, Zenon DEF BioInv, B!TypeOK
<1>6. /\ data' \in [Bufs -> Values \cup {NULL}]
      /\ data'[b] = disk[blk] /\ \A c \in Bufs : c # b => data'[c] = data[c]
  BY <1>1, <1>2, Zenon DEF BioInv, B!TypeOK
<1>7. B!TypeOK'
  BY <1>2, <1>4, <1>5, <1>6, Zenon DEF BioInv, B!TypeOK
<1>8. \A q \in Procs : Owns(q)' <=> Owns(q)
  BY <1>2, <1>4, Zenon DEF Owns
<1>9. \A c \in Bufs : valid[c] => valid'[c]
  BY <1>5, Zenon
<1>10. Places'
  <2>1. InCall' /\ HasBlock'
    BY <1>2, <1>4, Zenon DEF BioInv, Places, InCall, HasBlock
  <2>2. HasLock'
    BY <1>2, <1>8, Zenon DEF BioInv, Places, HasLock
  <2>3. LockOwned'
    BY <1>2, <1>8, Zenon DEF BioInv, Places, LockOwned, B!TypeOK
  <2>4. HasData'
    <3> SUFFICES ASSUME NEW q \in Procs, b_pc'[q] \in {"hold", "writing"}
                 PROVE  valid'[buf'[q]]
      BY Zenon DEF HasData
    <3>1. CASE q = p
      BY <1>2, <1>3, <1>5, <3>1, Zenon
    <3>2. CASE q # p
      <4>1. b_pc[q] \in {"hold", "writing"}
        BY <1>4, <3>2, Zenon
      <4>2. valid[buf[q]] /\ buf[q] \in Bufs
        BY <4>1, InUse, Zenon DEF BioInv, Places, HasData
      <4>. QED BY <1>2, <1>9, <4>2, Zenon
    <3>. QED BY <3>1, <3>2, Zenon
  <2>5. NoData'
    <3> SUFFICES ASSUME NEW q \in Procs, b_pc'[q] = "reading"
                 PROVE  ~valid'[buf'[q]]
      BY Zenon DEF NoData
    <3>1. q # p /\ b_pc[q] = "reading" /\ Owns(q)
      BY <1>4, Zenon DEF Owns
    <3>2. ~valid[buf[q]] /\ buf[q] \in Bufs /\ holder[buf[q]] = q /\ holder[b] = p
      BY <1>3, <3>1, InUse, Zenon DEF BioInv, Places, NoData, HasLock
    <3>. QED BY <1>2, <1>5, <3>1, <3>2, Zenon
  <2>. QED BY <2>1, <2>2, <2>3, <2>4, <2>5, Zenon DEF Places
<1>11. B!NoLostRelease'
  BY <1>2, <1>4, Zenon DEF BioInv, B!NoLostRelease
<1>12. Coherent'
  <2>1. disk[blk] = latest[blk]
    <3>1. \A c \in Bufs : blockno[c] = blk => c = b
      BY <1>1, <1>3, Zenon DEF BioInv, Unique
    <3>2. ~Kept(b)
      BY <1>2, <1>3, Zenon DEF Kept, BioInv, Places, NoData
    <3>. QED BY <1>1, <3>1, <3>2, DiskIsLatest, Zenon
  <2>2. \A c \in Bufs : valid'[c] => blockno'[c] # NULL /\ data'[c] = latest'[blockno'[c]]
    <3> SUFFICES ASSUME NEW c \in Bufs, valid'[c]
                 PROVE  blockno'[c] # NULL /\ data'[c] = latest'[blockno'[c]]
      BY Zenon
    <3>1. CASE c = b
      BY <1>1, <1>2, <1>3, <1>6, <2>1, <3>1, Zenon
    <3>2. CASE c # b
      BY <1>2, <1>5, <1>6, <3>2, Zenon DEF BioInv, Coherent
    <3>. QED BY <3>1, <3>2, Zenon
  <2>3. \A c \in Bufs : Kept(c) => Kept(c)'
    BY <1>2, <1>9, Zenon DEF Kept
  <2>. QED BY <1>2, <2>2, <2>3, Zenon DEF BioInv, Coherent
<1>13. Unique' /\ Exact' /\ Listed'
  BY <1>2, Zenon DEF BioInv, Unique, Exact, Listed
<1>. QED BY <1>7, <1>10, <1>11, <1>12, <1>13, Zenon DEF BioInv

\* Steps of a process that has its buffer and keeps it.
LEMMA HoldStep ==
  ASSUME B!Constants, BioInv, NEW p \in Procs, b_pc[p] \in {"hold", "writing"}, B!Move(p, "hold"),
         UNCHANGED <<blockno, valid, holder, buf>>
  PROVE  /\ Places' /\ B!NoLostRelease'
         /\ b_pc' \in [Procs -> {"idle", "lock", "asleep", "locked", "reading", "hold", "writing", "released"}]
<1>1. /\ b_pc' \in [Procs -> {"idle", "lock", "asleep", "locked", "reading", "hold", "writing", "released"}]
      /\ b_pc'[p] = "hold" /\ \A q \in Procs : q # p => b_pc'[q] = b_pc[q]
  BY Zenon DEF B!Move, BioInv, B!TypeOK
<1>2. \A q \in Procs : Owns(q)' <=> Owns(q)
  BY <1>1, Zenon DEF Owns
<1>3. InCall' /\ HasBlock'
  BY <1>1, Zenon DEF BioInv, Places, InCall, HasBlock
<1>4. HasLock'
  BY <1>2, Zenon DEF BioInv, Places, HasLock
<1>5. LockOwned'
  BY <1>2, Zenon DEF BioInv, Places, LockOwned, B!TypeOK
<1>6. HasData' /\ NoData'
  BY <1>1, Zenon DEF BioInv, Places, HasData, NoData
<1>7. B!NoLostRelease'
  BY <1>1, Zenon DEF BioInv, B!NoLostRelease
<1>. QED BY <1>1, <1>3, <1>4, <1>5, <1>6, <1>7, Zenon DEF Places

\* What a process with a buffer finds.
LEMMA HoldFacts ==
  ASSUME B!Constants, BioInv, NEW p \in Procs, b_pc[p] \in {"hold", "writing"}
  PROVE  /\ buf[p] \in Bufs /\ blockno[buf[p]] \in Blocks /\ blockno[buf[p]] # NULL
         /\ valid[buf[p]] /\ data[buf[p]] = latest[blockno[buf[p]]]
         /\ \A c \in Bufs : c # buf[p] => blockno[c] # blockno[buf[p]]
<1>1. buf[p] \in Bufs /\ blockno[buf[p]] \in Blocks /\ blockno[buf[p]] # NULL
  BY InUse, Zenon DEF B!Constants
<1>2. valid[buf[p]]
  BY Zenon DEF BioInv, Places, HasData
<1>3. data[buf[p]] = latest[blockno[buf[p]]]
  BY <1>1, <1>2, Zenon DEF BioInv, Coherent
<1>. QED BY <1>1, <1>2, <1>3, Zenon DEF BioInv, Unique

LEMMA ChangeStep ==
  ASSUME B!Constants, BioInv, NEW p \in Procs, NEW v \in Values, B!change(p, v)
  PROVE  BioInv'
<1> DEFINE b == buf[p]
           blk == blockno[b]
<1>1. /\ b_pc[p] = "hold"
      /\ dirty' = IF disk[blk] = v THEN dirty \ {b} ELSE dirty \cup {b}
      /\ data' = [data EXCEPT ![b] = v] /\ latest' = [latest EXCEPT ![blk] = v]
      /\ UNCHANGED <<lru, blockno, valid, refcnt, holder, pinned, disk, b_pc, buf>>
  BY Zenon DEF B!change
<1>2. /\ b \in Bufs /\ blk \in Blocks /\ blk # NULL /\ valid[b] /\ buf[p] = b
      /\ \A c \in Bufs : c # b => blockno[c] # blk
  BY <1>1, HoldFacts, Zenon
<1>3. blockno[b] = blk
  BY Zenon
<1> HIDE DEF b, blk
<1>4. B!Move(p, "hold")
  BY <1>1, Zenon DEF B!Move, BioInv, B!TypeOK
<1>5. Places' /\ B!NoLostRelease'
  BY <1>1, <1>4, HoldStep, Zenon
<1>6. /\ data' \in [Bufs -> Values \cup {NULL}] /\ data'[b] = v
      /\ \A c \in Bufs : c # b => data'[c] = data[c]
  BY <1>1, <1>2, Zenon DEF BioInv, B!TypeOK
<1>7. /\ latest' \in [Blocks -> Values] /\ latest'[blk] = v
      /\ \A k \in Blocks : k # blk => latest'[k] = latest[k]
  BY <1>1, <1>2, Zenon DEF BioInv, B!TypeOK
<1>8. B!TypeOK'
  <2>1. dirty' \subseteq Bufs
    BY <1>1, <1>2, Zenon DEF BioInv, B!TypeOK
  <2>. QED BY <1>1, <1>6, <1>7, <2>1, Zenon DEF BioInv, B!TypeOK
<1>9. Coherent'
  <2>1. ASSUME NEW c \in Bufs, valid'[c]
        PROVE  blockno'[c] # NULL /\ data'[c] = latest'[blockno'[c]]
    <3>1. CASE c = b
      BY <1>1, <1>2, <1>3, <1>6, <1>7, <3>1, Zenon
    <3>2. CASE c # b
      <4>1. blockno[c] # NULL /\ data[c] = latest[blockno[c]] /\ blockno[c] # blk
        BY <1>1, <1>2, <2>1, <3>2, Zenon DEF BioInv, Coherent
      <4>2. blockno[c] \in Blocks
        BY <4>1, Zenon DEF BioInv, B!TypeOK
      <4>. QED BY <1>1, <1>6, <1>7, <3>2, <4>1, <4>2, Zenon
    <3>. QED BY <3>1, <3>2, Zenon
  <2>2. \A c \in Bufs : c # b /\ Kept(c) => Kept(c)'
    BY <1>1, Zenon DEF Kept
  <2>3. ASSUME NEW c \in Bufs, c = b, disk[blk] # v PROVE Kept(c)' /\ blockno'[c] = blk
    BY <1>1, <1>2, <1>3, <2>3, Zenon DEF Kept
  <2>4. ASSUME NEW k \in Blocks, disk'[k] # latest'[k]
        PROVE  \E c \in Bufs : blockno'[c] = k /\ Kept(c)'
    <3>1. CASE k = blk
      <4>1. disk[blk] # v
        BY <1>1, <1>7, <2>4, <3>1, Zenon
      <4>. QED BY <1>2, <2>3, <3>1, <4>1, Zenon
    <3>2. CASE k # blk
      <4>1. disk[k] # latest[k]
        BY <1>1, <1>7, <2>4, <3>2, Zenon
      <4>2. PICK c \in Bufs : blockno[c] = k /\ Kept(c)
        BY <4>1, Zenon DEF BioInv, Coherent
      <4>3. c # b
        BY <1>3, <3>2, <4>2, Zenon
      <4>. QED BY <1>1, <2>2, <4>2, <4>3, Zenon
    <3>. QED BY <3>1, <3>2, Zenon
  <2>. QED BY <2>1, <2>4, Zenon DEF Coherent
<1>10. Unique' /\ Exact' /\ Listed'
  BY <1>1, Zenon DEF BioInv, Unique, Exact, Listed
<1>. QED BY <1>5, <1>8, <1>9, <1>10, Zenon DEF BioInv

LEMMA WriteStep ==
  ASSUME B!Constants, BioInv, NEW p \in Procs, B!bwrite_done(p)
  PROVE  BioInv'
<1> DEFINE b == buf[p]
           blk == blockno[b]
<1>1. /\ b_pc[p] = "writing" /\ dirty' = dirty \ {b} /\ B!Move(p, "hold")
      /\ disk' = [disk EXCEPT ![blk] = data[b]]
      /\ UNCHANGED <<lru, blockno, valid, refcnt, data, holder, pinned, buf, latest>>
  BY Zenon DEF B!bwrite_done, B!cache
<1>2. /\ b \in Bufs /\ blk \in Blocks /\ buf[p] = b /\ data[b] = latest[blk]
      /\ blockno[b] = blk
  BY <1>1, HoldFacts, Zenon
<1> HIDE DEF b, blk
<1>3. Places' /\ B!NoLostRelease'
      /\ b_pc' \in [Procs -> {"idle", "lock", "asleep", "locked", "reading", "hold", "writing", "released"}]
  BY <1>1, HoldStep, Zenon
<1>4. /\ disk' \in [Blocks -> Values] /\ disk'[blk] = latest[blk]
      /\ \A k \in Blocks : k # blk => disk'[k] = disk[k]
  <2>1. latest[blk] \in Values
    BY <1>2, Zenon DEF BioInv, B!TypeOK
  <2>. QED BY <1>1, <1>2, <2>1, Zenon DEF BioInv, B!TypeOK
<1>5. dirty' \subseteq Bufs
  BY <1>1, Zenon DEF BioInv, B!TypeOK
<1>6. B!TypeOK'
  BY <1>1, <1>3, <1>4, <1>5, Zenon DEF BioInv, B!TypeOK
<1>7. Coherent'
  <2>1. \A c \in Bufs : valid'[c] => blockno'[c] # NULL /\ data'[c] = latest'[blockno'[c]]
    BY <1>1, Zenon DEF BioInv, Coherent
  <2>2. \A c \in Bufs : c # b /\ Kept(c) => Kept(c)'
    BY <1>1, <1>2, Zenon DEF Kept
  <2>3. ASSUME NEW k \in Blocks, disk'[k] # latest'[k]
        PROVE  \E c \in Bufs : blockno'[c] = k /\ Kept(c)'
    <3>1. k # blk /\ disk[k] # latest[k]
      BY <1>1, <1>4, <2>3, Zenon
    <3>2. PICK c \in Bufs : blockno[c] = k /\ Kept(c)
      BY <3>1, Zenon DEF BioInv, Coherent
    <3>3. c # b
      BY <1>2, <3>1, <3>2, Zenon
    <3>. QED BY <1>1, <2>2, <3>2, <3>3, Zenon
  <2>. QED BY <2>1, <2>3, Zenon DEF Coherent
<1>8. Unique' /\ Exact' /\ Listed'
  BY <1>1, Zenon DEF BioInv, Unique, Exact, Listed
<1>. QED BY <1>3, <1>6, <1>7, <1>8, Zenon DEF BioInv

LEMMA PinStep ==
  ASSUME B!Constants, BioInv, NEW p \in Procs, B!bpin(p)
  PROVE  BioInv'
<1> DEFINE b == buf[p]
<1>1. /\ b_pc[p] = "hold" /\ dirty' = dirty \ {b} /\ pinned' = pinned \cup {b}
      /\ refcnt' = [refcnt EXCEPT ![b] = IF b \in pinned THEN @ ELSE @ + 1]
      /\ UNCHANGED <<lru, blockno, valid, data, holder, disk, b_pc, buf, latest>>
  BY Zenon DEF B!bpin
<1>2. b \in Bufs /\ valid[b] /\ buf[p] = b
  BY <1>1, HoldFacts, Zenon
<1> HIDE DEF b
<1>3. Places' /\ B!NoLostRelease'
  <2>1. B!Move(p, "hold")
    BY <1>1, Zenon DEF B!Move, BioInv, B!TypeOK
  <2>. QED BY <1>1, <2>1, HoldStep, Zenon
<1>4. /\ refcnt' \in [Bufs -> Nat]
      /\ refcnt'[b] = IF b \in pinned THEN refcnt[b] ELSE refcnt[b] + 1
      /\ \A c \in Bufs : c # b => refcnt'[c] = refcnt[c]
  BY <1>1, <1>2 DEF BioInv, B!TypeOK
<1>5. dirty' \subseteq Bufs /\ pinned' \subseteq Bufs
  BY <1>1, <1>2, Zenon DEF BioInv, B!TypeOK
<1>6. B!TypeOK'
  BY <1>1, <1>4, <1>5, Zenon DEF BioInv, B!TypeOK
<1>7. Coherent'
  <2>1. \A c \in Bufs : Kept(c) => Kept(c)'
    BY <1>1, <1>2, Zenon DEF Kept
  <2>. QED BY <1>1, <2>1, Zenon DEF BioInv, Coherent
<1>8. Unique' /\ Listed'
  BY <1>1, Zenon DEF BioInv, Unique, Listed
<1>9. Exact'
  <2>1. refcnt[b] = Cardinality(Users(buf, b)) + Pins(pinned, b)
    BY <1>2, Zenon DEF BioInv, Exact
  <2>2. Pins(pinned', b) = 1 /\ Pins(pinned, b) = IF b \in pinned THEN 1 ELSE 0
    BY <1>1, Zenon DEF Pins
  <2>3. refcnt'[b] = Cardinality(Users(buf, b)) + Pins(pinned', b)
    BY <1>4, <2>1, <2>2, CountType
  <2>4. \A c \in Bufs : c # b => Pins(pinned', c) = Pins(pinned, c)
    BY <1>1, Zenon DEF Pins
  <2>5. \A c \in Bufs : c # b => refcnt'[c] = Cardinality(Users(buf, c)) + Pins(pinned', c)
    BY <1>4, <2>4, Zenon DEF BioInv, Exact
  <2>. QED BY <1>1, <2>3, <2>5, Zenon DEF Exact
<1>. QED BY <1>3, <1>6, <1>7, <1>8, <1>9, Zenon DEF BioInv

LEMMA UnpinStep ==
  ASSUME B!Constants, BioInv, NEW p \in Procs, B!bunpin(p)
  PROVE  BioInv'
<1> DEFINE b == buf[p]
           blk == blockno[b]
<1>1. /\ b_pc[p] = "hold" /\ b \in pinned /\ disk[blk] = data[b]
      /\ refcnt' = [refcnt EXCEPT ![b] = @ - 1] /\ pinned' = pinned \ {b}
      /\ UNCHANGED <<lru, blockno, valid, data, holder, disk, b_pc, buf, dirty, latest>>
  BY Zenon DEF B!bunpin
<1>2. b \in Bufs /\ buf[p] = b /\ data[b] = latest[blk] /\ blockno[b] = blk
  BY <1>1, HoldFacts, Zenon
<1> HIDE DEF b, blk
<1>3. Places' /\ B!NoLostRelease'
  <2>1. B!Move(p, "hold")
    BY <1>1, Zenon DEF B!Move, BioInv, B!TypeOK
  <2>. QED BY <1>1, <2>1, HoldStep, Zenon
<1>4. refcnt[b] = Cardinality(Users(buf, b)) + 1
  <2>1. Pins(pinned, b) = 1
    BY <1>1, Zenon DEF Pins
  <2>. QED BY <1>2, <2>1, Zenon DEF BioInv, Exact
<1>5. /\ refcnt' \in [Bufs -> Nat] /\ refcnt'[b] = Cardinality(Users(buf, b))
      /\ \A c \in Bufs : c # b => refcnt'[c] = refcnt[c]
  <2>1. refcnt[b] - 1 = Cardinality(Users(buf, b)) /\ refcnt[b] - 1 \in Nat
    BY <1>4, CountType
  <2>. QED BY <1>1, <1>2, <2>1, Zenon DEF BioInv, B!TypeOK
<1>6. pinned' \subseteq Bufs
  BY <1>1, Zenon DEF BioInv, B!TypeOK
<1>7. B!TypeOK'
  BY <1>1, <1>5, <1>6, Zenon DEF BioInv, B!TypeOK
<1>8. Coherent'
  <2>1. \A c \in Bufs : c # b /\ Kept(c) => Kept(c)'
    BY <1>1, Zenon DEF Kept
  <2>2. ASSUME NEW k \in Blocks, disk'[k] # latest'[k]
        PROVE  \E c \in Bufs : blockno'[c] = k /\ Kept(c)'
    <3>1. k # blk /\ disk[k] # latest[k]
      BY <1>1, <1>2, <2>2, Zenon
    <3>2. PICK c \in Bufs : blockno[c] = k /\ Kept(c)
      BY <3>1, Zenon DEF BioInv, Coherent
    <3>3. c # b
      BY <1>2, <3>1, <3>2, Zenon
    <3>. QED BY <1>1, <2>1, <3>2, <3>3, Zenon
  <2>. QED BY <1>1, <2>2, Zenon DEF BioInv, Coherent
<1>9. Unique' /\ Listed'
  BY <1>1, Zenon DEF BioInv, Unique, Listed
<1>10. Exact'
  <2>1. Pins(pinned', b) = 0 /\ \A c \in Bufs : c # b => Pins(pinned', c) = Pins(pinned, c)
    BY <1>1, Zenon DEF Pins
  <2>2. refcnt'[b] = Cardinality(Users(buf, b)) + Pins(pinned', b)
    BY <1>5, <2>1, CountType
  <2>3. \A c \in Bufs : c # b => refcnt'[c] = Cardinality(Users(buf, c)) + Pins(pinned', c)
    BY <1>5, <2>1, Zenon DEF BioInv, Exact
  <2>. QED BY <1>1, <2>2, <2>3, Zenon DEF Exact
<1>. QED BY <1>3, <1>7, <1>8, <1>9, <1>10, Zenon DEF BioInv

\* No buffer leaves the list when one of them goes to the front.
LEMMA FrontListed ==
  ASSUME B!Constants, NEW b \in Bufs, lru \in [1 .. Cardinality(Bufs) -> Bufs], Listed
  PROVE  /\ B!to_front(b) \in [1 .. Cardinality(Bufs) -> Bufs]
         /\ \A c \in Bufs : \E i \in 1 .. Cardinality(Bufs) : B!to_front(b)[i] = c
<1> DEFINE N == Cardinality(Bufs)
           i == CHOOSE k \in DOMAIN lru : lru[k] = b
           l == [j \in 1 .. N |-> IF j = 1 THEN b ELSE IF j <= i THEN lru[j - 1] ELSE lru[j]]
<1>1. N \in Nat
  BY FinitePools, FS_CardinalityType, Zenon
<1>2. DOMAIN lru = 1 .. N /\ B!to_front(b) = l
  BY Zenon DEF B!to_front
<1>3. i \in 1 .. N /\ lru[i] = b
  BY <1>2, Zenon DEF Listed
<1> HIDE DEF N, i
<1>4. l \in [1 .. N -> Bufs]
  <2>1. lru \in [1 .. N -> Bufs]
    BY Zenon DEF N
  <2>2. \A j \in 1 .. N : j # 1 => j - 1 \in 1 .. N
    BY <1>1
  <2>3. \A j \in 1 .. N : (IF j = 1 THEN b ELSE IF j <= i THEN lru[j - 1] ELSE lru[j]) \in Bufs
    BY <2>1, <2>2, Zenon
  <2>. QED BY <2>3, Zenon
<1>5. ASSUME NEW c \in Bufs PROVE \E j \in 1 .. N : l[j] = c
  <2>1. CASE c = b
    <3>1. 1 \in 1 .. N
      BY <1>1, <1>3
    <3>. QED BY <2>1, <3>1, Zenon
  <2>2. CASE c # b
    <3>1. PICK k \in 1 .. N : lru[k] = c
      BY <1>2, Zenon DEF Listed
    <3>2. k # i
      BY <1>3, <2>2, <3>1, Zenon
    <3>3. CASE k < i
      <4>1. k + 1 \in 1 .. N /\ k + 1 # 1 /\ k + 1 <= i /\ (k + 1) - 1 = k
        BY <1>1, <1>3, <3>3
      <4>2. l[k + 1] = lru[(k + 1) - 1]
        BY <4>1, Zenon
      <4>. QED BY <3>1, <4>1, <4>2, Zenon
    <3>4. CASE ~(k < i)
      <4>1. k # 1 /\ ~(k <= i)
        BY <1>1, <1>3, <3>2, <3>4
      <4>2. l[k] = lru[k]
        BY <4>1, Zenon
      <4>. QED BY <3>1, <4>2, Zenon
    <3>. QED BY <3>3, <3>4, Zenon
  <2>. QED BY <2>1, <2>2, Zenon
<1>. QED BY <1>2, <1>4, <1>5, Zenon DEF N

LEMMA UnrefStep ==
  ASSUME B!Constants, BioInv, NEW p \in Procs, B!brelse_unref(p)
  PROVE  BioInv'
<1> DEFINE b == buf[p]
<1>1. /\ b_pc[p] = "released" /\ refcnt' = [refcnt EXCEPT ![b] = @ - 1]
      /\ lru' = IF refcnt[b] = 1 THEN B!to_front(b) ELSE lru
      /\ buf' = [buf EXCEPT ![p] = NULL] /\ B!Move(p, "idle")
      /\ UNCHANGED <<blockno, valid, data, holder, pinned, disk, dirty, latest>>
  BY Zenon DEF B!brelse_unref
<1>2. b \in Bufs /\ b # NULL /\ ~Owns(p)
  BY <1>1, InUse, Zenon DEF Owns
<1> HIDE DEF b
<1>3. /\ b_pc' \in [Procs -> {"idle", "lock", "asleep", "locked", "reading", "hold", "writing", "released"}]
      /\ b_pc'[p] = "idle" /\ \A q \in Procs : q # p => b_pc'[q] = b_pc[q]
  BY <1>1, Zenon DEF B!Move, BioInv, B!TypeOK
<1>4. /\ buf' \in [Procs -> Bufs \cup {NULL}]
      /\ buf'[p] = NULL /\ \A q \in Procs : q # p => buf'[q] = buf[q]
  BY <1>1, Zenon DEF BioInv, B!TypeOK
<1>5. buf[p] = b /\ \A q \in Procs : q # p => buf[q] = buf'[q]
  BY <1>4, Zenon DEF b
<1>6. /\ Cardinality(Users(buf', b)) \in Nat
      /\ Cardinality(Users(buf, b)) = Cardinality(Users(buf', b)) + 1
      /\ \A c \in Bufs : c # b => Users(buf, c) = Users(buf', c)
  <2>1. buf'[p] = NULL
    BY <1>4, Zenon
  <2>. QED BY <1>2, <1>5, <2>1, UserAdded, ZenonT(60)
<1>7. /\ refcnt' \in [Bufs -> Nat] /\ refcnt'[b] = Cardinality(Users(buf', b)) + Pins(pinned, b)
      /\ \A c \in Bufs : c # b => refcnt'[c] = refcnt[c]
  <2>1. refcnt[b] = Cardinality(Users(buf, b)) + Pins(pinned, b)
    BY <1>2, Zenon DEF BioInv, Exact
  <2>2. refcnt[b] - 1 \in Nat /\ refcnt[b] - 1 = Cardinality(Users(buf', b)) + Pins(pinned, b)
    BY <1>6, <2>1, PinsType
  <2>. QED BY <1>1, <1>2, <2>2, Zenon DEF BioInv, B!TypeOK
<1>8. lru' \in [1 .. Cardinality(Bufs) -> Bufs] /\ Listed'
  <2>1. lru \in [1 .. Cardinality(Bufs) -> Bufs] /\ Listed
    <3>1. lru \in [1 .. B!Cardinality(Bufs) -> Bufs] /\ Listed
      BY Zenon DEF BioInv, B!TypeOK
    <3>. QED BY <3>1, SameSize, Zenon
  <2>2. CASE lru' = lru
    BY <2>1, <2>2, Zenon DEF Listed
  <2>3. CASE lru' = B!to_front(b)
    <3>1. /\ lru' \in [1 .. Cardinality(Bufs) -> Bufs]
          /\ \A c \in Bufs : \E i \in 1 .. Cardinality(Bufs) : lru'[i] = c
      BY <1>2, <2>1, <2>3, FrontListed, Zenon
    <3>2. DOMAIN lru' = 1 .. Cardinality(Bufs)
      BY <3>1, Zenon
    <3>. QED BY <3>1, <3>2, Zenon DEF Listed
  <2>. QED BY <1>1, <2>2, <2>3, Zenon
<1>9. B!TypeOK'
  <2>1. lru' \in [1 .. B!Cardinality(Bufs) -> Bufs]
    BY <1>8, SameSize, Zenon
  <2>. QED BY <1>1, <1>3, <1>4, <1>7, <2>1, Zenon DEF BioInv, B!TypeOK
<1>10. \A q \in Procs : Owns(q)' <=> Owns(q)
  BY <1>2, <1>3, Zenon DEF Owns
<1>11. Places'
  <2>1. InCall'
    BY <1>3, <1>4, Zenon DEF BioInv, Places, InCall
  <2>2. HasBlock'
    BY <1>1, <1>4, Zenon DEF BioInv, Places, HasBlock
  <2>3. HasLock'
    BY <1>1, <1>2, <1>4, <1>10, Zenon DEF BioInv, Places, HasLock
  <2>4. LockOwned'
    <3> SUFFICES ASSUME NEW c \in Bufs, holder'[c] # NULL
                 PROVE  Owns(holder[c])' /\ buf'[holder'[c]] = c
      BY Zenon DEF LockOwned
    <3>1. holder'[c] = holder[c]
      BY <1>1, Zenon
    <3>2. Owns(holder[c]) /\ buf[holder[c]] = c /\ holder[c] \in Procs
      BY <3>1, Zenon DEF BioInv, Places, LockOwned, B!TypeOK
    <3>3. holder[c] # p
      BY <1>2, <3>2, Zenon
    <3>. QED BY <1>1, <1>4, <1>10, <3>1, <3>2, <3>3, Zenon
  <2>5. HasData' /\ NoData'
    BY <1>1, <1>3, <1>4, Zenon DEF BioInv, Places, HasData, NoData
  <2>. QED BY <2>1, <2>2, <2>3, <2>4, <2>5, Zenon DEF Places
<1>12. B!NoLostRelease'
  BY <1>1, <1>3, <1>4, Zenon DEF BioInv, B!NoLostRelease
<1>13. Coherent'
  <2>1. \A c \in Bufs : Kept(c) => Kept(c)'
    BY <1>1, Zenon DEF Kept
  <2>. QED BY <1>1, <2>1, Zenon DEF BioInv, Coherent
<1>14. Unique'
  BY <1>1, Zenon DEF BioInv, Unique
<1>15. Exact'
  <2>1. \A c \in Bufs : c # b => refcnt'[c] = Cardinality(Users(buf', c)) + Pins(pinned, c)
    BY <1>6, <1>7, Zenon DEF BioInv, Exact
  <2>. QED BY <1>1, <1>7, <2>1, Zenon DEF Exact
<1>. QED BY <1>8, <1>9, <1>11, <1>12, <1>13, <1>14, <1>15, Zenon DEF BioInv

LEMMA StutterStep ==
  ASSUME BioInv, UNCHANGED B!vars
  PROVE  BioInv'
<1>1. UNCHANGED <<lru, blockno, valid, refcnt, data, holder, pinned, disk, b_pc, buf, dirty, latest>>
  BY Zenon DEF B!vars, B!cache
<1>2. B!TypeOK' /\ B!NoLostRelease'
  BY <1>1, Zenon DEF BioInv, B!TypeOK, B!NoLostRelease
<1>3. InCall' /\ HasBlock' /\ HasData' /\ NoData'
  BY <1>1, Zenon DEF BioInv, Places, InCall, HasBlock, HasData, NoData
<1>4. HasLock' /\ LockOwned'
  BY <1>1, Zenon DEF BioInv, Places, HasLock, LockOwned, Owns
<1>. QED BY <1>1, <1>2, <1>3, <1>4, ContentsKept, Zenon DEF BioInv, Places

LEMMA NextBio ==
  ASSUME B!Constants, BioInv, [B!Next]_(B!vars)
  PROVE  BioInv'
<1>1. ASSUME NEW p \in Procs,
             \/ \E blk \in Blocks : B!bget_hit(p, blk) \/ B!bget_recycle(p, blk)
             \/ B!acquiresleep(p) \/ B!acquiresleep_sleep(p)
             \/ B!bread_valid(p) \/ B!bread_read(p) \/ B!bread_done(p)
             \/ \E v \in Values : B!change(p, v)
             \/ B!bwrite(p) \/ B!bwrite_done(p) \/ B!bpin(p) \/ B!bunpin(p)
             \/ B!brelse(p) \/ B!brelse_unref(p)
      PROVE  BioInv'
  BY <1>1, HitStep, RecycleStep, AcquireStep, MoveSteps, ReadStep, ChangeStep, WriteStep,
     PinStep, UnpinStep, ReleaseStep, UnrefStep, Zenon
<1>. QED BY <1>1, StutterStep, Zenon DEF B!Next

LEMMA InitBio ==
  ASSUME B!Constants, B!Init
  PROVE  BioInv
<1>1. 0 \in Nat /\ FALSE \in BOOLEAN
  OBVIOUS
<1>2. lru \in [1 .. Cardinality(Bufs) -> Bufs] /\ Listed
  <2>1. lru \in Surjection(1 .. Cardinality(Bufs), Bufs)
    <3>1. lru \in B!Surjection(1 .. B!Cardinality(Bufs), Bufs)
      BY Zenon DEF B!Init, B!Bijection
    <3>. QED BY <3>1, SameSize, Zenon DEF B!Surjection, Surjection
  <2>. QED BY <2>1, Zenon DEF Surjection, Listed
<1>3. B!TypeOK
  <2>1. lru \in [1 .. B!Cardinality(Bufs) -> Bufs]
    BY <1>2, SameSize, Zenon
  <2>. QED BY <1>1, <2>1, Zenon DEF B!Init, B!TypeOK
<1>4. InCall /\ HasBlock /\ HasData /\ NoData /\ B!NoLostRelease
  BY Zenon DEF B!Init, InCall, HasBlock, HasData, NoData, B!NoLostRelease
<1>5. HasLock /\ LockOwned
  BY Zenon DEF B!Init, HasLock, LockOwned, Owns
<1>6. Coherent /\ Unique
  BY Zenon DEF B!Init, Coherent, Unique
<1>7. Exact
  <2> SUFFICES ASSUME NEW b \in Bufs
               PROVE  refcnt[b] = Cardinality(Users(buf, b)) + Pins(pinned, b)
    BY Zenon DEF Exact
  <2>1. Users(buf, b) = {} /\ pinned = {} /\ refcnt[b] = 0
    BY Zenon DEF B!Init, Users, B!Constants
  <2>2. Cardinality(Users(buf, b)) = 0
    BY <2>1, FS_EmptySet, Zenon
  <2>3. Pins(pinned, b) = 0
    BY <2>1, Zenon DEF Pins
  <2>. QED BY <2>1, <2>2, <2>3
<1>. QED BY <1>2, <1>3, <1>4, <1>5, <1>6, <1>7, Zenon DEF BioInv, Places

--------------------------------------------------------------------------------
(* Theorems *)

\* The invariant of the buffer cache.
THEOREM BioInvariant ==
  ASSUME B!Constants
  PROVE  B!Spec => []BioInv
<1>1. B!Init => BioInv
  BY InitBio, Zenon
<1>2. BioInv /\ [B!Next]_(B!vars) => BioInv'
  BY NextBio, Zenon
<1>. QED BY <1>1, <1>2, PTL DEF B!Spec

\* Whoever has a buffer from bread sees what was last put into its block, unless that was
\* released without bwrite or log_write and its buffer recycled: then what the disk has.
THEOREM BioCoherent ==
  ASSUME B!Constants
  PROVE  B!Spec => []B!CacheCoherent
<1>1. BioInv => B!CacheCoherent
  <2> SUFFICES ASSUME BioInv, NEW p \in Procs, b_pc[p] \in {"hold", "writing"}
               PROVE  data[buf[p]] = latest[blockno[buf[p]]] /\ holder[buf[p]] = p
    BY Zenon DEF B!CacheCoherent
  <2>1. data[buf[p]] = latest[blockno[buf[p]]]
    BY HoldFacts, Zenon
  <2>2. Owns(p)
    BY Zenon DEF Owns
  <2>. QED BY <2>1, <2>2, Zenon DEF BioInv, Places, HasLock
<1>. QED BY <1>1, BioInvariant, PTL

\* A block is in at most one buffer, and b->refcnt counts its users and the log's pin.
THEOREM BioRefsExact ==
  ASSUME B!Constants
  PROVE  B!Spec => []B!BufferRefsExact
<1>1. BioInv => B!BufferRefsExact
  BY SameSize, Zenon DEF BioInv, Unique, Exact, Users, Pins, B!BufferRefsExact
<1>. QED BY <1>1, BioInvariant, PTL

\* A process sleeps in acquiresleep only while another one has the lock.
THEOREM BioNoLostRelease ==
  ASSUME B!Constants
  PROVE  B!Spec => []B!NoLostRelease
<1>1. BioInv => B!NoLostRelease
  BY Zenon DEF BioInv
<1>. QED BY <1>1, BioInvariant, PTL

\* bget panics only when pins and users together are as many as there are buffers.
THEOREM BioNoPanic ==
  ASSUME B!Constants
  PROVE  B!Spec => []B!NoBgetPanic
<1> DEFINE Busy == {p \in Procs : buf[p] # NULL}
           Taken == {buf[p] : p \in Busy}
<1>1. ASSUME BioInv, Cardinality(pinned) + Cardinality(Busy) < Cardinality(Bufs),
             \A i \in DOMAIN lru : ~B!unused(lru[i])
      PROVE  FALSE
  <2>1. IsFiniteSet(Bufs) /\ IsFiniteSet(Procs)
    BY FinitePools, Zenon
  <2>2. \A b \in Bufs : b \in pinned \cup Taken
    <3> SUFFICES ASSUME NEW b \in Bufs, b \notin pinned PROVE b \in Taken
      BY Zenon
    <3>1. refcnt[b] # 0
      BY <1>1, Zenon DEF BioInv, Listed, B!unused
    <3>2. refcnt[b] = Cardinality(Users(buf, b)) + Pins(pinned, b) /\ Pins(pinned, b) = 0
      BY <1>1, PinsType, Zenon DEF BioInv, Exact
    <3>3. Cardinality(Users(buf, b)) # 0
      BY <3>1, <3>2, CountType
    <3>4. Users(buf, b) # {}
      BY <3>3, FS_EmptySet, Zenon
    <3>5. PICK p \in Procs : buf[p] = b
      BY <3>4, Zenon DEF Users
    <3>6. b # NULL
      BY Zenon DEF B!Constants
    <3>. QED BY <3>5, <3>6, Zenon
  <2>3. IsFiniteSet(Busy) /\ Cardinality(Busy) \in Nat
    <3>1. Busy \subseteq Procs
      BY Zenon
    <3>. QED BY <2>1, <3>1, FS_Subset, FS_CardinalityType, Zenon
  <2>4. IsFiniteSet(pinned) /\ Cardinality(pinned) \in Nat
    <3>1. pinned \subseteq Bufs
      BY <1>1, Zenon DEF BioInv, B!TypeOK
    <3>. QED BY <2>1, <3>1, FS_Subset, FS_CardinalityType, Zenon
  <2>5. IsFiniteSet(Taken) /\ Cardinality(Taken) <= Cardinality(Busy) /\ Cardinality(Taken) \in Nat
    <3> DEFINE f == [p \in Busy |-> buf[p]]
    <3>1. f \in Surjection(Busy, Taken)
      <4>1. f \in [Busy -> Taken]
        BY Zenon
      <4>2. \A t \in Taken : \E p \in Busy : f[p] = t
        BY Zenon
      <4>. QED BY <4>1, <4>2, Zenon DEF Surjection
    <3> HIDE DEF f, Busy, Taken
    <3>. QED BY <2>3, <3>1, FS_Surjection, FS_CardinalityType, Zenon
  <2> HIDE DEF Busy, Taken
  <2>6. /\ IsFiniteSet(pinned \cup Taken)
        /\ Cardinality(pinned \cup Taken) <= Cardinality(pinned) + Cardinality(Taken)
        /\ Cardinality(pinned \cup Taken) \in Nat
    <3>1. /\ IsFiniteSet(pinned \cup Taken)
          /\ Cardinality(pinned \cup Taken) =
               Cardinality(pinned) + Cardinality(Taken) - Cardinality(pinned \cap Taken)
      BY <2>4, <2>5, FS_Union, Zenon
    <3>2. Cardinality(pinned \cap Taken) \in Nat
      <4>1. pinned \cap Taken \subseteq pinned
        BY Zenon
      <4>. QED BY <2>4, <4>1, FS_Subset, FS_CardinalityType, Zenon
    <3>3. Cardinality(pinned \cup Taken) \in Nat
      BY <3>1, FS_CardinalityType, Zenon
    <3>. QED BY <2>4, <2>5, <3>1, <3>2, <3>3
  <2>7. Cardinality(Bufs) <= Cardinality(pinned \cup Taken) /\ Cardinality(Bufs) \in Nat
    <3>1. Bufs \subseteq pinned \cup Taken
      BY <2>2, Zenon
    <3>. QED BY <2>1, <2>6, <3>1, FS_Subset, FS_CardinalityType, Zenon
  <2>. QED BY <1>1, <2>3, <2>4, <2>5, <2>6, <2>7
<1>2. BioInv => B!NoBgetPanic
  <2>1. /\ B!Cardinality(pinned) = Cardinality(pinned) /\ B!Cardinality(Busy) = Cardinality(Busy)
        /\ B!Cardinality(Bufs) = Cardinality(Bufs)
    BY SameSize, Zenon
  <2>. QED BY <1>1, <2>1, Zenon DEF B!NoBgetPanic
<1>. QED BY <1>2, BioInvariant, PTL

================================================================================
