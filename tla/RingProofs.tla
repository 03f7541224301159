-------------------------------- MODULE RingProofs -------------------------------
(***************************************************************************)
(* Proofs about the rings of the kernel, for every size, every width of    *)
(* the counters that the size divides, and any processes: Pipe implements  *)
(* Fifo, Console implements LineQueue, and nobody sleeps at either who has *)
(* something to do.                                                        *)
(***************************************************************************)
EXTENDS Pipe, SequenceTheorems, TLAPS

\* The ring never holds more than PIPESIZE bytes, and only a write in progress has bytes
\* left to write.
IInv ==
  /\ TypeOK
  /\ used <= PIPESIZE
  /\ \A p \in Procs : todo[p] # <<>> => p \in Writers /\ pc[p] \in {"run", "asleep"}

--------------------------------------------------------------------------------
(* Counters that wrap, and the slots of the ring. *)

\* Remainders, by a name that hides them from the provers.
Mod(a, n) == a % n

LEMMA ModWraps ==
  ASSUME NEW n \in Nat \ {0}, NEW a \in Int
  PROVE  /\ Mod(a, n) \in 0 .. n - 1
         /\ 0 <= a /\ a < n => Mod(a, n) = a
         /\ n <= a /\ a < 2 * n => Mod(a, n) = a - n
         /\ -n <= a /\ a < 0 => Mod(a, n) = a + n
BY DEF Mod

LEMMA ModUnique ==
  ASSUME NEW n \in Nat \ {0}, NEW q \in Int, NEW r \in 0 .. n - 1
  PROVE  Mod(n * q + r, n) = r
BY DEF Mod

LEMMA DivMod ==
  ASSUME NEW n \in Nat \ {0}, NEW a \in Int
  PROVE  (a \div n) \in Int /\ a = n * (a \div n) + Mod(a, n)
BY DEF Mod

\* Multiples of the modulus do not matter.
LEMMA ModMultiple ==
  ASSUME NEW n \in Nat \ {0}, NEW a \in Int, NEW m \in Int, Mod(m, n) = 0
  PROVE  Mod(a + m, n) = Mod(a, n)
<1> DEFINE q == a \div n
           c == m \div n
           r == Mod(a, n)
<1>1. /\ q \in Int /\ c \in Int /\ r \in 0 .. n - 1
      /\ a = n * q + r /\ m = n * c + 0
  <2>1. q \in Int /\ c \in Int /\ a = n * q + r /\ m = n * c + 0
    BY DivMod, Zenon
  <2>2. r \in 0 .. n - 1
    BY ModWraps, Zenon
  <2>. QED BY <2>1, <2>2, Zenon
<1> HIDE DEF q, c, r
<1>2. a + m = n * (q + c) + r /\ q + c \in Int
  BY <1>1
<1>3. Mod(n * (q + c) + r, n) = r
  BY <1>1, <1>2, ModUnique, Zenon
<1>. QED BY <1>2, <1>3, Zenon DEF r

\* Numbers less than the modulus apart have different remainders.
LEMMA ModDiffers ==
  ASSUME NEW n \in Nat \ {0}, NEW a \in Int, NEW i \in 0 .. n - 1, NEW j \in 0 .. n - 1,
         Mod(a + i, n) = Mod(a + j, n)
  PROVE  i = j
<1> DEFINE r == Mod(a, n)
<1>1. r \in 0 .. n - 1 /\ Mod(r, n) = r
  BY ModWraps
<1>2. Mod(a - r, n) = 0
  <2> DEFINE q == a \div n
  <2>1. q \in Int /\ a = n * q + r
    BY DivMod, Zenon
  <2>. HIDE DEF q, r
  <2>2. a - r = n * q + 0 /\ 0 \in 0 .. n - 1
    BY <1>1, <2>1
  <2>3. Mod(n * q + 0, n) = 0
    BY <2>1, <2>2, ModUnique, Zenon
  <2>. QED BY <2>2, <2>3, Zenon
<1> HIDE DEF r
<1>3. \A k \in 0 .. n - 1 : Mod(a + k, n) = IF r + k < n THEN r + k ELSE r + k - n
  <2> SUFFICES ASSUME NEW k \in 0 .. n - 1
               PROVE  Mod(a + k, n) = IF r + k < n THEN r + k ELSE r + k - n
    OBVIOUS
  <2>1. a + k = (r + k) + (a - r) /\ r + k \in Int /\ a - r \in Int
    BY <1>1
  <2>2. Mod((r + k) + (a - r), n) = Mod(r + k, n)
    BY <1>2, <2>1, ModMultiple, Zenon
  <2>3. Mod(r + k, n) = IF r + k < n THEN r + k ELSE r + k - n
    BY <1>1, <2>1, ModWraps
  <2>. QED BY <2>1, <2>2, <2>3
<1>. QED BY <1>1, <1>3

\* One of two counters, below the modulus, moves up or down by less than a turn.
LEMMA ModMoves ==
  ASSUME NEW n \in Nat \ {0}, NEW a \in 0 .. n - 1, NEW k \in 0 .. n - 1
  PROVE  /\ Mod(a + k, n) = IF a + k < n THEN a + k ELSE a + k - n
         /\ Mod(a - k, n) = IF a >= k THEN a - k ELSE a - k + n
<1>1. a + k \in Int /\ a - k \in Int
  OBVIOUS
<1>. QED BY <1>1, ModWraps

\* What the lemmas about the ring need.
Sizes ==
  PIPESIZE \in Nat \ {0} /\ UINT \in Nat /\ UINT > PIPESIZE /\ UINT % PIPESIZE = 0

LEMMA SizesHold ==
  ASSUME Constants
  PROVE  Sizes
BY DEF Constants, Sizes

\* The counters wrap at a multiple of the ring's size, so wrapping does not move a slot.
LEMMA SlotWraps ==
  ASSUME Sizes, NEW a \in 0 .. UINT - 1, NEW k \in 0 .. UINT - 1, NEW i \in Int
  PROVE  Mod(Mod(a + k, UINT) + i, PIPESIZE) = Mod(a + k + i, PIPESIZE)
<1>1. PIPESIZE \in Nat \ {0} /\ UINT \in Nat \ {0} /\ Mod(UINT, PIPESIZE) = 0
  BY DEF Sizes, Mod
<1>2. Mod(a + k, UINT) = IF a + k < UINT THEN a + k ELSE a + k - UINT
  BY <1>1, ModMoves
<1>3. CASE a + k < UINT
  BY <1>2, <1>3
<1>4. CASE ~(a + k < UINT)
  <2> DEFINE x == a + k - UINT + i
  <2>1. a + k + i = x + UINT /\ x \in Int /\ Mod(a + k, UINT) + i = x
    BY <1>1, <1>2, <1>4
  <2>. HIDE DEF x
  <2>2. Mod(x + UINT, PIPESIZE) = Mod(x, PIPESIZE)
    BY <1>1, <2>1, ModMultiple
  <2>. QED BY <2>1, <2>2
<1>. QED BY <1>3, <1>4

\* How far one counter is ahead of the other.
LEMMA Distance ==
  ASSUME Sizes, NEW r \in 0 .. UINT - 1, NEW w \in 0 .. UINT - 1
  PROVE  /\ Mod(w - r, UINT) \in 0 .. UINT - 1
         /\ Mod(w - r, UINT) = IF w >= r THEN w - r ELSE w - r + UINT
         /\ w = Mod(r + Mod(w - r, UINT), UINT)
<1> DEFINE u == Mod(w - r, UINT)
<1>1. UINT \in Nat \ {0}
  BY DEF Sizes
<1>2. u = IF w >= r THEN w - r ELSE w - r + UINT
  BY <1>1, ModMoves, Zenon
<1> HIDE DEF u
<1>3. u \in 0 .. UINT - 1
  BY <1>1, <1>2
<1>4. w = Mod(r + u, UINT)
  <2>1. Mod(r + u, UINT) = IF r + u < UINT THEN r + u ELSE r + u - UINT
    BY <1>1, <1>3, ModMoves, Zenon
  <2>. QED BY <1>1, <1>2, <2>1
<1>. QED BY <1>2, <1>3, <1>4, Zenon DEF u

\* How the distance changes when one of the counters moves.
LEMMA DistanceUp ==
  ASSUME Sizes, NEW r \in 0 .. UINT - 1, NEW w \in 0 .. UINT - 1,
         NEW k \in 0 .. UINT - 1, Mod(w - r, UINT) + k < UINT
  PROVE  Mod(Mod(w + k, UINT) - r, UINT) = Mod(w - r, UINT) + k
<1> DEFINE u == Mod(w - r, UINT)
           v == Mod(w + k, UINT)
<1>1. UINT \in Nat \ {0} /\ u + k < UINT
  BY DEF Sizes
<1>2. u = IF w >= r THEN w - r ELSE w - r + UINT
  BY Distance, Zenon
<1>3. v = IF w + k < UINT THEN w + k ELSE w + k - UINT
  BY <1>1, ModMoves, Zenon
<1>. HIDE DEF u, v
<1>4. v \in 0 .. UINT - 1
  BY <1>1, <1>3
<1>5. Mod(v - r, UINT) = IF v >= r THEN v - r ELSE v - r + UINT
  BY <1>1, <1>4, ModMoves, ZenonT(60)
<1>6. Mod(v - r, UINT) = u + k
  BY <1>1, <1>2, <1>3, <1>5
<1>. QED BY <1>6, Zenon DEF u, v

LEMMA DistanceDown ==
  ASSUME Sizes, NEW r \in 0 .. UINT - 1, NEW w \in 0 .. UINT - 1,
         NEW k \in 0 .. UINT - 1, k <= Mod(w - r, UINT)
  PROVE  Mod(w - Mod(r + k, UINT), UINT) = Mod(w - r, UINT) - k
<1> DEFINE u == Mod(w - r, UINT)
           v == Mod(r + k, UINT)
<1>1. UINT \in Nat \ {0} /\ k <= u
  BY DEF Sizes
<1>2. u = IF w >= r THEN w - r ELSE w - r + UINT
  BY Distance, Zenon
<1>3. v = IF r + k < UINT THEN r + k ELSE r + k - UINT
  BY <1>1, ModMoves, ZenonT(60)
<1>. HIDE DEF u, v
<1>4. v \in 0 .. UINT - 1
  BY <1>1, <1>3
<1>5. Mod(w - v, UINT) = IF w >= v THEN w - v ELSE w - v + UINT
  BY <1>4, Distance, Zenon
<1>6. Mod(w - v, UINT) = u - k
  BY <1>1, <1>2, <1>3, <1>5
<1>. QED BY <1>6, Zenon DEF u, v

--------------------------------------------------------------------------------
(* What a read finds and what a write leaves in the ring. *)

Ring(d, r, n) == [j \in 1 .. n |-> d[Mod(r + j - 1, PIPESIZE)]]

LEMMA RingSeq ==
  ASSUME Sizes, NEW d \in [Slots -> Bytes], NEW r \in 0 .. UINT - 1, NEW n \in Nat
  PROVE  /\ Ring(d, r, n) \in Seq(Bytes)
         /\ Len(Ring(d, r, n)) = n
         /\ \A j \in 1 .. n : Ring(d, r, n)[j] = d[Mod(r + j - 1, PIPESIZE)]
<1>1. PIPESIZE \in Nat \ {0} /\ r \in Nat
  BY DEF Sizes
<1>2. \A j \in 1 .. n : Mod(r + j - 1, PIPESIZE) \in Slots
  <2> SUFFICES ASSUME NEW j \in 1 .. n
               PROVE  Mod(r + j - 1, PIPESIZE) \in Slots
    OBVIOUS
  <2>1. r + j - 1 \in Int
    BY <1>1
  <2>. QED BY <1>1, <2>1, ModWraps, Zenon DEF Slots
<1>3. Ring(d, r, n) \in [1 .. n -> Bytes]
  BY <1>2, Zenon DEF Ring
<1>4. Ring(d, r, n) \in Seq(Bytes)
  BY <1>3, SeqDef, Zenon
<1>5. 1 .. n = 1 .. Len(Ring(d, r, n)) /\ Len(Ring(d, r, n)) \in Nat
  BY <1>3, <1>4, LenProperties, Zenon
<1>6. Len(Ring(d, r, n)) = n
  BY <1>5
<1>. QED BY <1>4, <1>6, Zenon DEF Ring

\* data after the first k bytes of s were put at w.
Filled(d, w, s, k) ==
  [j \in Slots |->
     LET n == CHOOSE m \in 1 .. PIPESIZE : Mod(w + m - 1, PIPESIZE) = j
     IN  IF n <= k THEN s[n] ELSE d[j]]

LEMMA FilledAt ==
  ASSUME Sizes, NEW d, NEW w \in 0 .. UINT - 1, NEW s, NEW k \in Nat,
         NEW m \in 1 .. PIPESIZE
  PROVE  Filled(d, w, s, k)[Mod(w + m - 1, PIPESIZE)] =
           IF m <= k THEN s[m] ELSE d[Mod(w + m - 1, PIPESIZE)]
<1> DEFINE j == Mod(w + m - 1, PIPESIZE)
           c == CHOOSE i \in 1 .. PIPESIZE : Mod(w + i - 1, PIPESIZE) = j
<1>1. PIPESIZE \in Nat \ {0} /\ w \in Int /\ w + m - 1 \in Int
  BY DEF Sizes
<1>2. j \in Slots
  BY <1>1, ModWraps, Zenon DEF Slots
<1>3. c \in 1 .. PIPESIZE /\ Mod(w + c - 1, PIPESIZE) = j
  BY Zenon
<1>4. Filled(d, w, s, k)[j] = IF c <= k THEN s[c] ELSE d[j]
  BY <1>2, Zenon DEF Filled
<1> HIDE DEF c
<1>5. c = m
  <2>1. /\ w + c - 1 = w + (c - 1) /\ c - 1 \in 0 .. PIPESIZE - 1
        /\ w + m - 1 = w + (m - 1) /\ m - 1 \in 0 .. PIPESIZE - 1
    BY <1>1, <1>3
  <2>2. Mod(w + (c - 1), PIPESIZE) = Mod(w + (m - 1), PIPESIZE)
    BY <1>3, <2>1, Zenon
  <2>3. c - 1 = m - 1
    BY <1>1, <2>1, <2>2, ModDiffers, Zenon
  <2>. QED BY <1>1, <1>3, <2>3
<1>. QED BY <1>4, <1>5, Zenon

LEMMA FilledType ==
  ASSUME Sizes, NEW d \in [Slots -> Bytes], NEW w \in 0 .. UINT - 1,
         NEW s \in Seq(Bytes), NEW k \in 0 .. Len(s)
  PROVE  Filled(d, w, s, k) \in [Slots -> Bytes]
<1> SUFFICES ASSUME NEW j \in Slots
             PROVE  Filled(d, w, s, k)[j] \in Bytes
  BY Zenon DEF Filled
<1> DEFINE a == Mod(w, PIPESIZE)
           m == IF j >= a THEN j - a + 1 ELSE j - a + PIPESIZE + 1
<1>1. PIPESIZE \in Nat \ {0} /\ w \in Int /\ j \in 0 .. PIPESIZE - 1
  BY DEF Sizes, Slots
<1>2. a \in 0 .. PIPESIZE - 1
  BY <1>1, ModWraps, Zenon
<1>3. Mod(w - a, PIPESIZE) = 0
  <2> DEFINE q == w \div PIPESIZE
  <2>1. q \in Int /\ w = PIPESIZE * q + a
    BY <1>1, DivMod, Zenon
  <2>. HIDE DEF q, a
  <2>2. w - a = PIPESIZE * q + 0 /\ 0 \in 0 .. PIPESIZE - 1
    BY <1>1, <1>2, <2>1
  <2>3. Mod(PIPESIZE * q + 0, PIPESIZE) = 0
    BY <1>1, <2>1, <2>2, ModUnique, Zenon
  <2>. QED BY <2>2, <2>3, Zenon
<1> HIDE DEF a
<1>4. m \in 1 .. PIPESIZE
  BY <1>1, <1>2
<1>5. Mod(w + m - 1, PIPESIZE) = j
  <2>1. /\ w + m - 1 = (a + m - 1) + (w - a)
        /\ a + m - 1 \in Int /\ w - a \in Int
    BY <1>1, <1>2, <1>4
  <2>2. Mod((a + m - 1) + (w - a), PIPESIZE) = Mod(a + m - 1, PIPESIZE)
    BY <1>1, <1>3, <2>1, ModMultiple, ZenonT(60)
  <2>3. a + m - 1 = IF j >= a THEN j ELSE j + PIPESIZE
    BY <1>1, <1>2
  <2>. HIDE DEF m
  <2>4. Mod(a + m - 1, PIPESIZE) = j
    <3>1. j \in Int /\ j + PIPESIZE \in Int
      BY <1>1
    <3>2. Mod(j, PIPESIZE) = j /\ Mod(j + PIPESIZE, PIPESIZE) = j
      BY <1>1, <3>1, ModWraps
    <3>. QED BY <2>3, <3>2, Zenon
  <2>. QED BY <2>1, <2>2, <2>4
<1> HIDE DEF m
<1>6. Len(s) \in Nat /\ k \in Nat
  OBVIOUS
<1>7. Filled(d, w, s, k)[j] = IF m <= k THEN s[m] ELSE d[j]
  BY <1>4, <1>5, <1>6, FilledAt
<1>8. m <= k => m \in 1 .. Len(s)
  BY <1>4, <1>6
<1>. QED BY <1>7, <1>8, ElementOfSeq, Zenon

\* A write puts its bytes behind those that are there.
LEMMA PutRing ==
  ASSUME Sizes, NEW d \in [Slots -> Bytes], NEW r \in 0 .. UINT - 1,
         NEW w \in 0 .. UINT - 1, NEW u \in 0 .. PIPESIZE, u = Mod(w - r, UINT),
         NEW s \in Seq(Bytes), NEW k \in 0 .. Len(s), u + k <= PIPESIZE
  PROVE  Ring(Filled(d, w, s, k), r, u + k) = Ring(d, r, u) \o SubSeq(s, 1, k)
<1> DEFINE e == Filled(d, w, s, k)
           t == SubSeq(s, 1, k)
<1>1. PIPESIZE \in Nat \ {0} /\ UINT \in Nat /\ UINT > PIPESIZE /\ r \in Int /\ w \in Int
      /\ u \in Nat /\ k \in Nat /\ u + k \in Nat /\ Len(s) \in Nat
  BY DEF Sizes
<1>2. e \in [Slots -> Bytes]
  BY FilledType, Zenon
<1>3. /\ t \in Seq(Bytes) /\ Len(t) = k
      /\ \A i \in 1 .. k : t[i] = s[i]
  BY <1>1
<1>4. w = Mod(r + u, UINT) /\ u \in 0 .. UINT - 1
  BY Distance, Zenon
<1>5. ASSUME NEW m \in 1 .. PIPESIZE
      PROVE  e[Mod(r + u + (m - 1), PIPESIZE)] =
               IF m <= k THEN s[m] ELSE d[Mod(r + u + (m - 1), PIPESIZE)]
  <2>1. m - 1 \in Int /\ w + m - 1 = w + (m - 1)
    BY <1>1
  <2>2. Mod(w + (m - 1), PIPESIZE) = Mod(r + u + (m - 1), PIPESIZE)
    BY <1>4, <2>1, SlotWraps
  <2>3. e[Mod(w + m - 1, PIPESIZE)] =
          IF m <= k THEN s[m] ELSE d[Mod(w + m - 1, PIPESIZE)]
    <3>1. k \in Nat
      BY <1>1, Zenon
    <3>. QED BY <3>1, FilledAt, SMTT(60)
  <2>. QED BY <2>1, <2>2, <2>3, Zenon
<1> DEFINE n == u + k
           x == Ring(d, r, u)
<1> HIDE DEF e, t, n, x
<1>6. n \in Nat
  BY <1>1 DEF n
<1>13. /\ Ring(e, r, n) \in Seq(Bytes) /\ Len(Ring(e, r, n)) = n
      /\ \A j \in 1 .. n : Ring(e, r, n)[j] = e[Mod(r + j - 1, PIPESIZE)]
  BY <1>2, <1>6, RingSeq, Zenon
<1>7. /\ x \in Seq(Bytes) /\ Len(x) = u
      /\ \A j \in 1 .. u : x[j] = d[Mod(r + j - 1, PIPESIZE)]
  BY <1>1, RingSeq, ZenonT(60) DEF x
<1>8. ASSUME NEW j \in 1 .. u
      PROVE  e[Mod(r + j - 1, PIPESIZE)] = d[Mod(r + j - 1, PIPESIZE)]
  <2> DEFINE m == PIPESIZE - u + j
  <2>1. m \in 1 .. PIPESIZE /\ ~(m <= k)
    BY <1>1, SMTT(60)
  <2>2. r + u + (m - 1) = (r + j - 1) + PIPESIZE /\ r + j - 1 \in Int
    BY <1>1, SMTT(30)
  <2>3. Mod(PIPESIZE, PIPESIZE) = 0
    BY <1>1, ModWraps
  <2>4. Mod(r + u + (m - 1), PIPESIZE) = Mod(r + j - 1, PIPESIZE)
    BY <1>1, <2>2, <2>3, ModMultiple
  <2>. HIDE DEF m
  <2>. QED BY <1>5, <2>1, <2>4, Zenon
<1>9. ASSUME NEW j \in 1 .. n, ~(j <= u)
      PROVE  e[Mod(r + j - 1, PIPESIZE)] = s[j - u] /\ j - u \in 1 .. k
  <2> DEFINE m == j - u
  <2>1. m \in 1 .. PIPESIZE /\ m <= k /\ m \in 1 .. k
    BY <1>1, <1>9 DEF n
  <2>2. r + u + (m - 1) = r + j - 1
    BY <1>1, <1>6, SMTT(60)
  <2>. QED BY <1>5, <2>1, <2>2, Zenon
<1>10. /\ x \o t \in Seq(Bytes) /\ Len(x \o t) = n
       /\ \A j \in 1 .. n : (x \o t)[j] = IF j <= u THEN x[j] ELSE t[j - u]
  <2>1. /\ x \o t \in Seq(Bytes) /\ Len(x \o t) = Len(x) + Len(t)
        /\ \A j \in 1 .. Len(x) + Len(t) :
             (x \o t)[j] = IF j <= Len(x) THEN x[j] ELSE t[j - Len(x)]
    BY <1>3, <1>7, ConcatProperties, Zenon
  <2>. QED BY <1>3, <1>7, <2>1, Zenon DEF n
<1>11. ASSUME NEW j \in 1 .. n
       PROVE  Ring(e, r, n)[j] = (x \o t)[j]
  <2>1. CASE j <= u
    <3>1. j \in 1 .. u
      BY <1>1, <2>1
    <3>2. (x \o t)[j] = x[j]
      BY <1>10, <2>1, Zenon
    <3>. QED BY <1>7, <1>13, <1>8, <3>1, <3>2, Zenon
  <2>2. CASE ~(j <= u)
    <3>1. (x \o t)[j] = t[j - u]
      BY <1>10, <2>2, Zenon
    <3>2. t[j - u] = s[j - u]
      BY <1>3, <1>9, <2>2, Zenon
    <3>. QED BY <1>13, <1>9, <2>2, <3>1, <3>2, Zenon
  <2>. QED BY <2>1, <2>2, Zenon
<1>12. Ring(e, r, n) = x \o t
  BY <1>13, <1>10, <1>11, SeqEqual, Zenon
<1>. QED BY <1>12, Zenon DEF e, t, n, x

\* A read takes the oldest bytes and leaves the others.
LEMMA GetRing ==
  ASSUME Sizes, NEW d \in [Slots -> Bytes], NEW r \in 0 .. UINT - 1,
         NEW u \in 0 .. PIPESIZE, NEW k \in 0 .. u
  PROVE  /\ Ring(d, r, k) = SubSeq(Ring(d, r, u), 1, k)
         /\ Ring(d, Mod(r + k, UINT), u - k) = SubSeq(Ring(d, r, u), k + 1, u)
<1> DEFINE v == Mod(r + k, UINT)
           t == Ring(d, r, u)
<1>1. PIPESIZE \in Nat \ {0} /\ UINT \in Nat \ {0} /\ UINT > PIPESIZE /\ r \in Int
      /\ u \in Nat /\ k \in Nat /\ u - k \in Nat /\ k \in 0 .. UINT - 1 /\ r + k \in Int
  BY DEF Sizes
<1>2. v \in 0 .. UINT - 1
  BY <1>1, ModWraps, Zenon
<1>3. /\ t \in Seq(Bytes) /\ Len(t) = u
      /\ \A j \in 1 .. u : t[j] = d[Mod(r + j - 1, PIPESIZE)]
  BY <1>1, RingSeq, Zenon
<1>4. /\ Ring(d, r, k) \in Seq(Bytes) /\ Len(Ring(d, r, k)) = k
      /\ \A j \in 1 .. k : Ring(d, r, k)[j] = d[Mod(r + j - 1, PIPESIZE)]
  BY <1>1, RingSeq, Zenon
<1>5. /\ Ring(d, v, u - k) \in Seq(Bytes) /\ Len(Ring(d, v, u - k)) = u - k
      /\ \A j \in 1 .. u - k : Ring(d, v, u - k)[j] = d[Mod(v + j - 1, PIPESIZE)]
  BY <1>1, <1>2, RingSeq, ZenonT(60)
<1>6. ASSUME NEW j \in 1 .. u - k
      PROVE  Mod(v + j - 1, PIPESIZE) = Mod(r + (k + j) - 1, PIPESIZE) /\ k + j \in 1 .. u
  <2>1. j - 1 \in Int /\ v + j - 1 = v + (j - 1) /\ r + (k + j) - 1 = r + k + (j - 1)
        /\ k + j \in 1 .. u
    BY <1>1, <1>2
  <2>2. Mod(v + (j - 1), PIPESIZE) = Mod(r + k + (j - 1), PIPESIZE)
    BY <1>1, <2>1, SlotWraps, Zenon
  <2>. QED BY <2>1, <2>2, Zenon
<1> HIDE DEF v, t
<1>7. /\ SubSeq(t, 1, k) \in Seq(Bytes) /\ Len(SubSeq(t, 1, k)) = k
      /\ \A j \in 1 .. k : SubSeq(t, 1, k)[j] = t[j] /\ j \in 1 .. u
  BY <1>1, <1>3
<1>8. /\ SubSeq(t, k + 1, u) \in Seq(Bytes) /\ Len(SubSeq(t, k + 1, u)) = u - k
      /\ \A j \in 1 .. u - k : SubSeq(t, k + 1, u)[j] = t[k + j]
  <2>1. \A i \in k + 1 .. u : t[i] \in Bytes
    BY <1>1, <1>3
  <2>2. /\ SubSeq(t, k + 1, u) \in Seq(Bytes)
        /\ Len(SubSeq(t, k + 1, u)) = IF k + 1 <= u THEN u - (k + 1) + 1 ELSE 0
        /\ \A j \in 1 .. u - (k + 1) + 1 : SubSeq(t, k + 1, u)[j] = t[k + 1 + j - 1]
    <3> DEFINE f == k + 1
    <3>1. f \in Int /\ u \in Int /\ \A i \in f .. u : t[i] \in Bytes
      BY <1>1, <2>1
    <3>. HIDE DEF f
    <3>2. /\ SubSeq(t, f, u) \in Seq(Bytes)
          /\ Len(SubSeq(t, f, u)) = IF f <= u THEN u - f + 1 ELSE 0
          /\ \A j \in 1 .. u - f + 1 : SubSeq(t, f, u)[j] = t[f + j - 1]
      BY <3>1, SubSeqProperties
    <3>. QED BY <3>2, Zenon DEF f
  <2>3. u - (k + 1) + 1 = u - k /\ (~(k + 1 <= u) => u - k = 0)
    BY <1>1
  <2>4. \A j \in 1 .. u - k : k + 1 + j - 1 = k + j
    BY <1>1
  <2>. QED BY <2>2, <2>3, <2>4, Zenon
<1>9. Ring(d, r, k) = SubSeq(t, 1, k)
  BY <1>3, <1>4, <1>7, SeqEqual, Zenon
<1>10. Ring(d, v, u - k) = SubSeq(t, k + 1, u)
  <2> DEFINE n == u - k
             y == SubSeq(t, k + 1, u)
             z == Ring(d, v, n)
  <2>1. \A j \in 1 .. n : z[j] = y[j]
    BY <1>3, <1>5, <1>6, <1>8, Zenon
  <2>2. y \in Seq(Bytes) /\ z \in Seq(Bytes) /\ Len(y) = n /\ Len(z) = n
    BY <1>5, <1>8, Zenon
  <2>. HIDE DEF n, y, z
  <2>3. z = y
    BY <2>1, <2>2, SeqEqual, Zenon
  <2>. QED BY <2>3, Zenon DEF n, y, z
<1>. QED BY <1>9, <1>10, Zenon DEF v, t

--------------------------------------------------------------------------------
(* The steps of the pipe. *)

Inv == IInv /\ NoLostWakeup

LEMMA UsedFacts ==
  ASSUME Constants, IInv
  PROVE  /\ used = Mod(nwrite - nread, UINT) /\ used \in 0 .. PIPESIZE
         /\ room = PIPESIZE - used /\ room \in 0 .. PIPESIZE
         /\ queue = Ring(data, nread, used)
<1>1. used = Mod(nwrite - nread, UINT)
  BY Zenon DEF used, Mod
<1>2. nread \in 0 .. UINT - 1 /\ nwrite \in 0 .. UINT - 1 /\ used <= PIPESIZE
  BY Zenon DEF IInv, TypeOK
<1>3. used \in 0 .. UINT - 1
  BY <1>1, <1>2, Distance, SizesHold, Zenon
<1>4. queue = Ring(data, nread, used)
  BY Zenon DEF queue, Ring, Mod
<1>5. room = PIPESIZE - used
  BY Zenon DEF room
<1>6. PIPESIZE \in Nat /\ UINT \in Nat
  BY Zenon DEF Constants
<1>7. used \in 0 .. PIPESIZE
  BY <1>2, <1>3, <1>6
<1>. QED BY <1>1, <1>4, <1>5, <1>6, <1>7

LEMMA PutFacts ==
  ASSUME Constants, IInv, NEW p \in Procs, NEW k \in 0 .. Len(todo[p]), k <= room,
         put(p, k), nread' = nread
  PROVE  /\ data' \in [Slots -> Bytes] /\ nwrite' \in 0 .. UINT - 1
         /\ used' = used + k /\ used' <= PIPESIZE
         /\ queue' = queue \o SubSeq(todo[p], 1, k)
<1>1. /\ data \in [Slots -> Bytes] /\ todo[p] \in Seq(Bytes)
      /\ nread \in 0 .. UINT - 1 /\ nwrite \in 0 .. UINT - 1
  BY Zenon DEF IInv, TypeOK
<1>2. PIPESIZE \in Nat /\ UINT \in Nat \ {0} /\ UINT > PIPESIZE
  BY DEF Constants
<1>3. data' = Filled(data, nwrite, todo[p], k) /\ nwrite' = Mod(nwrite + k, UINT)
  BY Zenon DEF put, Filled, Mod
<1>4. used' = Mod(nwrite' - nread', UINT) /\ queue' = Ring(data', nread', used')
  BY Zenon DEF used, queue, Ring, Mod
<1> DEFINE u == used
<1>5. /\ u = Mod(nwrite - nread, UINT) /\ u \in 0 .. PIPESIZE
      /\ room = PIPESIZE - u /\ queue = Ring(data, nread, u)
  BY UsedFacts, Zenon
<1> HIDE DEF u
<1>6. /\ k \in 0 .. UINT - 1 /\ u + k < UINT /\ u + k <= PIPESIZE
      /\ nwrite + k \in Int
  BY <1>1, <1>2, <1>5
<1>7. data' \in [Slots -> Bytes]
  BY <1>1, <1>3, FilledType, SizesHold, Zenon
<1>8. nwrite' \in 0 .. UINT - 1
  BY <1>2, <1>3, <1>6, ModWraps, Zenon
<1>9. used' = u + k
  <2>1. Mod(Mod(nwrite + k, UINT) - nread, UINT) = Mod(nwrite - nread, UINT) + k
    BY <1>1, <1>5, <1>6, DistanceUp, SizesHold
  <2>. QED BY <1>3, <1>4, <1>5, <2>1, Zenon
<1>10. Ring(Filled(data, nwrite, todo[p], k), nread, u + k)
         = Ring(data, nread, u) \o SubSeq(todo[p], 1, k)
  <2> DEFINE s == todo[p]
             d == data
             r == nread
             w == nwrite
  <2>1. /\ d \in [Slots -> Bytes] /\ r \in 0 .. UINT - 1 /\ w \in 0 .. UINT - 1
        /\ u = Mod(w - r, UINT) /\ s \in Seq(Bytes) /\ k \in 0 .. Len(s)
    BY <1>1, <1>5, Zenon
  <2>. HIDE DEF s, d, r, w
  <2>2. Ring(Filled(d, w, s, k), r, u + k) = Ring(d, r, u) \o SubSeq(s, 1, k)
    BY <1>5, <1>6, <2>1, PutRing, SizesHold, ZenonT(60)
  <2>. QED BY <2>2, Zenon DEF s, d, r, w
<1>11. queue' = queue \o SubSeq(todo[p], 1, k)
  BY <1>3, <1>4, <1>5, <1>9, <1>10, Zenon
<1>. QED BY <1>6, <1>7, <1>8, <1>9, <1>11, Zenon DEF u

LEMMA GetFacts ==
  ASSUME Constants, IInv, NEW k \in 0 .. used, nread' = (nread + k) % UINT,
         UNCHANGED <<data, nwrite>>
  PROVE  /\ nread' \in 0 .. UINT - 1
         /\ used' = used - k /\ used' <= PIPESIZE
         /\ [j \in 1 .. k |-> data[slot(j)]] = SubSeq(queue, 1, k)
         /\ queue' = SubSeq(queue, k + 1, Len(queue))
         /\ SubSeq(queue, 1, k) \in Seq(Bytes)
<1>1. data \in [Slots -> Bytes] /\ nread \in 0 .. UINT - 1 /\ nwrite \in 0 .. UINT - 1
  BY Zenon DEF IInv, TypeOK
<1>2. PIPESIZE \in Nat /\ UINT \in Nat \ {0} /\ UINT > PIPESIZE
  BY DEF Constants
<1>3. nread' = Mod(nread + k, UINT) /\ data' = data /\ nwrite' = nwrite
  BY Zenon DEF Mod
<1>4. used' = Mod(nwrite' - nread', UINT) /\ queue' = Ring(data', nread', used')
  BY Zenon DEF used, queue, Ring, Mod
<1>5. [j \in 1 .. k |-> data[slot(j)]] = Ring(data, nread, k)
  BY Zenon DEF slot, Ring, Mod
<1> DEFINE u == used
<1>6. /\ u = Mod(nwrite - nread, UINT) /\ u \in 0 .. PIPESIZE
      /\ queue = Ring(data, nread, u)
  BY UsedFacts, Zenon
<1>7. k \in 0 .. u
  OBVIOUS
<1> HIDE DEF u
<1>8. k \in 0 .. UINT - 1 /\ k <= u /\ u - k <= PIPESIZE /\ nread + k \in Int /\ u \in Nat /\ k \in Nat
  BY <1>1, <1>2, <1>6, <1>7
<1>9. nread' \in 0 .. UINT - 1
  BY <1>2, <1>3, <1>8, ModWraps, Zenon
<1>10. used' = u - k
  <2>1. Mod(nwrite - Mod(nread + k, UINT), UINT) = Mod(nwrite - nread, UINT) - k
    BY <1>1, <1>6, <1>8, DistanceDown, SizesHold
  <2>. QED BY <1>3, <1>4, <1>6, <2>1, Zenon
<1>11. /\ Ring(data, nread, k) = SubSeq(Ring(data, nread, u), 1, k)
       /\ Ring(data, Mod(nread + k, UINT), u - k) = SubSeq(Ring(data, nread, u), k + 1, u)
  BY <1>1, <1>6, <1>7, GetRing, SizesHold, Zenon
<1>12. Len(queue) = u /\ Ring(data, nread, k) \in Seq(Bytes)
  BY <1>1, <1>6, <1>8, RingSeq, SizesHold, Zenon
<1>13. queue' = SubSeq(queue, k + 1, Len(queue))
  BY <1>3, <1>4, <1>6, <1>10, <1>11, <1>12, Zenon
<1>14. [j \in 1 .. k |-> data[slot(j)]] = SubSeq(queue, 1, k)
  BY <1>5, <1>6, <1>11, Zenon
<1>. QED BY <1>5, <1>8, <1>9, <1>10, <1>12, <1>13, <1>14, Zenon DEF u

\* A step that leaves the ring alone.
LEMMA QuietStep ==
  ASSUME Constants, Inv, UNCHANGED <<data, nread, nwrite>>,
         readopen' \in BOOLEAN, writeopen' \in BOOLEAN,
         pc' \in [Procs -> {"user", "run", "asleep", "gone"}],
         todo' \in [Procs -> Seq(Bytes)], want' \in [Procs -> 0 .. MAXN],
         got' \in [Procs -> Seq(Bytes)], killed' \in [Procs -> BOOLEAN],
         \A p \in Procs : todo'[p] # <<>> => p \in Writers /\ pc'[p] \in {"run", "asleep"},
         \A p \in Readers : pc'[p] = "asleep" =>
           writeopen' /\ ~killed'[p] /\ (pc[p] = "asleep" \/ used = 0),
         \A p \in Writers : pc'[p] = "asleep" =>
           readopen' /\ ~killed'[p] /\ pc[p] = "asleep"
  PROVE  Inv'
<1>1. used' = used
  BY Zenon DEF used
<1>2. IInv'
  BY <1>1, Zenon DEF Inv, IInv, TypeOK
<1>3. NoLostWakeup'
  BY <1>1, Zenon DEF Inv, NoLostWakeup
<1>. QED BY <1>2, <1>3, Zenon DEF Inv

LEMMA WriteSteps ==
  ASSUME Constants, Inv, NEW p \in Writers,
         \/ \E s \in UNION {[1 .. n -> Bytes] : n \in 0 .. MAXN} : pipewrite(p, s)
         \/ pipewrite_broken(p)
  PROVE  Inv'
<1>1. TypeOK /\ p \in Procs /\ NoLostWakeup
  BY Zenon DEF Inv, IInv, Procs
<1>2. <<>> \in Seq(Bytes)
  OBVIOUS
<1>3. ASSUME NEW s \in UNION {[1 .. n -> Bytes] : n \in 0 .. MAXN}, pipewrite(p, s)
      PROVE  Inv'
  <2>1. s \in Seq(Bytes)
    <3>1. PICK n \in 0 .. MAXN : s \in [1 .. n -> Bytes]
      BY Zenon
    <3>2. n \in Nat
      BY DEF Constants
    <3>. QED BY <3>1, <3>2, SeqDef, ZenonT(60)
  <2>2. UNCHANGED <<data, nread, nwrite, readopen, writeopen, want, got, killed>>
    BY <1>3, Zenon DEF pipewrite, pipe
  <2>3. pc' = [pc EXCEPT ![p] = "run"] /\ todo' = [todo EXCEPT ![p] = s]
    BY <1>3, Zenon DEF pipewrite
  <2>4. /\ pc' \in [Procs -> {"user", "run", "asleep", "gone"}]
        /\ todo' \in [Procs -> Seq(Bytes)]
    BY <1>1, <2>1, <2>3, Zenon DEF TypeOK
  <2>5. \A q \in Procs : todo'[q] # <<>> => q \in Writers /\ pc'[q] \in {"run", "asleep"}
    BY <1>1, <2>3, Zenon DEF Inv, IInv, TypeOK
  <2>6. \A q \in Procs : pc'[q] = "asleep" => pc[q] = "asleep"
    BY <1>1, <2>3, Zenon DEF TypeOK
  <2>. QED BY <1>1, <2>2, <2>4, <2>5, <2>6, QuietStep, Zenon DEF TypeOK, NoLostWakeup, Procs
<1>4. ASSUME pipewrite_broken(p)
      PROVE  Inv'
  <2>2. UNCHANGED <<data, nread, nwrite, readopen, writeopen, want, got, killed>>
    BY <1>4, Zenon DEF pipewrite_broken, pipe
  <2>3. pc' = [pc EXCEPT ![p] = "user"] /\ todo' = [todo EXCEPT ![p] = <<>>]
    BY <1>4, Zenon DEF pipewrite_broken
  <2>4. /\ pc' \in [Procs -> {"user", "run", "asleep", "gone"}]
        /\ todo' \in [Procs -> Seq(Bytes)]
    BY <1>1, <1>2, <2>3, Zenon DEF TypeOK
  <2>5. \A q \in Procs : todo'[q] # <<>> => q \in Writers /\ pc'[q] \in {"run", "asleep"}
    BY <1>1, <2>3, Zenon DEF Inv, IInv, TypeOK
  <2>6. \A q \in Procs : pc'[q] = "asleep" => pc[q] = "asleep"
    BY <1>1, <2>3, Zenon DEF TypeOK
  <2>. QED BY <1>1, <2>2, <2>4, <2>5, <2>6, QuietStep, Zenon DEF TypeOK, NoLostWakeup, Procs
<1>. QED BY <1>3, <1>4, Zenon

\* A write that put its bytes into the ring and woke the readers.
LEMMA PutStep ==
  ASSUME Constants, Inv, NEW p \in Writers, NEW k \in 0 .. Len(todo[p]), k <= room,
         put(p, k), NEW to \in {"user", "asleep"},
         pc' = [wake(Readers) EXCEPT ![p] = to],
         NEW rest \in Seq(Bytes), todo' = [todo EXCEPT ![p] = rest],
         to = "user" => rest = <<>>,
         to = "asleep" => k = room /\ readopen /\ ~killed[p],
         UNCHANGED <<nread, readopen, writeopen, want, got, killed>>
  PROVE  Inv'
<1>1. TypeOK /\ p \in Procs /\ NoLostWakeup /\ p \notin Readers
  BY Zenon DEF Inv, IInv, Procs, Constants
<1>2. /\ data' \in [Slots -> Bytes] /\ nwrite' \in 0 .. UINT - 1
      /\ used' = used + k /\ used' <= PIPESIZE
  BY <1>1, PutFacts, Zenon DEF Inv
<1>3. pc'[p] = to /\ \A q \in Procs : q # p =>
        pc'[q] = IF pc[q] = "asleep" /\ q \in Readers THEN "run" ELSE pc[q]
  BY <1>1, Zenon DEF wake
<1>4. pc' \in [Procs -> {"user", "run", "asleep", "gone"}]
  <2>1. \A q \in Procs : pc'[q] \in {"user", "run", "asleep", "gone"}
    BY <1>1, <1>3, Zenon DEF TypeOK
  <2>. QED BY <2>1, Zenon DEF wake
<1>5. todo' \in [Procs -> Seq(Bytes)] /\ todo'[p] = rest
      /\ \A q \in Procs : q # p => todo'[q] = todo[q]
  BY <1>1, Zenon DEF TypeOK
<1>6. \A q \in Procs : todo'[q] # <<>> => q \in Writers /\ pc'[q] \in {"run", "asleep"}
  BY <1>1, <1>3, <1>5, ZenonT(60) DEF Inv, IInv
<1>7. IInv'
  BY <1>1, <1>2, <1>4, <1>5, <1>6, Zenon DEF IInv, TypeOK
<1>8. \A q \in Readers : pc'[q] # "asleep"
  <2> SUFFICES ASSUME NEW q \in Readers PROVE pc'[q] # "asleep"
    BY Zenon
  <2>1. q \in Procs /\ q # p
    BY <1>1, Zenon DEF Procs
  <2>2. pc[q] = "asleep" => pc'[q] = "run"
    BY <1>3, <2>1
  <2>3. pc[q] # "asleep" => pc'[q] = pc[q]
    BY <1>3, <2>1
  <2>. QED BY <2>2, <2>3
<1>9. \A q \in Writers : pc'[q] = "asleep" => used' = PIPESIZE /\ readopen' /\ ~killed'[q]
  <2> SUFFICES ASSUME NEW q \in Writers, pc'[q] = "asleep"
               PROVE  used' = PIPESIZE /\ readopen' /\ ~killed'[q]
    BY Zenon
  <2>1. /\ used \in 0 .. PIPESIZE /\ room = PIPESIZE - used /\ PIPESIZE \in Nat
        /\ k \in Nat
    <3>1. Len(todo[p]) \in Nat
      BY <1>1 DEF TypeOK
    <3>2. k \in Nat
      BY <3>1
    <3>. QED BY <3>2, UsedFacts, Zenon DEF Inv, Constants
  <2>2. CASE q = p
    <3>1. k = room /\ readopen /\ ~killed[p]
      BY <1>3, <2>2, Zenon
    <3>2. used' = PIPESIZE
      BY <1>2, <2>1, <3>1
    <3>. QED BY <2>2, <3>1, <3>2, Zenon
  <2>3. CASE q # p
    <3>1. pc[q] = "asleep"
      BY <1>1, <1>3, <2>3, Zenon DEF Procs, TypeOK
    <3>2. used = PIPESIZE /\ readopen /\ ~killed[q]
      BY <1>1, <3>1, Zenon DEF NoLostWakeup
    <3>3. used' = PIPESIZE
      BY <1>2, <2>1, <3>2
    <3>. QED BY <3>2, <3>3, Zenon
  <2>. QED BY <2>2, <2>3, Zenon
<1>10. NoLostWakeup'
  BY <1>8, <1>9, Zenon DEF NoLostWakeup
<1>. QED BY <1>7, <1>10, Zenon DEF Inv

LEMMA WriteEnds ==
  ASSUME Constants, Inv, NEW p \in Procs, NEW k \in 0 .. MAXN, pipewrite_ends(p, k)
  PROVE  Inv'
<1>1. p \in Writers /\ k <= Len(todo[p]) /\ k <= room /\ put(p, k)
  BY Zenon DEF pipewrite_ends, writing
<1>2. k \in 0 .. Len(todo[p])
  <2>1. Len(todo[p]) \in Nat
    BY DEF Inv, IInv, TypeOK
  <2>. QED BY <1>1, <2>1 DEF Constants
<1>3. <<>> \in Seq(Bytes)
  OBVIOUS
<1>4. /\ pc' = [wake(Readers) EXCEPT ![p] = "user"]
      /\ todo' = [todo EXCEPT ![p] = <<>>]
      /\ UNCHANGED <<nread, readopen, writeopen, want, got, killed>>
  BY Zenon DEF pipewrite_ends
<1>. QED BY <1>1, <1>2, <1>3, <1>4, PutStep, Zenon

LEMMA WriteFull ==
  ASSUME Constants, Inv, NEW p \in Procs, pipewrite_full(p)
  PROVE  Inv'
<1>1. p \in Writers /\ room < Len(todo[p]) /\ put(p, room) /\ readopen /\ ~killed[p]
  BY Zenon DEF pipewrite_full, writing
<1>2. /\ todo[p] \in Seq(Bytes) /\ Len(todo[p]) \in Nat /\ room \in Nat
      /\ room <= room /\ room \in 0 .. Len(todo[p])
  <2>1. todo[p] \in Seq(Bytes)
    BY Zenon DEF Inv, IInv, TypeOK
  <2>2. room \in 0 .. PIPESIZE /\ PIPESIZE \in Nat
    BY UsedFacts, Zenon DEF Inv, Constants
  <2>. QED BY <1>1, <2>1, <2>2
<1> DEFINE rest == SubSeq(todo[p], room + 1, Len(todo[p]))
<1>3. rest \in Seq(Bytes)
  BY <1>2
<1>4. /\ pc' = [wake(Readers) EXCEPT ![p] = "asleep"]
      /\ todo' = [todo EXCEPT ![p] = rest]
      /\ UNCHANGED <<nread, readopen, writeopen, want, got, killed>>
  BY Zenon DEF pipewrite_full
<1> HIDE DEF rest
<1>. QED BY <1>1, <1>2, <1>3, <1>4, PutStep, Zenon

LEMMA ReadSteps ==
  ASSUME Constants, Inv, NEW p \in Readers,
         \/ \E n \in 0 .. MAXN : piperead(p, n)
         \/ piperead_killed(p)
         \/ piperead_sleep(p)
  PROVE  Inv'
<1>1. TypeOK /\ p \in Procs /\ NoLostWakeup /\ p \notin Writers
  BY Zenon DEF Inv, IInv, Procs, Constants
<1>2. <<>> \in Seq(Bytes)
  OBVIOUS
<1>3. 0 \in 0 .. MAXN
  BY DEF Constants
<1>4. todo[p] = <<>>
  BY <1>1, Zenon DEF Inv, IInv
<1>5. UNCHANGED <<data, nread, nwrite, readopen, writeopen, todo, killed>>
  BY Zenon DEF piperead, piperead_killed, piperead_sleep, pipe
<1>6. want' \in [Procs -> 0 .. MAXN]
  BY <1>1, <1>3, Zenon DEF piperead, piperead_killed, piperead_sleep, TypeOK
<1>7. got' \in [Procs -> Seq(Bytes)]
  BY <1>1, <1>2, Zenon DEF piperead, piperead_killed, piperead_sleep, TypeOK
<1>8. \E to \in {"user", "run", "asleep"} : pc' = [pc EXCEPT ![p] = to]
  BY Zenon DEF piperead, piperead_killed, piperead_sleep
<1>9. /\ pc' \in [Procs -> {"user", "run", "asleep", "gone"}]
      /\ \A q \in Procs : q # p => pc'[q] = pc[q]
  BY <1>1, <1>8, Zenon DEF TypeOK
<1>10. pc'[p] = "asleep" => piperead_sleep(p)
  BY <1>1, Zenon DEF piperead, piperead_killed, TypeOK
<1>11. pc'[p] = "asleep" => writeopen /\ ~killed[p] /\ used = 0
  <2>1. nread = nwrite => used = 0
    <3>1. nread = nwrite => nwrite - nread = 0 /\ 0 \in 0 .. UINT - 1 /\ 0 \in Int
      BY <1>1 DEF TypeOK, Constants
    <3>2. nread = nwrite => Mod(nwrite - nread, UINT) = 0
      BY <3>1, ModWraps DEF Constants
    <3>. QED BY <3>2, UsedFacts, Zenon DEF Inv
  <2>. QED BY <1>10, <2>1, Zenon DEF piperead_sleep, piperead_waits
<1>12. \A q \in Procs : todo'[q] # <<>> => q \in Writers /\ pc'[q] \in {"run", "asleep"}
  BY <1>1, <1>4, <1>5, <1>9, Zenon DEF Inv, IInv
<1>13. \A q \in Readers : pc'[q] = "asleep" =>
         writeopen' /\ ~killed'[q] /\ (pc[q] = "asleep" \/ used = 0)
  BY <1>1, <1>5, <1>9, <1>11, Zenon DEF NoLostWakeup, Procs
<1>14. \A q \in Writers : pc'[q] = "asleep" => readopen' /\ ~killed'[q] /\ pc[q] = "asleep"
  BY <1>1, <1>5, <1>9, Zenon DEF NoLostWakeup, Procs
<1>. QED BY <1>1, <1>5, <1>6, <1>7, <1>9, <1>12, <1>13, <1>14, QuietStep, Zenon DEF TypeOK

LEMMA ReadEnds ==
  ASSUME Constants, Inv, NEW p \in Procs, NEW k \in 0 .. MAXN, piperead_ends(p, k)
  PROVE  Inv'
<1>1. TypeOK /\ NoLostWakeup /\ p \in Readers /\ p \notin Writers
  BY Zenon DEF Inv, IInv, piperead_ends, reading, Constants
<1>2. used \in 0 .. PIPESIZE /\ k \in Nat /\ k \in 0 .. used /\ PIPESIZE \in Nat
  <2>1. used \in 0 .. PIPESIZE /\ PIPESIZE \in Nat /\ MAXN \in Nat
    BY UsedFacts, Zenon DEF Inv, Constants
  <2>. QED BY <2>1 DEF piperead_ends
<1>3. /\ nread' = (nread + k) % UINT
      /\ UNCHANGED <<data, nwrite, readopen, writeopen, todo, killed>>
      /\ want' = [want EXCEPT ![p] = 0]
      /\ got' = [got EXCEPT ![p] = [j \in 1 .. k |-> data[slot(j)]]]
      /\ pc' = [wake(Writers) EXCEPT ![p] = "user"]
  BY Zenon DEF piperead_ends
<1>4. /\ nread' \in 0 .. UINT - 1
      /\ used' = used - k /\ used' <= PIPESIZE
      /\ [j \in 1 .. k |-> data[slot(j)]] \in Seq(Bytes)
  BY <1>2, <1>3, GetFacts, Zenon DEF Inv
<1>5. pc'[p] = "user" /\ \A q \in Procs : q # p =>
        pc'[q] = IF pc[q] = "asleep" /\ q \in Writers THEN "run" ELSE pc[q]
  BY <1>3, Zenon DEF wake
<1>6. pc' \in [Procs -> {"user", "run", "asleep", "gone"}]
  <2>1. \A q \in Procs : pc'[q] \in {"user", "run", "asleep", "gone"}
    BY <1>1, <1>5, Zenon DEF TypeOK
  <2>. QED BY <1>3, <2>1, Zenon DEF wake
<1>7. got' \in [Procs -> Seq(Bytes)]
  BY <1>1, <1>3, <1>4, Zenon DEF TypeOK
<1>8. want' \in [Procs -> 0 .. MAXN]
  <2>1. 0 \in 0 .. MAXN
    BY DEF Constants
  <2>. QED BY <1>1, <1>3, <2>1, Zenon DEF TypeOK
<1>9. \A q \in Procs : todo'[q] # <<>> => q \in Writers /\ pc'[q] \in {"run", "asleep"}
  BY <1>1, <1>3, <1>5, Zenon DEF Inv, IInv
<1>10. IInv'
  BY <1>1, <1>3, <1>4, <1>6, <1>7, <1>8, <1>9, Zenon DEF IInv, TypeOK
<1>11. \A q \in Writers : pc'[q] # "asleep"
  BY <1>1, <1>5, Zenon DEF Procs
<1>12. \A q \in Readers : pc'[q] = "asleep" => used' = 0 /\ writeopen' /\ ~killed'[q]
  <2> SUFFICES ASSUME NEW q \in Readers, pc'[q] = "asleep"
               PROVE  used' = 0 /\ writeopen' /\ ~killed'[q]
    BY Zenon
  <2>1. pc[q] = "asleep"
    BY <1>5, Zenon DEF Procs
  <2>2. used = 0 /\ writeopen /\ ~killed[q]
    BY <1>1, <2>1, Zenon DEF NoLostWakeup
  <2>3. used' = used - k
    BY <1>4, Zenon
  <2>4. k = 0
    BY <1>2, <2>2
  <2>5. used' = 0
    BY <2>2, <2>3, <2>4
  <2>. QED BY <1>3, <2>2, <2>5, Zenon
<1>. QED BY <1>10, <1>11, <1>12, Zenon DEF Inv, NoLostWakeup

LEMMA CloseStep ==
  ASSUME Constants, Inv, NEW p \in Procs, pipeclose(p)
  PROVE  Inv'
<1>1. TypeOK /\ NoLostWakeup
  BY Zenon DEF Inv, IInv
<1> DEFINE last(side) == p \in side /\ \A q \in side \ {p} : pc[q] = "gone"
           woken == IF last(Writers) THEN close_wakes(Writers)
                    ELSE IF last(Readers) THEN close_wakes(Readers) ELSE pc
<1>2. /\ pc[p] = "user"
      /\ writeopen' = (writeopen /\ ~last(Writers))
      /\ readopen' = (readopen /\ ~last(Readers))
      /\ pc' = [woken EXCEPT ![p] = "gone"]
      /\ UNCHANGED <<data, nread, nwrite, todo, want, got, killed>>
  BY Zenon DEF pipeclose
<1>3. /\ last(Writers) => close_wakes(Writers) = wake(Readers)
      /\ last(Readers) => close_wakes(Readers) = wake(Writers)
      /\ ~(last(Writers) /\ last(Readers))
  BY Zenon DEF close_wakes, Constants
<1> HIDE DEF last
<1>4. \/ woken = wake(Readers) /\ last(Writers) /\ ~last(Readers)
      \/ woken = wake(Writers) /\ ~last(Writers) /\ last(Readers)
      \/ woken = pc /\ ~last(Writers) /\ ~last(Readers)
  BY <1>3, Zenon
<1> HIDE DEF woken
<1>5. /\ readopen' \in BOOLEAN /\ writeopen' \in BOOLEAN
  BY <1>2, Zenon
<1>6. woken \in [Procs -> {"user", "run", "asleep", "gone"}]
      /\ \A q \in Procs : woken[q] = pc[q] \/ (pc[q] = "asleep" /\ woken[q] = "run")
  BY <1>1, <1>4, Zenon DEF wake, TypeOK
<1>7. /\ pc' \in [Procs -> {"user", "run", "asleep", "gone"}]
      /\ pc'[p] = "gone" /\ \A q \in Procs : q # p => pc'[q] = woken[q]
  BY <1>2, <1>6, Zenon
<1>8. \A q \in Procs : todo'[q] # <<>> => q \in Writers /\ pc'[q] \in {"run", "asleep"}
  BY <1>2, <1>6, <1>7, Zenon DEF Inv, IInv
<1>9. \A q \in Readers : pc'[q] = "asleep" => pc[q] = "asleep" /\ ~last(Writers)
  BY <1>4, <1>6, <1>7, Zenon DEF wake, Procs
<1>10. \A q \in Writers : pc'[q] = "asleep" => pc[q] = "asleep" /\ ~last(Readers)
  BY <1>4, <1>6, <1>7, Zenon DEF wake, Procs
<1>11. \A q \in Readers : pc'[q] = "asleep" =>
         writeopen' /\ ~killed'[q] /\ (pc[q] = "asleep" \/ used = 0)
  BY <1>1, <1>2, <1>9, Zenon DEF NoLostWakeup
<1>12. \A q \in Writers : pc'[q] = "asleep" => readopen' /\ ~killed'[q] /\ pc[q] = "asleep"
  BY <1>1, <1>2, <1>10, Zenon DEF NoLostWakeup
<1>. QED BY <1>1, <1>2, <1>5, <1>7, <1>8, <1>11, <1>12, QuietStep, Zenon DEF TypeOK

LEMMA KillStep ==
  ASSUME Constants, Inv, NEW p \in Procs, kkill(p)
  PROVE  Inv'
<1>1. TypeOK /\ NoLostWakeup
  BY Zenon DEF Inv, IInv
<1>2. /\ UNCHANGED <<data, nread, nwrite, readopen, writeopen, todo, want, got>>
      /\ killed' = [killed EXCEPT ![p] = TRUE]
      /\ pc' = [pc EXCEPT ![p] = IF pc[p] = "asleep" THEN "run" ELSE pc[p]]
  BY Zenon DEF kkill, pipe
<1>3. killed' \in [Procs -> BOOLEAN] /\ \A q \in Procs : q # p => killed'[q] = killed[q]
  BY <1>1, <1>2, Zenon DEF TypeOK
<1>4. /\ pc' \in [Procs -> {"user", "run", "asleep", "gone"}]
      /\ pc'[p] # "asleep" /\ \A q \in Procs : q # p => pc'[q] = pc[q]
      /\ \A q \in Procs : pc[q] \in {"run", "asleep"} => pc'[q] \in {"run", "asleep"}
  BY <1>1, <1>2, Zenon DEF TypeOK
<1>5. \A q \in Procs : todo'[q] # <<>> => q \in Writers /\ pc'[q] \in {"run", "asleep"}
  BY <1>2, <1>4, Zenon DEF Inv, IInv
<1>. QED BY <1>1, <1>2, <1>3, <1>4, <1>5, QuietStep, Zenon DEF TypeOK, NoLostWakeup, Procs

LEMMA StutterStep ==
  ASSUME Constants, Inv, UNCHANGED vars
  PROVE  Inv'
<1>1. UNCHANGED <<data, nread, nwrite, readopen, writeopen, pc, todo, want, got, killed>>
  BY Zenon DEF vars, pipe
<1>. QED BY <1>1, QuietStep, Zenon DEF Inv, IInv, TypeOK, NoLostWakeup

LEMMA NextInv ==
  ASSUME Constants, Inv, [Next]_vars
  PROVE  Inv'
<1>1. ASSUME NEW p \in Procs, KernelStep(p) PROVE Inv'
  <2>1. CASE pipewrite_broken(p)
    BY <2>1, WriteSteps, Zenon DEF pipewrite_broken, writing
  <2>2. CASE piperead_killed(p) \/ piperead_sleep(p)
    BY <2>2, ReadSteps, Zenon DEF piperead_killed, piperead_sleep, reading
  <2>. QED BY <1>1, <2>1, <2>2, WriteEnds, WriteFull, ReadEnds, Zenon DEF KernelStep
<1>2. CASE Done
  BY <1>2, StutterStep, Zenon DEF Done
<1>3. CASE UNCHANGED vars
  BY <1>3, StutterStep, Zenon
<1>. QED BY <1>1, <1>2, <1>3, CloseStep, KillStep, WriteSteps, ReadSteps, Zenon DEF Next

LEMMA InitInv ==
  ASSUME Constants, Init
  PROVE  Inv
<1>1. nread = 0 /\ nwrite = 0 /\ 0 \in 0 .. UINT - 1 /\ 0 \in 0 .. MAXN /\ used = 0
      /\ 0 <= PIPESIZE
  <2>1. UINT \in Nat \ {0} /\ PIPESIZE \in Nat /\ MAXN \in Nat /\ nread = 0 /\ nwrite = 0
    BY DEF Constants, Init
  <2>2. Mod(0, UINT) = 0 /\ 0 - 0 = 0
    BY <2>1, ModWraps
  <2>. QED BY <2>1, <2>2 DEF used, Mod
<1>2. <<>> \in Seq(Bytes)
  OBVIOUS
<1>3. readopen \in BOOLEAN /\ writeopen \in BOOLEAN /\ killed \in [Procs -> BOOLEAN]
  BY Zenon DEF Init
<1>4. TypeOK
  BY <1>1, <1>2, <1>3, Zenon DEF Init, TypeOK
<1>. QED BY <1>1, <1>4, Zenon DEF Init, Inv, IInv, NoLostWakeup, Procs

\* The ring holds at most PIPESIZE bytes, however the counters wrap.
THEOREM PipeInvariant ==
  ASSUME Constants
  PROVE  Spec => []Inv
<1>1. Init => Inv
  BY InitInv, Zenon
<1>2. Inv /\ [Next]_vars => Inv'
  BY NextInv, Zenon
<1>. QED BY <1>1, <1>2, PTL DEF Spec

\* Nobody sleeps in piperead or pipewrite who has something to do, however many writers
\* and readers there are.
THEOREM PipeNoLostWakeup ==
  ASSUME Constants
  PROVE  Spec => []NoLostWakeup
<1>1. Inv => NoLostWakeup
  BY Zenon DEF Inv
<1>. QED BY <1>1, PipeInvariant, PTL

--------------------------------------------------------------------------------
(* The ring implements the queue of Fifo. *)

LEMMA StartStep ==
  ASSUME Constants, Inv, NEW p \in Writers,
         NEW s \in UNION {[1 .. n -> Bytes] : n \in 0 .. MAXN}, pipewrite(p, s)
  PROVE  Queue!Next
<1>1. p \in Procs /\ pc[p] = "user"
  BY Zenon DEF pipewrite, Procs
<1>2. todo[p] = <<>>
  BY <1>1, Zenon DEF Inv, IInv
<1>3. queue' = queue
  BY Zenon DEF pipewrite, pipe, queue, used
<1>4. todo' = [todo EXCEPT ![p] = s] /\ got' = got
  BY Zenon DEF pipewrite
<1>5. Queue!Start(p, s)
  BY <1>2, <1>3, <1>4, Zenon DEF Queue!Start
<1>. QED BY <1>1, <1>5, Zenon DEF Queue!Next

LEMMA AbortStep ==
  ASSUME NEW p \in Procs, pipewrite_broken(p)
  PROVE  Queue!Next
<1>1. queue' = queue
  BY Zenon DEF pipewrite_broken, pipe, queue, used
<1>2. Queue!Abort(p)
  BY <1>1, Zenon DEF pipewrite_broken, Queue!Abort
<1>. QED BY <1>2, Zenon DEF Queue!Next

LEMMA QueueLength ==
  ASSUME Constants, Inv
  PROVE  Len(queue) = used /\ queue \in Seq(Bytes)
<1>1. used \in 0 .. PIPESIZE /\ PIPESIZE \in Nat /\ queue = Ring(data, nread, used)
  BY UsedFacts, Zenon DEF Inv, Constants
<1>2. used \in Nat
  BY <1>1
<1>. QED BY <1>1, <1>2, RingSeq, SizesHold, Zenon DEF Inv, IInv, TypeOK

LEMMA PutQueue ==
  ASSUME Constants, Inv, NEW p \in Procs, NEW k \in 0 .. Len(todo[p]), k <= room,
         put(p, k), NEW ends \in BOOLEAN,
         todo' = [todo EXCEPT ![p] = IF ends THEN <<>>
                                     ELSE SubSeq(todo[p], k + 1, Len(todo[p]))],
         UNCHANGED <<nread, got>>
  PROVE  Queue!Next
<1>1. queue' = queue \o SubSeq(todo[p], 1, k)
  BY PutFacts, Zenon DEF Inv
<1>2. Len(queue) + k <= PIPESIZE
  <2>1. /\ used \in 0 .. PIPESIZE /\ room = PIPESIZE - used /\ PIPESIZE \in Nat
        /\ todo[p] \in Seq(Bytes) /\ Len(queue) = used
    BY UsedFacts, QueueLength, Zenon DEF Inv, IInv, TypeOK, Constants
  <2>. QED BY <2>1
<1>3. Queue!Put(p, k, ends)
  BY <1>1, <1>2, Zenon DEF Queue!Put
<1>. QED BY <1>3, Zenon DEF Queue!Next

LEMMA WriteEndsQueue ==
  ASSUME Constants, Inv, NEW p \in Procs, NEW k \in 0 .. MAXN, pipewrite_ends(p, k)
  PROVE  Queue!Next
<1>1. k <= Len(todo[p]) /\ k <= room /\ put(p, k) /\ UNCHANGED <<nread, got>>
      /\ todo' = [todo EXCEPT ![p] = <<>>]
  BY Zenon DEF pipewrite_ends
<1>2. k \in 0 .. Len(todo[p])
  <2>1. Len(todo[p]) \in Nat
    BY DEF Inv, IInv, TypeOK
  <2>. QED BY <1>1, <2>1 DEF Constants
<1>3. TRUE \in BOOLEAN
  BY Zenon
<1>4. todo' = [todo EXCEPT ![p] = IF TRUE THEN <<>>
                                  ELSE SubSeq(todo[p], k + 1, Len(todo[p]))]
  BY <1>1, Zenon
<1>. QED BY <1>1, <1>2, <1>3, <1>4, PutQueue, Zenon

LEMMA WriteFullQueue ==
  ASSUME Constants, Inv, NEW p \in Procs, pipewrite_full(p)
  PROVE  Queue!Next
<1>1. room < Len(todo[p]) /\ put(p, room) /\ UNCHANGED <<nread, got>>
      /\ todo' = [todo EXCEPT ![p] = SubSeq(todo[p], room + 1, Len(todo[p]))]
  BY Zenon DEF pipewrite_full
<1>2. room \in 0 .. Len(todo[p]) /\ room <= room
  <2>1. todo[p] \in Seq(Bytes)
    BY Zenon DEF Inv, IInv, TypeOK
  <2>2. room \in 0 .. PIPESIZE /\ PIPESIZE \in Nat
    BY UsedFacts, Zenon DEF Inv, Constants
  <2>. QED BY <1>1, <2>1, <2>2
<1>3. FALSE \in BOOLEAN
  BY Zenon
<1>4. todo' = [todo EXCEPT ![p] = IF FALSE THEN <<>>
                                  ELSE SubSeq(todo[p], room + 1, Len(todo[p]))]
  BY <1>1, Zenon
<1>. QED BY <1>1, <1>2, <1>3, <1>4, PutQueue, Zenon

LEMMA ReadEndsQueue ==
  ASSUME Constants, Inv, NEW p \in Procs, NEW k \in 0 .. MAXN, piperead_ends(p, k)
  PROVE  Queue!Next
<1>1. k \in 0 .. used /\ k \in 0 .. Len(queue)
  <2>1. used \in 0 .. PIPESIZE /\ PIPESIZE \in Nat /\ MAXN \in Nat /\ Len(queue) = used
    BY UsedFacts, QueueLength, Zenon DEF Inv, Constants
  <2>. QED BY <2>1 DEF piperead_ends
<1>2. /\ nread' = (nread + k) % UINT /\ UNCHANGED <<data, nwrite, todo>>
      /\ got' = [got EXCEPT ![p] = [j \in 1 .. k |-> data[slot(j)]]]
  BY Zenon DEF piperead_ends
<1>3. /\ [j \in 1 .. k |-> data[slot(j)]] = SubSeq(queue, 1, k)
      /\ queue' = SubSeq(queue, k + 1, Len(queue))
  BY <1>1, <1>2, GetFacts, Zenon DEF Inv
<1>4. Queue!Get(p, k)
  BY <1>2, <1>3, Zenon DEF Queue!Get
<1>. QED BY <1>1, <1>4, Zenon DEF Queue!Next

LEMMA ReadKilledQueue ==
  ASSUME Constants, Inv, NEW p \in Procs, piperead_killed(p)
  PROVE  Queue!Next
<1>1. queue' = queue /\ todo' = todo /\ got' = [got EXCEPT ![p] = <<>>]
  BY Zenon DEF piperead_killed, pipe, queue, used
<1>2. Len(queue) \in Nat /\ queue \in Seq(Bytes)
  BY QueueLength
<1>3. 0 \in 0 .. Len(queue)
  BY <1>2
<1>4. SubSeq(queue, 1, 0) = <<>> /\ SubSeq(queue, 0 + 1, Len(queue)) = queue
  BY <1>2
<1>5. Queue!Get(p, 0)
  BY <1>1, <1>4, Zenon DEF Queue!Get
<1>. QED BY <1>3, <1>5, Zenon DEF Queue!Next

\* What is not a write or a read leaves the queue as it is.
LEMMA QueueStutter ==
  ASSUME UNCHANGED <<data, nread, nwrite, todo, got>>
  PROVE  UNCHANGED Queue!vars
BY Zenon DEF Queue!vars, queue, used

LEMMA NextQueue ==
  ASSUME Constants, Inv, [Next]_vars
  PROVE  QueueStep
<1>1. ASSUME NEW p \in Procs, KernelStep(p) PROVE QueueStep
  <2>1. CASE piperead_sleep(p)
    BY <2>1, QueueStutter, Zenon DEF piperead_sleep, pipe, QueueStep
  <2>. QED BY <1>1, <2>1, AbortStep, WriteEndsQueue, WriteFullQueue, ReadEndsQueue,
              ReadKilledQueue, Zenon DEF KernelStep, QueueStep
<1>2. ASSUME NEW p \in Procs, pipeclose(p) \/ kkill(p) PROVE QueueStep
  <2>1. UNCHANGED <<data, nread, nwrite, todo, got>>
    BY <1>2, Zenon DEF pipeclose, kkill, pipe
  <2>. QED BY <2>1, QueueStutter, Zenon DEF QueueStep
<1>3. ASSUME NEW p \in Readers, NEW n \in 0 .. MAXN, piperead(p, n) PROVE QueueStep
  BY <1>3, QueueStutter, Zenon DEF piperead, pipe, QueueStep
<1>4. ASSUME UNCHANGED vars PROVE QueueStep
  BY <1>4, QueueStutter, Zenon DEF vars, pipe, QueueStep
<1>5. ASSUME NEW p \in Writers, NEW s \in UNION {[1 .. n -> Bytes] : n \in 0 .. MAXN},
             pipewrite(p, s)
      PROVE  QueueStep
  BY <1>5, StartStep, Zenon DEF QueueStep
<1>. QED BY <1>1, <1>2, <1>3, <1>4, <1>5, Zenon DEF Next, Done

LEMMA InitQueue ==
  ASSUME Constants, Init
  PROVE  Queue!Init
<1>1. Inv
  BY InitInv
<1>2. used = 0
  <2>1. nread = 0 /\ nwrite = 0 /\ UINT \in Nat \ {0} /\ 0 - 0 = 0 /\ 0 \in 0 .. UINT - 1
    BY DEF Init, Constants
  <2>2. Mod(0, UINT) = 0
    BY <2>1, ModWraps
  <2>. QED BY <2>1, <2>2 DEF used, Mod
<1>3. queue \in Seq(Bytes) /\ Len(queue) = 0
  BY <1>1, <1>2, QueueLength, Zenon
<1>4. queue = <<>>
  BY <1>3
<1>. QED BY <1>4, Zenon DEF Init, Queue!Init

\* The ring with its wrapping counters is a bounded first-in first-out queue, for every
\* ring size, every modulus of the counters above it, and every number of processes.
THEOREM PipeRefinesFifo ==
  ASSUME Constants
  PROVE  Spec => PipeIsFifo
<1>1. Init => Queue!Init
  BY InitQueue, Zenon
<1>2. Inv /\ [Next]_vars => [QueueStep]_vars
  BY NextQueue, Zenon
<1>. QED BY <1>1, <1>2, PipeInvariant, PTL DEF Spec, PipeIsFifo

--------------------------------------------------------------------------------
(* The ring of the console's input.  It is like the pipe's, and its size,   *)
(* the width of its indices and its characters go by the same names here.   *)

CONSTANTS NL, EOF
VARIABLES c_buf, c_r, c_w, c_e, c_pc, c_n, c_got, c_killed

C == INSTANCE Console WITH
       INPUT_BUF_SIZE <- PIPESIZE, Chars <- Bytes, buf <- c_buf, r <- c_r, w <- c_w, e <- c_e,
       pc <- c_pc, n <- c_n, got <- c_got, killed <- c_killed

\* How many characters readers can take, and how many are being edited.
Entered == Mod(c_w - c_r, UINT)
Edited == Mod(c_e - c_w, UINT)

ConsInv ==
  /\ C!TypeOK
  /\ Entered + Edited <= PIPESIZE
  /\ C!NoLostLine

Written(d, i, c) == [d EXCEPT ![i] = c]

\* A character is written behind what the ring holds.
LEMMA WriteRing ==
  ASSUME Sizes, NEW d \in [Slots -> Bytes], NEW r \in 0 .. UINT - 1,
         NEW n \in Nat, NEW m \in Nat, n <= m, m < PIPESIZE, NEW c \in Bytes
  PROVE  /\ Written(d, Mod(r + m, PIPESIZE), c) \in [Slots -> Bytes]
         /\ Ring(Written(d, Mod(r + m, PIPESIZE), c), r, n) = Ring(d, r, n)
         /\ n = m => Ring(Written(d, Mod(r + m, PIPESIZE), c), r, n + 1) = Append(Ring(d, r, n), c)
<1> DEFINE new == Written(d, Mod(r + m, PIPESIZE), c)
<1>1. PIPESIZE \in Nat \ {0} /\ r \in Int /\ r + m \in Int /\ n + 1 \in Nat
  BY DEF Sizes
<1>2. Mod(r + m, PIPESIZE) \in Slots
  BY <1>1, ModWraps, Zenon DEF Slots
<1>3. new \in [Slots -> Bytes]
  BY Zenon DEF Written
<1>4. ASSUME NEW j \in 1 .. n
      PROVE  new[Mod(r + j - 1, PIPESIZE)] = d[Mod(r + j - 1, PIPESIZE)]
  <2>1. /\ j - 1 \in 0 .. PIPESIZE - 1 /\ m \in 0 .. PIPESIZE - 1 /\ j - 1 # m
        /\ r + j - 1 = r + (j - 1) /\ r + j - 1 \in Int
    BY <1>1
  <2>2. Mod(r + (j - 1), PIPESIZE) # Mod(r + m, PIPESIZE)
    BY <1>1, <2>1, ModDiffers, Zenon
  <2>3. Mod(r + j - 1, PIPESIZE) # Mod(r + m, PIPESIZE)
    BY <2>1, <2>2, Zenon
  <2>4. Mod(r + j - 1, PIPESIZE) \in Slots
    BY <1>1, <2>1, ModWraps, Zenon DEF Slots
  <2>. QED BY <2>3, <2>4 DEF Written
<1>5. new[Mod(r + m, PIPESIZE)] = c
  BY <1>2 DEF Written
<1> HIDE DEF new
<1>6. /\ Ring(d, r, n) \in Seq(Bytes) /\ Len(Ring(d, r, n)) = n
      /\ \A j \in 1 .. n : Ring(d, r, n)[j] = d[Mod(r + j - 1, PIPESIZE)]
  BY <1>1, RingSeq, Zenon
<1>7. Ring(new, r, n) = Ring(d, r, n)
  <2>1. /\ Ring(new, r, n) \in Seq(Bytes) /\ Len(Ring(new, r, n)) = n
        /\ \A j \in 1 .. n : Ring(new, r, n)[j] = new[Mod(r + j - 1, PIPESIZE)]
    BY <1>1, <1>3, RingSeq, Zenon
  <2>. QED BY <1>4, <1>6, <2>1, SeqEqual, Zenon
<1>8. ASSUME n = m PROVE Ring(new, r, n + 1) = Append(Ring(d, r, n), c)
  <2> DEFINE s == Ring(d, r, n)
             t == Append(s, c)
             v == Ring(new, r, n + 1)
  <2>1. /\ v \in Seq(Bytes) /\ Len(v) = n + 1
        /\ \A j \in 1 .. n + 1 : v[j] = new[Mod(r + j - 1, PIPESIZE)]
    BY <1>1, <1>3, RingSeq, Zenon
  <2> HIDE DEF s
  <2>2. /\ t \in Seq(Bytes) /\ Len(t) = n + 1 /\ t[n + 1] = c
        /\ \A j \in 1 .. n : t[j] = s[j]
    <3>1. s \in Seq(Bytes) /\ Len(s) = n
      BY <1>6, Zenon DEF s
    <3>. QED BY <3>1
  <2>3. r + (n + 1) - 1 = r + m /\ n + 1 \in 1 .. n + 1
    BY <1>1, <1>8
  <2>4. v[n + 1] = c
    BY <1>5, <2>1, <2>3, Zenon
  <2>5. \A j \in 1 .. n + 1 : j = n + 1 \/ j \in 1 .. n
    OBVIOUS
  <2>6. \A j \in 1 .. n : j \in 1 .. n + 1
    OBVIOUS
  <2>7. \A j \in 1 .. n + 1 : v[j] = t[j]
    BY <1>4, <1>6, <2>1, <2>2, <2>4, <2>5, <2>6, Zenon DEF s
  <2> HIDE DEF t, v
  <2>8. v = t
    BY <2>1, <2>2, <2>7, SeqEqual, Zenon
  <2>. QED BY <2>8, Zenon DEF s, t, v
<1>. QED BY <1>3, <1>7, <1>8, Zenon DEF new

LEMMA WriteRingEnd ==
  ASSUME Sizes, NEW d \in [Slots -> Bytes], NEW r \in 0 .. UINT - 1,
         NEW m \in Nat, m < PIPESIZE, NEW c \in Bytes
  PROVE  Ring(Written(d, Mod(r + m, PIPESIZE), c), r, m + 1) = Append(Ring(d, r, m), c)
<1>1. m <= m
  OBVIOUS
<1>. QED BY <1>1, WriteRing, ZenonT(60)

\* What the ring holds is a first and a second part.
LEMMA SplitRing ==
  ASSUME Sizes, NEW d \in [Slots -> Bytes], NEW r \in 0 .. UINT - 1,
         NEW u \in 0 .. PIPESIZE, NEW k \in 0 .. u
  PROVE  Ring(d, r, u) = Ring(d, r, k) \o Ring(d, Mod(r + k, UINT), u - k)
<1> DEFINE t == Ring(d, r, u)
<1>1. u \in Nat /\ k \in Nat
  BY DEF Sizes
<1>2. t \in Seq(Bytes) /\ Len(t) = u
  BY <1>1, RingSeq, Zenon
<1>3. Ring(d, r, k) = SubSeq(t, 1, k) /\ Ring(d, Mod(r + k, UINT), u - k) = SubSeq(t, k + 1, u)
  BY GetRing, Zenon
<1> HIDE DEF t
<1>4. 1 \in 1 .. Len(t) + 1 /\ k \in 1 - 1 .. Len(t) /\ u \in k .. Len(t)
  BY <1>1, <1>2
<1>5. SubSeq(t, 1, k) \o SubSeq(t, k + 1, u) = SubSeq(t, 1, u)
  BY <1>2, <1>4, ConcatAdjacentSubSeq, Zenon
<1>6. SubSeq(t, 1, u) = t
  BY <1>2, SubSeqFull, Zenon
<1>. QED BY <1>3, <1>5, <1>6, Zenon DEF t

\* A counter goes back.
LEMMA DistanceBack ==
  ASSUME Sizes, NEW r \in 0 .. UINT - 1, NEW w \in 0 .. UINT - 1,
         NEW k \in 0 .. UINT - 1, k <= Mod(w - r, UINT)
  PROVE  /\ Mod(w - k, UINT) \in 0 .. UINT - 1
         /\ Mod(Mod(w - k, UINT) - r, UINT) = Mod(w - r, UINT) - k
<1> DEFINE u == Mod(w - r, UINT)
           v == Mod(w - k, UINT)
<1>1. UINT \in Nat \ {0} /\ w - k \in Int
  BY DEF Sizes
<1>2. u \in 0 .. UINT - 1 /\ u = IF w >= r THEN w - r ELSE w - r + UINT
  BY Distance, Zenon
<1>3. v \in 0 .. UINT - 1 /\ v = IF w >= k THEN w - k ELSE w - k + UINT
  <2>1. v = IF w >= k THEN w - k ELSE w - k + UINT
    BY <1>1, ModMoves, ZenonT(60)
  <2>2. v \in 0 .. UINT - 1
    BY <1>1, ModWraps, Zenon
  <2>. QED BY <2>1, <2>2
<1>4. Mod(v - r, UINT) = IF v >= r THEN v - r ELSE v - r + UINT
  BY <1>3, Distance, Zenon
<1>5. k <= u
  OBVIOUS
<1> HIDE DEF u, v
<1>6. Mod(v - r, UINT) = u - k
  BY <1>1, <1>2, <1>3, <1>4, <1>5
<1>. QED BY <1>3, <1>6, Zenon DEF u, v

--------------------------------------------------------------------------------
(* What readers and the typist see of the console's ring. *)

LEMMA ConsSizes ==
  ASSUME C!Constants
  PROVE  Sizes /\ NL \in Bytes /\ EOF \in Bytes /\ NL # EOF /\ MAXN \in Nat
BY DEF C!Constants, Sizes

LEMMA ConsTypes ==
  ASSUME C!TypeOK
  PROVE  /\ c_buf \in [Slots -> Bytes] /\ c_r \in 0 .. UINT - 1 /\ c_w \in 0 .. UINT - 1
         /\ c_e \in 0 .. UINT - 1 /\ c_pc \in [Readers -> {"user", "run", "asleep"}]
         /\ c_n \in [Readers -> 0 .. MAXN] /\ c_got \in [Readers -> Seq(Bytes)]
         /\ c_killed \in [Readers -> BOOLEAN]
BY Zenon DEF C!TypeOK, C!Slots, Slots

\* A slot of the ring is found through an index that has wrapped.
LEMMA WrappedSlot ==
  ASSUME Sizes, NEW r \in 0 .. UINT - 1, NEW j \in Nat, 1 <= j, j <= UINT
  PROVE  C!minus(r + j - 1, 0) % PIPESIZE = Mod(r + j - 1, PIPESIZE)
<1>1. /\ j - 1 \in 0 .. UINT - 1 /\ 0 \in Int /\ r + (j - 1) + 0 = r + j - 1
      /\ (r + j - 1) - 0 = r + (j - 1)
  BY DEF Sizes
<1>2. Mod(r + (j - 1), UINT) + 0 = Mod(r + (j - 1), UINT)
  BY <1>1, ModWraps DEF Sizes
<1>3. Mod(Mod(r + (j - 1), UINT) + 0, PIPESIZE) = Mod(r + (j - 1) + 0, PIPESIZE)
  BY <1>1, SlotWraps, Zenon
<1>4. Mod(Mod((r + j - 1) - 0, UINT), PIPESIZE) = Mod(r + j - 1, PIPESIZE)
  BY <1>1, <1>2, <1>3, Zenon
<1>. QED BY <1>4, Zenon DEF C!minus, Mod

\* The two parts of what the ring holds.
LEMMA ConsParts ==
  ASSUME C!Constants, C!TypeOK
  PROVE  /\ Entered \in 0 .. UINT - 1 /\ Edited \in 0 .. UINT - 1
         /\ C!minus(c_w, c_r) = Entered /\ C!minus(c_e, c_w) = Edited
         /\ c_w = Mod(c_r + Entered, UINT) /\ c_e = Mod(c_w + Edited, UINT)
         /\ C!entered = Ring(c_buf, c_r, Entered) /\ C!editing = Ring(c_buf, c_w, Edited)
         /\ C!entered \in Seq(Bytes) /\ Len(C!entered) = Entered
         /\ C!editing \in Seq(Bytes) /\ Len(C!editing) = Edited
         /\ \A j \in 1 .. UINT : C!at(j) = c_buf[Mod(c_r + j - 1, PIPESIZE)]
         /\ \A j \in 1 .. Entered : C!at(j) = C!entered[j]
<1>1. Sizes /\ UINT \in Nat
  BY ConsSizes DEF Sizes
<1>2. /\ c_buf \in [Slots -> Bytes] /\ c_r \in 0 .. UINT - 1 /\ c_w \in 0 .. UINT - 1
      /\ c_e \in 0 .. UINT - 1
  BY ConsTypes, Zenon
<1>3. /\ Entered \in 0 .. UINT - 1 /\ Edited \in 0 .. UINT - 1
      /\ c_w = Mod(c_r + Entered, UINT) /\ c_e = Mod(c_w + Edited, UINT)
  BY <1>1, <1>2, Distance, Zenon DEF Entered, Edited
<1>4. C!minus(c_w, c_r) = Entered /\ C!minus(c_e, c_w) = Edited
  BY Zenon DEF C!minus, Entered, Edited, Mod
<1>5. Entered \in Nat /\ Edited \in Nat
  BY <1>1, <1>3
<1>6. \A j \in 1 .. UINT : C!at(j) = c_buf[Mod(c_r + j - 1, PIPESIZE)]
  <2> SUFFICES ASSUME NEW j \in 1 .. UINT PROVE C!at(j) = c_buf[Mod(c_r + j - 1, PIPESIZE)]
    BY Zenon
  <2>1. j \in Nat /\ 1 <= j /\ j <= UINT
    BY <1>1
  <2>. QED BY <1>1, <1>2, <2>1, WrappedSlot, Zenon DEF C!at
<1>7. \A j \in 1 .. UINT : c_buf[C!minus(c_w + j - 1, 0) % PIPESIZE] = c_buf[Mod(c_w + j - 1, PIPESIZE)]
  <2> SUFFICES ASSUME NEW j \in 1 .. UINT
               PROVE  c_buf[C!minus(c_w + j - 1, 0) % PIPESIZE] = c_buf[Mod(c_w + j - 1, PIPESIZE)]
    BY Zenon
  <2>1. j \in Nat /\ 1 <= j /\ j <= UINT
    BY <1>1
  <2>. QED BY <1>1, <1>2, <2>1, WrappedSlot, Zenon
<1>8. (\A j \in 1 .. Entered : j \in 1 .. UINT) /\ (\A j \in 1 .. Edited : j \in 1 .. UINT)
  BY <1>1, <1>3
<1>9. C!entered = Ring(c_buf, c_r, Entered)
  BY <1>4, <1>6, <1>8, Zenon DEF C!entered, Ring
<1>10. C!editing = Ring(c_buf, c_w, Edited)
  BY <1>4, <1>7, <1>8, Zenon DEF C!editing, Ring
<1>11. /\ C!entered \in Seq(Bytes) /\ Len(C!entered) = Entered
       /\ C!editing \in Seq(Bytes) /\ Len(C!editing) = Edited
  BY <1>1, <1>2, <1>5, <1>9, <1>10, RingSeq, Zenon
<1>12. \A j \in 1 .. Entered : C!at(j) = C!entered[j]
  BY <1>4, Zenon DEF C!entered
<1>. QED BY <1>3, <1>4, <1>6, <1>9, <1>10, <1>11, <1>12, ZenonT(60)

\* Together they are all that the ring holds.
LEMMA ConsWhole ==
  ASSUME C!Constants, ConsInv
  PROVE  /\ Mod(c_e - c_r, UINT) = Entered + Edited
         /\ C!minus(c_e, c_r) = Entered + Edited
         /\ Mod(c_e, PIPESIZE) = Mod(c_r + (Entered + Edited), PIPESIZE)
         /\ Mod(c_e, PIPESIZE) = Mod(c_w + Edited, PIPESIZE)
         /\ Ring(c_buf, c_r, Entered + Edited) = C!entered \o C!editing
<1>1. Sizes /\ UINT \in Nat \ {0} /\ PIPESIZE \in Nat \ {0} /\ PIPESIZE < UINT
  BY ConsSizes DEF Sizes
<1>2. /\ c_buf \in [Slots -> Bytes] /\ c_r \in 0 .. UINT - 1 /\ c_w \in 0 .. UINT - 1
      /\ c_e \in 0 .. UINT - 1
  BY ConsTypes, Zenon DEF ConsInv
<1>3. /\ Entered \in 0 .. UINT - 1 /\ Edited \in 0 .. UINT - 1
      /\ c_w = Mod(c_r + Entered, UINT) /\ c_e = Mod(c_w + Edited, UINT)
      /\ C!entered = Ring(c_buf, c_r, Entered) /\ C!editing = Ring(c_buf, c_w, Edited)
  BY ConsParts, Zenon DEF ConsInv
<1>4. /\ Entered + Edited <= PIPESIZE /\ Entered + Edited < UINT
      /\ Entered + Edited \in 0 .. UINT - 1 /\ Entered + Edited \in 0 .. PIPESIZE
      /\ Entered \in 0 .. Entered + Edited /\ (Entered + Edited) - Entered = Edited
  BY <1>1, <1>3 DEF ConsInv
<1>5. Mod(c_e - c_r, UINT) = Entered + Edited
  <2>1. Mod(c_w - c_r, UINT) + Edited < UINT /\ Mod(c_w - c_r, UINT) = Entered
    BY <1>4 DEF Entered
  <2>2. Mod(Mod(c_w + Edited, UINT) - c_r, UINT) = Mod(c_w - c_r, UINT) + Edited
    BY <1>1, <1>2, <1>3, <2>1, DistanceUp, ZenonT(60)
  <2>. QED BY <1>3, <2>1, <2>2, Zenon
<1>6. C!minus(c_e, c_r) = Entered + Edited
  BY <1>5, Zenon DEF C!minus, Mod
<1>7. Mod(c_e, PIPESIZE) = Mod(c_w + Edited, PIPESIZE)
  <2>1. Mod(Mod(c_w + Edited, UINT) + 0, PIPESIZE) = Mod(c_w + Edited + 0, PIPESIZE)
    BY <1>1, <1>2, <1>3, SlotWraps
  <2>2. c_e + 0 = c_e /\ c_w + Edited + 0 = c_w + Edited
    BY <1>1, <1>2, <1>3
  <2>. QED BY <1>3, <2>1, <2>2, Zenon
<1>8. Mod(c_e, PIPESIZE) = Mod(c_r + (Entered + Edited), PIPESIZE)
  <2>1. Mod(Mod(c_r + Entered, UINT) + Edited, PIPESIZE) = Mod(c_r + Entered + Edited, PIPESIZE)
    BY <1>1, <1>2, <1>3, SlotWraps
  <2>2. c_r + Entered + Edited = c_r + (Entered + Edited)
    BY <1>1, <1>2, <1>3
  <2>. QED BY <1>3, <1>7, <2>1, <2>2, Zenon
<1>9. Ring(c_buf, c_r, Entered + Edited) = C!entered \o C!editing
  <2>1. Ring(c_buf, c_r, Entered + Edited) =
          Ring(c_buf, c_r, Entered) \o Ring(c_buf, Mod(c_r + Entered, UINT), (Entered + Edited) - Entered)
    BY <1>1, <1>2, <1>4, SplitRing, ZenonT(60)
  <2>. QED BY <1>3, <1>4, <2>1, Zenon
<1>. QED BY <1>5, <1>6, <1>7, <1>8, <1>9, Zenon

--------------------------------------------------------------------------------
(* The steps of the console. *)

\* What is between two indices.
LEMMA Segment ==
  ASSUME Sizes, NEW b, NEW f \in 0 .. UINT - 1, NEW t \in 0 .. UINT - 1
  PROVE  [j \in 1 .. C!minus(t, f) |-> b[C!minus(f + j - 1, 0) % PIPESIZE]] =
           Ring(b, f, Mod(t - f, UINT))
<1>1. C!minus(t, f) = Mod(t - f, UINT)
  BY Zenon DEF C!minus, Mod
<1>2. Mod(t - f, UINT) \in 0 .. UINT - 1 /\ UINT \in Nat
  BY Distance, Zenon DEF Sizes
<1>3. \A j \in 1 .. Mod(t - f, UINT) : C!minus(f + j - 1, 0) % PIPESIZE = Mod(f + j - 1, PIPESIZE)
  <2> SUFFICES ASSUME NEW j \in 1 .. Mod(t - f, UINT)
               PROVE  C!minus(f + j - 1, 0) % PIPESIZE = Mod(f + j - 1, PIPESIZE)
    BY Zenon
  <2>1. j \in Nat /\ 1 <= j /\ j <= UINT
    BY <1>2
  <2>. QED BY <2>1, WrappedSlot, Zenon
<1>. QED BY <1>1, <1>3, Zenon DEF Ring

LEMMA PartsNext ==
  ASSUME Sizes, c_r' \in 0 .. UINT - 1, c_w' \in 0 .. UINT - 1, c_e' \in 0 .. UINT - 1
  PROVE  /\ C!entered' = Ring(c_buf', c_r', Mod(c_w' - c_r', UINT))
         /\ C!editing' = Ring(c_buf', c_w', Mod(c_e' - c_w', UINT))
BY Segment, Zenon DEF C!entered, C!editing, C!at

LineStep == [C!Lines!Next]_(C!Lines!vars)

\* The ring stays as it is.
LEMMA ConsQuiet ==
  ASSUME C!Constants, ConsInv, UNCHANGED <<c_buf, c_r, c_w, c_e>>,
         c_pc' \in [Readers -> {"user", "run", "asleep"}], c_n' \in [Readers -> 0 .. MAXN],
         c_got' \in [Readers -> Seq(Bytes)], c_killed' \in [Readers -> BOOLEAN],
         \A p \in Readers : c_pc'[p] = "asleep" => c_pc[p] = "asleep" /\ c_killed'[p] = c_killed[p]
  PROVE  ConsInv' /\ C!entered' = C!entered /\ C!editing' = C!editing
<1>1. Entered' = Entered /\ Edited' = Edited
  BY Zenon DEF Entered, Edited
<1>2. C!entered' = C!entered /\ C!editing' = C!editing
  BY Zenon DEF C!entered, C!editing, C!at
<1>3. C!TypeOK'
  BY Zenon DEF ConsInv, C!TypeOK
<1>4. C!NoLostLine'
  BY Zenon DEF ConsInv, C!NoLostLine
<1>. QED BY <1>1, <1>2, <1>3, <1>4, Zenon DEF ConsInv

LEMMA ConsBegin ==
  ASSUME C!Constants, ConsInv, NEW p \in Readers, NEW k \in 1 .. MAXN, C!consoleread(p, k)
  PROVE  ConsInv' /\ LineStep
<1>1. /\ UNCHANGED <<c_buf, c_r, c_w, c_e, c_killed>> /\ c_pc' = [c_pc EXCEPT ![p] = "run"]
      /\ c_n' = [c_n EXCEPT ![p] = k] /\ c_got' = [c_got EXCEPT ![p] = <<>>]
  BY Zenon DEF C!consoleread, C!cons
<1>2. C!TypeOK /\ k \in 0 .. MAXN
  BY ConsSizes DEF ConsInv
<1>3. /\ c_pc' \in [Readers -> {"user", "run", "asleep"}] /\ c_n' \in [Readers -> 0 .. MAXN]
      /\ c_got' \in [Readers -> Seq(Bytes)]
      /\ \A q \in Readers : c_pc'[q] = "asleep" => c_pc[q] = "asleep"
  BY <1>1, <1>2, ConsTypes
<1>4. c_killed' \in [Readers -> BOOLEAN]
  BY <1>1, <1>2, ConsTypes, Zenon
<1>5. ConsInv' /\ C!entered' = C!entered /\ C!editing' = C!editing
  BY <1>1, <1>3, <1>4, ConsQuiet, Zenon
<1>6. C!Lines!Begin(p)
  BY <1>1, <1>5, Zenon DEF C!Lines!Begin
<1>. QED BY <1>5, <1>6, Zenon DEF LineStep, C!Lines!Next

LEMMA ConsKill ==
  ASSUME C!Constants, ConsInv, NEW p \in Readers, C!kkill(p)
  PROVE  ConsInv' /\ LineStep
<1>1. /\ UNCHANGED <<c_buf, c_r, c_w, c_e, c_n, c_got>> /\ c_killed' = [c_killed EXCEPT ![p] = TRUE]
      /\ c_pc' = [c_pc EXCEPT ![p] = IF @ = "asleep" THEN "run" ELSE @]
  BY Zenon DEF C!kkill, C!kill_wakes, C!cons
<1>2. /\ c_pc \in [Readers -> {"user", "run", "asleep"}] /\ c_killed \in [Readers -> BOOLEAN]
      /\ c_n \in [Readers -> 0 .. MAXN] /\ c_got \in [Readers -> Seq(Bytes)]
  BY ConsTypes, Zenon DEF ConsInv
<1>3. /\ c_pc' \in [Readers -> {"user", "run", "asleep"}]
      /\ \A q \in Readers : c_pc'[q] = "asleep" => c_pc[q] = "asleep" /\ q # p
  BY <1>1, <1>2
<1>4. c_killed' \in [Readers -> BOOLEAN] /\ \A q \in Readers : q # p => c_killed'[q] = c_killed[q]
  BY <1>1, <1>2, Zenon
<1>5. c_n' \in [Readers -> 0 .. MAXN] /\ c_got' \in [Readers -> Seq(Bytes)]
  BY <1>1, <1>2, Zenon
<1>6. \A q \in Readers : c_pc'[q] = "asleep" => c_pc[q] = "asleep" /\ c_killed'[q] = c_killed[q]
  BY <1>3, <1>4, Zenon
<1>7. UNCHANGED <<c_buf, c_r, c_w, c_e>>
  BY <1>1, Zenon
<1>8. ConsInv' /\ C!entered' = C!entered /\ C!editing' = C!editing
  BY <1>3, <1>4, <1>5, <1>6, <1>7, ConsQuiet, ZenonT(60)
<1>. QED BY <1>1, <1>8, Zenon DEF LineStep, C!Lines!vars

\* The last k characters of the line being edited go.
LEMMA ConsErase ==
  ASSUME C!Constants, ConsInv, NEW k \in 0 .. Edited, c_e' = C!minus(c_e, k),
         UNCHANGED <<c_buf, c_r, c_w, c_pc, c_n, c_got, c_killed>>
  PROVE  ConsInv' /\ LineStep
<1>1. Sizes /\ UINT \in Nat \ {0} /\ PIPESIZE \in Nat /\ PIPESIZE < UINT
  BY ConsSizes DEF Sizes
<1>2. /\ c_buf \in [Slots -> Bytes] /\ c_r \in 0 .. UINT - 1 /\ c_w \in 0 .. UINT - 1
      /\ c_e \in 0 .. UINT - 1 /\ C!TypeOK
  BY ConsTypes, Zenon DEF ConsInv
<1>3. /\ Entered \in 0 .. UINT - 1 /\ Edited \in 0 .. UINT - 1
      /\ C!entered = Ring(c_buf, c_r, Entered) /\ C!editing = Ring(c_buf, c_w, Edited)
      /\ C!editing \in Seq(Bytes) /\ Len(C!editing) = Edited
  BY <1>2, ConsParts, Zenon
<1>4. /\ k \in 0 .. UINT - 1 /\ k <= Edited /\ Edited \in 0 .. PIPESIZE /\ Entered + Edited <= PIPESIZE
      /\ Edited - k \in 0 .. Edited /\ k \in Nat
  BY <1>1, <1>3 DEF ConsInv
<1>5. /\ c_e' \in 0 .. UINT - 1 /\ Mod(c_e' - c_w, UINT) = Edited - k
  <2>1. c_e' = Mod(c_e - k, UINT)
    BY Zenon DEF C!minus, Mod
  <2>2. k <= Mod(c_e - c_w, UINT)
    BY <1>4 DEF Edited
  <2>3. /\ Mod(c_e - k, UINT) \in 0 .. UINT - 1
        /\ Mod(Mod(c_e - k, UINT) - c_w, UINT) = Mod(c_e - c_w, UINT) - k
    BY <1>1, <1>2, <1>4, <2>2, DistanceBack, Zenon
  <2>. QED BY <2>1, <2>3, Zenon DEF Edited
<1>6. Entered' = Entered /\ Edited' = Edited - k
  BY <1>5, Zenon DEF Entered, Edited
<1>7. ConsInv'
  <2>1. C!TypeOK'
    BY <1>2, <1>5, Zenon DEF C!TypeOK
  <2>2. C!NoLostLine'
    BY Zenon DEF ConsInv, C!NoLostLine
  <2>3. (Entered + Edited <= PIPESIZE)'
    BY <1>1, <1>3, <1>4, <1>6, SMTT(60)
  <2>. QED BY <2>1, <2>2, <2>3, Zenon DEF ConsInv
<1>8. C!entered' = C!entered
  BY Zenon DEF C!entered, C!at
<1>9. C!editing' = SubSeq(C!editing, 1, Len(C!editing) - k)
  <2>1. c_r' \in 0 .. UINT - 1 /\ c_w' \in 0 .. UINT - 1 /\ c_buf' = c_buf /\ c_w' = c_w
    BY <1>2, Zenon
  <2>2. C!editing' = Ring(c_buf', c_w', Mod(c_e' - c_w', UINT))
    BY <1>1, <1>5, <2>1, PartsNext, Zenon
  <2>3. C!editing' = Ring(c_buf, c_w, Edited - k)
    BY <1>5, <2>1, <2>2, Zenon
  <2>4. Ring(c_buf, c_w, Edited - k) = SubSeq(Ring(c_buf, c_w, Edited), 1, Edited - k)
    BY <1>1, <1>2, <1>4, GetRing, ZenonT(60)
  <2>. QED BY <1>3, <2>3, <2>4, Zenon
<1>10. CASE k = 0
  <2>1. C!editing' = C!editing
    <3>1. Len(C!editing) - k = Len(C!editing)
      BY <1>3, <1>4, <1>10
    <3>. QED BY <1>3, <1>9, <3>1, SubSeqFull, Zenon
  <2>. QED BY <1>7, <1>8, <2>1, Zenon DEF LineStep, C!Lines!vars
<1>11. CASE k # 0
  <2>1. k \in 1 .. Len(C!editing)
    BY <1>3, <1>4, <1>11
  <2>2. C!Lines!Erase(k)
    BY <1>8, <1>9, Zenon DEF C!Lines!Erase
  <2>. QED BY <1>7, <2>1, <2>2, Zenon DEF LineStep, C!Lines!Next
<1>. QED BY <1>10, <1>11

LEMMA ConsErases ==
  ASSUME C!Constants, ConsInv, C!consoleintr_backspace \/ C!consoleintr_kill
  PROVE  ConsInv' /\ LineStep
<1>1. C!erasable = Edited /\ Edited \in Nat
  <2>1. Edited \in 0 .. UINT - 1 /\ C!minus(c_e, c_w) = Edited
    BY ConsParts, Zenon DEF ConsInv
  <2>. QED BY <2>1 DEF C!erasable
<1>2. CASE C!consoleintr_backspace
  <2>1. C!erasable > 0 /\ c_e' = C!minus(c_e, 1) /\ UNCHANGED <<c_buf, c_r, c_w, c_pc, c_n, c_got, c_killed>>
    BY <1>2, Zenon DEF C!consoleintr_backspace
  <2>2. 1 \in 0 .. Edited
    BY <1>1, <2>1
  <2>. QED BY <2>1, <2>2, ConsErase, Zenon
<1>3. CASE C!consoleintr_kill
  <2>1. PICK k \in 0 .. C!erasable : c_e' = C!minus(c_e, k)
    BY <1>3, Zenon DEF C!consoleintr_kill
  <2>2. UNCHANGED <<c_buf, c_r, c_w, c_pc, c_n, c_got, c_killed>>
    BY <1>3, Zenon DEF C!consoleintr_kill
  <2>. QED BY <1>1, <2>1, <2>2, ConsErase, Zenon
<1>. QED BY <1>2, <1>3

LEMMA AppendConcat ==
  ASSUME NEW s \in Seq(Bytes), NEW t \in Seq(Bytes), NEW c \in Bytes
  PROVE  /\ Append(t, c) \in Seq(Bytes) /\ Len(Append(t, c)) = Len(t) + 1
         /\ Append(s \o t, c) = s \o Append(t, c)
<1>1. <<c>> \in Seq(Bytes)
  OBVIOUS
<1>2. s \o t \in Seq(Bytes)
  BY ConcatProperties, Zenon
<1>3. Append(s \o t, c) = (s \o t) \o <<c>> /\ Append(t, c) = t \o <<c>>
  BY <1>2, AppendIsConcat, Zenon
<1>4. (s \o t) \o <<c>> = s \o (t \o <<c>>)
  BY <1>1, ConcatAssociative, SMTT(60)
<1>5. Append(t, c) \in Seq(Bytes) /\ Len(Append(t, c)) = Len(t) + 1
  OBVIOUS
<1>. QED BY <1>3, <1>4, <1>5, Zenon

\* A character is typed.
LEMMA ConsChar ==
  ASSUME C!Constants, ConsInv, NEW c \in Bytes, C!consoleintr_char(c)
  PROVE  ConsInv' /\ LineStep
<1> DEFINE a == Entered
           b == Edited
<1>1. Sizes /\ UINT \in Nat \ {0} /\ PIPESIZE \in Nat /\ PIPESIZE < UINT
  BY ConsSizes DEF Sizes
<1>2. /\ c_buf \in [Slots -> Bytes] /\ c_r \in 0 .. UINT - 1 /\ c_w \in 0 .. UINT - 1
      /\ c_e \in 0 .. UINT - 1 /\ C!TypeOK /\ c_pc \in [Readers -> {"user", "run", "asleep"}]
  BY ConsTypes, Zenon DEF ConsInv
<1>3. /\ a \in 0 .. UINT - 1 /\ b \in 0 .. UINT - 1
      /\ C!entered = Ring(c_buf, c_r, a) /\ C!editing = Ring(c_buf, c_w, b)
      /\ C!entered \in Seq(Bytes) /\ Len(C!entered) = a
      /\ C!editing \in Seq(Bytes) /\ Len(C!editing) = b
  BY <1>2, ConsParts, Zenon
<1>4. /\ Mod(c_e - c_r, UINT) = a + b /\ C!minus(c_e, c_r) = a + b
      /\ Mod(c_e, PIPESIZE) = Mod(c_r + (a + b), PIPESIZE)
      /\ Mod(c_e, PIPESIZE) = Mod(c_w + b, PIPESIZE)
      /\ Ring(c_buf, c_r, a + b) = C!entered \o C!editing
  BY ConsWhole, Zenon
<1>5. Mod(c_e - c_w, UINT) = b /\ Mod(c_w - c_r, UINT) = a
  BY Zenon DEF Entered, Edited
<1> HIDE DEF a, b
<1>6. /\ c_buf' = Written(c_buf, Mod(c_e, PIPESIZE), c) /\ c_e' = C!minus(c_e + 1, 0)
      /\ c_w' = (IF C!enters(c) THEN c_e' ELSE c_w) /\ UNCHANGED <<c_r, c_n, c_got, c_killed>>
      /\ c_pc' = (IF C!enters(c) THEN C!woken ELSE c_pc) /\ C!minus(c_e, c_r) < PIPESIZE
  BY Zenon DEF C!consoleintr_char, C!has_room, Mod, Written
<1>7. /\ a + b < PIPESIZE /\ a + b + 1 < UINT /\ b + 1 < UINT /\ 1 \in 0 .. UINT - 1
      /\ a + b \in Nat /\ a \in Nat /\ b \in Nat /\ a <= a + b /\ b < PIPESIZE
  BY <1>1, <1>3, <1>4, <1>6
<1>8. c_e' = Mod(c_e + 1, UINT) /\ c_e' \in 0 .. UINT - 1
  <2>1. (c_e + 1) - 0 = c_e + 1 /\ c_e + 1 \in Int
    BY <1>1, <1>2
  <2>2. c_e' = Mod(c_e + 1, UINT)
    BY <1>6, <2>1, Zenon DEF C!minus, Mod
  <2>. QED BY <1>1, <2>1, <2>2, ModWraps, Zenon
<1>9. Mod(c_e' - c_w, UINT) = b + 1
  BY <1>1, <1>2, <1>5, <1>7, <1>8, DistanceUp, ZenonT(60)
<1>10. Mod(c_e' - c_r, UINT) = a + b + 1
  <2>1. Mod(c_e - c_r, UINT) + 1 < UINT /\ Mod(c_e - c_r, UINT) + 1 = a + b + 1
    BY <1>4, <1>7
  <2>2. Mod(Mod(c_e + 1, UINT) - c_r, UINT) = Mod(c_e - c_r, UINT) + 1
    BY <1>1, <1>2, <1>7, <2>1, DistanceUp, ZenonT(60)
  <2>. QED BY <1>8, <2>1, <2>2, Zenon
<1>11. C!minus(c_e + 1, c_r) = a + b + 1
  <2>1. a + b = IF c_e >= c_r THEN c_e - c_r ELSE c_e - c_r + UINT
    BY <1>1, <1>2, <1>4, Distance, Zenon
  <2>2. c_e + 1 - c_r \in Int
    BY <1>1, <1>2
  <2>3. Mod(c_e + 1 - c_r, UINT) = a + b + 1
    <3>1. CASE c_e >= c_r
      <4>1. 0 <= c_e + 1 - c_r /\ c_e + 1 - c_r < UINT /\ c_e + 1 - c_r = a + b + 1
        BY <1>1, <1>2, <1>7, <2>1, <3>1, SMTT(60)
      <4>. QED BY <1>1, <2>2, <4>1, ModWraps, Zenon
    <3>2. CASE ~(c_e >= c_r)
      <4>1. -UINT <= c_e + 1 - c_r /\ c_e + 1 - c_r < 0 /\ (c_e + 1 - c_r) + UINT = a + b + 1
        BY <1>1, <1>2, <1>7, <2>1, <3>2, SMTT(60)
      <4>. QED BY <1>1, <2>2, <4>1, ModWraps, ZenonT(60)
    <3>. QED BY <3>1, <3>2
  <2>4. (c_e + 1) - c_r = c_e + 1 - c_r
    BY <1>1, <1>2
  <2>5. C!minus(c_e + 1, c_r) = Mod((c_e + 1) - c_r, UINT)
    BY Zenon DEF C!minus, Mod
  <2>. QED BY <2>3, <2>4, <2>5, Zenon
<1>12. C!enters(c) <=> c \in {NL, EOF} \/ a + b + 1 = PIPESIZE
  BY <1>11, Zenon DEF C!enters
<1>13. c_buf' \in [Slots -> Bytes] /\ c_w' \in 0 .. UINT - 1 /\ c_r' \in 0 .. UINT - 1
  <2>1. c_buf' \in [Slots -> Bytes]
    BY <1>2, <1>6, Zenon DEF Written
  <2>. QED BY <1>2, <1>6, <1>8, <2>1, Zenon
<1>14. /\ C!entered' = Ring(c_buf', c_r, Mod(c_w' - c_r, UINT))
       /\ C!editing' = Ring(c_buf', c_w', Mod(c_e' - c_w', UINT))
  BY <1>1, <1>6, <1>8, <1>13, PartsNext, ZenonT(60)
<1>15. /\ Ring(c_buf', c_r, a) = C!entered
       /\ Ring(c_buf', c_r, a + b + 1) = Append(C!entered \o C!editing, c)
  <2>1. c_buf' = Written(c_buf, Mod(c_r + (a + b), PIPESIZE), c)
    BY <1>4, <1>6, Zenon
  <2> DEFINE m == a + b
             new == Written(c_buf, Mod(c_r + m, PIPESIZE), c)
  <2>2. m \in Nat /\ a \in Nat /\ a <= m /\ m <= m /\ m < PIPESIZE
    BY <1>7
  <2> HIDE DEF m
  <2>3. Sizes /\ c_buf \in [Slots -> Bytes] /\ c_r \in 0 .. UINT - 1
    BY <1>1, <1>2, Zenon
  <2>4. Ring(new, c_r, a) = Ring(c_buf, c_r, a)
    BY <2>2, <2>3, WriteRing, ZenonT(60)
  <2>5. Ring(new, c_r, m + 1) = Append(Ring(c_buf, c_r, m), c)
    BY <2>2, <2>3, WriteRingEnd, Zenon
  <2>. QED BY <1>3, <1>4, <2>1, <2>4, <2>5, ZenonT(60) DEF m
<1>16. Ring(c_buf', c_w, b + 1) = Append(C!editing, c)
  <2>1. c_buf' = Written(c_buf, Mod(c_w + b, PIPESIZE), c)
    BY <1>4, <1>6, Zenon
  <2>2. /\ Sizes /\ c_buf \in [Slots -> Bytes] /\ c_w \in 0 .. UINT - 1
        /\ b \in Nat /\ b < PIPESIZE
    BY <1>1, <1>2, <1>7, Zenon
  <2> DEFINE new == Written(c_buf, Mod(c_w + b, PIPESIZE), c)
  <2>3. Ring(new, c_w, b + 1) = Append(Ring(c_buf, c_w, b), c)
    BY <2>2, WriteRingEnd, Zenon
  <2>. QED BY <1>3, <2>1, <2>3, Zenon
<1>17. /\ Append(C!editing, c) \in Seq(Bytes) /\ Len(Append(C!editing, c)) = b + 1
       /\ Append(C!entered \o C!editing, c) = C!entered \o Append(C!editing, c)
  BY <1>3, AppendConcat, ZenonT(60)
<1>18. ~C!Lines!Full(C!editing)
  <2>1. a + b # PIPESIZE
    BY <1>1, <1>7
  <2>. QED BY <1>3, <2>1, Zenon DEF C!Lines!Full
<1>19. C!Lines!Full(Append(C!editing, c)) <=> a + b + 1 = PIPESIZE
  <2>1. a + (b + 1) = a + b + 1
    BY <1>7
  <2>. QED BY <1>3, <1>17, <2>1, Zenon DEF C!Lines!Full
<1>20. C!TypeOK'
  <2>1. c_pc' \in [Readers -> {"user", "run", "asleep"}]
    BY <1>2, <1>6 DEF C!woken
  <2>2. c_buf' \in [C!Slots -> Bytes]
    BY <1>13, Zenon DEF C!Slots, Slots
  <2>. QED BY <1>2, <1>6, <1>8, <1>13, <2>1, <2>2, ZenonT(60) DEF C!TypeOK
<1>21. CASE C!enters(c)
  <2>1. c_w' = c_e' /\ c_pc' = C!woken
    BY <1>6, <1>21, Zenon
  <2>2. Mod(c_e' - c_w', UINT) = 0
    <3>1. c_e' - c_w' = 0 /\ 0 < UINT
      BY <1>1, <1>8, <2>1
    <3>. QED BY <1>1, <3>1, ModWraps
  <2>3. C!entered' = C!entered \o Append(C!editing, c)
    BY <1>10, <1>14, <1>15, <1>17, <2>1, ZenonT(60)
  <2>4. C!editing' = <<>>
    <3>1. C!editing' = Ring(c_buf', c_w', 0) /\ 0 \in Nat
      BY <1>14, <2>2
    <3>2. C!editing' \in Seq(Bytes) /\ Len(C!editing') = 0
      BY <1>1, <1>13, <3>1, RingSeq, Zenon
    <3>. QED BY <3>2
  <2>5. C!Lines!Type(c)
    <3>1. c \in {NL, EOF} \/ C!Lines!Full(Append(C!editing, c))
      BY <1>12, <1>19, <1>21, ZenonT(60)
    <3>2. c_got' = c_got
      BY <1>6, Zenon
    <3>. QED BY <1>18, <2>3, <2>4, <3>1, <3>2, ZenonT(60) DEF C!Lines!Type
  <2>6. ConsInv'
    <3>1. Entered' = a + b + 1 /\ Edited' = 0
      BY <1>6, <1>10, <2>1, <2>2, ZenonT(60) DEF Entered, Edited
    <3>2. (Entered + Edited <= PIPESIZE)'
      BY <1>1, <1>7, <3>1
    <3>3. C!NoLostLine'
      <4>1. \A p \in Readers : c_pc'[p] # "asleep"
        BY <2>1, SMTT(60) DEF C!woken
      <4>. QED BY <4>1, Zenon DEF C!NoLostLine
    <3>. QED BY <1>20, <3>2, <3>3, Zenon DEF ConsInv
  <2>. QED BY <2>5, <2>6, Zenon DEF LineStep, C!Lines!Next
<1>22. CASE ~C!enters(c)
  <2>1. c_w' = c_w /\ c_pc' = c_pc /\ c_got' = c_got /\ c_r' = c_r /\ c_killed' = c_killed
    BY <1>6, <1>22, Zenon
  <2>2. C!entered' = C!entered
    BY <1>5, <1>14, <1>15, <2>1, ZenonT(60)
  <2>3. C!editing' = Append(C!editing, c)
    BY <1>9, <1>14, <1>16, <2>1, ZenonT(60)
  <2>4. C!Lines!Type(c)
    <3>1. ~(c \in {NL, EOF} \/ C!Lines!Full(Append(C!editing, c)))
      BY <1>12, <1>19, <1>22, ZenonT(60)
    <3>. QED BY <1>18, <2>1, <2>2, <2>3, <3>1, ZenonT(60) DEF C!Lines!Type
  <2>5. ConsInv'
    <3>1. Entered' = a /\ Edited' = b + 1
      BY <1>5, <1>9, <2>1, ZenonT(60) DEF Entered, Edited
    <3>2. (Entered + Edited <= PIPESIZE)'
      BY <1>1, <1>7, <3>1, SMTT(60)
    <3>3. C!NoLostLine'
      BY <2>1, Zenon DEF ConsInv, C!NoLostLine
    <3>. QED BY <1>20, <3>2, <3>3, Zenon DEF ConsInv
  <2>. QED BY <2>4, <2>5, Zenon DEF LineStep, C!Lines!Next
<1>. QED BY <1>21, <1>22

\* The read of p copies k characters and moves c_r by m; it ends, or it sleeps when it has
\* taken all there was.
LEMMA ConsRead ==
  ASSUME C!Constants, ConsInv, NEW p \in Readers, NEW k \in 0 .. Entered, NEW m \in 0 .. Entered,
         NEW x \in {"user", "asleep"}, NEW y \in 0 .. MAXN,
         x = "asleep" => m = Entered /\ ~c_killed[p],
         c_r' = Mod(c_r + m, UINT), C!Copy(p, k), UNCHANGED <<c_buf, c_w, c_e, c_killed>>,
         c_pc' = [c_pc EXCEPT ![p] = x], c_n' = [c_n EXCEPT ![p] = y]
  PROVE  /\ ConsInv' /\ C!editing' = C!editing
         /\ C!entered' = SubSeq(C!entered, m + 1, Len(C!entered))
         /\ c_got' = [c_got EXCEPT ![p] = @ \o SubSeq(C!entered, 1, k)]
         /\ k \in 0 .. Len(C!entered) /\ Len(C!entered) = Entered
<1>1. Sizes /\ UINT \in Nat \ {0} /\ PIPESIZE \in Nat /\ PIPESIZE < UINT
  BY ConsSizes DEF Sizes
<1>2. /\ c_buf \in [Slots -> Bytes] /\ c_r \in 0 .. UINT - 1 /\ c_w \in 0 .. UINT - 1
      /\ c_e \in 0 .. UINT - 1 /\ C!TypeOK
  BY ConsTypes, Zenon DEF ConsInv
<1>3. /\ c_pc \in [Readers -> {"user", "run", "asleep"}] /\ c_n \in [Readers -> 0 .. MAXN]
      /\ c_got \in [Readers -> Seq(Bytes)]
  BY <1>2, ConsTypes, Zenon
<1>4. /\ Entered \in 0 .. UINT - 1 /\ Edited \in 0 .. UINT - 1 /\ c_w = Mod(c_r + Entered, UINT)
      /\ C!entered = Ring(c_buf, c_r, Entered)
      /\ C!entered \in Seq(Bytes) /\ Len(C!entered) = Entered
      /\ \A j \in 1 .. Entered : C!at(j) = C!entered[j]
  BY <1>2, ConsParts, Zenon
<1>5. /\ Entered \in 0 .. PIPESIZE /\ Entered + Edited <= PIPESIZE /\ Entered \in Nat
      /\ m \in 0 .. UINT - 1 /\ m <= Entered /\ m \in Nat /\ k \in Nat /\ k <= Entered
  BY <1>1, <1>4 DEF ConsInv
<1>6. c_r' \in 0 .. UINT - 1 /\ Mod(c_w - c_r', UINT) = Entered - m
  <2>1. m <= Mod(c_w - c_r, UINT) /\ c_r + m \in Int
    BY <1>1, <1>2, <1>5 DEF Entered
  <2>2. Mod(c_w - Mod(c_r + m, UINT), UINT) = Mod(c_w - c_r, UINT) - m
    BY <1>1, <1>2, <1>5, <2>1, DistanceDown, Zenon
  <2>3. Mod(c_r + m, UINT) \in 0 .. UINT - 1
    BY <1>1, <2>1, ModWraps, Zenon
  <2>. QED BY <2>2, <2>3, Zenon DEF Entered
<1>7. Entered' = Entered - m /\ Edited' = Edited
  BY <1>6, Zenon DEF Entered, Edited
<1>8. C!editing' = C!editing
  BY Zenon DEF C!editing
<1>9. C!entered' = SubSeq(C!entered, m + 1, Len(C!entered))
  <2>1. c_w' \in 0 .. UINT - 1 /\ c_e' \in 0 .. UINT - 1 /\ c_buf' = c_buf /\ c_w' = c_w
    BY <1>2, Zenon
  <2>2. C!entered' = Ring(c_buf', c_r', Mod(c_w' - c_r', UINT))
    BY <1>1, <1>6, <2>1, PartsNext, Zenon
  <2>3. C!entered' = Ring(c_buf, Mod(c_r + m, UINT), Entered - m)
    BY <1>6, <2>1, <2>2, Zenon
  <2>4. Ring(c_buf, Mod(c_r + m, UINT), Entered - m) = SubSeq(Ring(c_buf, c_r, Entered), m + 1, Entered)
    BY <1>1, <1>2, <1>5, GetRing, ZenonT(60)
  <2>. QED BY <1>4, <2>3, <2>4, Zenon
<1>10. [j \in 1 .. k |-> C!at(j)] = SubSeq(C!entered, 1, k) /\ SubSeq(C!entered, 1, k) \in Seq(Bytes)
  <2> DEFINE s == SubSeq(C!entered, 1, k)
             t == [j \in 1 .. k |-> C!at(j)]
  <2>1. s \in Seq(Bytes) /\ Len(s) = k /\ \A j \in 1 .. k : s[j] = C!entered[j]
    BY <1>4, <1>5
  <2>2. \A j \in 1 .. k : j \in 1 .. Entered /\ j \in 1 .. Len(C!entered)
    BY <1>4, <1>5
  <2>3. \A j \in 1 .. k : C!at(j) = C!entered[j] /\ C!entered[j] \in Bytes
    BY <1>4, <2>2, ElementOfSeq, Zenon
  <2>4. t \in [1 .. k -> Bytes]
    BY <2>3, Zenon
  <2>5. t \in Seq(Bytes)
    BY <1>5, <2>4, SeqDef, ZenonT(60)
  <2>6. Len(t) = k
    BY <1>5, <2>4, <2>5
  <2>7. \A j \in 1 .. k : t[j] = s[j]
    BY <2>1, <2>3, Zenon
  <2> HIDE DEF s, t
  <2>8. t = s
    BY <2>1, <2>5, <2>6, <2>7, SeqEqual, Zenon
  <2>. QED BY <2>1, <2>8, Zenon DEF s, t
<1>11. c_got' = [c_got EXCEPT ![p] = @ \o SubSeq(C!entered, 1, k)]
  BY <1>10, Zenon DEF C!Copy
<1>12. c_got' \in [Readers -> Seq(Bytes)]
  <2>1. c_got[p] \o SubSeq(C!entered, 1, k) \in Seq(Bytes)
    BY <1>3, <1>10, ConcatProperties, Zenon
  <2>. QED BY <1>3, <1>11, <2>1, Zenon
<1>13. c_pc' \in [Readers -> {"user", "run", "asleep"}] /\ c_n' \in [Readers -> 0 .. MAXN]
  BY <1>3
<1>14. C!TypeOK'
  BY <1>2, <1>6, <1>12, <1>13, ZenonT(60) DEF C!TypeOK
<1>15. C!NoLostLine'
  <2> SUFFICES ASSUME NEW q \in Readers, c_pc'[q] = "asleep"
               PROVE  c_r' = c_w' /\ ~c_killed'[q]
    BY Zenon DEF C!NoLostLine
  <2>1. c_w' = c_w /\ c_killed' = c_killed
    BY Zenon
  <2>2. CASE q = p
    <3>1. x = "asleep"
      BY <1>3, <2>2
    <3>2. m = Entered /\ ~c_killed[p]
      BY <3>1, Zenon
    <3>. QED BY <1>4, <2>1, <2>2, <3>2, ZenonT(60)
  <2>3. CASE q # p
    <3>1. c_pc[q] = "asleep"
      BY <1>3, <2>3
    <3>2. c_r = c_w /\ ~c_killed[q]
      BY <3>1, Zenon DEF ConsInv, C!NoLostLine
    <3>3. c_w - c_r = 0 /\ 0 < UINT /\ c_r + 0 = c_r /\ c_r < UINT /\ 0 <= c_r
      BY <1>1, <1>2, <3>2, SMTT(60)
    <3>4. Entered = 0
      BY <1>1, <3>3, ModWraps, SMTT(60) DEF Entered
    <3>5. m = 0
      BY <1>5, <3>4, SMTT(60)
    <3>6. Mod(c_r + 0, UINT) = c_r
      BY <1>1, <1>2, <3>3, ModWraps, SMTT(60)
    <3>. QED BY <2>1, <3>2, <3>5, <3>6, ZenonT(60)
  <2>. QED BY <2>2, <2>3
<1>16. (Entered + Edited <= PIPESIZE)'
  BY <1>1, <1>4, <1>5, <1>7, SMTT(60)
<1>17. k \in 0 .. Len(C!entered)
  BY <1>4, <1>5
<1>. QED BY <1>4, <1>8, <1>9, <1>11, <1>14, <1>15, <1>16, <1>17, ZenonT(60) DEF ConsInv

\* What a read passes over, as the abstract queue has it.
LEMMA ConsTakes ==
  ASSUME C!Constants, ConsInv, NEW p \in Readers, NEW k \in Nat, C!takes(p, k)
  PROVE  /\ k \in 0 .. Entered /\ Entered \in Nat
         /\ \A i \in 1 .. k : C!entered[i] # EOF /\ (C!entered[i] = NL => i = k)
         /\ \A j \in 1 .. Entered : C!at(j) = C!entered[j]
<1>1. /\ Entered \in 0 .. UINT - 1 /\ C!minus(c_w, c_r) = Entered
      /\ \A j \in 1 .. Entered : C!at(j) = C!entered[j]
  BY ConsParts, Zenon DEF ConsInv
<1>2. k <= Entered /\ \A i \in 1 .. k : C!at(i) # EOF /\ (C!at(i) = NL => i = k)
  BY <1>1, Zenon DEF C!takes
<1>3. k \in 0 .. Entered /\ Entered \in Nat /\ \A i \in 1 .. k : i \in 1 .. Entered
  BY <1>1, <1>2
<1>. QED BY <1>1, <1>2, <1>3, Zenon

LEMMA ConsMoves ==
  ASSUME C!Constants, ConsInv, NEW m \in Nat
  PROVE  C!minus(c_r + m, 0) = Mod(c_r + m, UINT)
<1>1. c_r \in 0 .. UINT - 1 /\ UINT \in Nat
  BY ConsSizes, ConsTypes DEF ConsInv, Sizes
<1>2. (c_r + m) - 0 = c_r + m
  BY <1>1
<1>. QED BY <1>2, Zenon DEF C!minus, Mod

LEMMA ConsEnds ==
  ASSUME C!Constants, ConsInv, NEW p \in Readers, C!consoleread_ends(p)
  PROVE  ConsInv' /\ LineStep
<1>1. MAXN \in Nat /\ c_n[p] \in 0 .. MAXN
  BY ConsSizes, ConsTypes, Zenon DEF ConsInv
<1>2. PICK k \in 0 .. c_n[p] :
        /\ C!takes(p, k) /\ C!Copy(p, k)
        /\ \/ c_r' = C!minus(c_r + k, 0)
           \/ /\ k < C!minus(c_w, c_r) /\ C!at(k + 1) = EOF
              /\ c_r' = C!minus(c_r + k + C!eof_taken(p, k), 0)
  BY Zenon DEF C!consoleread_ends
<1>3. /\ c_pc' = [c_pc EXCEPT ![p] = "user"] /\ c_n' = [c_n EXCEPT ![p] = 0]
      /\ UNCHANGED <<c_buf, c_w, c_e, c_killed>> /\ "user" \in {"user", "asleep"} /\ "user" # "asleep"
  BY DEF C!consoleread_ends
<1>4. k \in Nat /\ 0 \in 0 .. MAXN /\ k + 1 \in Nat /\ 1 \in Nat
  BY <1>1
<1>5. /\ k \in 0 .. Entered /\ Entered \in Nat /\ C!minus(c_w, c_r) = Entered
      /\ \A i \in 1 .. k : C!entered[i] # EOF /\ (C!entered[i] = NL => i = k)
      /\ \A j \in 1 .. Entered : C!at(j) = C!entered[j]
  BY <1>2, <1>4, ConsTakes, ConsParts, ZenonT(60) DEF ConsInv
<1>6. CASE c_r' = C!minus(c_r + k, 0)
  <2>1. c_r' = Mod(c_r + k, UINT)
    BY <1>4, <1>6, ConsMoves, Zenon
  <2>2. /\ ConsInv' /\ C!editing' = C!editing
        /\ C!entered' = SubSeq(C!entered, k + 1, Len(C!entered))
        /\ c_got' = [c_got EXCEPT ![p] = @ \o SubSeq(C!entered, 1, k)]
        /\ k \in 0 .. Len(C!entered)
    BY <1>2, <1>3, <1>4, <1>5, <2>1, ConsRead, ZenonT(60)
  <2>3. C!Lines!Take(p, k, FALSE)
    BY <1>5, <2>2, Zenon DEF C!Lines!Take
  <2>. QED BY <2>2, <2>3, Zenon DEF LineStep, C!Lines!Next
<1>7. CASE /\ k < C!minus(c_w, c_r) /\ C!at(k + 1) = EOF
           /\ c_r' = C!minus(c_r + k + C!eof_taken(p, k), 0) /\ k = 0 /\ c_got[p] = <<>>
  <2>1. c_r' = Mod(c_r + 1, UINT)
    <3>1. c_r + k + C!eof_taken(p, k) = c_r + 1
      <4>1. C!eof_taken(p, k) = 1 /\ k = 0
        BY <1>7, Zenon DEF C!eof_taken
      <4>2. c_r \in Int
        BY ConsTypes DEF ConsInv
      <4>. QED BY <4>1, <4>2
    <3>. QED BY <1>4, <1>7, <3>1, ConsMoves, ZenonT(60)
  <2>2. 1 \in 0 .. Entered /\ 1 \in 1 .. Entered /\ k + 1 = 1 /\ 1 + 1 = 2
    BY <1>5, <1>7
  <2>3. /\ ConsInv' /\ C!editing' = C!editing
        /\ C!entered' = SubSeq(C!entered, 1 + 1, Len(C!entered))
        /\ c_got' = [c_got EXCEPT ![p] = @ \o SubSeq(C!entered, 1, k)]
        /\ k \in 0 .. Len(C!entered) /\ Len(C!entered) = Entered
    BY <1>2, <1>3, <1>4, <1>5, <2>1, <2>2, ConsRead, ZenonT(60)
  <2>4. Len(C!entered) > 0 /\ C!entered[1] = EOF
    <3>1. C!entered[1] = EOF
      BY <1>5, <1>7, <2>2, Zenon
    <3>. QED BY <1>5, <2>2, <2>3, <3>1, SMTT(60)
  <2>5. C!Lines!Take(p, k, TRUE)
    BY <1>5, <1>7, <2>2, <2>3, <2>4, ZenonT(60) DEF C!Lines!Take
  <2>. QED BY <2>3, <2>5, Zenon DEF LineStep, C!Lines!Next
<1>8. CASE /\ c_r' = C!minus(c_r + k + C!eof_taken(p, k), 0) /\ ~(k = 0 /\ c_got[p] = <<>>)
  <2>1. C!eof_taken(p, k) = 0
    BY <1>8, Zenon DEF C!eof_taken
  <2>2. c_r \in Int
    BY ConsTypes DEF ConsInv
  <2>3. c_r + k + 0 = c_r + k
    BY <1>4, <2>2
  <2>. QED BY <1>6, <1>8, <2>1, <2>3, Zenon
<1>. QED BY <1>2, <1>6, <1>7, <1>8, ZenonT(60)

LEMMA ConsFails ==
  ASSUME C!Constants, ConsInv, NEW p \in Readers, NEW k \in 0 .. MAXN, C!consoleread_fails(p, k)
  PROVE  ConsInv' /\ LineStep
<1>1. MAXN \in Nat /\ k \in Nat /\ 0 \in 0 .. MAXN /\ k + 1 \in Nat
  BY ConsSizes
<1>2. /\ C!takes(p, k) /\ ~C!line_ends(k) /\ k < C!minus(c_w, c_r) /\ C!at(k + 1) # EOF
      /\ c_r' = C!minus(c_r + k + 1, 0) /\ C!Copy(p, k)
      /\ c_pc' = [c_pc EXCEPT ![p] = "user"] /\ c_n' = [c_n EXCEPT ![p] = 0]
      /\ UNCHANGED <<c_buf, c_w, c_e, c_killed>>
  BY Zenon DEF C!consoleread_fails
<1>3. "user" \in {"user", "asleep"} /\ "user" # "asleep"
  OBVIOUS
<1>4. /\ k \in 0 .. Entered /\ Entered \in Nat /\ C!minus(c_w, c_r) = Entered
      /\ \A i \in 1 .. k : C!entered[i] # EOF /\ (C!entered[i] = NL => i = k)
      /\ \A j \in 1 .. Entered : C!at(j) = C!entered[j]
  BY <1>1, <1>2, ConsTakes, ConsParts, Zenon DEF ConsInv
<1>5. c_r' = Mod(c_r + (k + 1), UINT)
  <2>1. c_r \in Int
    BY ConsTypes DEF ConsInv
  <2>2. c_r + k + 1 = c_r + (k + 1)
    BY <1>1, <2>1, SMTT(60)
  <2>. QED BY <1>1, <1>2, <2>2, ConsMoves, ZenonT(60)
<1>6. k + 1 \in 0 .. Entered /\ k + 1 \in 1 .. Entered /\ (k + 1) + 1 = k + 2
  BY <1>1, <1>2, <1>4
<1> DEFINE m == k + 1
<1>7. /\ ConsInv' /\ C!editing' = C!editing
      /\ C!entered' = SubSeq(C!entered, m + 1, Len(C!entered))
      /\ c_got' = [c_got EXCEPT ![p] = @ \o SubSeq(C!entered, 1, k)]
      /\ k \in 0 .. Len(C!entered) /\ Len(C!entered) = Entered
  <2> HIDE DEF m
  <2>1. m \in 0 .. Entered /\ c_r' = Mod(c_r + m, UINT)
    BY <1>5, <1>6, Zenon DEF m
  <2>. QED BY <1>1, <1>2, <1>3, <1>4, <2>1, ConsRead, ZenonT(60)
<1>8. \A i \in 1 .. k : C!entered[i] \notin {EOF, NL}
  <2> SUFFICES ASSUME NEW i \in 1 .. k, C!entered[i] = NL PROVE FALSE
    BY <1>4, Zenon
  <2>1. i = k
    BY <1>4, Zenon
  <2>2. k > 0 /\ k \in 1 .. Entered
    BY <1>1, <1>4
  <2>. QED BY <1>2, <1>4, <2>1, <2>2, ZenonT(60) DEF C!line_ends
<1>9. C!Lines!Drop(p, k)
  <2>1. k < Len(C!entered)
    BY <1>2, <1>4, <1>7, Zenon
  <2>2. C!entered[k + 1] # EOF
    BY <1>2, <1>4, <1>6, Zenon
  <2>3. C!entered' = SubSeq(C!entered, k + 2, Len(C!entered))
    BY <1>6, <1>7, Zenon
  <2>. QED BY <1>7, <1>8, <2>1, <2>2, <2>3, ZenonT(60) DEF C!Lines!Drop
<1>. QED BY <1>7, <1>9, Zenon DEF LineStep, C!Lines!Next

LEMMA ConsWaits ==
  ASSUME C!Constants, ConsInv, NEW p \in Readers, C!consoleread_waits(p)
  PROVE  ConsInv' /\ LineStep
<1>1. /\ Entered \in 0 .. UINT - 1 /\ C!minus(c_w, c_r) = Entered /\ c_w = Mod(c_r + Entered, UINT)
  BY ConsParts, Zenon DEF ConsInv
<1>2. Entered \in Nat /\ Entered \in 0 .. Entered /\ c_n[p] \in 0 .. MAXN /\ MAXN \in Nat
  <2>1. c_n \in [Readers -> 0 .. MAXN]
    BY ConsTypes, Zenon DEF ConsInv
  <2>. QED BY <1>1, <2>1, ConsSizes DEF Sizes
<1>3. /\ C!takes(p, Entered) /\ Entered < c_n[p] /\ c_r' = c_w /\ C!Copy(p, Entered)
      /\ UNCHANGED <<c_buf, c_w, c_e, c_killed>>
  BY <1>1, Zenon DEF C!consoleread_waits
<1>4. \E x \in {"user", "asleep"}, y \in 0 .. MAXN :
        /\ x = "asleep" => ~c_killed[p]
        /\ c_pc' = [c_pc EXCEPT ![p] = x] /\ c_n' = [c_n EXCEPT ![p] = y]
  <2>1. CASE /\ ~c_killed[p] /\ c_pc' = [c_pc EXCEPT ![p] = "asleep"]
             /\ c_n' = [c_n EXCEPT ![p] = @ - Entered]
    <3>1. c_n[p] - Entered \in 0 .. MAXN
      BY <1>2, <1>3
    <3>. QED BY <2>1, <3>1, Zenon
  <2>2. CASE c_pc' = [c_pc EXCEPT ![p] = "user"] /\ c_n' = [c_n EXCEPT ![p] = 0]
    <3>1. 0 \in 0 .. MAXN /\ "user" # "asleep"
      BY <1>2
    <3>. QED BY <2>2, <3>1, Zenon
  <2>. QED BY <1>1, <2>1, <2>2, Zenon DEF C!consoleread_waits
<1>5. PICK x \in {"user", "asleep"}, y \in 0 .. MAXN :
        /\ x = "asleep" => ~c_killed[p]
        /\ c_pc' = [c_pc EXCEPT ![p] = x] /\ c_n' = [c_n EXCEPT ![p] = y]
  BY <1>4, Zenon
<1>6. c_r' = Mod(c_r + Entered, UINT)
  BY <1>1, <1>3, Zenon
<1>7. /\ ConsInv' /\ C!editing' = C!editing
      /\ C!entered' = SubSeq(C!entered, Entered + 1, Len(C!entered))
      /\ c_got' = [c_got EXCEPT ![p] = @ \o SubSeq(C!entered, 1, Entered)]
      /\ Entered \in 0 .. Len(C!entered)
  BY <1>2, <1>3, <1>5, <1>6, ConsRead, ZenonT(60)
<1>8. \A i \in 1 .. Entered : C!entered[i] # EOF /\ (C!entered[i] = NL => i = Entered)
  BY <1>2, <1>3, ConsTakes, Zenon
<1>9. C!Lines!Take(p, Entered, FALSE)
  BY <1>7, <1>8, Zenon DEF C!Lines!Take
<1>. QED BY <1>7, <1>9, Zenon DEF LineStep, C!Lines!Next

LEMMA ConsNext ==
  ASSUME C!Constants, ConsInv, [C!Next]_(C!vars)
  PROVE  ConsInv' /\ LineStep
<1>1. ASSUME UNCHANGED C!vars PROVE ConsInv' /\ LineStep
  <2>1. UNCHANGED <<c_buf, c_r, c_w, c_e, c_pc, c_n, c_got, c_killed>>
    BY <1>1, Zenon DEF C!vars, C!cons
  <2>2. ConsInv' /\ C!entered' = C!entered /\ C!editing' = C!editing
    BY <2>1, ConsQuiet, ConsTypes, Zenon DEF ConsInv
  <2>. QED BY <2>1, <2>2, Zenon DEF LineStep, C!Lines!vars
<1>. QED BY <1>1, ConsChar, ConsErases, ConsBegin, ConsKill, ConsEnds, ConsFails, ConsWaits, ZenonT(60)
         DEF C!Next, C!ReadStep

LEMMA ConsInit ==
  ASSUME C!Constants, C!Init
  PROVE  ConsInv /\ C!Lines!Init
<1>1. /\ UINT \in Nat \ {0} /\ 0 \in 0 .. UINT - 1 /\ 0 \in 0 .. MAXN /\ NL \in Bytes /\ 0 - 0 = 0
      /\ PIPESIZE \in Nat /\ 0 < UINT /\ <<>> \in Seq(Bytes)
  BY ConsSizes DEF Sizes
<1>2. Mod(0, UINT) = 0
  BY <1>1, ModWraps
<1>3. C!TypeOK
  BY <1>1, Zenon DEF C!Init, C!TypeOK
<1>4. Entered = 0 /\ Edited = 0
  BY <1>1, <1>2, Zenon DEF C!Init, Entered, Edited
<1>5. C!NoLostLine
  BY DEF C!Init, C!NoLostLine
<1>6. Entered + Edited <= PIPESIZE
  BY <1>1, <1>4
<1>7. C!entered = <<>> /\ C!editing = <<>>
  <2>1. /\ C!entered \in Seq(Bytes) /\ Len(C!entered) = 0
        /\ C!editing \in Seq(Bytes) /\ Len(C!editing) = 0
    BY <1>3, <1>4, ConsParts, Zenon
  <2>. QED BY <2>1
<1>8. C!Lines!Init
  BY <1>7, Zenon DEF C!Init, C!Lines!Init
<1>. QED BY <1>3, <1>5, <1>6, <1>8, ZenonT(60) DEF ConsInv

\* The inductive invariant of console.c: what was entered and what is being edited fit into
\* the ring together, and a reader sleeps only while nothing has been entered.
THEOREM ConsoleInvariant ==
  ASSUME C!Constants
  PROVE  C!Spec => []ConsInv
<1>1. C!Init => ConsInv
  BY ConsInit, Zenon
<1>2. ConsInv /\ [C!Next]_(C!vars) => ConsInv'
  BY ConsNext, Zenon
<1>. QED BY <1>1, <1>2, PTL DEF C!Spec

\* console.c, for every size of the ring, every width of its indices that the size divides
\* and any number of readers: the ring with its three wrapping indices is a queue of entered
\* characters behind which one line is edited.
THEOREM ConsoleRefinesLines ==
  ASSUME C!Constants
  PROVE  C!Spec => C!ConsoleIsLineQueue
<1>1. C!Init => C!Lines!Init
  BY ConsInit, Zenon
<1>2. ConsInv /\ [C!Next]_(C!vars) => [C!Lines!Next]_(C!Lines!vars)
  BY ConsNext, Zenon DEF LineStep
<1>. QED BY <1>1, <1>2, ConsoleInvariant, PTL DEF C!Spec, C!ConsoleIsLineQueue, C!Lines!Spec

\* No reader of the console sleeps while a line is there, or after it was killed.
THEOREM ConsoleNoLostLine ==
  ASSUME C!Constants
  PROVE  C!Spec => []C!NoLostLine
<1>1. ConsInv => C!NoLostLine
  BY Zenon DEF ConsInv
<1>. QED BY <1>1, ConsoleInvariant, PTL
================================================================================
