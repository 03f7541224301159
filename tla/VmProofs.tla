-------------------------------- MODULE VmProofs --------------------------------
(***************************************************************************)
(* Proofs about Vm, for any number of processes, frames and pages and any  *)
(* page size: reference counts are exact through fork, faults, sbrk, exec  *)
(* and exit, and memory that is shared copy-on-write and mapped lazily     *)
(* implements Memory, in which every process has pages of its own.         *)
(***************************************************************************)
EXTENDS Vm, FiniteSetTheorems, TLAPS

\* The references of every frame are counted.
Counted == \A f \in Frames : refcnt[f] = Cardinality(Refs(f))

\* A process without an address space refers to nothing.
DeadMapNothing ==
  \A p \in Procs \ live :
    brk[p] = 0 /\ copying[p].mem = NULL /\ \A v \in Pages : pt[p][v].pa = NULL

\* A process maps a frame at one page at most, so that kfree of all its frames drops
\* exactly its references.
Injective ==
  \A p \in Procs : \A v, w \in Pages :
    pt[p][v].pa # NULL /\ pt[p][v].pa = pt[p][w].pa => v = w

\* A frame that can be written has one reference, the PTE it is written through.
WritableSole ==
  \A p \in Procs, v \in Pages : pt[p][v].pa # NULL /\ pt[p][v].w =>
    \A q \in Procs :
      /\ copying[q].mem # pt[p][v].pa
      /\ \A u \in Pages : pt[q][u].pa = pt[p][v].pa => q = p /\ u = v

\* The frame that a COW fault copies to has no other reference.
CopySole ==
  \A p \in Procs : copying[p].mem # NULL =>
    \A q \in Procs :
      /\ copying[q].mem = copying[p].mem => q = p
      /\ \A u \in Pages : pt[q][u].pa # copying[p].mem

\* Until the fault is over the page stays COW and its contents are those of the copy.
CopyEqual ==
  \A p \in Procs : copying[p].mem # NULL =>
    /\ pt[p][copying[p].v].pa # NULL /\ pt[p][copying[p].v].cow
    /\ data[copying[p].mem] = data[pt[p][copying[p].v].pa]
    /\ copying[p].kernel => copying[p].x \in Data

\* No fork makes a page of the text writable, now or by a fault.
TextReadOnly == \A p \in Procs, v \in Text : ~pt[p][v].w /\ ~pt[p][v].cow

\* The pages of the heap that are mapped lie below the break.
HeapBelow ==
  \A p \in Procs :
    /\ brk[p] = 0 \/ brk[p] >= HeapBase * PGSIZE
    /\ \A v \in Pages : v >= HeapBase /\ pt[p][v].pa # NULL => v * PGSIZE < brk[p]

IInv ==
  /\ TypeOK
  /\ Counted
  /\ DeadMapNothing
  /\ Injective
  /\ WritableSole
  /\ CopySole
  /\ CopyEqual
  /\ TextReadOnly
  /\ HeapBelow

--------------------------------------------------------------------------------
(* Pages and addresses. *)

LEMMA DivBounds ==
  ASSUME NEW n \in Nat \ {0}, NEW a \in Nat
  PROVE  /\ (a \div n) \in Nat
         /\ n * (a \div n) <= a
         /\ a < n * (a \div n) + n
OBVIOUS

LEMMA TimesMonotone ==
  ASSUME NEW n \in Nat \ {0}, NEW a \in Nat, NEW b \in Nat
  PROVE  /\ a <= b <=> n * a <= n * b
         /\ a < b <=> n * a < n * b
         /\ a * n = n * a /\ n * a \in Nat
         /\ n * (a + 1) = n * a + n
OBVIOUS

\* The page that an address is in starts at or below it.
LEMMA PageOfAddress ==
  ASSUME Constants, NEW a \in 0 .. MaxBrk - 1
  PROVE  PageOf(a) \in Pages /\ PageOf(a) * PGSIZE <= a
<1> DEFINE v == PageOf(a)
<1>1. PGSIZE \in Nat \ {0} /\ HeapEnd \in Nat /\ a \in Nat /\ a < HeapEnd * PGSIZE
  <2>1. PGSIZE \in Nat \ {0} /\ HeapEnd \in Nat
    BY Zenon DEF Constants
  <2>2. MaxBrk \in Nat
    BY <2>1, TimesMonotone, Zenon DEF MaxBrk
  <2>. QED BY <2>1, <2>2 DEF MaxBrk
<1>2. v \in Nat /\ PGSIZE * v <= a
  BY <1>1, DivBounds, Zenon DEF PageOf
<1> HIDE DEF v
<1>3. v * PGSIZE = PGSIZE * v /\ HeapEnd * PGSIZE = PGSIZE * HeapEnd
      /\ PGSIZE * v \in Nat /\ PGSIZE * HeapEnd \in Nat
  BY <1>1, <1>2, TimesMonotone, Zenon
<1>4. v < HeapEnd
  BY <1>1, <1>2, <1>3, TimesMonotone
<1>. QED BY <1>1, <1>2, <1>3, <1>4 DEF v, Pages

\* PGROUNDUP finds the first page that starts at the address or above it.
LEMMA RoundUp ==
  ASSUME Constants, NEW a \in Nat, NEW v \in Nat
  PROVE  v >= PGROUNDUP(a) <=> v * PGSIZE >= a
<1> DEFINE r == PGROUNDUP(a)
           n == PGSIZE
<1>1. n \in Nat \ {0}
  BY Zenon DEF Constants
<1>2. r \in Nat /\ n * r <= a + n - 1 /\ a + n - 1 < n * r + n
  <2>1. a + n - 1 \in Nat
    BY <1>1
  <2>. QED BY <1>1, <2>1, DivBounds, Zenon DEF PGROUNDUP
<1> HIDE DEF r, n
<1>3. n * v \in Nat /\ n * r \in Nat /\ v * n = n * v /\ n * (v + 1) = n * v + n
  BY <1>1, <1>2, TimesMonotone, Zenon
<1>4. CASE v >= r
  <2>1. n * r <= n * v
    BY <1>1, <1>2, <1>4, TimesMonotone, Zenon
  <2>. QED BY <1>1, <1>2, <1>3, <1>4, <2>1 DEF r, n
<1>5. CASE ~(v >= r)
  <2>1. v + 1 <= r /\ v + 1 \in Nat
    BY <1>2, <1>5
  <2>2. n * (v + 1) <= n * r
    BY <1>1, <1>2, <2>1, TimesMonotone, Zenon
  <2>. QED BY <1>1, <1>2, <1>3, <1>5, <2>1, <2>2 DEF r, n
<1>. QED BY <1>4, <1>5, Zenon

--------------------------------------------------------------------------------
(* References. *)

LEMMA RefsElements ==
  ASSUME Constants, NEW f \in Frames
  PROVE  /\ \A p \in Procs, v \in Pages : <<p, v>> \in Refs(f) <=> pt[p][v].pa = f
         /\ \A p \in Procs : <<p, NULL>> \in Refs(f) <=> copying[p].mem = f
         /\ Refs(f) \subseteq Procs \X (Pages \cup {NULL})
BY Zenon DEF Refs, Constants

LEMMA RefsFinite ==
  ASSUME Constants, NEW f \in Frames
  PROVE  IsFiniteSet(Refs(f)) /\ Cardinality(Refs(f)) \in Nat
<1>1. IsFiniteSet(Pages) /\ IsFiniteSet(Procs)
  <2>1. HeapEnd \in Nat /\ IsFiniteSet(Procs)
    BY Zenon DEF Constants
  <2>. QED BY <2>1, FS_Interval DEF Pages
<1>2. IsFiniteSet(Pages \cup {NULL})
  BY <1>1, FS_AddElement, Zenon
<1>3. IsFiniteSet(Procs \X (Pages \cup {NULL}))
  BY <1>1, <1>2, FS_Product, Zenon
<1>4. IsFiniteSet(Refs(f))
  BY <1>3, RefsElements, FS_Subset, Zenon
<1>. QED BY <1>4, FS_CardinalityType, Zenon

\* Nothing refers to a frame that is free.
LEMMA FreeUnused ==
  ASSUME Constants, Counted, NEW f \in Free
  PROVE  /\ Refs(f) = {}
         /\ \A p \in Procs : copying[p].mem # f /\ \A v \in Pages : pt[p][v].pa # f
<1>1. f \in Frames /\ Cardinality(Refs(f)) = 0
  BY Zenon DEF Free, Counted
<1>2. Refs(f) = {}
  BY <1>1, RefsFinite, FS_EmptySet, Zenon
<1>. QED BY <1>1, <1>2, RefsElements, Zenon

\* A frame with one reference has no other.
LEMMA LastReference ==
  ASSUME Constants, Counted, NEW f \in Frames, refcnt[f] = 1, NEW x \in Refs(f)
  PROVE  Refs(f) = {x}
<1>1. Cardinality(Refs(f)) = 1
  BY Zenon DEF Counted
<1>2. PICK y : Refs(f) = {y}
  BY <1>1, RefsFinite, FS_Singleton, Zenon
<1>. QED BY <1>2, Zenon

LEMMA SingleCount ==
  ASSUME NEW x
  PROVE  Cardinality({x}) = 1
BY FS_Singleton, Zenon

LEMMA RefsElementsNext ==
  ASSUME Constants, NEW f \in Frames
  PROVE  /\ \A p \in Procs, v \in Pages : <<p, v>> \in Refs(f)' <=> pt'[p][v].pa = f
         /\ \A p \in Procs : <<p, NULL>> \in Refs(f)' <=> copying'[p].mem = f
         /\ Refs(f)' \subseteq Procs \X (Pages \cup {NULL})
BY Zenon DEF Refs, Constants

\* How the references to a frame change with one PTE.
LEMMA RefsSame ==
  ASSUME Constants, NEW f \in Frames,
         \A q \in Procs : copying'[q].mem = f <=> copying[q].mem = f,
         \A q \in Procs, u \in Pages : pt'[q][u].pa = f <=> pt[q][u].pa = f
  PROVE  Refs(f)' = Refs(f)
BY Zenon DEF Refs, Constants

LEMMA RefsLess ==
  ASSUME Constants, NEW f \in Frames, NEW p \in Procs, NEW v \in Pages,
         \A q \in Procs : copying'[q].mem = f <=> copying[q].mem = f,
         \A q \in Procs, u \in Pages :
           pt'[q][u].pa = f <=> pt[q][u].pa = f /\ ~(q = p /\ u = v)
  PROVE  Refs(f)' = Refs(f) \ {<<p, v>>}
BY DEF Refs, Constants

LEMMA RefsMore ==
  ASSUME Constants, NEW f \in Frames, NEW p \in Procs, NEW v \in Pages,
         \A q \in Procs : copying'[q].mem = f <=> copying[q].mem = f,
         \A q \in Procs, u \in Pages :
           pt'[q][u].pa = f <=> pt[q][u].pa = f \/ (q = p /\ u = v)
  PROVE  Refs(f)' = Refs(f) \cup {<<p, v>>}
BY DEF Refs, Constants

LEMMA CountLess ==
  ASSUME NEW S, NEW x \in S, IsFiniteSet(S)
  PROVE  Cardinality(S \ {x}) = Cardinality(S) - 1
BY FS_RemoveElement, Zenon

LEMMA CountMore ==
  ASSUME NEW S, NEW x, x \notin S, IsFiniteSet(S)
  PROVE  Cardinality(S \cup {x}) = Cardinality(S) + 1
BY FS_AddElement, Zenon

--------------------------------------------------------------------------------
(* Process p replaces part of its page table: the pages in Keep stay, the others *)
(* give up the frames in old and get the free frames in new.                     *)

Remaps(p, Keep, old, new) ==
  /\ copying[p].mem = NULL
  /\ copying' = copying
  /\ \A q \in Procs : q # p => pt'[q] = pt[q]
  /\ \A v \in Keep : pt'[p][v] = pt[p][v]
  /\ \A v \in Pages \ Keep : pt'[p][v].pa \in Free \cup {NULL}
  /\ \A v, w \in Pages \ Keep :
       pt'[p][v].pa # NULL /\ pt'[p][v].pa = pt'[p][w].pa => v = w
  /\ \A f \in Frames : f \in old <=> \E v \in Pages \ Keep : pt[p][v].pa = f
  /\ \A f \in Frames : f \in new <=> \E v \in Pages \ Keep : pt'[p][v].pa = f
  /\ \A f \in Frames :
       refcnt'[f] = IF f \in new THEN 1 ELSE IF f \in old THEN refcnt[f] - 1 ELSE refcnt[f]
  /\ \A f \in Frames : f \notin new /\ (f \in old => refcnt[f] # 1) => data'[f] = data[f]

\* The counts stay exact.
LEMMA RemapCounted ==
  ASSUME Constants, IInv, NEW p \in Procs, NEW Keep \in SUBSET Pages, NEW old, NEW new,
         Remaps(p, Keep, old, new)
  PROVE  Counted'
<1> SUFFICES ASSUME NEW f \in Frames
             PROVE  refcnt'[f] = Cardinality(Refs(f)')
  BY Zenon DEF Counted
<1>1. NULL \notin Pages /\ NULL \notin Frames
  BY Zenon DEF Constants
<1>2. refcnt[f] = Cardinality(Refs(f)) /\ IsFiniteSet(Refs(f))
  BY RefsFinite, Zenon DEF IInv, Counted
<1>3. CASE f \in new
  <2>1. PICK v \in Pages \ Keep : pt'[p][v].pa = f
    BY <1>3, Zenon DEF Remaps
  <2>2. f \in Free
    BY <1>1, <2>1, Zenon DEF Remaps
  <2>3. \A q \in Procs : copying[q].mem # f /\ \A u \in Pages : pt[q][u].pa # f
    BY <2>2, FreeUnused, Zenon DEF IInv
  <2>4. \A u \in Pages : pt'[p][u].pa = f => u = v
    BY <1>1, <2>1, <2>3 DEF Remaps
  <2>5. \A q \in Procs : copying'[q].mem # f /\ (q # p => \A u \in Pages : pt'[q][u].pa # f)
    BY <2>3 DEF Remaps
  <2>6. Refs(f)' = {<<p, v>>}
    BY <1>1, <2>1, <2>4, <2>5, RefsElementsNext
  <2>7. refcnt'[f] = 1
    BY <1>3, Zenon DEF Remaps
  <2>. QED BY <2>6, <2>7, FS_Singleton, Zenon
<1>4. CASE f \notin new /\ f \in old
  <2>1. PICK v \in Pages \ Keep : pt[p][v].pa = f
    BY <1>4, Zenon DEF Remaps
  <2>2. \A u \in Pages : pt'[p][u].pa = f <=> pt[p][u].pa = f /\ u # v
    <3> SUFFICES ASSUME NEW u \in Pages
                 PROVE  pt'[p][u].pa = f <=> pt[p][u].pa = f /\ u # v
      OBVIOUS
    <3>1. pt[p][u].pa = f => u = v
      BY <1>1, <2>1, Zenon DEF IInv, Injective
    <3>2. pt'[p][u].pa # f
      <4>1. CASE u \in Keep
        BY <2>1, <3>1, <4>1, Zenon DEF Remaps
      <4>2. CASE u \notin Keep
        BY <1>4, <4>2, Zenon DEF Remaps
      <4>. QED BY <4>1, <4>2, Zenon
    <3>. QED BY <3>1, <3>2, Zenon
  <2>3. \A q \in Procs : /\ copying'[q].mem = copying[q].mem
                         /\ q # p => pt'[q] = pt[q]
    BY Zenon DEF Remaps
  <2>4. Refs(f)' = Refs(f) \ {<<p, v>>}
    <3>1. \A q \in Procs, u \in Pages :
            pt'[q][u].pa = f <=> pt[q][u].pa = f /\ ~(q = p /\ u = v)
      BY <2>2, <2>3, Zenon
    <3>. QED BY <2>3, <3>1, RefsLess
  <2>5. <<p, v>> \in Refs(f)
    BY <2>1, RefsElements, Zenon
  <2>6. refcnt'[f] = refcnt[f] - 1
    BY <1>4, Zenon DEF Remaps
  <2>. QED BY <1>2, <2>4, <2>5, <2>6, CountLess, Zenon
<1>5. CASE f \notin new /\ f \notin old
  <2>1. \A u \in Pages : pt'[p][u].pa = f <=> pt[p][u].pa = f
    <3> TAKE u \in Pages
    <3>1. CASE u \in Keep
      BY <3>1, Zenon DEF Remaps
    <3>2. CASE u \notin Keep
      BY <1>5, <3>2, Zenon DEF Remaps
    <3>. QED BY <3>1, <3>2, Zenon
  <2>2. \A q \in Procs : /\ copying'[q].mem = copying[q].mem
                         /\ q # p => pt'[q] = pt[q]
    BY Zenon DEF Remaps
  <2>3. Refs(f)' = Refs(f)
    BY <2>1, <2>2, RefsSame, Zenon
  <2>4. refcnt'[f] = refcnt[f]
    BY <1>5, Zenon DEF Remaps
  <2>. QED BY <1>2, <2>3, <2>4, Zenon
<1>. QED BY <1>3, <1>4, <1>5, Zenon

\* A frame that p gives up and another PTE maps has more than one reference.
LEMMA SharedNotLast ==
  ASSUME Constants, IInv, NEW p \in Procs, NEW v \in Pages, NEW q \in Procs, NEW u \in Pages,
         NEW f \in Frames, pt[p][v].pa = f, pt[q][u].pa = f, <<p, v>> # <<q, u>>
  PROVE  refcnt[f] # 1
<1> SUFFICES ASSUME refcnt[f] = 1
             PROVE  FALSE
  OBVIOUS
<1>1. <<p, v>> \in Refs(f) /\ <<q, u>> \in Refs(f)
  BY RefsElements, Zenon
<1>2. Refs(f) = {<<p, v>>}
  BY <1>1, LastReference, Zenon DEF IInv
<1>. QED BY <1>1, <1>2, Zenon

\* Nobody else sees the contents of a page change, and p not those it keeps.
LEMMA RemapContents ==
  ASSUME Constants, IInv, NEW p \in Procs, NEW Keep \in SUBSET Pages, NEW old, NEW new,
         Remaps(p, Keep, old, new),
         NEW q \in Procs, NEW u \in Pages, q # p \/ u \in Keep
  PROVE  /\ pt'[q][u] = pt[q][u]
         /\ pt[q][u].pa # NULL => data'[pt[q][u].pa] = data[pt[q][u].pa]
<1>1. pt'[q][u] = pt[q][u]
  BY Zenon DEF Remaps
<1>2. ASSUME pt[q][u].pa # NULL
      PROVE  data'[pt[q][u].pa] = data[pt[q][u].pa]
  <2> DEFINE f == pt[q][u].pa
  <2>1. f \in Frames
    BY <1>2 DEF IInv, TypeOK, Ptes
  <2> HIDE DEF f
  <2>2. f \notin new
    <3> SUFFICES ASSUME f \in new
                 PROVE  FALSE
      OBVIOUS
    <3>1. f \in Free
      BY <2>1 DEF Remaps, Constants
    <3>. QED BY <3>1, FreeUnused, Zenon DEF f, IInv
  <2>3. f \in old => refcnt[f] # 1
    <3> SUFFICES ASSUME f \in old
                 PROVE  refcnt[f] # 1
      OBVIOUS
    <3>1. PICK v \in Pages \ Keep : pt[p][v].pa = f
      BY <2>1, Zenon DEF Remaps
    <3>2. <<p, v>> # <<q, u>>
      BY <3>1, Zenon
    <3>. QED BY <2>1, <3>1, <3>2, SharedNotLast DEF f
  <2>. QED BY <2>1, <2>2, <2>3, Zenon DEF f, Remaps
<1>. QED BY <1>1, <1>2, Zenon

\* The rest of the invariant that a new page table can disturb.
LEMMA RemapSole ==
  ASSUME Constants, IInv, NEW p \in Procs, NEW Keep \in SUBSET Pages, NEW old, NEW new,
         Remaps(p, Keep, old, new)
  PROVE  Injective' /\ WritableSole' /\ CopySole' /\ CopyEqual'
<1>1. \A f \in Free, q \in Procs : copying[q].mem # f /\ \A u \in Pages : pt[q][u].pa # f
  BY FreeUnused, Zenon DEF IInv
<1>2. Injective'
  BY <1>1 DEF IInv, Injective, Remaps
<1>3. WritableSole'
  BY <1>1 DEF IInv, WritableSole, Injective, Remaps
<1>4. CopySole'
  BY <1>1 DEF IInv, CopySole, Remaps
<1>5. CopyEqual'
  <2> SUFFICES ASSUME NEW q \in Procs, copying'[q].mem # NULL
               PROVE  /\ pt'[q][copying'[q].v].pa # NULL /\ pt'[q][copying'[q].v].cow
                      /\ data'[copying'[q].mem] = data'[pt'[q][copying'[q].v].pa]
                      /\ copying'[q].kernel => copying'[q].x \in Data
    BY Zenon DEF CopyEqual
  <2> DEFINE u == copying[q].v
             m == copying[q].mem
  <2>1. q # p /\ copying'[q] = copying[q] /\ u \in Pages /\ m \in Frames
    BY DEF Remaps, IInv, TypeOK
  <2>2. /\ pt[q][u].pa # NULL /\ pt[q][u].cow /\ data[m] = data[pt[q][u].pa]
        /\ copying[q].kernel => copying[q].x \in Data
    BY <2>1, Zenon DEF IInv, CopyEqual
  <2>3. pt'[q][u] = pt[q][u] /\ data'[pt[q][u].pa] = data[pt[q][u].pa]
    <3> HIDE DEF u, m
    <3>. QED BY <2>1, <2>2, RemapContents, ZenonT(60)
  <2>4. m \notin new /\ m \notin old
    <3>1. m \notin new
      BY <1>1, <2>1 DEF Remaps, Constants
    <3>2. m \notin old
      BY <2>1 DEF Remaps, IInv, CopySole
    <3>. QED BY <3>1, <3>2, Zenon
  <2>5. data'[m] = data[m]
    BY <2>1, <2>4, Zenon DEF Remaps
  <2>. QED BY <2>1, <2>2, <2>3, <2>5, Zenon
<1>. QED BY <1>2, <1>3, <1>4, <1>5, Zenon

--------------------------------------------------------------------------------
(* Steps of Memory, told by what processes find in their pages. *)



LEMMA MemoryStutters ==
  ASSUME UNCHANGED <<live, brk>>,
         \A q \in Procs, u \in Pages : Contents(q, u)' = Contents(q, u)
  PROVE  EagerStep
<1>1. [q \in Procs |-> [u \in Pages |-> Contents(q, u)']]
        = [q \in Procs |-> [u \in Pages |-> Contents(q, u)]]
  OBVIOUS
<1>. QED BY <1>1, Zenon DEF EagerStep, Eager!Next, Eager!vars

LEMMA MemoryWrites ==
  ASSUME UNCHANGED <<live, brk>>,
         NEW p \in Procs, p \in live, NEW v \in Pages \ Text, NEW x \in Data,
         \A q \in Procs, u \in Pages :
           Contents(q, u)' = IF q = p /\ u = v THEN x ELSE Contents(q, u)
  PROVE  EagerStep
<1> DEFINE M == [q \in Procs |-> [u \in Pages |-> Contents(q, u)]]
<1>1. [q \in Procs |-> [u \in Pages |-> Contents(q, u)']] = [M EXCEPT ![p][v] = x]
  BY Zenon
<1>2. Eager!Write(p, v, x)
  BY <1>1, Zenon DEF Eager!Write
<1>. QED BY <1>2, Zenon DEF Data, EagerStep, Eager!Next, Eager!vars

LEMMA MemoryForks ==
  ASSUME NEW p \in Procs, p \in live, NEW c \in Procs, c \notin live,
         live' = live \cup {c}, brk' = [brk EXCEPT ![c] = brk[p]],
         \A q \in Procs, u \in Pages :
           Contents(q, u)' = IF q = c THEN Contents(p, u) ELSE Contents(q, u)
  PROVE  EagerStep
<1> DEFINE M == [q \in Procs |-> [u \in Pages |-> Contents(q, u)]]
<1>1. [q \in Procs |-> [u \in Pages |-> Contents(q, u)']] = [M EXCEPT ![c] = M[p]]
  BY Zenon
<1>2. Eager!Fork(p, c)
  BY <1>1, Zenon DEF Eager!Fork
<1>. QED BY <1>2, Zenon DEF EagerStep, Eager!Next, Eager!vars

LEMMA MemoryGrows ==
  ASSUME NEW p \in Procs, p \in live, NEW end, end # brk[p],
         brk \in [Procs -> 0 .. MaxBrk], brk' = [brk EXCEPT ![p] = end], UNCHANGED live,
         \A q \in Procs, u \in Pages :
           Contents(q, u)' = IF q = p /\ u * PGSIZE >= end THEN Zero ELSE Contents(q, u)
  PROVE  EagerStep
<1> DEFINE M == [q \in Procs |-> [u \in Pages |-> Contents(q, u)]]
<1>1. brk'[p] = end
  OBVIOUS
<1>2. [q \in Procs |-> [u \in Pages |-> Contents(q, u)']]
        = [M EXCEPT ![p] = [u \in Pages |-> IF u * PGSIZE >= end THEN Zero ELSE M[p][u]]]
  BY Zenon
<1>3. Eager!Sbrk(p, end)
  BY <1>2, Zenon DEF Eager!Sbrk
<1>. QED BY <1>1, <1>3, Zenon DEF EagerStep, Eager!Next, Eager!vars

LEMMA MemoryExecs ==
  ASSUME NEW p \in Procs, p \in live, NEW end,
         brk \in [Procs -> 0 .. MaxBrk], brk' = [brk EXCEPT ![p] = end], UNCHANGED live,
         NEW image \in [Pages -> Values],
         \A u \in Pages : image[u] # Zero <=> u \in Text \cup Stack,
         \A q \in Procs, u \in Pages :
           Contents(q, u)' = IF q = p THEN image[u] ELSE Contents(q, u)
  PROVE  EagerStep
<1> DEFINE M == [q \in Procs |-> [u \in Pages |-> Contents(q, u)]]
<1>1. brk'[p] = end
  OBVIOUS
<1>2. [q \in Procs |-> [u \in Pages |-> Contents(q, u)']] = [M EXCEPT ![p] = image]
  BY Zenon
<1>3. image \in Eager!Images
  BY Zenon DEF Eager!Images
<1>4. Eager!Exec(p, image, end)
  BY <1>2, Zenon DEF Eager!Exec
<1>. QED BY <1>1, <1>3, <1>4, Zenon DEF EagerStep, Eager!Next, Eager!vars

LEMMA MemoryExits ==
  ASSUME NEW p \in Procs, live' = live \ {p}, brk' = [brk EXCEPT ![p] = 0],
         \A q \in Procs, u \in Pages :
           Contents(q, u)' = IF q = p THEN Zero ELSE Contents(q, u)
  PROVE  EagerStep
<1> DEFINE M == [q \in Procs |-> [u \in Pages |-> Contents(q, u)]]
<1>1. [q \in Procs |-> [u \in Pages |-> Contents(q, u)']] = [M EXCEPT ![p] = Eager!Blank]
  BY Zenon DEF Eager!Blank
<1>2. Eager!Exit(p)
  BY <1>1, Zenon DEF Eager!Exit
<1>. QED BY <1>2, Zenon DEF EagerStep, Eager!Next, Eager!vars

--------------------------------------------------------------------------------
(* One lemma per step: it keeps the invariant and is a step of Memory. *)

LEMMA StoreStep ==
  ASSUME Constants, IInv, NEW p \in Procs, NEW v \in Pages, NEW x \in Data,
         Running(p), v \in Mapped(p), pt[p][v].w,
         data' = [data EXCEPT ![pt[p][v].pa] = x],
         UNCHANGED <<live, pt, brk, refcnt, copying>>
  PROVE  IInv' /\ EagerStep
<1> DEFINE f == pt[p][v].pa
<1>1. f # NULL /\ f \in Frames
  BY DEF Mapped, IInv, TypeOK, Ptes
<1>2. \A q \in Procs : /\ copying[q].mem # f
                       /\ \A u \in Pages : pt[q][u].pa = f => q = p /\ u = v
  BY <1>1, Zenon DEF IInv, WritableSole
<1>3. TypeOK'
  BY <1>1, ZenonT(60) DEF IInv, TypeOK, Data
<1>4. Counted' /\ DeadMapNothing' /\ Injective' /\ WritableSole' /\ CopySole'
      /\ TextReadOnly' /\ HeapBelow'
  BY DEF IInv, Counted, Refs, DeadMapNothing, Injective, WritableSole, CopySole, TextReadOnly,
         HeapBelow
<1>5. data' = [data EXCEPT ![f] = x] /\ p \in live /\ copying[p].mem = NULL
  BY Zenon DEF Running
<1> HIDE DEF f
<1>6. CopyEqual'
  <2> SUFFICES ASSUME NEW q \in Procs, copying[q].mem # NULL
               PROVE  /\ pt[q][copying[q].v].pa # NULL /\ pt[q][copying[q].v].cow
                      /\ data'[copying[q].mem] = data'[pt[q][copying[q].v].pa]
                      /\ copying[q].kernel => copying[q].x \in Data
    BY Zenon DEF CopyEqual
  <2>1. /\ q # p /\ copying[q].v \in Pages /\ copying[q].mem \in Frames
        /\ pt[q][copying[q].v].pa # NULL /\ pt[q][copying[q].v].cow
        /\ data[copying[q].mem] = data[pt[q][copying[q].v].pa]
        /\ copying[q].kernel => copying[q].x \in Data
    BY <1>5 DEF IInv, CopyEqual, TypeOK
  <2>2. copying[q].mem # f /\ pt[q][copying[q].v].pa # f
    BY <1>2, <2>1, Zenon
  <2>3. pt[q][copying[q].v].pa \in Frames
    BY <2>1 DEF IInv, TypeOK, Ptes
  <2>. QED BY <1>5, <2>1, <2>2, <2>3, Zenon DEF IInv, TypeOK
<1>7. v \notin Text
  BY Zenon DEF IInv, TextReadOnly
<1>8. \A q \in Procs, u \in Pages :
        Contents(q, u)' = IF q = p /\ u = v THEN x ELSE Contents(q, u)
  <2> TAKE q \in Procs, u \in Pages
  <2>1. CASE q = p /\ u = v
    BY <1>1, <1>5, <2>1, Zenon DEF Contents, Mapped, f, IInv, TypeOK
  <2>2. CASE ~(q = p /\ u = v) /\ pt[q][u].pa # NULL
    <3>1. pt[q][u].pa \in Frames /\ pt[q][u].pa # f
      BY <1>2, <2>2 DEF IInv, TypeOK, Ptes
    <3>. QED BY <1>5, <2>2, <3>1, Zenon DEF Contents, Mapped, IInv, TypeOK
  <2>3. CASE pt[q][u].pa = NULL
    BY <1>1, <2>3, Zenon DEF Contents, Mapped, f
  <2>. QED BY <2>1, <2>2, <2>3, Zenon
<1>9. EagerStep
  BY <1>5, <1>7, <1>8, MemoryWrites
<1>. QED BY <1>3, <1>4, <1>6, <1>9, Zenon DEF IInv

\* vmfault up to the copy: nobody sees the new frame yet.
LEMMA FaultCopyStep ==
  ASSUME Constants, IInv, NEW p \in Procs, NEW a \in 0 .. MaxBrk - 1, NEW kernel \in BOOLEAN,
         NEW x \in Values, kernel => x \in Data, vmfault_copy(p, a, kernel, x)
  PROVE  IInv' /\ EagerStep
<1> DEFINE v == PageOf(a)
           f == pt[p][v].pa
           fault(m) == [v |-> v, mem |-> m, kernel |-> kernel, x |-> x]
<1>1. PICK m \in Free :
        /\ refcnt' = [refcnt EXCEPT ![m] = 1]
        /\ data' = [data EXCEPT ![m] = data[f]]
        /\ copying' = [copying EXCEPT ![p] = fault(m)]
  BY Zenon DEF vmfault_copy, cow_contents
<1>2. /\ v \in Pages /\ f # NULL /\ pt[p][v].cow /\ p \in live /\ copying[p].mem = NULL
      /\ UNCHANGED <<live, pt, brk>>
  BY PageOfAddress, Zenon DEF vmfault_copy, Mapped, Running
<1> HIDE DEF v
<1>3. m \in Frames /\ m # NULL /\ f \in Frames
  BY <1>2 DEF Free, Constants, IInv, TypeOK, Ptes
<1>4. \A q \in Procs : copying[q].mem # m /\ \A u \in Pages : pt[q][u].pa # m
  BY FreeUnused, Zenon DEF IInv
<1>5. /\ copying'[p].v = v /\ copying'[p].mem = m /\ copying'[p].kernel = kernel
      /\ copying'[p].x = x
      /\ \A q \in Procs : q # p => copying'[q] = copying[q]
  BY <1>1, Zenon DEF IInv, TypeOK
<1>6. TypeOK'
  <2>1. data[f] \in Values \cup {JUNK} /\ fault(m) \in [v : Pages, mem : Frames \cup {NULL}, kernel : BOOLEAN, x : Values]
    BY <1>2, <1>3, Zenon DEF IInv, TypeOK
  <2>. QED BY <1>1, <1>2, <1>3, <2>1, Zenon DEF IInv, TypeOK
<1>7. Counted'
  <2> SUFFICES ASSUME NEW g \in Frames
               PROVE  refcnt'[g] = Cardinality(Refs(g)')
    BY Zenon DEF Counted
  <2>1. CASE g = m
    <3>1. Refs(g)' = {<<p, NULL>>}
      BY <1>2, <1>4, <1>5, <2>1 DEF Refs, Constants
    <3>2. refcnt'[g] = 1
      BY <1>1, <1>3, <2>1, Zenon DEF IInv, TypeOK
    <3>. QED BY <3>1, <3>2, FS_Singleton, Zenon
  <2>2. CASE g # m
    <3>1. Refs(g)' = Refs(g)
      <4>1. \A q \in Procs : copying'[q].mem = g <=> copying[q].mem = g
        BY <1>2, <1>5, <2>2, Zenon DEF Constants
      <4>. QED BY <1>2, <4>1, RefsSame, Zenon
    <3>2. refcnt'[g] = refcnt[g]
      BY <1>1, <2>2, Zenon DEF IInv, TypeOK
    <3>. QED BY <3>1, <3>2, Zenon DEF IInv, Counted
  <2>. QED BY <2>1, <2>2, Zenon
<1>8. DeadMapNothing' /\ Injective' /\ TextReadOnly' /\ HeapBelow'
  BY <1>2, <1>5 DEF IInv, DeadMapNothing, Injective, TextReadOnly, HeapBelow
<1>9. WritableSole' /\ CopySole'
  BY <1>2, <1>4, <1>5 DEF IInv, WritableSole, CopySole
<1>10. \A g \in Frames : g # m => data'[g] = data[g]
  BY <1>1, Zenon DEF IInv, TypeOK
<1>11. CopyEqual'
  <2> SUFFICES ASSUME NEW q \in Procs, copying'[q].mem # NULL
               PROVE  /\ pt'[q][copying'[q].v].pa # NULL /\ pt'[q][copying'[q].v].cow
                      /\ data'[copying'[q].mem] = data'[pt'[q][copying'[q].v].pa]
                      /\ copying'[q].kernel => copying'[q].x \in Data
    BY Zenon DEF CopyEqual
  <2>1. CASE q = p
    <3>1. data'[m] = data[f] /\ data'[f] = data[f]
      BY <1>1, <1>2, <1>3, <1>4, <1>10, Zenon DEF IInv, TypeOK
    <3>. QED BY <1>2, <1>5, <2>1, <3>1, Zenon
  <2>2. CASE q # p
    <3> DEFINE g == pt[q][copying[q].v].pa
    <3>1. /\ copying'[q] = copying[q] /\ copying[q].mem # NULL /\ copying[q].v \in Pages
          /\ copying[q].mem \in Frames
          /\ g # NULL /\ pt[q][copying[q].v].cow /\ data[copying[q].mem] = data[g]
          /\ copying[q].kernel => copying[q].x \in Data
      BY <1>5, <2>2, Zenon DEF IInv, CopyEqual, TypeOK
    <3>2. g \in Frames
      BY <3>1 DEF IInv, TypeOK, Ptes
    <3>3. data'[g] = data[g] /\ data'[copying[q].mem] = data[copying[q].mem]
      BY <1>4, <1>10, <3>1, <3>2, Zenon
    <3>. QED BY <1>2, <3>1, <3>3, Zenon
  <2>. QED BY <2>1, <2>2, Zenon
<1>12. \A q \in Procs, u \in Pages : Contents(q, u)' = Contents(q, u)
  <2> TAKE q \in Procs, u \in Pages
  <2>1. pt[q][u].pa # NULL => pt[q][u].pa \in Frames
    BY DEF IInv, TypeOK, Ptes
  <2>. QED BY <1>2, <1>4, <1>10, <2>1, Zenon DEF Contents, Mapped
<1>13. EagerStep
  BY <1>2, <1>12, MemoryStutters, Zenon
<1>. QED BY <1>6, <1>7, <1>8, <1>9, <1>11, <1>13, Zenon DEF IInv

\* The rest of vmfault: the page gets its own frame, which the copyout then writes.
LEMMA FaultMapStep ==
  ASSUME Constants, IInv, NEW p \in Procs, vmfault_map(p)
  PROVE  IInv' /\ EagerStep
<1> DEFINE v == copying[p].v
           m == copying[p].mem
           f == pt[p][v].pa
<1>1. /\ p \in live /\ m # NULL
      /\ pt' = [pt EXCEPT ![p][v] = [@ EXCEPT !.pa = m, !.w = TRUE, !.cow = FALSE]]
      /\ refcnt' = [g \in Frames |-> IF g = f THEN refcnt[g] - 1 ELSE refcnt[g]]
      /\ data' = [g \in Frames |->
           IF g = m /\ copying[p].kernel THEN copying[p].x
           ELSE IF g = f /\ refcnt[g] = 1 THEN JUNK ELSE data[g]]
      /\ copying' = [copying EXCEPT ![p] = NoFault]
      /\ UNCHANGED <<live, brk>>
  BY Zenon DEF vmfault_map, vmfault_frees
<1>2. /\ v \in Pages /\ m \in Frames /\ copying[p].kernel \in BOOLEAN /\ copying[p].x \in Values
      /\ f # NULL /\ pt[p][v].cow /\ data[m] = data[f]
      /\ copying[p].kernel => copying[p].x \in Data
  BY <1>1, Zenon DEF IInv, TypeOK, CopyEqual
<1>3. f \in Frames
  BY <1>2 DEF IInv, TypeOK, Ptes
<1>4. \A q \in Procs : /\ copying[q].mem = m => q = p
                       /\ \A u \in Pages : pt[q][u].pa # m
  BY <1>1, Zenon DEF IInv, CopySole
<1>5. f # m
  BY <1>2, <1>4, ZenonT(60)
<1>6. /\ pt'[p][v].pa = m /\ pt'[p][v].w /\ ~pt'[p][v].cow
      /\ \A q \in Procs, u \in Pages : ~(q = p /\ u = v) => pt'[q][u] = pt[q][u]
  BY <1>1, <1>2 DEF IInv, TypeOK, Ptes
<1>7. copying'[p].mem = NULL /\ \A q \in Procs : q # p => copying'[q] = copying[q]
  BY <1>1, Zenon DEF IInv, TypeOK, NoFault
<1>8. refcnt[f] \in Nat \ {0}
  <2>1. <<p, v>> \in Refs(f)
    BY <1>2, <1>3, RefsElements, Zenon
  <2>2. Cardinality(Refs(f)) # 0
    BY <1>3, <2>1, RefsFinite, FS_EmptySet, Zenon
  <2>. QED BY <1>3, <2>2, Zenon DEF IInv, TypeOK, Counted
<1> HIDE DEF v, m, f
<1>9. TypeOK'
  <2>1. pt' \in [Procs -> [Pages -> Ptes]]
    <3>1. pt \in [Procs -> [Pages -> Ptes]]
      BY Zenon DEF IInv, TypeOK
    <3>2. [pt[p][v] EXCEPT !.pa = m, !.w = TRUE, !.cow = FALSE] \in Ptes
      <4>1. pt[p][v] \in Ptes
        BY <1>2, <3>1, Zenon
      <4>. QED BY <1>2, <4>1, Zenon DEF Ptes
    <3>. QED BY <1>1, <1>2, <3>1, <3>2, Zenon
  <2>2. refcnt' \in [Frames -> Nat]
    <3>1. \A g \in Frames : (IF g = f THEN refcnt[g] - 1 ELSE refcnt[g]) \in Nat
      BY <1>8 DEF IInv, TypeOK
    <3>. QED BY <1>1, <3>1, Zenon
  <2>3. data' \in [Frames -> Values \cup {JUNK}]
    BY <1>1, <1>2, Zenon DEF IInv, TypeOK
  <2>4. NoFault \in [v : Pages, mem : Frames \cup {NULL}, kernel : BOOLEAN, x : Values]
    BY <1>2 DEF NoFault, Constants, Pages
  <2>5. copying' \in [Procs -> [v : Pages, mem : Frames \cup {NULL}, kernel : BOOLEAN, x : Values]]
    BY <1>1, <2>4, Zenon DEF IInv, TypeOK
  <2>. QED BY <1>1, <2>1, <2>2, <2>3, <2>5, Zenon DEF IInv, TypeOK
<1>10. Counted'
  <2> SUFFICES ASSUME NEW g \in Frames
               PROVE  refcnt'[g] = Cardinality(Refs(g)')
    BY Zenon DEF Counted
  <2>1. refcnt[g] = Cardinality(Refs(g)) /\ IsFiniteSet(Refs(g)) /\ NULL \notin Frames
    BY RefsFinite, Zenon DEF IInv, Counted, Constants
  <2>2. CASE g = m
    <3>1. Refs(g)' = {<<p, v>>} /\ Refs(g) = {<<p, NULL>>}
      <4>1. \A q \in Procs : copying'[q].mem # m /\ (copying[q].mem = m <=> q = p)
        BY <1>1, <1>4, <1>7, Zenon DEF m
      <4>2. \A q \in Procs, u \in Pages :
              pt[q][u].pa # m /\ (pt'[q][u].pa = m <=> q = p /\ u = v)
        BY <1>4, <1>6
      <4>. QED BY <1>2, <2>2, <4>1, <4>2 DEF Refs, Constants
    <3>2. refcnt'[g] = refcnt[g]
      BY <1>1, <1>5, <2>2, Zenon
    <3>. QED BY <2>1, <3>1, <3>2, FS_Singleton, ZenonT(60)
  <2>3. CASE g = f
    <3>1. Refs(g)' = Refs(g) \ {<<p, v>>}
      <4>1. \A q \in Procs : copying'[q].mem = g <=> copying[q].mem = g
        BY <1>5, <1>7, <2>1, <2>3, Zenon DEF m
      <4>2. \A q \in Procs, u \in Pages :
              pt'[q][u].pa = g <=> pt[q][u].pa = g /\ ~(q = p /\ u = v)
        BY <1>5, <1>6, <2>3, Zenon
      <4>. QED BY <1>2, <4>1, <4>2, RefsLess
    <3>2. <<p, v>> \in Refs(g)
      BY <1>2, <2>3, RefsElements, Zenon DEF f
    <3>3. refcnt'[g] = refcnt[g] - 1
      BY <1>1, <2>3, Zenon
    <3>. QED BY <2>1, <3>1, <3>2, <3>3, CountLess, Zenon
  <2>4. CASE g # m /\ g # f
    <3>1. Refs(g)' = Refs(g)
      <4>1. \A q \in Procs : copying'[q].mem = g <=> copying[q].mem = g
        BY <1>7, <2>1, <2>4, Zenon DEF m
      <4>2. \A q \in Procs, u \in Pages : pt'[q][u].pa = g <=> pt[q][u].pa = g
        BY <1>6, <2>4, Zenon DEF f
      <4>. QED BY <4>1, <4>2, RefsSame, Zenon
    <3>2. refcnt'[g] = refcnt[g]
      BY <1>1, <2>4, Zenon
    <3>. QED BY <2>1, <3>1, <3>2, Zenon
  <2>. QED BY <2>2, <2>3, <2>4, Zenon
<1>11. DeadMapNothing'
  BY <1>1, <1>6, <1>7 DEF IInv, DeadMapNothing
<1>12. Injective'
  BY <1>4, <1>6 DEF IInv, Injective
<1>13. WritableSole'
  BY <1>4, <1>6, <1>7 DEF IInv, WritableSole
<1>14. CopySole'
  BY <1>1, <1>4, <1>6, <1>7 DEF IInv, CopySole, m
<1>15. TextReadOnly' /\ HeapBelow'
  <2>1. v \notin Text
    BY <1>2, Zenon DEF IInv, TextReadOnly
  <2>2. Text \subseteq Pages
    BY DEF Constants, Pages
  <2>3. TextReadOnly'
    BY <1>6, <2>1, <2>2 DEF IInv, TextReadOnly
  <2>4. HeapBelow'
    BY <1>1, <1>2, <1>6 DEF IInv, HeapBelow, f
  <2>. QED BY <2>3, <2>4, Zenon
\* Another page or fault that uses the old frame is a second reference to it.
<1>16. \A q \in Procs, u \in Pages :
         ~(q = p /\ u = v) /\ pt[q][u].pa # NULL => data'[pt[q][u].pa] = data[pt[q][u].pa]
  <2> SUFFICES ASSUME NEW q \in Procs, NEW u \in Pages,
                      ~(q = p /\ u = v), pt[q][u].pa # NULL
               PROVE  data'[pt[q][u].pa] = data[pt[q][u].pa]
    OBVIOUS
  <2>1. pt[q][u].pa \in Frames /\ pt[q][u].pa # m
    BY <1>4 DEF IInv, TypeOK, Ptes
  <2>2. pt[q][u].pa = f => refcnt[f] # 1
    <3> SUFFICES ASSUME pt[q][u].pa = f
                 PROVE  refcnt[f] # 1
      OBVIOUS
    <3>. QED BY <1>2, <1>3, SharedNotLast DEF f
  <2>. QED BY <1>1, <2>1, <2>2, Zenon
<1>17. CopyEqual'
  <2> SUFFICES ASSUME NEW q \in Procs, copying'[q].mem # NULL
               PROVE  /\ pt'[q][copying'[q].v].pa # NULL /\ pt'[q][copying'[q].v].cow
                      /\ data'[copying'[q].mem] = data'[pt'[q][copying'[q].v].pa]
                      /\ copying'[q].kernel => copying'[q].x \in Data
    BY Zenon DEF CopyEqual
  <2> DEFINE u == copying[q].v
             n == copying[q].mem
  <2>1. q # p /\ copying'[q] = copying[q]
    BY <1>7, Zenon
  <2>2. /\ u \in Pages /\ n \in Frames /\ n # NULL
        /\ pt[q][u].pa # NULL /\ pt[q][u].cow /\ data[n] = data[pt[q][u].pa]
        /\ copying[q].kernel => copying[q].x \in Data
    BY <2>1, Zenon DEF IInv, CopyEqual, TypeOK
  <2>3. n # m /\ n # f
    <3>1. n # m
      BY <1>4, <2>1, Zenon
    <3>2. n # f
      BY <1>2, <2>2, Zenon DEF IInv, CopySole, f
    <3>. QED BY <3>1, <3>2, Zenon
  <2>4. data'[n] = data[n]
    BY <1>1, <2>2, <2>3, Zenon
  <2>5. data'[pt[q][u].pa] = data[pt[q][u].pa] /\ pt'[q][u] = pt[q][u]
    BY <1>6, <1>16, <2>1, <2>2, Zenon
  <2>. QED BY <2>1, <2>2, <2>4, <2>5, Zenon
<1>18. \A q \in Procs, u \in Pages :
         Contents(q, u)' = IF q = p /\ u = v
                           THEN IF copying[p].kernel THEN copying[p].x ELSE Contents(q, u)
                           ELSE Contents(q, u)
  <2> TAKE q \in Procs, u \in Pages
  <2>1. CASE q = p /\ u = v
    <3>1. data'[m] = IF copying[p].kernel THEN copying[p].x ELSE data[m]
      BY <1>1, <1>2, <1>5, Zenon
    <3>. QED BY <1>1, <1>2, <1>6, <2>1, <3>1 DEF Contents, Mapped, f
  <2>2. CASE ~(q = p /\ u = v)
    BY <1>6, <1>16, <2>2 DEF Contents, Mapped
  <2>. QED BY <2>1, <2>2, Zenon
<1>19. EagerStep
  <2>1. CASE copying[p].kernel
    <3>1. \A q \in Procs, u \in Pages :
            Contents(q, u)' = IF q = p /\ u = v THEN copying[p].x ELSE Contents(q, u)
      BY <1>18, <2>1, Zenon
    <3>2. v \in Pages \ Text
      BY <1>2, Zenon DEF IInv, TextReadOnly
    <3>. QED BY <1>1, <1>2, <2>1, <3>1, <3>2, MemoryWrites, Zenon
  <2>2. CASE ~copying[p].kernel
    <3>1. \A q \in Procs, u \in Pages : Contents(q, u)' = Contents(q, u)
      BY <1>18, <2>2, Zenon
    <3>. QED BY <1>1, <3>1, MemoryStutters, Zenon
  <2>. QED BY <2>1, <2>2, Zenon
<1>. QED BY <1>9, <1>10, <1>11, <1>12, <1>13, <1>14, <1>15, <1>17, <1>19, Zenon DEF IInv

--------------------------------------------------------------------------------
(* fork *)

\* as_copy changes neither the frame of a PTE nor what can be found in it.
LEMMA ShareKeepsFrame ==
  ASSUME NEW e \in Ptes
  PROVE  /\ share(e) \in Ptes /\ share(e).pa = e.pa /\ ~share(e).w
         /\ share(e).cow <=> e.w \/ e.cow
BY Zenon DEF share, Ptes

LEMMA ForkFailsStep ==
  ASSUME Constants, IInv, NEW p \in Procs, NEW last \in Pages, as_copy_fails(p, last)
  PROVE  IInv' /\ EagerStep
<1>1. /\ copying[p].mem = NULL /\ UNCHANGED <<live, brk, refcnt, data, copying>>
      /\ pt' = [pt EXCEPT ![p] = [v \in Pages |-> IF v <= last THEN share(pt[p][v]) ELSE pt[p][v]]]
  BY Zenon DEF as_copy_fails, Running
<1>2. pt \in [Procs -> [Pages -> Ptes]]
  BY Zenon DEF IInv, TypeOK
<1>3. \A v \in Pages : /\ share(pt[p][v]) \in Ptes /\ share(pt[p][v]).pa = pt[p][v].pa
                       /\ ~share(pt[p][v]).w
                       /\ share(pt[p][v]).cow <=> pt[p][v].w \/ pt[p][v].cow
  BY <1>2, ShareKeepsFrame, Zenon
<1>4. \A q \in Procs, u \in Pages :
        /\ pt'[q][u] \in Ptes /\ pt'[q][u].pa = pt[q][u].pa
        /\ pt'[q][u].w => pt[q][u].w
        /\ pt'[q][u].cow => pt[q][u].w \/ pt[q][u].cow
        /\ q # p => pt'[q][u] = pt[q][u]
  BY <1>1, <1>2, <1>3
<1>5. TypeOK'
  <2>1. [v \in Pages |-> IF v <= last THEN share(pt[p][v]) ELSE pt[p][v]] \in [Pages -> Ptes]
    BY <1>2, <1>3, Zenon
  <2>2. pt' \in [Procs -> [Pages -> Ptes]]
    BY <1>1, <1>2, <2>1, Zenon
  <2>. QED BY <1>1, <2>2, Zenon DEF IInv, TypeOK
<1>6. Counted'
  <2>1. \A f \in Frames : Refs(f)' = Refs(f)
    BY <1>1, <1>4, RefsSame, ZenonT(60)
  <2>. QED BY <1>1, <2>1, Zenon DEF IInv, Counted
<1>7. DeadMapNothing' /\ Injective' /\ HeapBelow'
  BY <1>1, <1>4, SMTT(60) DEF IInv, DeadMapNothing, Injective, HeapBelow
<1>8. WritableSole' /\ CopySole'
  BY <1>1, <1>4 DEF IInv, WritableSole, CopySole
<1>9. CopyEqual'
  <2>1. \A q \in Procs : copying[q].v \in Pages
    BY Zenon DEF IInv, TypeOK
  <2>2. \A q \in Procs : copying[q].mem # NULL =>
          pt'[q][copying[q].v] = pt[q][copying[q].v]
    BY <1>1, <1>4, <2>1
  <2>. QED BY <1>1, <2>2, Zenon DEF IInv, CopyEqual
<1>10. TextReadOnly'
  <2>1. Text \subseteq Pages
    BY SMTT(60) DEF Constants, Pages
  <2>. QED BY <1>4, <2>1, Zenon DEF IInv, TextReadOnly
<1>11. \A q \in Procs, u \in Pages : Contents(q, u)' = Contents(q, u)
  BY <1>1, <1>4 DEF Contents, Mapped
<1>12. EagerStep
  BY <1>1, <1>11, MemoryStutters, Zenon
<1>. QED BY <1>5, <1>6, <1>7, <1>8, <1>9, <1>10, <1>12 DEF IInv

LEMMA ForkStep ==
  ASSUME Constants, IInv, NEW p \in Procs, NEW c \in Procs, as_copy(p, c)
  PROVE  IInv' /\ EagerStep
<1> DEFINE shared == [v \in Pages |-> share(pt[p][v])]
<1>0. pt' = [pt EXCEPT ![p] = shared, ![c] = shared]
  BY Zenon DEF as_copy
<1>1. /\ p \in live /\ copying[p].mem = NULL /\ c \notin live /\ p # c
      /\ live' = live \cup {c} /\ brk' = [brk EXCEPT ![c] = brk[p]]
      /\ UNCHANGED <<data, copying>>
  BY Zenon DEF as_copy, Running
<1>2. pt \in [Procs -> [Pages -> Ptes]] /\ brk \in [Procs -> 0 .. MaxBrk]
  BY Zenon DEF IInv, TypeOK
<1>3. \A v \in Pages : /\ share(pt[p][v]) \in Ptes /\ share(pt[p][v]).pa = pt[p][v].pa
                       /\ ~share(pt[p][v]).w
                       /\ share(pt[p][v]).cow <=> pt[p][v].w \/ pt[p][v].cow
  BY <1>2, ShareKeepsFrame, Zenon
<1>4. /\ brk[c] = 0 /\ copying[c].mem = NULL
      /\ \A v \in Pages : pt[c][v].pa = NULL
  BY <1>1, Zenon DEF IInv, DeadMapNothing
<1>5. shared \in [Pages -> Ptes]
  BY <1>3, Zenon
<1>6. \A q \in Procs, u \in Pages :
        /\ q # c => pt'[q][u].pa = pt[q][u].pa
        /\ q = c => pt'[q][u].pa = pt[p][u].pa
        /\ pt'[q][u].w => q # p /\ q # c /\ pt[q][u].w
        /\ q = p \/ q = c => (pt'[q][u].cow <=> pt[p][u].w \/ pt[p][u].cow)
        /\ q # p /\ q # c => pt'[q][u] = pt[q][u]
  BY <1>0, <1>1, <1>2, <1>3
<1> HIDE DEF shared
<1>7. \A q \in Procs : brk'[q] = IF q = c THEN brk[p] ELSE brk[q]
  BY <1>1, <1>2, Zenon
<1>8. \A f \in Frames :
        refcnt'[f] = IF \E v \in Pages : pt[p][v].pa = f THEN refcnt[f] + 1 ELSE refcnt[f]
  BY Zenon DEF as_copy, FramesAt, Mapped, Constants
<1>9. TypeOK'
  <2>1. pt' \in [Procs -> [Pages -> Ptes]] /\ brk' \in [Procs -> 0 .. MaxBrk]
    BY <1>0, <1>1, <1>2, <1>5, Zenon
  <2>2. refcnt' \in [Frames -> Nat]
    BY DEF as_copy, IInv, TypeOK
  <2>. QED BY <1>1, <2>1, <2>2, Zenon DEF IInv, TypeOK
<1>10. Counted'
  <2> SUFFICES ASSUME NEW f \in Frames
               PROVE  refcnt'[f] = Cardinality(Refs(f)')
    BY Zenon DEF Counted
  <2>1. refcnt[f] = Cardinality(Refs(f)) /\ IsFiniteSet(Refs(f)) /\ f # NULL
    BY RefsFinite, Zenon DEF IInv, Counted, Constants
  <2>2. ASSUME NEW v \in Pages, pt[p][v].pa = f
        PROVE  refcnt'[f] = Cardinality(Refs(f)')
    <3>1. \A u \in Pages : pt[p][u].pa = f <=> u = v
      BY <2>1, <2>2, Zenon DEF IInv, Injective
    <3>2. \A q \in Procs, u \in Pages :
            pt'[q][u].pa = f <=> pt[q][u].pa = f \/ (q = c /\ u = v)
      BY <1>4, <1>6, <2>1, <3>1
    <3>3. Refs(f)' = Refs(f) \cup {<<c, v>>}
      BY <1>1, <3>2, RefsMore, Zenon
    <3>4. <<c, v>> \notin Refs(f)
      BY <1>4, <2>1, RefsElements
    <3>5. refcnt'[f] = refcnt[f] + 1
      BY <1>8, <2>2, Zenon
    <3>. QED BY <2>1, <3>3, <3>4, <3>5, CountMore, Zenon
  <2>3. ASSUME \A v \in Pages : pt[p][v].pa # f
        PROVE  refcnt'[f] = Cardinality(Refs(f)')
    <3>1. \A q \in Procs, u \in Pages : pt'[q][u].pa = f <=> pt[q][u].pa = f
      BY <1>4, <1>6, <2>1, <2>3
    <3>2. Refs(f)' = Refs(f)
      BY <1>1, <3>1, RefsSame, Zenon
    <3>. QED BY <1>8, <2>1, <2>3, <3>2, Zenon
  <2>. QED BY <2>2, <2>3, Zenon
<1>11. DeadMapNothing'
  BY <1>1, <1>6, <1>7 DEF IInv, DeadMapNothing
<1>12. Injective'
  BY <1>6 DEF IInv, Injective
<1>13. WritableSole'
  <2> SUFFICES ASSUME NEW r \in Procs, NEW v \in Pages, pt'[r][v].pa # NULL, pt'[r][v].w,
                      NEW q \in Procs
               PROVE  /\ copying'[q].mem # pt'[r][v].pa
                      /\ \A u \in Pages : pt'[q][u].pa = pt'[r][v].pa => q = r /\ u = v
    BY Zenon DEF WritableSole
  <2>1. r # p /\ r # c /\ pt'[r][v] = pt[r][v] /\ pt[r][v].pa # NULL /\ pt[r][v].w
    BY <1>6, Zenon
  <2>2. \A s \in Procs : /\ copying[s].mem # pt[r][v].pa
                         /\ \A u \in Pages : pt[s][u].pa = pt[r][v].pa => s = r /\ u = v
    BY <2>1, Zenon DEF IInv, WritableSole
  <2>. QED BY <1>1, <1>6, <2>1, <2>2
<1>14. CopySole'
  BY <1>1, <1>6 DEF IInv, CopySole
<1>15. CopyEqual'
  <2>1. \A q \in Procs : copying[q].v \in Pages
    BY Zenon DEF IInv, TypeOK
  <2>2. \A q \in Procs : copying[q].mem # NULL =>
          pt'[q][copying[q].v] = pt[q][copying[q].v]
    BY <1>1, <1>4, <1>6, <2>1
  <2>. QED BY <1>1, <2>2, Zenon DEF IInv, CopyEqual
<1>16. TextReadOnly'
  <2>1. Text \subseteq Pages
    BY DEF Constants, Pages
  <2>. QED BY <1>6, <2>1, Zenon DEF IInv, TextReadOnly
<1>17. HeapBelow'
  BY <1>6, <1>7 DEF IInv, HeapBelow
<1>18. \A q \in Procs, u \in Pages :
         Contents(q, u)' = IF q = c THEN Contents(p, u) ELSE Contents(q, u)
  <2> TAKE q \in Procs, u \in Pages
  <2>1. CASE q = c
    BY <1>1, <1>6, <2>1, Zenon DEF Contents, Mapped
  <2>2. CASE q # c
    BY <1>1, <1>6, <2>2, Zenon DEF Contents, Mapped
  <2>. QED BY <2>1, <2>2, Zenon
<1>19. EagerStep
  BY <1>1, <1>18, MemoryForks, Zenon
<1>. QED BY <1>9, <1>10, <1>11, <1>12, <1>13, <1>14, <1>15, <1>16, <1>17, <1>19 DEF IInv

--------------------------------------------------------------------------------
(* The steps that replace part of a page table. *)

LEMMA RemapKeeps ==
  ASSUME Constants, IInv, NEW p \in Procs, NEW Keep \in SUBSET Pages, NEW old, NEW new,
         Remaps(p, Keep, old, new), TypeOK', DeadMapNothing', TextReadOnly', HeapBelow'
  PROVE  /\ IInv'
         /\ \A q \in Procs, u \in Pages :
              q # p \/ u \in Keep => Contents(q, u)' = Contents(q, u)
<1>1. Counted' /\ Injective' /\ WritableSole' /\ CopySole' /\ CopyEqual'
  BY RemapCounted, RemapSole, Zenon
<1>2. \A q \in Procs, u \in Pages :
        q # p \/ u \in Keep => Contents(q, u)' = Contents(q, u)
  <2> SUFFICES ASSUME NEW q \in Procs, NEW u \in Pages, q # p \/ u \in Keep
               PROVE  Contents(q, u)' = Contents(q, u)
    OBVIOUS
  <2>1. /\ pt'[q][u] = pt[q][u]
        /\ pt[q][u].pa # NULL => data'[pt[q][u].pa] = data[pt[q][u].pa]
    BY RemapContents
  <2>. QED BY <2>1, Zenon DEF Contents, Mapped
<1>. QED BY <1>1, <1>2, Zenon DEF IInv

LEMMA LazyStep ==
  ASSUME Constants, IInv, NEW p \in Procs, NEW a \in 0 .. MaxBrk - 1, vmfault_lazy(p, a)
  PROVE  IInv' /\ EagerStep
<1> DEFINE v == PageOf(a)
           Keep == Pages \ {v}
<1>1. v \in Pages /\ v * PGSIZE <= a
  BY PageOfAddress, Zenon
<1>2. /\ p \in live /\ copying[p].mem = NULL /\ a < brk[p] /\ v >= HeapBase
      /\ pt[p][v].pa = NULL /\ UNCHANGED <<live, brk, copying>>
  BY <1>1, Zenon DEF vmfault_lazy, Running, Mapped
<1>3. PICK m \in Free : /\ refcnt' = [refcnt EXCEPT ![m] = 1]
                        /\ data' = [data EXCEPT ![m] = Zero]
                        /\ pt' = [pt EXCEPT ![p][v] = Map(m, TRUE, TRUE)]
  BY Zenon DEF vmfault_lazy
<1> HIDE DEF v
<1>4. /\ m \in Frames /\ m # NULL /\ NULL \notin Frames
      /\ Map(m, TRUE, TRUE) \in Ptes /\ Map(m, TRUE, TRUE).pa = m
  BY Zenon DEF Free, Constants, Map, Ptes
<1>5. /\ pt \in [Procs -> [Pages -> Ptes]] /\ refcnt \in [Frames -> Nat]
      /\ data \in [Frames -> Values \cup {JUNK}]
  BY Zenon DEF IInv, TypeOK
<1>6. /\ pt'[p][v].pa = m
      /\ \A q \in Procs, u \in Pages : ~(q = p /\ u = v) => pt'[q][u] = pt[q][u]
      /\ \A q \in Procs : q # p => pt'[q] = pt[q]
  BY <1>1, <1>3, <1>4, <1>5, Zenon
<1>7. Remaps(p, Keep, {}, {m})
  <2>1. /\ \A f \in Frames : refcnt'[f] = IF f \in {m} THEN 1 ELSE refcnt[f]
        /\ \A f \in Frames : f # m => data'[f] = data[f]
    BY <1>3, <1>4, <1>5, Zenon
  <2>2. \A u \in Pages \ Keep : u = v
    BY <1>1, Zenon
  <2>. QED BY <1>1, <1>2, <1>4, <1>6, <2>1, <2>2 DEF Remaps
<1>8. TypeOK'
  <2>1. pt' \in [Procs -> [Pages -> Ptes]]
    BY <1>1, <1>3, <1>4, <1>5, Zenon
  <2>2. Zero \in Values
    BY Zenon DEF Constants
  <2>. QED BY <1>2, <1>3, <1>4, <1>5, <2>1, <2>2, Zenon DEF IInv, TypeOK
<1>9. DeadMapNothing'
  BY <1>2, <1>6 DEF IInv, DeadMapNothing
<1>10. TextReadOnly'
  <2>1. v \notin Text /\ Text \subseteq Pages
    BY <1>2 DEF Constants, Pages
  <2>. QED BY <1>6, <2>1, Zenon DEF IInv, TextReadOnly
<1>11. HeapBelow'
  <2>1. v * PGSIZE < brk[p]
    <3>1. brk[p] \in Nat /\ v * PGSIZE \in Int
      BY <1>1 DEF IInv, TypeOK, Constants, Pages
    <3>. QED BY <1>1, <1>2, <3>1
  <2>. QED BY <1>2, <1>6, <2>1, Zenon DEF IInv, HeapBelow
<1>12. /\ IInv'
       /\ \A q \in Procs, u \in Pages :
            q # p \/ u \in Keep => Contents(q, u)' = Contents(q, u)
  BY <1>7, <1>8, <1>9, <1>10, <1>11, RemapKeeps, Zenon
<1>13. \A u \in Pages : u = v => Contents(p, u)' = Contents(p, u)
  <2>1. data'[m] = Zero
    BY <1>3, <1>4, <1>5, Zenon
  <2>. QED BY <1>2, <1>4, <1>6, <2>1, Zenon DEF Contents, Mapped
<1>14. EagerStep
  <2>1. \A q \in Procs, u \in Pages : Contents(q, u)' = Contents(q, u)
    BY <1>12, <1>13, Zenon
  <2>. QED BY <1>2, <2>1, MemoryStutters, Zenon
<1>. QED BY <1>12, <1>14, Zenon

LEMMA UnchangedTables ==
  ASSUME IInv, UNCHANGED <<pt, refcnt, data, copying>>
  PROVE  Counted' /\ Injective' /\ WritableSole' /\ CopySole' /\ CopyEqual' /\ TextReadOnly'
<1>1. Counted'
  BY Zenon DEF IInv, Counted, Refs
<1>2. Injective' /\ TextReadOnly'
  BY Zenon DEF IInv, Injective, TextReadOnly
<1>3. WritableSole'
  BY DEF IInv, WritableSole
<1>4. CopySole'
  BY Zenon DEF IInv, CopySole
<1>5. CopyEqual'
  BY Zenon DEF IInv, CopyEqual
<1>. QED BY <1>1, <1>2, <1>3, <1>4, <1>5

\* The break moves and no page with it: none that is mapped lies above.
LEMMA LazySbrkStep ==
  ASSUME Constants, IInv, NEW p \in Procs, NEW end \in 0 .. MaxBrk, sys_sbrk_lazy(p, end)
  PROVE  IInv' /\ EagerStep
<1>1. /\ p \in live /\ brk[p] > 0 /\ end > brk[p] /\ brk' = [brk EXCEPT ![p] = end]
      /\ UNCHANGED <<live, pt, refcnt, data, copying>>
  BY Zenon DEF sys_sbrk_lazy, Running, HasHeap
<1>2. brk \in [Procs -> 0 .. MaxBrk] /\ MaxBrk \in Nat /\ HeapBase * PGSIZE \in Nat
      /\ \A u \in Pages : u * PGSIZE \in Nat
  BY TimesMonotone DEF IInv, TypeOK, MaxBrk, Constants, Pages
<1>3. TypeOK'
  BY <1>1, <1>2, Zenon DEF IInv, TypeOK
<1>4. Counted' /\ DeadMapNothing' /\ Injective' /\ WritableSole' /\ CopySole' /\ CopyEqual'
      /\ TextReadOnly'
  <2>1. Counted' /\ Injective' /\ WritableSole' /\ CopySole' /\ CopyEqual' /\ TextReadOnly'
    BY <1>1, UnchangedTables
  <2>2. \A q \in Procs \ live : brk'[q] = brk[q]
    BY <1>1, <1>2, Zenon
  <2>3. DeadMapNothing'
    BY <1>1, <2>2, Zenon DEF IInv, DeadMapNothing
  <2>. QED BY <2>1, <2>3, Zenon
<1>5. HeapBelow'
  BY <1>1, <1>2 DEF IInv, HeapBelow
<1>6. \A q \in Procs, u \in Pages :
        Contents(q, u)' = IF q = p /\ u * PGSIZE >= end THEN Zero ELSE Contents(q, u)
  <2> SUFFICES ASSUME NEW u \in Pages, u * PGSIZE >= end
               PROVE  pt[p][u].pa = NULL
    BY <1>1, Zenon DEF Contents, Mapped
  <2>1. u >= HeapBase
    <3>1. HeapBase * PGSIZE <= u * PGSIZE
      BY <1>1, <1>2 DEF IInv, HeapBelow
    <3>. QED BY <3>1, TimesMonotone, SMTT(60) DEF Constants, Pages
  <2>. QED BY <1>1, <1>2, <2>1 DEF IInv, HeapBelow
<1>7. EagerStep
  <2>1. end # brk[p]
    BY <1>1, <1>2
  <2>. QED BY <1>1, <1>2, <1>6, <2>1, MemoryGrows, Zenon
<1>. QED BY <1>3, <1>4, <1>5, <1>7, Zenon DEF IInv

LEMMA MappedCounted ==
  ASSUME Constants, IInv, NEW p \in Procs, NEW v \in Pages, pt[p][v].pa # NULL
  PROVE  pt[p][v].pa \in Frames /\ refcnt[pt[p][v].pa] \in Nat \ {0}
<1> DEFINE f == pt[p][v].pa
<1>1. f \in Frames
  BY DEF IInv, TypeOK, Ptes
<1>2. <<p, v>> \in Refs(f)
  BY <1>1, RefsElements, Zenon
<1>3. Cardinality(Refs(f)) # 0
  BY <1>1, <1>2, RefsFinite, FS_EmptySet, Zenon
<1>. QED BY <1>1, <1>3, Zenon DEF IInv, TypeOK, Counted

\* Sizes in bytes are natural numbers.
LEMMA Bytes ==
  ASSUME Constants
  PROVE  /\ MaxBrk \in Nat /\ HeapBase * PGSIZE \in 0 .. MaxBrk
         /\ \A u \in Pages : u \in Nat /\ u * PGSIZE \in Nat
         /\ \A u \in Pages : u >= HeapBase <=> u * PGSIZE >= HeapBase * PGSIZE
<1>1. PGSIZE \in Nat \ {0} /\ HeapBase \in Nat /\ HeapEnd \in Nat /\ HeapBase <= HeapEnd
  BY Zenon DEF Constants
<1>2. MaxBrk \in Nat /\ HeapBase * PGSIZE \in 0 .. MaxBrk
  BY <1>1, TimesMonotone DEF MaxBrk
<1>3. \A u \in Pages : u \in Nat /\ u * PGSIZE \in Nat
  BY <1>1, TimesMonotone DEF Pages
<1>4. \A u \in Pages : u >= HeapBase <=> u * PGSIZE >= HeapBase * PGSIZE
  BY <1>1, <1>3, TimesMonotone
<1>. QED BY <1>2, <1>3, <1>4, Zenon

LEMMA GrowStep ==
  ASSUME Constants, IInv, NEW p \in Procs, NEW end \in 0 .. MaxBrk, growproc(p, end)
  PROVE  IInv' /\ EagerStep
<1> DEFINE V == uvmalloc_pages(brk[p], end)
           Keep == Pages \ V
<1>1. /\ p \in live /\ copying[p].mem = NULL /\ brk[p] > 0 /\ end > brk[p]
      /\ brk' = [brk EXCEPT ![p] = end] /\ UNCHANGED <<live, copying>>
      /\ V \subseteq Pages /\ \A v \in V : pt[p][v].pa = NULL
  BY Zenon DEF growproc, Running, HasHeap, Mapped, uvmalloc_pages
<1>2. PICK mem \in [V -> Free] :
        LET new == {mem[v] : v \in V} IN
        /\ \A v, w \in V : mem[v] = mem[w] => v = w
        /\ refcnt' = [f \in Frames |-> IF f \in new THEN 1 ELSE refcnt[f]]
        /\ data' = [f \in Frames |-> IF f \in new THEN Zero ELSE data[f]]
        /\ pt' = [pt EXCEPT ![p] =
                    [v \in Pages |-> IF v \in V THEN Map(mem[v], TRUE, TRUE) ELSE @[v]]]
  BY Zenon DEF growproc
<1> DEFINE new == {mem[v] : v \in V}
<1>3. /\ pt \in [Procs -> [Pages -> Ptes]] /\ refcnt \in [Frames -> Nat]
      /\ data \in [Frames -> Values \cup {JUNK}] /\ brk \in [Procs -> 0 .. MaxBrk]
      /\ Zero \in Values /\ Free \subseteq Frames /\ NULL \notin Frames
  BY Zenon DEF IInv, TypeOK, Constants, Free
<1>4. \A v \in V : v * PGSIZE >= brk[p] /\ v * PGSIZE < end /\ v >= HeapBase
  <2> SUFFICES ASSUME NEW v \in V
               PROVE  v * PGSIZE >= brk[p] /\ v * PGSIZE < end /\ v >= HeapBase
    OBVIOUS
  <2>1. v \in Pages /\ v \in Nat /\ brk[p] \in Nat /\ HeapBase * PGSIZE \in Nat
        /\ v * PGSIZE \in Nat
    BY <1>1, <1>3, Bytes
  <2>2. v * PGSIZE >= brk[p] /\ v * PGSIZE < end
    BY <2>1, RoundUp, Zenon DEF uvmalloc_pages
  <2>3. brk[p] >= HeapBase * PGSIZE
    BY <1>1, <2>1 DEF IInv, HeapBelow
  <2>. QED BY <2>1, <2>2, <2>3, Bytes
<1> HIDE DEF V
<1>5. \A v \in V : Map(mem[v], TRUE, TRUE) \in Ptes /\ Map(mem[v], TRUE, TRUE).pa = mem[v]
                   /\ mem[v] \in Free
  BY <1>3, Zenon DEF Map, Ptes
<1>6. /\ \A v \in V : pt'[p][v].pa = mem[v]
      /\ \A v \in Keep : pt'[p][v] = pt[p][v]
      /\ \A q \in Procs : q # p => pt'[q] = pt[q]
  BY <1>1, <1>2, <1>3, <1>5, ZenonT(60)
<1>7. Remaps(p, Keep, {}, new)
  <2>1. \A v \in Pages \ Keep : v \in V /\ pt'[p][v].pa = mem[v]
    BY <1>6, Zenon
  <2>2. /\ \A v \in Pages \ Keep : pt'[p][v].pa \in Free \cup {NULL}
        /\ \A v, w \in Pages \ Keep :
             pt'[p][v].pa # NULL /\ pt'[p][v].pa = pt'[p][w].pa => v = w
    <3>1. \A v, w \in V : mem[v] = mem[w] => v = w
      BY <1>2, Zenon
    <3>. QED BY <1>5, <2>1, <3>1
  <2>3. \A f \in Frames : f \in new <=> \E v \in Pages \ Keep : pt'[p][v].pa = f
    BY <1>1, <2>1, Zenon
  <2>4. \A f \in Frames : ~\E v \in Pages \ Keep : pt[p][v].pa = f
    BY <1>1, <1>3, <2>1, Zenon
  <2>5. /\ \A f \in Frames : refcnt'[f] = IF f \in new THEN 1 ELSE refcnt[f]
        /\ \A f \in Frames : f \notin new => data'[f] = data[f]
    BY <1>2, Zenon
  <2>. QED BY <1>1, <1>6, <2>2, <2>3, <2>4, <2>5 DEF Remaps
<1>8. TypeOK'
  <2>1. [v \in Pages |-> IF v \in V THEN Map(mem[v], TRUE, TRUE) ELSE pt[p][v]] \in [Pages -> Ptes]
    <3>1. \A v \in Pages : (IF v \in V THEN Map(mem[v], TRUE, TRUE) ELSE pt[p][v]) \in Ptes
      <4>1. \A v \in Pages : pt[p][v] \in Ptes
        BY <1>3
      <4>. QED BY <1>5, <4>1, Zenon
    <3>. QED BY <3>1, Zenon
  <2>2. pt' \in [Procs -> [Pages -> Ptes]]
    BY <1>2, <1>3, <2>1, Zenon
  <2>3. refcnt' \in [Frames -> Nat] /\ data' \in [Frames -> Values \cup {JUNK}]
    BY <1>2, <1>3, Zenon
  <2>4. brk' \in [Procs -> 0 .. MaxBrk]
    BY <1>1, <1>3, ZenonT(60)
  <2>. QED BY <1>1, <2>2, <2>3, <2>4 DEF IInv, TypeOK
<1>9. DeadMapNothing'
  BY <1>1, <1>3, <1>6 DEF IInv, DeadMapNothing
<1>10. TextReadOnly'
  <2>1. \A v \in Text : v \in Keep
    BY <1>4 DEF Constants, Pages
  <2>. QED BY <1>6, <2>1, Zenon DEF IInv, TextReadOnly
<1>11. \A q \in Procs : brk'[q] = IF q = p THEN end ELSE brk[q]
  BY <1>1, <1>3, Zenon
<1>12. HeapBelow'
  <2> SUFFICES ASSUME NEW q \in Procs
               PROVE  /\ brk'[q] = 0 \/ brk'[q] >= HeapBase * PGSIZE
                      /\ \A v \in Pages : v >= HeapBase /\ pt'[q][v].pa # NULL
                                            => v * PGSIZE < brk'[q]
    BY Zenon DEF HeapBelow
  <2>1. CASE q # p
    BY <1>6, <1>11, <2>1, Zenon DEF IInv, HeapBelow
  <2>2. CASE q = p
    <3>1. brk[p] \in Nat /\ HeapBase * PGSIZE \in Nat /\ end \in Nat
          /\ \A v \in Pages : v * PGSIZE \in Nat
      BY <1>3, Bytes, SMTT(60)
    <3>2. \A v \in Keep : v >= HeapBase /\ pt'[p][v].pa # NULL => v * PGSIZE < end
      BY <1>1, <1>6, <3>1, SMTT(60) DEF IInv, HeapBelow
    <3>3. end >= HeapBase * PGSIZE
      BY <1>1, <3>1 DEF IInv, HeapBelow
    <3>. QED BY <1>4, <1>11, <2>2, <3>2, <3>3, Zenon
  <2>. QED BY <2>1, <2>2, Zenon
<1>13. /\ IInv'
       /\ \A q \in Procs, u \in Pages :
            q # p \/ u \in Keep => Contents(q, u)' = Contents(q, u)
  BY <1>7, <1>8, <1>9, <1>10, <1>12, RemapKeeps
<1>14. \A u \in V : Contents(p, u)' = Zero /\ Contents(p, u) = Zero
  <2> TAKE u \in V
  <2>1. u \in Pages /\ pt[p][u].pa = NULL /\ pt'[p][u].pa = mem[u] /\ mem[u] \in Frames
        /\ mem[u] \in new
    BY <1>1, <1>3, <1>5, <1>6, Zenon
  <2>2. data'[mem[u]] = Zero
    BY <1>2, <2>1, Zenon
  <2>. QED BY <1>3, <2>1, <2>2, Zenon DEF Contents, Mapped
<1>15. \A u \in Keep : u * PGSIZE >= end => Contents(p, u) = Zero
  <2> SUFFICES ASSUME NEW u \in Keep, u * PGSIZE >= end
               PROVE  pt[p][u].pa = NULL
    BY Zenon DEF Contents, Mapped
  <2>1. u \in Pages /\ u * PGSIZE \in Nat /\ brk[p] \in Nat /\ HeapBase * PGSIZE \in Nat
    BY <1>3, Bytes, SMTT(60)
  <2>2. u >= HeapBase
    BY <1>1, <2>1, Bytes DEF IInv, HeapBelow
  <2>. QED BY <1>1, <2>1, <2>2 DEF IInv, HeapBelow
<1>16. \A q \in Procs, u \in Pages :
         Contents(q, u)' = IF q = p /\ u * PGSIZE >= end THEN Zero ELSE Contents(q, u)
  BY <1>13, <1>14, <1>15, Zenon
<1>17. EagerStep
  <2>1. end # brk[p]
    BY <1>1, <1>3
  <2>. QED BY <1>1, <1>3, <1>16, <2>1, MemoryGrows, ZenonT(60)
<1>. QED BY <1>13, <1>17, Zenon

LEMMA ShrinkStep ==
  ASSUME Constants, IInv, NEW p \in Procs, NEW end \in 0 .. MaxBrk, growproc_shrink(p, end)
  PROVE  IInv' /\ EagerStep
<1> DEFINE V == uvmdealloc_pages(brk[p], end)
           Keep == Pages \ V
           old == FramesAt(p, V)
<1>1. /\ p \in live /\ copying[p].mem = NULL /\ end < brk[p] /\ end >= HeapBase * PGSIZE
      /\ brk' = [brk EXCEPT ![p] = end] /\ UNCHANGED <<live, copying>> /\ V \subseteq Pages
  BY Zenon DEF growproc_shrink, Running, uvmdealloc_pages
<1>2. /\ refcnt' = [f \in Frames |-> IF f \in old THEN refcnt[f] - 1 ELSE refcnt[f]]
      /\ data' = [f \in Frames |-> IF f \in old /\ refcnt[f] = 1 THEN JUNK ELSE data[f]]
  BY Zenon DEF growproc_shrink, kfree
<1>3. pt' = [pt EXCEPT ![p] = [v \in Pages |-> IF v \in V THEN Invalid ELSE @[v]]]
  BY Zenon DEF growproc_shrink
<1>4. /\ pt \in [Procs -> [Pages -> Ptes]] /\ refcnt \in [Frames -> Nat]
      /\ data \in [Frames -> Values \cup {JUNK}] /\ brk \in [Procs -> 0 .. MaxBrk]
      /\ NULL \notin Frames /\ Invalid \in Ptes /\ Invalid.pa = NULL
      /\ \A v \in Pages : pt[p][v] \in Ptes
  BY DEF IInv, TypeOK, Constants, Invalid, Ptes
<1>5. \A f \in Frames : f \in old <=> \E v \in V : pt[p][v].pa = f
  BY <1>1, <1>4, Zenon DEF FramesAt, Mapped
<1>6. \A u \in Pages :
        /\ u \in V => u * PGSIZE >= end /\ u >= HeapBase
        /\ u \notin V /\ u * PGSIZE >= end => pt[p][u].pa = NULL
  <2> SUFFICES ASSUME NEW u \in Pages
               PROVE  /\ u \in V => u * PGSIZE >= end /\ u >= HeapBase
                      /\ u \notin V /\ u * PGSIZE >= end => pt[p][u].pa = NULL
    OBVIOUS
  <2>1. /\ u \in Nat /\ u * PGSIZE \in Nat /\ end \in Nat /\ brk[p] \in Nat
        /\ HeapBase * PGSIZE \in Nat
        /\ u >= HeapBase <=> u * PGSIZE >= HeapBase * PGSIZE
    BY <1>4, Bytes
  <2>2. /\ u >= PGROUNDUP(end) <=> u * PGSIZE >= end
        /\ u >= PGROUNDUP(brk[p]) <=> u * PGSIZE >= brk[p]
    BY <2>1, RoundUp, Zenon
  <2>3. u \in V <=> u >= PGROUNDUP(end) /\ u < PGROUNDUP(brk[p])
    BY Zenon DEF uvmdealloc_pages
  <2>4. PGROUNDUP(brk[p]) \in Int
    BY <2>1 DEF PGROUNDUP, Constants
  <2>5. u >= HeapBase /\ pt[p][u].pa # NULL => u * PGSIZE < brk[p]
    BY Zenon DEF IInv, HeapBelow
  <2> HIDE DEF V
  <2>. QED BY <1>1, <2>1, <2>2, <2>3, <2>4, <2>5, SMTT(60)
<1> HIDE DEF V, old
<1>7. /\ \A v \in V : pt'[p][v] = Invalid
      /\ \A v \in Keep : pt'[p][v] = pt[p][v]
      /\ \A q \in Procs : q # p => pt'[q] = pt[q]
  BY <1>1, <1>3, <1>4, ZenonT(60)
<1>8. Remaps(p, Keep, old, {})
  <2>1. \A v \in Pages \ Keep : v \in V /\ pt'[p][v].pa = NULL
    BY <1>4, <1>7, Zenon
  <2>2. \A f \in Frames : f \in old <=> \E v \in Pages \ Keep : pt[p][v].pa = f
    BY <1>1, <1>5, Zenon
  <2>3. \A f \in Frames : ~\E v \in Pages \ Keep : pt'[p][v].pa = f
    BY <1>4, <2>1, Zenon
  <2>4. /\ \A f \in Frames : refcnt'[f] = IF f \in old THEN refcnt[f] - 1 ELSE refcnt[f]
        /\ \A f \in Frames : (f \in old => refcnt[f] # 1) => data'[f] = data[f]
    BY <1>2, Zenon
  <2>. QED BY <1>1, <1>7, <2>1, <2>2, <2>3, <2>4 DEF Remaps
<1>9. TypeOK'
  <2>1. [v \in Pages |-> IF v \in V THEN Invalid ELSE pt[p][v]] \in [Pages -> Ptes]
    BY <1>4, Zenon
  <2>2. pt' \in [Procs -> [Pages -> Ptes]]
    BY <1>3, <1>4, <2>1, Zenon
  <2>3. \A f \in old : f \in Frames => refcnt[f] \in Nat \ {0}
    BY <1>1, <1>4, <1>5, MappedCounted, ZenonT(60)
  <2>4. refcnt' \in [Frames -> Nat]
    BY <1>2, <1>4, <2>3
  <2>5. data' \in [Frames -> Values \cup {JUNK}] /\ brk' \in [Procs -> 0 .. MaxBrk]
    BY <1>1, <1>2, <1>4, ZenonT(60)
  <2>. QED BY <1>1, <2>2, <2>4, <2>5 DEF IInv, TypeOK
<1>10. DeadMapNothing'
  BY <1>1, <1>4, <1>7 DEF IInv, DeadMapNothing
<1>11. TextReadOnly'
  <2>1. \A v \in Text : v \in Keep
    BY <1>6 DEF Constants, Pages
  <2>. QED BY <1>7, <2>1, ZenonT(60) DEF IInv, TextReadOnly
<1>12. HeapBelow'
  <2> SUFFICES ASSUME NEW q \in Procs
               PROVE  /\ brk'[q] = 0 \/ brk'[q] >= HeapBase * PGSIZE
                      /\ \A v \in Pages : v >= HeapBase /\ pt'[q][v].pa # NULL
                                            => v * PGSIZE < brk'[q]
    BY Zenon DEF HeapBelow
  <2>1. brk'[q] = IF q = p THEN end ELSE brk[q]
    BY <1>1, <1>4, Zenon
  <2>2. CASE q # p
    BY <1>7, <2>1, <2>2, Zenon DEF IInv, HeapBelow
  <2>3. CASE q = p
    <3>1. \A v \in Pages : v * PGSIZE \in Nat
      BY Bytes, Zenon
    <3>2. \A v \in Pages : pt'[p][v].pa # NULL => v * PGSIZE < end
      BY <1>4, <1>6, <1>7, <3>1
    <3>. QED BY <1>1, <2>1, <2>3, <3>2, Zenon
  <2>. QED BY <2>2, <2>3, Zenon
<1>13. /\ IInv'
       /\ \A q \in Procs, u \in Pages :
            q # p \/ u \in Keep => Contents(q, u)' = Contents(q, u)
  BY <1>8, <1>9, <1>10, <1>11, <1>12, RemapKeeps, Zenon
<1>14. \A u \in V : Contents(p, u)' = Zero
  BY <1>4, <1>7, Zenon DEF Contents, Mapped
<1>15. \A u \in Keep : u * PGSIZE >= end => Contents(p, u) = Zero
  BY <1>6, Zenon DEF Contents, Mapped
<1>16. \A q \in Procs, u \in Pages :
         Contents(q, u)' = IF q = p /\ u * PGSIZE >= end THEN Zero ELSE Contents(q, u)
  BY <1>6, <1>13, <1>14, <1>15
<1>17. EagerStep
  <2>1. end # brk[p]
    BY <1>1, <1>4
  <2>. QED BY <1>1, <1>4, <1>16, <2>1, MemoryGrows, ZenonT(60)
<1>. QED BY <1>13, <1>17, Zenon

LEMMA ExitStep ==
  ASSUME Constants, IInv, NEW p \in Procs, as_destroy(p)
  PROVE  IInv' /\ EagerStep
<1> DEFINE old == FramesAt(p, Pages)
<1>1. /\ p \in live /\ copying[p].mem = NULL /\ UNCHANGED copying
      /\ live' = live \ {p} /\ brk' = [brk EXCEPT ![p] = 0]
  BY Zenon DEF as_destroy, Running
<1>2. /\ refcnt' = [f \in Frames |-> IF f \in old THEN refcnt[f] - 1 ELSE refcnt[f]]
      /\ data' = [f \in Frames |-> IF f \in old /\ refcnt[f] = 1 THEN JUNK ELSE data[f]]
      /\ pt' = [pt EXCEPT ![p] = [v \in Pages |-> Invalid]]
  BY Zenon DEF as_destroy, kfree
<1>3. /\ pt \in [Procs -> [Pages -> Ptes]] /\ refcnt \in [Frames -> Nat]
      /\ data \in [Frames -> Values \cup {JUNK}] /\ brk \in [Procs -> 0 .. MaxBrk]
      /\ NULL \notin Frames /\ Invalid \in Ptes /\ Invalid.pa = NULL
      /\ ~Invalid.w /\ ~Invalid.cow
  BY Zenon DEF IInv, TypeOK, Constants, Invalid, Ptes
<1>4. \A f \in Frames : f \in old <=> \E v \in Pages : pt[p][v].pa = f
  BY <1>3, Zenon DEF FramesAt, Mapped
<1> HIDE DEF old
<1>5. /\ \A v \in Pages : pt'[p][v] = Invalid
      /\ \A q \in Procs : q # p => pt'[q] = pt[q]
  BY <1>2, <1>3, ZenonT(60)
<1>6. Remaps(p, {}, old, {})
  <2>1. /\ \A f \in Frames : refcnt'[f] = IF f \in old THEN refcnt[f] - 1 ELSE refcnt[f]
        /\ \A f \in Frames : (f \in old => refcnt[f] # 1) => data'[f] = data[f]
    BY <1>2, Zenon
  <2>. QED BY <1>1, <1>3, <1>4, <1>5, <2>1 DEF Remaps
<1>7. TypeOK'
  <2>1. pt' \in [Procs -> [Pages -> Ptes]]
    BY <1>2, <1>3, Zenon
  <2>2. \A f \in old : f \in Frames => refcnt[f] \in Nat \ {0}
    BY <1>3, <1>4, MappedCounted
  <2>3. refcnt' \in [Frames -> Nat]
    BY <1>2, <1>3, <2>2, SMTT(60)
  <2>4. data' \in [Frames -> Values \cup {JUNK}] /\ brk' \in [Procs -> 0 .. MaxBrk]
    BY <1>1, <1>2, <1>3, Bytes
  <2>. QED BY <1>1, <2>1, <2>3, <2>4, Zenon DEF IInv, TypeOK
<1>8. \A q \in Procs : brk'[q] = IF q = p THEN 0 ELSE brk[q]
  BY <1>1, <1>3, Zenon
<1>9. DeadMapNothing'
  BY <1>1, <1>3, <1>5, <1>8, SMTT(60) DEF IInv, DeadMapNothing
<1>10. TextReadOnly'
  <2>1. Text \subseteq Pages
    BY DEF Constants, Pages
  <2>. QED BY <1>3, <1>5, <2>1 DEF IInv, TextReadOnly
<1>11. HeapBelow'
  BY <1>3, <1>5, <1>8, Zenon DEF IInv, HeapBelow
<1>12. /\ IInv'
       /\ \A q \in Procs, u \in Pages : q # p \/ u \in {} => Contents(q, u)' = Contents(q, u)
  BY <1>6, <1>7, <1>9, <1>10, <1>11, RemapKeeps
<1>13. \A u \in Pages : Contents(p, u)' = Zero
  BY <1>3, <1>5, Zenon DEF Contents, Mapped
<1>14. EagerStep
  <2>1. \A q \in Procs, u \in Pages :
          Contents(q, u)' = IF q = p THEN Zero ELSE Contents(q, u)
    BY <1>12, <1>13, Zenon
  <2>. QED BY <1>1, <2>1, MemoryExits, Zenon
<1>. QED BY <1>12, <1>14, Zenon

LEMMA ExecStep ==
  ASSUME Constants, IInv, NEW p \in Procs, kexec(p)
  PROVE  IInv' /\ EagerStep
<1> DEFINE V == Text \cup Guard \cup Stack
           old == FramesAt(p, Pages)
<1>1. /\ p \in live /\ copying[p].mem = NULL /\ UNCHANGED <<live, copying>>
      /\ brk' = [brk EXCEPT ![p] = HeapBase * PGSIZE]
  BY Zenon DEF kexec, Running
<1>2. PICK mem \in [V -> Free], image \in [V -> Values] :
        LET new == {mem[v] : v \in V} IN
        /\ \A v, w \in V : mem[v] = mem[w] => v = w
        /\ \A v \in V : image[v] = Zero <=> v \in Guard
        /\ refcnt' = [f \in Frames |->
             IF f \in new THEN 1 ELSE IF f \in old THEN refcnt[f] - 1 ELSE refcnt[f]]
        /\ data' = [f \in Frames |->
             IF f \in new THEN image[CHOOSE v \in V : mem[v] = f]
             ELSE IF f \in old /\ refcnt[f] = 1 THEN JUNK ELSE data[f]]
        /\ pt' = [pt EXCEPT ![p] =
             [v \in Pages |-> IF v \in V THEN exec_pte(v, mem[v]) ELSE Invalid]]
  BY Zenon DEF kexec
<1> DEFINE new == {mem[v] : v \in V}
<1>3. /\ pt \in [Procs -> [Pages -> Ptes]] /\ refcnt \in [Frames -> Nat]
      /\ data \in [Frames -> Values \cup {JUNK}] /\ brk \in [Procs -> 0 .. MaxBrk]
      /\ Zero \in Values /\ Free \subseteq Frames /\ NULL \notin Frames
      /\ Invalid \in Ptes /\ Invalid.pa = NULL
  BY Zenon DEF IInv, TypeOK, Constants, Free, Invalid, Ptes
<1>4. /\ V \subseteq Pages /\ \A v \in V : ~(v >= HeapBase)
      /\ \A v \in V : v \in Guard <=> v \notin Text \cup Stack
  BY DEF Constants, Pages
<1>5. \A f \in Frames : f \in old <=> \E v \in Pages : pt[p][v].pa = f
  BY <1>3, Zenon DEF FramesAt, Mapped
<1>6. \A v, w \in V : mem[v] = mem[w] => v = w
  BY <1>2, Zenon
<1>7. \A v \in V : image[v] \in Values /\ (image[v] = Zero <=> v \in Guard)
  BY <1>2, Zenon
<1>8. \A f \in Frames :
        refcnt'[f] = IF f \in new THEN 1 ELSE IF f \in old THEN refcnt[f] - 1 ELSE refcnt[f]
  BY <1>2, Zenon
<1>9. /\ \A v \in V : data'[mem[v]] = image[v]
      /\ \A f \in Frames : f \notin new /\ (f \in old => refcnt[f] # 1) => data'[f] = data[f]
      /\ data' \in [Frames -> Values \cup {JUNK}]
  <2>1. \A v \in V : (CHOOSE w \in V : mem[w] = mem[v]) = v
    BY <1>6, Zenon
  <2>2. data' = [f \in Frames |->
          IF f \in new THEN image[CHOOSE v \in V : mem[v] = f]
          ELSE IF f \in old /\ refcnt[f] = 1 THEN JUNK ELSE data[f]]
    BY <1>2, Zenon
  <2>3. \A v \in V : mem[v] \in Frames /\ mem[v] \in new
    BY <1>3, Zenon
  <2>4. \A v \in V : data'[mem[v]] = image[v]
    BY <2>1, <2>2, <2>3, Zenon
  <2>5. \A f \in Frames : f \notin new /\ (f \in old => refcnt[f] # 1) => data'[f] = data[f]
    BY <2>2, Zenon
  <2>6. \A f \in Frames : data'[f] \in Values \cup {JUNK}
    <3> TAKE f \in Frames
    <3>1. CASE f \in new
      BY <1>7, <2>4, <3>1, Zenon
    <3>2. CASE f \notin new
      BY <1>3, <2>2, <3>2, Zenon
    <3>. QED BY <3>1, <3>2, Zenon
  <2>. QED BY <2>2, <2>4, <2>5, <2>6, SMTT(60)
<1>10. pt' = [pt EXCEPT ![p] =
         [v \in Pages |-> IF v \in V THEN exec_pte(v, mem[v]) ELSE Invalid]]
  BY <1>2, Zenon
<1>11. \A v \in V : /\ exec_pte(v, mem[v]) \in Ptes /\ exec_pte(v, mem[v]).pa = mem[v]
                    /\ exec_pte(v, mem[v]).w <=> v \notin Text
                    /\ ~exec_pte(v, mem[v]).cow
                    /\ mem[v] \in Free
  BY <1>3, Zenon DEF exec_pte, Map, Ptes
<1> HIDE DEF V, old
<1>12. /\ \A v \in V : pt'[p][v] = exec_pte(v, mem[v])
       /\ \A v \in Pages \ V : pt'[p][v] = Invalid
       /\ \A q \in Procs : q # p => pt'[q] = pt[q]
  BY <1>3, <1>4, <1>10, ZenonT(60)
<1>13. Remaps(p, {}, old, new)
  <2>1. \A v \in Pages : /\ v \in V => pt'[p][v].pa = mem[v] /\ mem[v] \in Free
                         /\ v \notin V => pt'[p][v].pa = NULL
    BY <1>3, <1>11, <1>12, Zenon
  <2>2. \A v, w \in Pages \ {} : pt'[p][v].pa # NULL /\ pt'[p][v].pa = pt'[p][w].pa => v = w
    BY <1>6, <2>1
  <2>3. \A f \in Frames : f \in new <=> \E v \in Pages \ {} : pt'[p][v].pa = f
    BY <1>3, <1>4, <2>1, Zenon
  <2>. QED BY <1>1, <1>5, <1>8, <1>9, <1>12, <2>1, <2>2, <2>3, SMTT(60) DEF Remaps
<1>14. TypeOK'
  <2>1. [v \in Pages |-> IF v \in V THEN exec_pte(v, mem[v]) ELSE Invalid] \in [Pages -> Ptes]
    BY <1>3, <1>11, Zenon
  <2>2. pt' \in [Procs -> [Pages -> Ptes]]
    BY <1>3, <1>10, <2>1, Zenon
  <2>3. \A f \in Frames : f \in old => refcnt[f] \in Nat \ {0}
    BY <1>3, <1>5, MappedCounted
  <2>4. refcnt' \in [Frames -> Nat]
    <3>1. \A f \in Frames : refcnt'[f] \in Nat
      <4> TAKE f \in Frames
      <4>1. refcnt[f] \in Nat
        BY <1>3
      <4>2. f \in old => refcnt[f] - 1 \in Nat
        <5>1. f \in old => refcnt[f] \in Nat \ {0}
          BY <2>3, Zenon
        <5>. QED BY <5>1
      <4>3. refcnt'[f] = 1 \/ refcnt'[f] = refcnt[f] \/ (f \in old /\ refcnt'[f] = refcnt[f] - 1)
        BY <1>8, Zenon
      <4>4. 1 \in Nat
        OBVIOUS
      <4>. QED BY <4>1, <4>2, <4>3, <4>4, Zenon
    <3>2. refcnt' = [f \in Frames |-> refcnt'[f]]
      BY <1>2, Zenon
    <3>. QED BY <3>1, <3>2, Zenon
  <2>5. brk' \in [Procs -> 0 .. MaxBrk]
    BY <1>1, <1>3, Bytes, ZenonT(60)
  <2>. QED BY <1>1, <1>9, <2>2, <2>4, <2>5, Zenon DEF IInv, TypeOK
<1>15. DeadMapNothing'
  <2>1. \A q \in Procs : q # p => brk'[q] = brk[q]
    BY <1>1, <1>3, ZenonT(60)
  <2>. QED BY <1>1, <1>12, <2>1, SMTT(60) DEF IInv, DeadMapNothing
<1>16. TextReadOnly'
  <2>1. Text \subseteq V
    BY ZenonT(60) DEF V
  <2>. QED BY <1>11, <1>12, <2>1, SMTT(60) DEF IInv, TextReadOnly
<1>17. HeapBelow'
  <2>1. \A q \in Procs : brk'[q] = IF q = p THEN HeapBase * PGSIZE ELSE brk[q]
    BY <1>1, <1>3, Zenon
  <2>2. \A v \in Pages : v >= HeapBase => pt'[p][v].pa = NULL
    BY <1>3, <1>4, <1>12, Zenon
  <2>3. HeapBase * PGSIZE >= HeapBase * PGSIZE
    BY Bytes
  <2>. QED BY <1>12, <2>1, <2>2, <2>3 DEF IInv, HeapBelow
<1>18. /\ IInv'
       /\ \A q \in Procs, u \in Pages : q # p \/ u \in {} => Contents(q, u)' = Contents(q, u)
  BY <1>13, <1>14, <1>15, <1>16, <1>17, RemapKeeps, ZenonT(60)
<1> DEFINE all == [v \in Pages |-> IF v \in V THEN image[v] ELSE Zero]
<1>19. \A u \in Pages : Contents(p, u)' = all[u]
  <2> TAKE u \in Pages
  <2>1. CASE u \in V
    <3>1. pt'[p][u].pa = mem[u] /\ mem[u] # NULL
      BY <1>3, <1>11, <1>12, <2>1, SMTT(60)
    <3>. QED BY <1>9, <2>1, <3>1 DEF Contents, Mapped
  <2>2. CASE u \notin V
    BY <1>3, <1>12, <2>2, SMTT(60) DEF Contents, Mapped
  <2>. QED BY <2>1, <2>2, Zenon
<1>20. /\ all \in [Pages -> Values]
       /\ \A u \in Pages : all[u] # Zero <=> u \in Text \cup Stack
  <2>1. all \in [Pages -> Values]
    BY <1>3, <1>7, Zenon
  <2>2. \A u \in Pages : u \in Text \cup Stack => u \in V
    BY Zenon DEF V
  <2>. QED BY <1>4, <1>7, <2>1, <2>2
<1>21. EagerStep
  <2>1. \A q \in Procs, u \in Pages :
          Contents(q, u)' = IF q = p THEN all[u] ELSE Contents(q, u)
    BY <1>18, <1>19, Zenon
  <2> HIDE DEF all
  <2>. QED BY <1>1, <1>3, <1>20, <2>1, MemoryExecs, Zenon
<1>. QED BY <1>18, <1>21, Zenon

--------------------------------------------------------------------------------
(* The theorems. *)

LEMMA InitHolds ==
  ASSUME Constants, Init
  PROVE  IInv /\ Eager!Init
<1>1. /\ NoFault \in [v : Pages, mem : Frames \cup {NULL}, kernel : BOOLEAN, x : Values]
      /\ NoFault.mem = NULL
  BY DEF NoFault, Constants, Pages
<1>2. /\ Invalid \in Ptes /\ Invalid.pa = NULL /\ ~Invalid.w /\ ~Invalid.cow
      /\ NULL \notin Frames /\ initproc \in Procs /\ Text \subseteq Pages
  BY DEF Invalid, Ptes, Constants, Pages
<1>3. /\ \A p \in Procs, v \in Pages : pt[p][v] = Invalid
      /\ \A p \in Procs : copying[p].mem = NULL /\ brk[p] = 0
  BY <1>1, Zenon DEF Init
<1>4. TypeOK
  BY <1>1, <1>2, Bytes DEF Init, TypeOK
<1>5. Counted
  <2>1. \A f \in Frames : Refs(f) = {}
    BY <1>2, <1>3, Zenon DEF Refs
  <2>. QED BY <2>1, FS_EmptySet, Zenon DEF Counted, Init
<1>6. DeadMapNothing /\ Injective /\ WritableSole /\ CopySole /\ CopyEqual /\ TextReadOnly
  BY <1>2, <1>3, Zenon DEF DeadMapNothing, Injective, WritableSole, CopySole, CopyEqual, TextReadOnly
<1>7. HeapBelow
  BY <1>2, <1>3, Zenon DEF HeapBelow
<1>8. Eager!Init
  <2>1. \A p \in Procs, v \in Pages : Contents(p, v) = Zero
    BY <1>2, <1>3, Zenon DEF Contents, Mapped
  <2>. QED BY <1>2, <2>1, Zenon DEF Init, Eager!Init, Eager!Blank
<1>. QED BY <1>4, <1>5, <1>6, <1>7, <1>8, SMTT(60) DEF IInv

LEMMA StepHolds ==
  ASSUME Constants, IInv, [Next]_vars
  PROVE  IInv' /\ EagerStep
<1>1. CASE UNCHANGED vars
  <2>1. IInv'
    <3>1. UNCHANGED <<live, pt, brk, refcnt, data, copying>>
      BY <1>1, Zenon DEF vars
    <3>2. TypeOK' /\ DeadMapNothing' /\ HeapBelow'
      BY <3>1, Zenon DEF IInv, TypeOK, DeadMapNothing, HeapBelow
    <3>. QED BY <3>1, <3>2, UnchangedTables, Zenon DEF IInv
  <2>2. \A q \in Procs, u \in Pages : Contents(q, u)' = Contents(q, u)
    BY <1>1, Zenon DEF vars, Contents, Mapped
  <2>3. EagerStep
    BY <1>1, <2>2, MemoryStutters, Zenon DEF vars
  <2>. QED BY <2>1, <2>3, Zenon
<1>2. ASSUME NEW p \in Procs, NEW v \in Pages, NEW x \in Data, store(p, v, x) \/ copyout(p, v, x)
      PROVE  IInv' /\ EagerStep
  BY <1>2, StoreStep, Zenon DEF store, copyout
<1>3. ASSUME NEW p \in Procs, NEW a \in 0 .. MaxBrk - 1, vmfault_copy(p, a, FALSE, Zero)
      PROVE  IInv' /\ EagerStep
  BY <1>3, FaultCopyStep, Zenon DEF Constants
<1>4. ASSUME NEW p \in Procs, NEW a \in 0 .. MaxBrk - 1, NEW x \in Data,
             vmfault_copy(p, a, TRUE, x)
      PROVE  IInv' /\ EagerStep
  BY <1>4, FaultCopyStep, Zenon DEF Data
<1>5. CASE Next
  <2>1. PICK p \in Procs :
    \/ \E v \in Pages, x \in Data : store(p, v, x) \/ copyout(p, v, x)
    \/ \E a \in 0 .. MaxBrk - 1 :
         vmfault_copy(p, a, FALSE, Zero) \/ \E x \in Data : vmfault_copy(p, a, TRUE, x)
    \/ vmfault_map(p)
    \/ \E a \in 0 .. MaxBrk - 1 : vmfault_lazy(p, a)
    \/ \E c \in Procs : as_copy(p, c)
    \/ \E last \in Pages : as_copy_fails(p, last)
    \/ \E end \in 0 .. MaxBrk : sys_sbrk_lazy(p, end) \/ growproc(p, end) \/ growproc_shrink(p, end)
    \/ kexec(p)
    \/ as_destroy(p)
    BY <1>5, Zenon DEF Next
  <2>. QED BY <1>2, <1>3, <1>4, <2>1, FaultMapStep, LazyStep, ForkStep, ForkFailsStep,
              LazySbrkStep, GrowStep, ShrinkStep, ExecStep, ExitStep, ZenonT(60)
<1>. QED BY <1>1, <1>5, Zenon

\* The reference counts, the page tables and the faults in progress always fit together.
THEOREM VmInvariant == ASSUME Constants PROVE Spec => []IInv
<1>1. Init => IInv
  BY InitHolds, Zenon
<1>2. IInv /\ [Next]_vars => IInv'
  BY StepHolds, Zenon
<1>. QED BY <1>1, <1>2, PTL DEF Spec

\* kaddref and kfree keep the count of every page equal to the number of PTEs that map it,
\* through forks, faults, sbrk, exec and exit, and a page that can be written is mapped
\* once, for any number of processes and pages.
THEOREM VmRefsExact == ASSUME Constants PROVE Spec => []RefsExact
<1>1. IInv => RefsExact
  <2> SUFFICES ASSUME IInv, NEW p \in Procs, NEW v \in Mapped(p), pt[p][v].w
               PROVE  refcnt[pt[p][v].pa] = 1
    BY Zenon DEF IInv, Counted, RefsExact
  <2> DEFINE f == pt[p][v].pa
  <2>1. v \in Pages /\ f \in Frames /\ f # NULL
    BY DEF Mapped, IInv, TypeOK, Ptes
  <2>2. \A q \in Procs : /\ copying[q].mem # f
                         /\ \A u \in Pages : pt[q][u].pa = f => q = p /\ u = v
    BY <2>1, ZenonT(60) DEF IInv, WritableSole
  <2> HIDE DEF f
  <2>3. Refs(f) = {<<p, v>>}
    BY <2>1, <2>2 DEF Refs, f, Constants
  <2>. QED BY <2>1, <2>3, FS_Singleton, Zenon DEF IInv, Counted, f
<1>. QED BY <1>1, VmInvariant, PTL

\* Copy-on-write fork and lazy sbrk implement a memory in which every process has its own
\* pages, fork copies them and sbrk clears them at once (Memory): no process ever sees a
\* write of another, whatever is shared beneath and whichever faults interleave.
THEOREM VmRefinesMemory == ASSUME Constants PROVE Spec => MemoryIsPrivate
<1>1. Init => Eager!Init
  BY InitHolds, Zenon
<1>2. IInv /\ [Next]_vars => EagerStep
  BY StepHolds, Zenon
<1>. QED BY <1>1, <1>2, VmInvariant, PTL DEF Spec, MemoryIsPrivate, Eager!Spec, EagerStep

================================================================================
