--------------------------------- MODULE Umalloc ---------------------------------
(***************************************************************************)
(* The allocator of user programs, os/user/umalloc.c: a circular list of   *)
(* free blocks in the order of their addresses.                            *)
(*                                                                         *)
(* Addresses are counted in units of a Header.  base is at address 0,      *)
(* below the heap, which starts at 1.  Only headers are modelled: what is  *)
(* not the header of a block is data, and its content is not known.        *)
(***************************************************************************)
EXTENDS Integers, FiniteSets

CONSTANTS
  NALLOC,       \* the fewest units that morecore asks for: 4096
  Sizes,        \* the sizes that programs ask for, in units with the header
  MaxHeap       \* where sbrk fails

Constants == NALLOC \in Nat \ {0} /\ Sizes \subseteq Nat \ {0, 1} /\ MaxHeap \in Nat

VARIABLES
  hdr,          \* [address -> [ptr, size]]
  freep,        \* where the search starts; -1 before the first call
  brk,          \* the end of the heap
  used,         \* the blocks that the program holds
  gaps          \* units of the heap that the program got from sbrk itself

vars == <<hdr, freep, brk, used, gaps>>

base == 0
Null == -1
Addr == 0 .. MaxHeap

Data == [ptr |-> Null, size |-> 0]

Init ==
  /\ hdr = [a \in Addr |-> Data]
  /\ freep = Null
  /\ brk = 1
  /\ used = {}
  /\ gaps = {}

\* The headers of h that still are: those of the list at p, and the size of the program's.
RECURSIVE Chain(_, _, _)
Chain(h, a, seen) == IF a \in seen THEN seen ELSE Chain(h, h[a].ptr, seen \cup {a})

Headers(h, p, U) ==
  LET list == Chain(h, p, {})
  IN  [a \in Addr |-> CASE a \in list -> h[a]
                       [] a \in U \ list -> [ptr |-> Null, size |-> h[a].size]
                       [] OTHER -> Data]

\* The block that bp goes behind: the one before it, or the last one if bp is at an end.
Fits(h, p, bp) ==
  \/ bp > p /\ bp < h[p].ptr
  \/ p >= h[p].ptr /\ (bp > p \/ bp < h[p].ptr)

RECURSIVE Search(_, _, _)
Search(h, p, bp) == IF Fits(h, p, bp) THEN p ELSE Search(h, h[p].ptr, bp)

\* The two joins of free.
JoinUpper(h, p, bp) ==
  LET q == h[p].ptr
  IN  IF bp + h[bp].size = q
      THEN [h EXCEPT ![bp] = [ptr |-> h[q].ptr, size |-> @.size + h[q].size]]
      ELSE [h EXCEPT ![bp].ptr = q]

\* Mutant: bp is linked before its size is taken.
JoinLower_late(h, p, bp) ==
  IF p + h[p].size = bp
  THEN [h EXCEPT ![p] = [ptr |-> h[bp].ptr, size |-> @.size]]
  ELSE [h EXCEPT ![p].ptr = bp]

JoinLower(h, p, bp) ==
  IF p + h[p].size = bp
  THEN [h EXCEPT ![p] = [ptr |-> h[bp].ptr, size |-> @.size + h[bp].size]]
  ELSE [h EXCEPT ![p].ptr = bp]

\* free(bp + 1): the new headers, and freep.
freed(h, fp, bp) ==
  LET p == Search(h, fp, bp) IN [hdr |-> JoinLower(JoinUpper(h, p, bp), p, bp), freep |-> p]

free(bp) ==
  /\ bp \in used
  /\ LET r == freed(hdr, freep, bp)
     IN  /\ hdr' = Headers(r.hdr, r.freep, used \ {bp})
         /\ freep' = r.freep
  /\ used' = used \ {bp}
  /\ UNCHANGED <<brk, gaps>>

\* The first block after prevp that is large enough, or Null once the search is at freep.
RECURSIVE Find(_, _, _, _)
Find(h, fp, prevp, n) ==
  LET p == h[prevp].ptr
  IN  IF h[p].size >= n THEN prevp
      ELSE IF p = fp THEN Null ELSE Find(h, fp, p, n)

\* The tail of the block behind prevp, or all of it.
Take(h, prevp, n) ==
  LET p == h[prevp].ptr
      q == p + h[p].size - n
      H == IF q = p THEN [h EXCEPT ![prevp].ptr = h[p].ptr]
           ELSE [h EXCEPT ![p].size = @ - n, ![q].size = n]
  IN  /\ used' = used \cup {q}
      /\ freep' = prevp
      /\ hdr' = Headers(H, prevp, used \cup {q})

\* The list at the start of malloc.
List == IF freep = Null THEN [hdr EXCEPT ![base] = [ptr |-> base, size |-> 0]] ELSE hdr
Start == IF freep = Null THEN base ELSE freep

malloc_found(n) ==
  LET prevp == Find(List, Start, Start, n)
  IN  /\ prevp # Null
      /\ Take(List, prevp, n)
      /\ UNCHANGED <<brk, gaps>>

\* morecore: the new block is freed, and the search goes on behind it.
morecore(n) == IF n < NALLOC THEN NALLOC ELSE n

malloc_more(n) ==
  LET nu == morecore(n)
      r  == freed([List EXCEPT ![brk].size = nu], Start, brk)
      prevp == Find(r.hdr, r.freep, r.freep, n)
  IN  /\ Find(List, Start, Start, n) = Null
      /\ brk + nu <= MaxHeap
      /\ brk' = brk + nu
      /\ Take(r.hdr, prevp, n)
      /\ UNCHANGED gaps

malloc_fails(n) ==
  /\ Find(List, Start, Start, n) = Null
  /\ brk + morecore(n) > MaxHeap
  /\ hdr' = List /\ freep' = Start
  /\ UNCHANGED <<brk, used, gaps>>

\* The program calls sbrk itself.
sbrk ==
  /\ brk < MaxHeap
  /\ brk' = brk + 1
  /\ gaps' = gaps \cup {brk}
  /\ UNCHANGED <<hdr, freep, used>>

Next ==
  \/ \E bp \in used : free(bp)
  \/ \E n \in Sizes : malloc_found(n) \/ malloc_more(n) \/ malloc_fails(n)
  \/ sbrk

Spec == Init /\ [][Next]_vars

--------------------------------------------------------------------------------
\* The blocks on the list.
FreeList == IF freep = Null THEN {} ELSE Chain(hdr, freep, {})

Units(a) == a .. a + hdr[a].size - 1

TypeOK ==
  /\ freep \in Addr \cup {Null} /\ brk \in 1 .. MaxHeap
  /\ used \subseteq Addr /\ gaps \subseteq Addr

\* Every unit of the heap is in exactly one block, of the program, of the list or sbrk's,
\* so that nothing is handed out twice and nothing is lost; the list goes round through
\* base in the order of the addresses; and no two blocks on it are neighbours, so that
\* free memory is as whole as it can be.
HeapExact ==
  /\ \A u \in 1 .. brk - 1 :
       Cardinality({b \in used \cup (FreeList \ {base}) : u \in Units(b)}) = IF u \in gaps THEN 0 ELSE 1
  /\ \A b \in used \cup (FreeList \ {base}) : hdr[b].size > 0 /\ Units(b) \subseteq 1 .. brk - 1
  /\ freep # Null =>
       /\ base \in FreeList
       /\ Cardinality({b \in FreeList : hdr[b].ptr <= b}) = 1
       /\ \A b, c \in FreeList \ {base} : b + hdr[b].size # c
================================================================================
