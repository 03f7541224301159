--------------------------------- MODULE Kalloc ----------------------------------
(***************************************************************************)
(* The page allocator of os/kernel/kalloc.c: a buddy system that hands out *)
(* single pages, with a reference count for every page.                    *)
(*                                                                         *)
(* Every operation holds kmem.lock throughout.  The loops that split and   *)
(* merge blocks are modelled pass by pass, and no other operation starts   *)
(* until pc is "idle" again.  The order of a free list is not modelled:    *)
(* freelist_pop may return any block of it.                                *)
(***************************************************************************)
EXTENDS Integers, FiniteSets

CONSTANTS
  NPAGES,       \* the pages are 0 .. NPAGES - 1
  end,          \* the first page after the kernel
  MAX_ORDER,
  Size,         \* Size[order] is 1 << order
  MAXREF        \* bound: how many references a page may get

Pages == 0 .. NPAGES - 1
Orders == 0 .. MAX_ORDER

\* What the constants must satisfy.
Constants ==
  /\ NPAGES \in Nat /\ end \in Nat /\ end <= NPAGES
  /\ MAX_ORDER \in Nat /\ MAXREF \in Nat \ {0}
  /\ Size \in [Orders -> Nat \ {0}]
  /\ Size[0] = 1
  /\ \A o \in Orders : o < MAX_ORDER => Size[o + 1] = 2 * Size[o]

VARIABLES
  freelist,     \* freelist[o]: the first pages of the free blocks of order o
  page_state,   \* the pages marked PG_BUDDY_FREE
  refcnt,
  boot,         \* the next page for freerange
  pc,           \* "idle", "merge" (in buddy_free_order0), "split" (in buddy_alloc_order0)
  idx, order    \* the block in hand while pc is not "idle"

vars == <<freelist, page_state, refcnt, boot, pc, idx, order>>

Block(i, o) == i .. i + Size[o] - 1

TypeOK ==
  /\ freelist \in [Orders -> SUBSET Pages]
  /\ page_state \in SUBSET Pages
  /\ refcnt \in [Pages -> Nat]
  /\ boot \in end .. NPAGES
  /\ pc \in {"idle", "merge", "split"}
  /\ idx \in Pages \cup {0}
  /\ order \in Orders

\* kinit, up to freerange.
Init ==
  /\ freelist = [o \in Orders |-> {}]
  /\ page_state = {}
  /\ refcnt = [q \in Pages |-> 0]
  /\ boot = end
  /\ pc = "idle"
  /\ idx = 0 /\ order = 0

push(o, i) == freelist' = [freelist EXCEPT ![o] = @ \cup {i}]

--------------------------------------------------------------------------------
(* kfree *)

\* buddy_free_order0 starts with page q.
StartMerge(q) ==
  /\ page_state' = page_state \cup {q}
  /\ pc' = "merge"
  /\ idx' = q /\ order' = 0
  /\ UNCHANGED freelist

\* The next page of freerange gets a reference that kfree takes away.
freerange ==
  /\ pc = "idle" /\ boot < NPAGES
  /\ boot' = boot + 1
  /\ StartMerge(boot)
  /\ UNCHANGED refcnt

\* panic("kfree: ref") if there is no reference.
kfree(q) ==
  /\ pc = "idle" /\ boot = NPAGES
  /\ q >= end /\ refcnt[q] >= 1
  /\ refcnt' = [refcnt EXCEPT ![q] = @ - 1]
  /\ \/ refcnt[q] > 1 /\ UNCHANGED <<freelist, page_state, pc, idx, order>>
     \/ refcnt[q] = 1 /\ StartMerge(q)
  /\ UNCHANGED boot

\* i ^ (1 << o)
buddy(i, o) == IF (i \div Size[o]) % 2 = 0 THEN i + Size[o] ELSE i - Size[o]

\* Mutant: the mark on the buddy is enough, whatever list it is in.
mergeable_marked(i, o) == o < MAX_ORDER /\ buddy(i, o) \in page_state

\* The loop goes on: the buddy is a free block of the same order.
mergeable(i, o) ==
  /\ o < MAX_ORDER
  /\ buddy(i, o) \in Pages
  /\ buddy(i, o) \in page_state
  /\ buddy(i, o) \in freelist[o]

\* Both halves lose the mark and the double block gets it.
merge ==
  /\ pc = "merge" /\ mergeable(idx, order)
  /\ LET b == buddy(idx, order)
         i == IF b < idx THEN b ELSE idx
     IN  /\ freelist' = [freelist EXCEPT ![order] = @ \ {b}]
         /\ page_state' = (page_state \ (Block(idx, order) \cup Block(b, order)))
                            \cup Block(i, order + 1)
         /\ idx' = i
  /\ order' = order + 1
  /\ UNCHANGED <<refcnt, boot, pc>>

merge_stops(i, o) == ~mergeable(i, o)

merge_ends ==
  /\ pc = "merge" /\ merge_stops(idx, order)
  /\ push(order, idx)
  /\ pc' = "idle"
  /\ UNCHANGED <<page_state, refcnt, boot, idx, order>>

--------------------------------------------------------------------------------
(* kalloc, kaddref *)

taken(i, o) == page_state \ Block(i, o)

\* The smallest order that has a free block; without any, kalloc returns 0 and
\* changes nothing.
kalloc ==
  /\ pc = "idle" /\ boot = NPAGES
  /\ \E o \in Orders, i \in Pages :
       /\ i \in freelist[o]
       /\ \A o2 \in Orders : o2 < o => freelist[o2] = {}
       /\ freelist' = [freelist EXCEPT ![o] = @ \ {i}]
       /\ page_state' = taken(i, o)
       /\ idx' = i /\ order' = o
  /\ pc' = "split"
  /\ UNCHANGED <<refcnt, boot>>

\* The upper half of the block in hand goes back to the lists.
split ==
  /\ pc = "split" /\ order > 0
  /\ LET b == idx + Size[order - 1]
     IN  /\ page_state' = page_state \cup Block(b, order - 1)
         /\ push(order - 1, b)
  /\ order' = order - 1
  /\ UNCHANGED <<refcnt, boot, pc, idx>>

split_ends ==
  /\ pc = "split" /\ order = 0
  /\ refcnt' = [refcnt EXCEPT ![idx] = 1]
  /\ pc' = "idle"
  /\ UNCHANGED <<freelist, page_state, boot, idx, order>>

\* A page that has a reference gets another; panics on a free page.
kaddref(q) ==
  /\ pc = "idle" /\ boot = NPAGES
  /\ refcnt[q] \in 1 .. MAXREF - 1
  /\ refcnt' = [refcnt EXCEPT ![q] = @ + 1]
  /\ UNCHANGED <<freelist, page_state, boot, pc, idx, order>>

Next ==
  \/ freerange
  \/ \E q \in Pages : kfree(q) \/ kaddref(q)
  \/ merge \/ merge_ends
  \/ kalloc \/ split \/ split_ends

Spec == Init /\ [][Next]_vars

--------------------------------------------------------------------------------
(* Properties. *)

FreePages == UNION {UNION {Block(i, o) : i \in freelist[o]} : o \in Orders}

\* The pages of the block in hand.
InHand == IF pc = "idle" THEN {} ELSE Block(idx, order)

\* Every page that freerange has released is either referenced, in one free block,
\* or in the block in hand; the pages of the kernel never are.  So kalloc never
\* hands out a page in use, no page is lost, and none is in two lists.  page_state
\* marks exactly the pages of free blocks, and of the block that is being merged.
PagesExact ==
  /\ \A q \in Pages :
       (q \in FreePages \cup InHand) <=> (end <= q /\ q < boot /\ refcnt[q] = 0)
  /\ \A o1, o2 \in Orders : \A i1 \in freelist[o1], i2 \in freelist[o2] :
       <<o1, i1>> # <<o2, i2>> => Block(i1, o1) \cap Block(i2, o2) = {}
  /\ FreePages \cap InHand = {}
  /\ page_state = FreePages \cup (IF pc = "merge" THEN InHand ELSE {})

\* Between operations no two buddies are free: the free lists hold the largest
\* aligned blocks there are, so memory is never more fragmented than its use.
MergedFully ==
  /\ \A o \in Orders : \A i \in freelist[o] : i % Size[o] = 0
  /\ pc = "idle" =>
       \A o \in Orders : o < MAX_ORDER =>
         \A i \in freelist[o] : buddy(i, o) \notin freelist[o]
================================================================================
