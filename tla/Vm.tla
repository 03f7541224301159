----------------------------------- MODULE Vm -----------------------------------
(***************************************************************************)
(* User address spaces: os/kernel/addrspace.c with growproc and kfork of   *)
(* taskmgr.c, sys_sbrk, kexec, the page-fault path of usertrap and the     *)
(* reference counts of kalloc.c.  fork shares pages copy-on-write, sbrk    *)
(* allocates lazily.                                                       *)
(*                                                                         *)
(* A page table is touched only by its own process, so other processes see *)
(* an operation only through the reference counts and the contents of the  *)
(* frames.  Page-table pages, pipes and kernel stacks come from the same   *)
(* memory, so kalloc and mappages may fail at any time; an operation that  *)
(* fails and undoes its work is not a step.  ASLR, which only moves the    *)
(* regions, is left out.                                                   *)
(***************************************************************************)
EXTENDS Integers, FiniteSets

CONSTANTS
  Procs, initproc,
  Frames,               \* physical pages
  Text, Guard, Stack,   \* the pages exec maps, below the heap
  HeapBase, HeapEnd,    \* first page of the heap, and the limit TRAPFRAME
  PGSIZE,
  Values,               \* contents of a page
  Zero, JUNK,           \* a page that is cleared, and one that kfree has filled
  NULL

Pages == 0 .. HeapEnd - 1

\* What the constants must satisfy.
Constants ==
  /\ HeapBase \in Nat /\ HeapEnd \in Nat \ {0} /\ HeapBase <= HeapEnd /\ PGSIZE \in Nat \ {0}
  /\ Text \cup Guard \cup Stack \subseteq 0 .. HeapBase - 1
  /\ Text \cap Guard = {} /\ Text \cap Stack = {} /\ Guard \cap Stack = {}
  /\ Zero \in Values /\ JUNK \notin Values
  /\ NULL \notin Frames \cup Pages /\ initproc \in Procs
  /\ IsFiniteSet(Procs) /\ IsFiniteSet(Frames)

VARIABLES
  live,         \* the processes that have an address space
  pt,           \* pt[p][v]: the PTE of page v
  brk,          \* end of the heap region in bytes, 0 while there is none
  refcnt,       \* kmem.refcnt
  data,         \* contents of the frames
  copying       \* the COW fault a process is in: its page and its new frame

vars == <<live, pt, brk, refcnt, data, copying>>

Ptes == [pa : Frames \cup {NULL}, w : BOOLEAN, cow : BOOLEAN, u : BOOLEAN]
Invalid == [pa |-> NULL, w |-> FALSE, cow |-> FALSE, u |-> FALSE]
NoFault == [v |-> 0, mem |-> NULL, kernel |-> FALSE, x |-> Zero]

\* What programs write can be told from a page that was only cleared.
Data == Values \ {Zero}

Mapped(p) == {v \in Pages : pt[p][v].pa # NULL}
Map(f, w, u) == [pa |-> f, w |-> w, cow |-> FALSE, u |-> u]

PGROUNDUP(a) == (a + PGSIZE - 1) \div PGSIZE
PageOf(a) == a \div PGSIZE
MaxBrk == HeapEnd * PGSIZE

Free == {f \in Frames : refcnt[f] = 0}

Init ==
  /\ live = {initproc}
  /\ pt = [p \in Procs |-> [v \in Pages |-> Invalid]]
  /\ brk = [p \in Procs |-> 0]
  /\ refcnt = [f \in Frames |-> 0]
  /\ data = [f \in Frames |-> JUNK]
  /\ copying = [p \in Procs |-> NoFault]

Running(p) == p \in live /\ copying[p].mem = NULL

\* The frames that process p maps at the pages V.
FramesAt(p, V) == {pt[p][v].pa : v \in V \cap Mapped(p)}

\* kfree of every frame of F: the last reference fills the frame with junk.
kfree(F) ==
  /\ refcnt' = [f \in Frames |-> IF f \in F THEN refcnt[f] - 1 ELSE refcnt[f]]
  /\ data' = [f \in Frames |-> IF f \in F /\ refcnt[f] = 1 THEN JUNK ELSE data[f]]

--------------------------------------------------------------------------------
(* Access by user code and by the kernel on its behalf. *)

\* A store by the user program: the hardware wants U and W.
store(p, v, x) ==
  /\ Running(p)
  /\ v \in Mapped(p) /\ pt[p][v].u /\ pt[p][v].w
  /\ data' = [data EXCEPT ![pt[p][v].pa] = x]
  /\ UNCHANGED <<live, pt, brk, refcnt, copying>>

\* copyout to a page that needs no fault: valid, user, not COW, and writable.
copyout(p, v, x) ==
  /\ Running(p)
  /\ v \in Mapped(p) /\ pt[p][v].u /\ ~pt[p][v].cow /\ pt[p][v].w
  /\ data' = [data EXCEPT ![pt[p][v].pa] = x]
  /\ UNCHANGED <<live, pt, brk, refcnt, copying>>

\* Mutant: the private copy starts out empty.
cow_contents_zero(p, v) == Zero

cow_contents(p, v) == data[pt[p][v].pa]

\* vmfault on a COW page, up to the copy: a store that faults, or a copyout of x
\* to a page that is COW or not accessible to the user.
vmfault_copy(p, a, kernel, x) ==
  LET v == PageOf(a) IN
  /\ Running(p)
  /\ kernel => a % PGSIZE = 0
  /\ a < brk[p]
  /\ v \in Mapped(p) /\ pt[p][v].cow
  /\ \E mem \in Free :
       /\ refcnt' = [refcnt EXCEPT ![mem] = 1]
       /\ data' = [data EXCEPT ![mem] = cow_contents(p, v)]
       /\ copying' = [copying EXCEPT ![p] = [v |-> v, mem |-> mem, kernel |-> kernel, x |-> x]]
  /\ UNCHANGED <<live, pt, brk>>

\* Mutant: the old frame keeps the reference of the PTE that is replaced.
vmfault_frees_none(p) == {}

vmfault_frees(p) == {pt[p][copying[p].v].pa}

\* The rest of vmfault; the copyout that called it then writes to the page.
vmfault_map(p) ==
  LET v == copying[p].v
      mem == copying[p].mem
      old == vmfault_frees(p)
  IN
  /\ p \in live /\ mem # NULL
  /\ pt' = [pt EXCEPT ![p][v] = [@ EXCEPT !.pa = mem, !.w = TRUE, !.cow = FALSE]]
  /\ refcnt' = [f \in Frames |-> IF f \in old THEN refcnt[f] - 1 ELSE refcnt[f]]
  /\ data' = [f \in Frames |->
       IF f = mem /\ copying[p].kernel THEN copying[p].x
       ELSE IF f \in old /\ refcnt[f] = 1 THEN JUNK ELSE data[f]]
  /\ copying' = [copying EXCEPT ![p] = NoFault]
  /\ UNCHANGED <<live, brk>>

\* vmfault on a heap page that sbrk promised: a load, a store, copyin or copyout.
vmfault_lazy(p, a) ==
  LET v == PageOf(a) IN
  /\ Running(p)
  /\ a < brk[p] /\ v >= HeapBase
  /\ v \notin Mapped(p)
  /\ \E mem \in Free :
       /\ refcnt' = [refcnt EXCEPT ![mem] = 1]
       /\ data' = [data EXCEPT ![mem] = Zero]
       /\ pt' = [pt EXCEPT ![p][v] = Map(mem, TRUE, TRUE)]
  /\ UNCHANGED <<live, brk, copying>>

--------------------------------------------------------------------------------
(* fork. *)

\* What as_copy makes of a PTE of the parent.
share(e) == [e EXCEPT !.w = FALSE, !.cow = e.w \/ e.cow]

\* kfork holds np->lock over the whole of as_copy.
as_copy(p, c) ==
  /\ Running(p) /\ c \in Procs \ live
  /\ live' = live \cup {c}
  /\ pt' = [pt EXCEPT ![p] = [v \in Pages |-> share(pt[p][v])],
                      ![c] = [v \in Pages |-> share(pt[p][v])]]
  /\ refcnt' = [f \in Frames |-> IF f \in FramesAt(p, Pages) THEN refcnt[f] + 1 ELSE refcnt[f]]
  /\ brk' = [brk EXCEPT ![c] = brk[p]]
  /\ UNCHANGED <<data, copying>>

\* mappages fails at page last: the child's references go, the parent's pages
\* up to there stay COW.
as_copy_fails(p, last) ==
  /\ Running(p) /\ last \in Mapped(p)
  /\ pt' = [pt EXCEPT ![p] = [v \in Pages |-> IF v <= last THEN share(pt[p][v]) ELSE pt[p][v]]]
  /\ UNCHANGED <<live, brk, refcnt, data, copying>>

--------------------------------------------------------------------------------
(* sbrk. *)

HasHeap(p) == brk[p] > 0

sys_sbrk_lazy(p, end) ==
  /\ Running(p) /\ HasHeap(p)
  /\ end > brk[p] /\ end <= MaxBrk
  /\ brk' = [brk EXCEPT ![p] = end]
  /\ UNCHANGED <<live, pt, refcnt, data, copying>>

\* The pages of uvmalloc(old, new).
uvmalloc_pages(old, new) == {v \in Pages : v >= PGROUNDUP(old) /\ v * PGSIZE < new}

\* growproc(n > 0); mappages panics when it meets a mapped page.
growproc(p, end) ==
  LET V == uvmalloc_pages(brk[p], end) IN
  /\ Running(p) /\ HasHeap(p)
  /\ end > brk[p] /\ end <= MaxBrk
  /\ V \cap Mapped(p) = {}
  /\ \E mem \in [V -> Free] :
       LET new == {mem[v] : v \in V} IN
       /\ \A v, w \in V : mem[v] = mem[w] => v = w
       /\ refcnt' = [f \in Frames |-> IF f \in new THEN 1 ELSE refcnt[f]]
       /\ data' = [f \in Frames |-> IF f \in new THEN Zero ELSE data[f]]
       /\ pt' = [pt EXCEPT ![p] =
                   [v \in Pages |-> IF v \in V THEN Map(mem[v], TRUE, TRUE) ELSE @[v]]]
  /\ brk' = [brk EXCEPT ![p] = end]
  /\ UNCHANGED <<live, copying>>

uvmdealloc_pages(old, new) == {v \in Pages : v >= PGROUNDUP(new) /\ v < PGROUNDUP(old)}

\* growproc(n < 0): uvmdealloc.
growproc_shrink(p, end) ==
  LET V == uvmdealloc_pages(brk[p], end) IN
  /\ Running(p) /\ HasHeap(p)
  /\ end < brk[p] /\ end >= HeapBase * PGSIZE
  /\ kfree(FramesAt(p, V))
  /\ pt' = [pt EXCEPT ![p] = [v \in Pages |-> IF v \in V THEN Invalid ELSE @[v]]]
  /\ brk' = [brk EXCEPT ![p] = end]
  /\ UNCHANGED <<live, copying>>

--------------------------------------------------------------------------------
(* exec and exit. *)

\* allocseg, and uvmalloc and uvmclear for the stack.
exec_pte(v, f) == Map(f, v \notin Text, v \notin Guard)

\* The new image is complete before the old one goes.  The file gives the
\* contents of Text, the arguments those of Stack.
kexec(p) ==
  LET V == Text \cup Guard \cup Stack IN
  /\ Running(p)
  /\ \E mem \in [V -> Free], image \in [V -> Values] :
       LET new == {mem[v] : v \in V}
           old == FramesAt(p, Pages)
       IN
       /\ \A v, w \in V : mem[v] = mem[w] => v = w
       /\ \A v \in V : image[v] = Zero <=> v \in Guard
       /\ refcnt' = [f \in Frames |->
            IF f \in new THEN 1 ELSE IF f \in old THEN refcnt[f] - 1 ELSE refcnt[f]]
       /\ data' = [f \in Frames |->
            IF f \in new THEN image[CHOOSE v \in V : mem[v] = f]
            ELSE IF f \in old /\ refcnt[f] = 1 THEN JUNK ELSE data[f]]
       /\ pt' = [pt EXCEPT ![p] =
            [v \in Pages |-> IF v \in V THEN exec_pte(v, mem[v]) ELSE Invalid]]
  /\ brk' = [brk EXCEPT ![p] = HeapBase * PGSIZE]
  /\ UNCHANGED <<live, copying>>

\* freeproc of a process that has exited; init never does.
as_destroy(p) ==
  /\ Running(p) /\ p # initproc
  /\ live' = live \ {p}
  /\ kfree(FramesAt(p, Pages))
  /\ pt' = [pt EXCEPT ![p] = [v \in Pages |-> Invalid]]
  /\ brk' = [brk EXCEPT ![p] = 0]
  /\ UNCHANGED copying

--------------------------------------------------------------------------------
Next ==
  \E p \in Procs :
    \/ \E v \in Pages, x \in Data : store(p, v, x) \/ copyout(p, v, x)
    \/ \E a \in 0 .. MaxBrk - 1 :
         vmfault_copy(p, a, FALSE, Zero) \/ \E x \in Data : vmfault_copy(p, a, TRUE, x)
    \/ vmfault_map(p)
    \/ \E a \in 0 .. MaxBrk - 1 : vmfault_lazy(p, a)
    \/ \E c \in Procs : as_copy(p, c)
    \/ \E last \in Pages : as_copy_fails(p, last)
    \/ \E end \in 0 .. MaxBrk : sys_sbrk_lazy(p, end) \/ growproc(p, end) \/ growproc_shrink(p, end)
    \/ kexec(p)
    \/ as_destroy(p)

Spec == Init /\ [][Next]_vars
--------------------------------------------------------------------------------
(* Properties. *)

TypeOK ==
  /\ live \subseteq Procs
  /\ pt \in [Procs -> [Pages -> Ptes]]
  /\ brk \in [Procs -> 0 .. MaxBrk]
  /\ refcnt \in [Frames -> Nat]
  /\ data \in [Frames -> Values \cup {JUNK}]
  /\ copying \in [Procs -> [v : Pages, mem : Frames \cup {NULL}, kernel : BOOLEAN, x : Values]]

\* The references to a frame: the PTEs that map it and the faults that copy to it.
Refs(f) ==
  {r \in Procs \X (Pages \cup {NULL}) :
     IF r[2] = NULL THEN copying[r[1]].mem = f ELSE pt[r[1]][r[2]].pa = f}

\* kaddref and kfree keep the count of a page equal to the number of PTEs that map
\* it, through forks, faults, exec and exit: no page is freed while it is mapped
\* and none is lost ("lost some free pages", usertests.c).  A page that can be
\* written through one PTE is mapped by no other.
RefsExact ==
  /\ \A f \in Frames : refcnt[f] = Cardinality(Refs(f))
  /\ \A p \in Procs : \A v \in Mapped(p) : pt[p][v].w => refcnt[pt[p][v].pa] = 1

\* What process p finds in page v.
Contents(p, v) == IF v \in Mapped(p) THEN data[pt[p][v].pa] ELSE Zero

\* Copy-on-write and lazy allocation cannot be told from a fork that copies and an
\* sbrk that clears at once.
Eager == INSTANCE Memory WITH
  Loaded <- Text \cup Stack,
  mem <- [p \in Procs |-> [v \in Pages |-> Contents(p, v)]]
MemoryIsPrivate == Eager!Spec
EagerStep == [Eager!Next]_Eager!vars
================================================================================
