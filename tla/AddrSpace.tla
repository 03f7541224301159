-------------------------------- MODULE AddrSpace --------------------------------
(***************************************************************************)
(* Page tables and regions: the two-level tree that walk builds, the       *)
(* region list of an address space, and fork, exec, sbrk and exit over     *)
(* them (os/kernel/addrspace.c, loader_exec.c, sysproc.c, taskmgr.c).      *)
(*                                                                         *)
(* Vm is about what the pages contain and takes the tree for granted; here *)
(* pages are only counted, those of the tree included, and every kalloc    *)
(* may fail: other processes and the kernel may have taken all but the     *)
(* first q pages that a call asks for.  Only the pages that user programs  *)
(* map can be shared, so only they are told apart.  A call works on the    *)
(* tables of its own process, so it is a step.                             *)
(***************************************************************************)
EXTENDS Integers, Sequences, FiniteSets, FiniteSetsExt, SequencesExt, TLC

CONSTANTS
  Procs, initproc,
  PTES,                 \* entries of a page table
  PGSIZE, USERSTACK, MAX_MREGIONS,
  ASLR_CODE_MAX_PAGES, ASLR_STACK_GAP_MAX_PAGES, ASLR_HEAP_GAP_MAX_PAGES,
  Programs,             \* the segments of each executable file, and its arguments
  MaxExec, MaxGrow,     \* bounds on how many pages exec and fork, and sbrk and a fault, find
  Deltas, MaxHeap,      \* the arguments of sbrk, and how large it makes a heap
  NULL

Pages == 0 .. PTES * PTES - 1
TRAMPOLINE == PTES * PTES - 1
TRAPFRAME == TRAMPOLINE - 1

\* What the constants must satisfy.
Constants ==
  /\ initproc \in Procs
  /\ PTES >= 2 /\ PGSIZE >= 1 /\ USERSTACK >= 1
  /\ \A g \in Programs : \A k \in DOMAIN g.segs : g.segs[k].perm \subseteq {"W", "X"}

VARIABLES
  used,         \* how many pages kalloc has given out
  cnt,          \* kmem.refcnt of those that programs map
  as,           \* p->as of each process
  live,         \* the processes with a trapframe
  panic

vars == <<used, cnt, as, live, panic>>

\* Any free frame will do for a page, so a frame is named for its page and the processes
\* that map it there; the one that a call allocates for page v is New(v) until it ends.
Frame(v, S) == <<v, S>>
New(v) == Frame(v, {})

\* The trapframe and the trampoline, which a page table maps and does not own.
Kernel == Frame(TRAPFRAME, {})

\* A PTE is valid if it has a frame.
Empty == [pa |-> NULL, flags |-> {}]

\* An address space: whether it has a root table, the entries of the root that point to
\* a table, the PTEs in those, and the regions.
NoSpace == [root |-> FALSE, tables |-> {}, pte |-> [v \in Pages |-> Empty], regions |-> <<>>]

PGROUNDUP(a) == (a + PGSIZE - 1) \div PGSIZE
PGROUNDDOWN(a) == a \div PGSIZE

\* The pages a .. b - 1, in order.
From(a, b) == [j \in 1 .. b - a |-> a + j - 1]

--------------------------------------------------------------------------------
(* A call is computed on a record of the state: s.as is the address space it  *)
(* works on, and s.fail says that the last function returned an error.        *)

Call(a, q) ==
  [used |-> used, cnt |-> cnt, panic |-> panic, as |-> a, q |-> q,
   fail |-> FALSE, sz |-> 0, held |-> 0]

\* For a table, a trapframe or a buffer.
kalloc(s) ==
  IF s.q = 0 THEN [s EXCEPT !.fail = TRUE] ELSE [s EXCEPT !.q = @ - 1, !.used = @ + 1]

kfree(s) == [s EXCEPT !.used = @ - 1]

\* The same for page v of a program.
kalloc_page(s, v) ==
  IF s.q = 0 THEN [s EXCEPT !.fail = TRUE]
  ELSE [s EXCEPT !.q = @ - 1, !.used = @ + 1, !.cnt = @ @@ (New(v) :> 1)]

\* kfree of each page of F, of which a call frees none twice.
kfree_pages(s, F) ==
  LET last == {f \in F : s.cnt[f] = 1}
  IN  IF F \subseteq DOMAIN s.cnt
      THEN [s EXCEPT !.used = @ - Cardinality(last),
                     !.cnt = [f \in DOMAIN @ \ last |-> IF f \in F THEN @[f] - 1 ELSE @[f]]]
      ELSE [s EXCEPT !.panic = TRUE]

\* walk with alloc: the table of page v is there afterwards, or no page was left for it.
walk(s, v) ==
  LET add(t) == IF t.fail THEN t ELSE [t EXCEPT !.as.tables = @ \cup {v \div PTES}]
  IN  IF v \div PTES \in s.as.tables THEN s ELSE add(kalloc(s))

\* walk without alloc.
pte(s, v) == IF v \div PTES \in s.as.tables THEN s.as.pte[v] ELSE Empty

\* Used with a size of PGSIZE only, but for the kernel's own table.
mappages(s, v, pa, flags) ==
  LET set(t) == CASE t.fail -> t
                  [] ~t.fail /\ t.as.pte[v].pa # NULL -> [t EXCEPT !.panic = TRUE]
                  [] OTHER -> [t EXCEPT !.as.pte[v] = [pa |-> pa, flags |-> flags]]
  IN  set(walk(s, v))

\* kalloc, memset and mappages, as in allocseg, uvmalloc and vmfault.
MapNew(s, v, flags) ==
  LET undo(t) == IF t.fail THEN kfree_pages(t, {New(v)}) ELSE t
      map(t) == IF t.fail THEN t ELSE undo(mappages(t, v, New(v), flags))
  IN  map(kalloc_page(s, v))

\* Of npages pages from v, those that are mapped.
uvmunmap(s, v, npages, do_free) ==
  LET V == {w \in v .. v + npages - 1 : pte(s, w).pa # NULL}
      t == IF do_free THEN kfree_pages(s, {s.as.pte[w].pa : w \in V}) ELSE s
  IN  [t EXCEPT !.as.pte = [w \in Pages |-> IF w \in V THEN Empty ELSE @[w]]]

\* Mutant: the pages that were mapped before the one that failed stay.
uvmalloc_undo_none(s, a, v) == s

uvmalloc_undo(s, a, v) == uvmunmap(s, a, v - a, TRUE)

uvmalloc(s, oldsz, newsz, xperm) ==
  LET a == PGROUNDUP(oldsz)
      grow(t, v) ==
        LET check(u) == IF u.fail THEN uvmalloc_undo(u, a, v) ELSE u
        IN  IF t.fail THEN t ELSE check(MapNew(t, v, {"R", "U"} \cup xperm))
  IN  FoldLeft(grow, s, From(a, PGROUNDUP(newsz)))

uvmdealloc(s, oldsz, newsz) ==
  uvmunmap(s, PGROUNDUP(newsz), PGROUNDUP(oldsz) - PGROUNDUP(newsz), TRUE)

\* The pages that are still mapped, the tables, and the root.
freewalkall(s) ==
  [uvmunmap(s, 0, PTES * PTES, TRUE) EXCEPT
     !.used = @ - Cardinality(s.as.tables) - 1, !.as.tables = {}, !.as.root = FALSE]

--------------------------------------------------------------------------------
(* Regions, in bytes. *)

Region(start, end, type) == [start |-> start, end |-> end, type |-> type]
Apart(start, end, r) == end <= r.start \/ start >= r.end

as_region_index(R, type) == {i \in DOMAIN R : R[i].type = type}

as_add_region_ok(R, start, end, type) ==
  /\ start % PGSIZE = 0 /\ (type # "heap" => end % PGSIZE = 0)
  /\ start <= end /\ end <= TRAPFRAME * PGSIZE
  /\ Len(R) < MAX_MREGIONS
  /\ as_region_index(R, type) = {}
  /\ \A i \in DOMAIN R : Apart(start, end, R[i])

\* Before the first region that starts later.
as_add_region(s, start, end, type) ==
  LET R   == s.as.regions
      ins == Min({i \in DOMAIN R : start < R[i].start} \cup {Len(R) + 1})
  IN  IF s.fail \/ ~as_add_region_ok(R, start, end, type)
      THEN [s EXCEPT !.fail = TRUE]
      ELSE [s EXCEPT !.as.regions = InsertAt(@, ins, Region(start, end, type))]

as_find_region(R, a) == {i \in DOMAIN R : a >= R[i].start /\ a < R[i].end}

as_resize_region(s, type, end) ==
  LET R == s.as.regions
      I == as_region_index(R, type)
      i == Min(I)
  IN  IF /\ end <= TRAPFRAME * PGSIZE /\ I # {} /\ end >= R[i].start
         /\ \A j \in DOMAIN R \ {i} : Apart(R[i].start, end, R[j])
      THEN [s EXCEPT !.as.regions[i].end = end]
      ELSE [s EXCEPT !.fail = TRUE]

\* as_region_map_start and as_region_map_npages.
map_start(r) == PGROUNDDOWN(r.start)
map_npages(r) == IF r.end <= r.start THEN 0 ELSE PGROUNDUP(r.end) - PGROUNDDOWN(r.start)

\* The loop of uvmfree, and of as_copy before and after.
UnmapRegions(s) ==
  LET unmap(t, r) == uvmunmap(t, map_start(r), map_npages(r), TRUE)
  IN  [FoldLeft(unmap, s, s.as.regions) EXCEPT !.as.regions = <<>>]

uvmfree(s) == freewalkall(UnmapRegions(s))

\* The trapframe has another reference, and the trampoline is part of the kernel.
as_destroy(s) ==
  IF ~s.as.root
  THEN [s EXCEPT !.as.regions = <<>>]
  ELSE uvmfree(uvmunmap(uvmunmap(s, TRAMPOLINE, 1, FALSE), TRAPFRAME, 1, FALSE))

as_create(s) ==
  LET root(t) == IF t.fail THEN t ELSE [t EXCEPT !.as = [NoSpace EXCEPT !.root = TRUE]]
  IN  root(kalloc(s))

\* The two mappings of the kernel.
proc_addrspace_create(s) ==
  LET undo(t) == IF t.fail THEN as_destroy(t) ELSE t
      frame(t) == IF t.fail THEN t ELSE mappages(t, TRAPFRAME, Kernel, {"R", "W"})
      map(t) == IF t.fail THEN t ELSE undo(frame(mappages(t, TRAMPOLINE, Kernel, {"R", "X"})))
  IN  map(as_create(s))

--------------------------------------------------------------------------------
(* fork and exit. *)

\* What as_copy makes of the flags of a page that it shares.
share(flags) == IF "W" \in flags THEN (flags \ {"W"}) \cup {"COW"} ELSE flags

\* s.as is dst and s.src the address space of the parent, whose PTEs change too.
as_copy(s) ==
  LET page(t, v) ==
        LET e == t.src.pte[v]
            f == share(e.flags)
            undo(u) == IF u.fail THEN kfree_pages(u, {e.pa}) ELSE u
        IN  IF t.fail \/ e.pa = NULL THEN t
            ELSE undo(mappages([t EXCEPT !.src.pte[v].flags = f, !.cnt[e.pa] = @ + 1], v, e.pa, f))
      region(t, r) ==
        FoldLeft(page, as_add_region(t, r.start, r.end, r.type),
                 From(map_start(r), map_start(r) + map_npages(r)))
      undo_all(t) == IF t.fail THEN UnmapRegions(t) ELSE t
  IN  undo_all(FoldLeft(region, UnmapRegions(s), s.src.regions))

\* The trapframe, and the address space if there is one.
freeproc(s) == IF s.as.root THEN as_destroy(kfree(s)) ELSE kfree(s)

\* The state when a call has left the address spaces as A.
Settle(s, A) ==
  LET mappers(v, f) == {q \in Procs : A[q].pte[v].pa = f}
      name(v, f) == IF f \in {NULL, Kernel} THEN f ELSE Frame(v, mappers(v, f))
  IN  /\ used' = s.used /\ panic' = s.panic
      /\ \E new \in {[f \in DOMAIN s.cnt |-> name(f[1], f)]} :
           cnt' = [g \in Range(new) |-> s.cnt[CHOOSE f \in DOMAIN new : new[f] = g]]
      /\ as' = [q \in Procs |-> [A[q] EXCEPT !.pte =
                  [v \in Pages |-> [@[v] EXCEPT !.pa = name(v, @)]]]]

\* The same when only that of process p has changed.
Becomes(p, s) == Settle(s, [as EXCEPT ![p] = s.as]) /\ UNCHANGED live

\* allocproc, then uvmcopy; the child is c if both succeed.
kfork(p, c, q) ==
  LET undo(s) == IF s.fail THEN freeproc(s) ELSE s
      copy(s) == IF s.fail THEN s ELSE as_copy(s)
      child(s) == undo(copy(proc_addrspace_create(s) @@ [src |-> as[p]]))
  IN  /\ p \in live /\ c \in Procs \ live
      /\ q > 0
      /\ \E s \in {child(kalloc(Call(NoSpace, q)))} :
           /\ Settle(s, [as EXCEPT ![p] = s.src, ![c] = IF s.fail THEN NoSpace ELSE s.as])
           /\ live' = IF s.fail THEN live ELSE live \cup {c}

\* freeproc of a process that has exited; init never does.
kexit(p) ==
  /\ p \in live /\ p # initproc
  /\ \E s \in {freeproc(Call(as[p], 0))} : Settle(s, [as EXCEPT ![p] = NoSpace])
  /\ live' = live \ {p}

--------------------------------------------------------------------------------
(* exec. *)

\* A segment is at page va; readable says that its header can be read, and whole that
\* its contents can.
segend(g) == g.va * PGSIZE + g.memsz

\* Some of the pages may be there from an earlier segment.
allocseg(s, g) ==
  LET perm == {"R", "U"} \cup g.perm
      visit(t, v) ==
        LET e == pte(t, v)
        IN  IF t.fail THEN t
            ELSE IF e.pa # NULL THEN [t EXCEPT !.as.pte[v].flags = @ \cup perm]
            ELSE MapNew(t, v, perm)
  IN  FoldLeft(visit, s, From(g.va, PGROUNDUP(segend(g))))

\* A page of the user.
walkaddr(s, v) == pte(s, v).pa # NULL /\ "U" \in pte(s, v).flags

loadseg(s, g) ==
  LET V == {g.va + i : i \in 0 .. PGROUNDUP(g.filesz) - 1}
  IN  [s EXCEPT !.panic = @ \/ \E v \in V : ~walkaddr(s, v), !.fail = ~g.whole]

\* A turn of the loop of kexec.
LoadSegment(s, g) ==
  LET ok == g.readable /\ g.memsz >= g.filesz /\ segend(g) < TRAPFRAME * PGSIZE
      grown(t) == [t EXCEPT !.sz = IF segend(g) > @ THEN segend(g) ELSE @]
      load(t) == IF t.fail THEN t ELSE loadseg(grown(t), g)
  IN  IF s.fail THEN s ELSE IF ~ok THEN [s EXCEPT !.fail = TRUE] ELSE load(allocseg(s, g))

\* n pages that the call will free again, or as many as there are; held counts them.
Hold(s, n) ==
  LET k == Min({n, s.q})
  IN  [s EXCEPT !.q = @ - k, !.used = @ + k, !.held = @ + k]

ReleaseHeld(s) == [s EXCEPT !.used = @ - s.held, !.held = 0]

\* The end of kexec after an error.
bad(s) == as_destroy(ReleaseHeld(s))

uvmclear(s, v) == [s EXCEPT !.as.pte[v].flags = @ \ {"U"}]

\* The stack with its guard page, the regions, and room for the arguments.
PlaceStack(s, prog, gap, heap_gap) ==
  LET text_end    == PGROUNDUP(s.sz) * PGSIZE
      stack_guard == text_end + gap * PGSIZE
      stack_end   == stack_guard + (USERSTACK + 1) * PGSIZE
      heap_base   == stack_end + heap_gap * PGSIZE
      regions(t) ==
        as_add_region(as_add_region(as_add_region(uvmclear(t, PGROUNDDOWN(stack_guard)),
          0, text_end, "text"), stack_guard, stack_end, "stack"), heap_base, heap_base, "heap")
      rest(t) ==
        IF t.fail THEN t
        ELSE [regions(t) EXCEPT !.fail = @ \/ heap_base >= TRAPFRAME * PGSIZE \/ ~prog.fits]
  IN  IF s.fail \/ stack_end >= TRAPFRAME * PGSIZE
      THEN [s EXCEPT !.fail = TRUE]
      ELSE rest(uvmalloc(s, stack_guard, stack_end, {"W"}))

\* The new image is complete before the old one goes.
kexec(s, p, prog, jitter, gap, heap_gap) ==
  LET load(t) == FoldLeft(LoadSegment, Hold(t, jitter), prog.segs)
      commit(t) == IF t.fail THEN bad(t)
                   ELSE [as_destroy([t EXCEPT !.as = as[p]]) EXCEPT !.as = t.as]
      build(t) == IF t.fail THEN t
                  ELSE commit(PlaceStack(ReleaseHeld(load(t)), prog, gap, heap_gap))
  IN  build(proc_addrspace_create(s))

\* sys_exec has a page for each argument.
sys_exec(p, q, prog, jitter, gap, heap_gap) ==
  LET args == Hold(Call(NoSpace, q), prog.nargs)
      image == IF args.held < prog.nargs THEN [args EXCEPT !.fail = TRUE]
               ELSE kexec([args EXCEPT !.held = 0], p, prog, jitter, gap, heap_gap)
  IN  /\ p \in live
      /\ \E s \in {ReleaseHeld([image EXCEPT !.held = args.held])} :
           Becomes(p, IF s.fail THEN [s EXCEPT !.as = as[p]] ELSE s)

--------------------------------------------------------------------------------
(* sbrk and page faults. *)

Heap(p) == LET R == as[p].regions IN {R[i] : i \in as_region_index(R, "heap")}

\* growproc up to the change of the region.
growproc(s, sz, n) ==
  IF n > 0 THEN uvmalloc(s, sz, sz + n, {"W"}) ELSE uvmdealloc(s, sz, sz + n)

\* sys_sbrk of n, with pages or without.
sys_sbrk(p, n, eager, q) ==
  /\ p \in live
  /\ \E h \in Heap(p) :
       LET sz == h.end
           grow(s) == IF eager \/ n < 0 THEN growproc(s, sz, n) ELSE s
           resize(s) == IF s.fail THEN s ELSE as_resize_region(s, "heap", sz + n)
       IN  /\ sz + n >= h.start /\ sz + n <= TRAPFRAME * PGSIZE
           /\ sz + n <= h.start + MaxHeap
           /\ \E s \in {resize(grow(Call(as[p], q)))} : Becomes(p, s)

\* A fault on page v: a store to a page that is shared, or a heap page that sbrk promised.
vmfault(p, v, q) ==
  LET s == Call(as[p], q)
      e == pte(s, v)
      R == as[p].regions
      writable == [pa |-> New(v), flags |-> (e.flags \cup {"W"}) \ {"COW"}]
      copy(t) == kfree_pages([t EXCEPT !.as.pte[v] = writable], {e.pa})
  IN  /\ p \in live
      /\ \E h \in Heap(p) : v * PGSIZE < h.end
      /\ \/ /\ e.pa # NULL /\ "COW" \in e.flags
            /\ q > 0
            /\ \E t \in {copy(kalloc_page(s, v))} : Becomes(p, t)
         \/ /\ e.pa = NULL
            /\ \E i \in as_find_region(R, v * PGSIZE) : R[i].type = "heap"
            /\ \E t \in {MapNew(s, v, {"U", "R", "W"})} : Becomes(p, t)

--------------------------------------------------------------------------------
\* userinit: init has no memory until it calls exec.
Init ==
  LET s == proc_addrspace_create([used |-> 1, cnt |-> <<>>, panic |-> FALSE, as |-> NoSpace, q |-> 2,
                                  fail |-> FALSE])
  IN  /\ used = s.used /\ cnt = s.cnt /\ panic = s.panic
      /\ as = [p \in Procs |-> IF p = initproc THEN s.as ELSE NoSpace]
      /\ live = {initproc}

Next ==
  \E p \in Procs :
    \/ \E q \in 0 .. MaxExec :
         \/ \E c \in Procs : kfork(p, c, q)
         \/ \E prog \in Programs, jitter \in 0 .. ASLR_CODE_MAX_PAGES,
               gap \in 0 .. ASLR_STACK_GAP_MAX_PAGES, heap_gap \in 0 .. ASLR_HEAP_GAP_MAX_PAGES :
              sys_exec(p, q, prog, jitter, gap, heap_gap)
    \/ \E q \in 0 .. MaxGrow :
         \/ \E n \in Deltas, eager \in BOOLEAN : sys_sbrk(p, n, eager, q)
         \/ \E v \in Pages : vmfault(p, v, q)
    \/ kexit(p)

Spec == Init /\ [][Next]_vars

--------------------------------------------------------------------------------
(* Properties. *)

TypeOK ==
  /\ used \in Nat /\ \A f \in DOMAIN cnt : cnt[f] \in Nat \ {0}
  /\ live \subseteq Procs /\ \A p \in Procs : as[p].root <=> p \in live

\* The pages that a program maps.
Mapped(p) == {v \in Pages \ {TRAPFRAME, TRAMPOLINE} : as[p].pte[v].pa # NULL}

\* Wherever memory runs out in fork, exec, sbrk or a page fault, every page that is in
\* use is a trapframe, a root, a table that the tree reaches, or mapped by as many PTEs
\* as are counted: none is lost and none is freed twice.
TablesExact ==
  /\ used = Cardinality(DOMAIN cnt) + MapThenSumSet(LAMBDA p : 2 + Cardinality(as[p].tables), live)
  /\ \A p \in Procs, v \in Pages : as[p].pte[v].pa # NULL => v \div PTES \in as[p].tables
  /\ \A f \in DOMAIN cnt \cup UNION {{as[p].pte[v].pa : v \in Mapped(p)} : p \in Procs} :
       f \in DOMAIN cnt /\ cnt[f] = Cardinality({<<p, v>> \in Procs \X Pages : as[p].pte[v].pa = f})

\* The regions of a process are in order and apart, below the trapframe; what it maps is
\* in them; its stack is whole, with a guard page below; and no function panics.
RegionsExact ==
  /\ ~panic
  /\ \A p \in live :
       LET R == as[p].regions
           In(r) == PGROUNDDOWN(r.start) .. PGROUNDUP(r.end) - 1
       IN  /\ \A i, j \in DOMAIN R : i < j => R[i].end <= R[j].start /\ R[i].type # R[j].type
           /\ \A i \in DOMAIN R : R[i].start <= R[i].end /\ R[i].end <= TRAPFRAME * PGSIZE
           /\ {as[p].pte[TRAPFRAME].pa, as[p].pte[TRAMPOLINE].pa} = {Kernel}
           /\ \A v \in Mapped(p) : \E i \in DOMAIN R : v \in In(R[i])
           /\ \A i \in DOMAIN R : R[i].type = "stack" =>
                \A v \in In(R[i]) :
                  v \in Mapped(p) /\ ("U" \in as[p].pte[v].flags <=> v # PGROUNDDOWN(R[i].start))
================================================================================
