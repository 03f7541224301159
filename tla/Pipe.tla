---------------------------------- MODULE Pipe -----------------------------------
(***************************************************************************)
(* One pipe of os/kernel/pipe.c: the ring data[PIPESIZE] with the wrapping *)
(* counters nread and nwrite, its writers and readers, the closing of the  *)
(* two ends, and kills.                                                    *)
(*                                                                         *)
(* pi->lock is held, and interrupts are off, from each test of the pipe to *)
(* the sleep or the return that follows: that is one step.                 *)
(***************************************************************************)
EXTENDS Integers, Sequences, FiniteSets

CONSTANTS
  Writers, Readers,     \* the processes that have the write and the read end
  PIPESIZE,
  UINT,                 \* a uint counts modulo UINT (2^32 in the code)
  Bytes,
  MAXN                  \* bound: how many bytes one read or write asks for

Procs == Writers \cup Readers

\* What the constants must satisfy.
Constants ==
  /\ PIPESIZE \in Nat \ {0} /\ MAXN \in Nat
  /\ UINT \in Nat /\ UINT > PIPESIZE /\ UINT % PIPESIZE = 0
  /\ IsFiniteSet(Procs) /\ Writers \cap Readers = {}

VARIABLES
  data, nread, nwrite, readopen, writeopen,     \* struct pipe
  pc,           \* "user", "run" (in the loop of the call), "asleep" or "gone"
  todo,         \* the bytes a write still has to write
  want,         \* how many bytes a read asks for
  got,          \* the bytes the last read returned
  killed

pipe == <<data, nread, nwrite, readopen, writeopen>>
vars == <<pipe, pc, todo, want, got, killed>>

Slots == 0 .. PIPESIZE - 1

TypeOK ==
  /\ data \in [Slots -> Bytes]
  /\ nread \in 0 .. UINT - 1 /\ nwrite \in 0 .. UINT - 1
  /\ readopen \in BOOLEAN /\ writeopen \in BOOLEAN
  /\ pc \in [Procs -> {"user", "run", "asleep", "gone"}]
  /\ todo \in [Procs -> Seq(Bytes)] /\ got \in [Procs -> Seq(Bytes)]
  /\ want \in [Procs -> 0 .. MAXN]
  /\ killed \in [Procs -> BOOLEAN]

\* pipealloc.  The page is not cleared; its first contents are never read.
Init ==
  /\ data \in [Slots -> Bytes]
  /\ nread = 0 /\ nwrite = 0
  /\ readopen = TRUE /\ writeopen = TRUE
  /\ pc = [p \in Procs |-> "user"]
  /\ todo = [p \in Procs |-> <<>>]
  /\ want = [p \in Procs |-> 0]
  /\ got = [p \in Procs |-> <<>>]
  /\ killed = [p \in Procs |-> FALSE]

--------------------------------------------------------------------------------
(* pipewrite *)

\* How many bytes are in the ring.
used == (nwrite - nread) % UINT

\* The writes until nwrite == nread + PIPESIZE.
room == PIPESIZE - used

\* Mutant: wakeup on the channel of the other side.
wake_wrong(side) == [p \in Procs |-> IF pc[p] = "asleep" /\ p \notin side THEN "run" ELSE pc[p]]

\* wakeup(&pi->nread) wakes Readers, wakeup(&pi->nwrite) wakes Writers.
wake(side) == [p \in Procs |-> IF pc[p] = "asleep" /\ p \in side THEN "run" ELSE pc[p]]

\* data[nwrite++ % PIPESIZE] for the first k bytes of p's buffer.
put(p, k) ==
  /\ data' = [j \in Slots |->
                LET n == CHOOSE m \in 1 .. PIPESIZE : (nwrite + m - 1) % PIPESIZE = j
                IN  IF n <= k THEN todo[p][n] ELSE data[j]]
  /\ nwrite' = (nwrite + k) % UINT

pipewrite(p, s) ==
  /\ pc[p] = "user" /\ ~killed[p]
  /\ pc' = [pc EXCEPT ![p] = "run"]
  /\ todo' = [todo EXCEPT ![p] = s]
  /\ UNCHANGED <<pipe, want, got, killed>>

writing(p) == p \in Writers /\ pc[p] = "run"

\* No reader is left, or the writer is killed: -1, whatever was written before.
pipewrite_broken(p) ==
  /\ writing(p)
  /\ todo[p] # <<>>
  /\ ~readopen \/ killed[p]
  /\ pc' = [pc EXCEPT ![p] = "user"]
  /\ todo' = [todo EXCEPT ![p] = <<>>]
  /\ UNCHANGED <<pipe, want, got, killed>>

\* The bytes fit: the call writes them and returns.  It also returns when copyin
\* fails, with k bytes written.
pipewrite_ends(p, k) ==
  /\ writing(p)
  /\ todo[p] # <<>> => readopen /\ ~killed[p]
  /\ k <= Len(todo[p]) /\ k <= room
  /\ k = room => k = Len(todo[p])       \* a full ring is noticed before copyin
  /\ put(p, k)
  /\ pc' = [wake(Readers) EXCEPT ![p] = "user"]
  /\ todo' = [todo EXCEPT ![p] = <<>>]
  /\ UNCHANGED <<nread, readopen, writeopen, want, got, killed>>

\* The ring fills up first: the writer wakes the readers and sleeps.
pipewrite_full(p) ==
  /\ writing(p)
  /\ readopen /\ ~killed[p]
  /\ room < Len(todo[p])
  /\ put(p, room)
  /\ pc' = [wake(Readers) EXCEPT ![p] = "asleep"]
  /\ todo' = [todo EXCEPT ![p] = SubSeq(@, room + 1, Len(@))]
  /\ UNCHANGED <<nread, readopen, writeopen, want, got, killed>>

--------------------------------------------------------------------------------
(* piperead *)

piperead(p, n) ==
  /\ pc[p] = "user" /\ ~killed[p]
  /\ pc' = [pc EXCEPT ![p] = "run"]
  /\ want' = [want EXCEPT ![p] = n]
  /\ UNCHANGED <<pipe, todo, got, killed>>

reading(p) == p \in Readers /\ pc[p] = "run"

piperead_waits == nread = nwrite /\ writeopen

piperead_killed(p) ==
  /\ reading(p)
  /\ piperead_waits /\ killed[p]
  /\ pc' = [pc EXCEPT ![p] = "user"]
  /\ got' = [got EXCEPT ![p] = <<>>]
  /\ want' = [want EXCEPT ![p] = 0]
  /\ UNCHANGED <<pipe, todo, killed>>

piperead_sleep(p) ==
  /\ reading(p)
  /\ piperead_waits /\ ~killed[p]
  /\ pc' = [pc EXCEPT ![p] = "asleep"]
  /\ UNCHANGED <<pipe, todo, want, got, killed>>

\* Mutant: the read end looks one slot ahead.
slot_next(j) == (nread + j) % PIPESIZE

\* The slot of the j-th byte of a read.
slot(j) == (nread + j - 1) % PIPESIZE

\* k bytes are copied out: all that were asked for or are there, or fewer when
\* copyout fails.
piperead_ends(p, k) ==
  /\ reading(p)
  /\ ~piperead_waits
  /\ k <= want[p] /\ k <= used
  /\ got' = [got EXCEPT ![p] = [j \in 1 .. k |-> data[slot(j)]]]
  /\ nread' = (nread + k) % UINT
  /\ want' = [want EXCEPT ![p] = 0]
  /\ pc' = [wake(Writers) EXCEPT ![p] = "user"]
  /\ UNCHANGED <<data, nwrite, readopen, writeopen, todo, killed>>

--------------------------------------------------------------------------------
(* Closing an end, kills *)

close_wakes(side) == wake(IF side = Writers THEN Readers ELSE Writers)

\* p gives up its descriptors of the pipe, by close or by exiting; the last one of
\* an end closes that end.
pipeclose(p) ==
  /\ pc[p] = "user"
  /\ LET last(side) == p \in side /\ \A q \in side \ {p} : pc[q] = "gone"
         woken == IF last(Writers) THEN close_wakes(Writers)
                  ELSE IF last(Readers) THEN close_wakes(Readers) ELSE pc
     IN  /\ writeopen' = (writeopen /\ ~last(Writers))
         /\ readopen' = (readopen /\ ~last(Readers))
         /\ pc' = [woken EXCEPT ![p] = "gone"]
  /\ UNCHANGED <<data, nread, nwrite, todo, want, got, killed>>

kkill(p) ==
  /\ pc[p] # "gone"
  /\ killed' = [killed EXCEPT ![p] = TRUE]
  /\ pc' = [pc EXCEPT ![p] = IF @ = "asleep" THEN "run" ELSE @]
  /\ UNCHANGED <<pipe, todo, want, got>>

\* The two files are closed, and pipeclose has freed the page.
Done == (\A p \in Procs : pc[p] = "gone") /\ UNCHANGED vars

\* A call that can go on does.
KernelStep(p) ==
  \/ pipewrite_broken(p)
  \/ \E k \in 0 .. MAXN : pipewrite_ends(p, k)
  \/ pipewrite_full(p)
  \/ piperead_killed(p)
  \/ piperead_sleep(p)
  \/ \E k \in 0 .. MAXN : piperead_ends(p, k)

Next ==
  \/ \E p \in Procs : KernelStep(p) \/ pipeclose(p) \/ kkill(p)
  \/ \E p \in Writers : \E s \in UNION {[1 .. n -> Bytes] : n \in 0 .. MAXN} : pipewrite(p, s)
  \/ \E p \in Readers, n \in 0 .. MAXN : piperead(p, n)
  \/ Done

Spec == Init /\ [][Next]_vars

--------------------------------------------------------------------------------
(* Properties. *)

\* The bytes of the ring, oldest first.
queue == [j \in 1 .. used |-> data[(nread + j - 1) % PIPESIZE]]

Queue == INSTANCE Fifo WITH Size <- PIPESIZE, MaxN <- MAXN, inflight <- todo

QueueStep == [Queue!Next]_(Queue!vars)

\* The ring with its wrapping counters is a bounded first-in first-out queue:
\* every read returns the oldest bytes in the order they were written, none twice,
\* and a writer never overwrites a byte that was not read.
PipeIsFifo == Queue!Init /\ [][QueueStep]_vars

\* Nobody sleeps who has something to do.  A reader asleep has an empty pipe with
\* an open write end, a writer asleep a full one with an open read end, and
\* neither is killed.
NoLostWakeup ==
  /\ \A p \in Readers : pc[p] = "asleep" => used = 0 /\ writeopen /\ ~killed[p]
  /\ \A p \in Writers : pc[p] = "asleep" => used = PIPESIZE /\ readopen /\ ~killed[p]
================================================================================
