------------------------------- MODULE VirtioDisk --------------------------------
(***************************************************************************)
(* The driver of os/kernel/virtio_disk.c and the device it talks to: the   *)
(* descriptors, the avail and used rings with their wrapping 16-bit        *)
(* indices, the interrupt, and the processes that wait for descriptors or  *)
(* for a transfer.                                                         *)
(*                                                                         *)
(* The device is modelled from the driver's use of it: it takes requests   *)
(* in ring order, finishes them in any order, and works at any time, also  *)
(* while the driver holds disk.vdisk_lock.  Each process transfers one     *)
(* buffer, which it stands for.  The entries of a ring are forgotten once  *)
(* they are read.                                                          *)
(***************************************************************************)
EXTENDS Integers, FiniteSets

CONSTANTS
  Procs,
  NUM,          \* descriptors, and entries of each ring
  UINT16,       \* the ring indices count modulo UINT16 (2^16 in the code)
  NULL

\* What the constants must satisfy.
Constants ==
  /\ NUM \in Nat /\ NUM >= 3 /\ UINT16 \in Nat \ {0} /\ UINT16 % NUM = 0
  /\ NULL \notin Procs \cup (0 .. NUM - 1)

Descs == 0 .. NUM - 1

VARIABLES
  free,                 \* the descriptors with disk.free[i] = 1
  next,                 \* desc[i].next, or NULL without VRING_DESC_F_NEXT
  avail, avail_idx,     \* the avail ring, written by the driver
  used, used_idx,       \* the used ring, written by the device
  seen_idx,             \* disk.used_idx
  info,                 \* disk.info[i].b
  bdisk,                \* b->disk
  pc,                   \* "idle", "alloc", "nodesc" (asleep), "wait", "asleep"
  head,                 \* idx[0] of each process
  intr,                 \* virtio_disk_intr: "no", in its "loop", or "out" of it
  irq, taken_idx, busy  \* the device: interrupt raised, requests taken, being served

device == <<used, used_idx, irq, taken_idx, busy>>
driver == <<free, next, avail, avail_idx, seen_idx, info, bdisk, pc, head, intr>>
vars == <<driver, device>>

TypeOK ==
  /\ free \subseteq Descs
  /\ next \in [Descs -> Descs \cup {NULL}]
  /\ avail \in [Descs -> Descs \cup {NULL}] /\ used \in [Descs -> Descs \cup {NULL}]
  /\ {avail_idx, used_idx, seen_idx, taken_idx} \subseteq 0 .. UINT16 - 1
  /\ info \in [Descs -> Procs \cup {NULL}]
  /\ bdisk \in [Procs -> BOOLEAN]
  /\ pc \in [Procs -> {"idle", "alloc", "nodesc", "wait", "asleep"}]
  /\ head \in [Procs -> Descs \cup {NULL}]
  /\ intr \in {"no", "loop", "out"} /\ irq \in BOOLEAN
  /\ busy \subseteq Descs

\* virtio_disk_init.
Init ==
  /\ free = Descs
  /\ next = [i \in Descs |-> NULL]
  /\ avail = [i \in Descs |-> NULL] /\ used = [i \in Descs |-> NULL]
  /\ avail_idx = 0 /\ used_idx = 0 /\ seen_idx = 0 /\ taken_idx = 0
  /\ info = [i \in Descs |-> NULL]
  /\ bdisk = [p \in Procs |-> FALSE]
  /\ pc = [p \in Procs |-> "idle"]
  /\ head = [p \in Procs |-> NULL]
  /\ intr = "no" /\ irq = FALSE
  /\ busy = {}

--------------------------------------------------------------------------------
(* virtio_disk_rw.  No process runs while the interrupt handler does. *)

virtio_disk_rw(p) ==
  /\ intr = "no" /\ pc[p] = "idle"
  /\ pc' = [pc EXCEPT ![p] = "alloc"]
  /\ UNCHANGED <<free, next, avail, avail_idx, seen_idx, info, bdisk, head, intr, device>>

\* wakeup(&disk.free[0])
NoDescWoken == [q \in Procs |-> IF pc[q] = "nodesc" THEN "alloc" ELSE pc[q]]

avail_slot == avail_idx % NUM

\* The three lowest free descriptors become a chain, the device is told, and the
\* process sleeps until b->disk is 0, all under vdisk_lock.
submit(p) ==
  /\ intr = "no" /\ pc[p] = "alloc"
  /\ \E i0, i1, i2 \in free :
       /\ i0 < i1 /\ i1 < i2 /\ \A i \in free : i \in {i0, i1} \/ i >= i2
       /\ free' = free \ {i0, i1, i2}
       /\ next' = [next EXCEPT ![i0] = i1, ![i1] = i2, ![i2] = NULL]
       /\ info' = [info EXCEPT ![i0] = p]
       /\ avail' = [avail EXCEPT ![avail_slot] = i0]
       /\ head' = [head EXCEPT ![p] = i0]
  /\ avail_idx' = (avail_idx + 1) % UINT16
  /\ bdisk' = [bdisk EXCEPT ![p] = TRUE]
  /\ pc' = [pc EXCEPT ![p] = "asleep"]
  /\ UNCHANGED <<seen_idx, intr, device>>

\* alloc3_desc fails; giving back one or two descriptors wakes the others that wait.
alloc3_desc_fails(p) ==
  /\ intr = "no" /\ pc[p] = "alloc"
  /\ Cardinality(free) < 3
  /\ pc' = [(IF free = {} THEN pc ELSE NoDescWoken) EXCEPT ![p] = "nodesc"]
  /\ UNCHANGED <<free, next, avail, avail_idx, seen_idx, info, bdisk, head, intr, device>>

\* A process that was woken, by a kill, before its transfer is over.
wait_again(p) ==
  /\ intr = "no" /\ pc[p] = "wait" /\ bdisk[p]
  /\ pc' = [pc EXCEPT ![p] = "asleep"]
  /\ UNCHANGED <<free, next, avail, avail_idx, seen_idx, info, bdisk, head, intr, device>>

\* The descriptors of the request that starts at i.
chain(i) == {i, next[i], next[next[i]]}

free_chain(i) == chain(i)

finish(p) ==
  /\ intr = "no" /\ pc[p] = "wait" /\ ~bdisk[p]
  /\ info' = [info EXCEPT ![head[p]] = NULL]
  /\ free' = free \cup free_chain(head[p])
  /\ next' = [i \in Descs |-> IF i \in free_chain(head[p]) THEN NULL ELSE next[i]]
  /\ head' = [head EXCEPT ![p] = NULL]
  /\ pc' = [NoDescWoken EXCEPT ![p] = "idle"]
  /\ UNCHANGED <<avail, avail_idx, seen_idx, bdisk, intr, device>>

\* kkill makes a sleeping process runnable; the driver does not look at p->killed.
kkill(p) ==
  /\ intr = "no"
  /\ \/ pc[p] = "asleep" /\ pc' = [pc EXCEPT ![p] = "wait"]
     \/ pc[p] = "nodesc" /\ pc' = [pc EXCEPT ![p] = "alloc"]
  /\ UNCHANGED <<free, next, avail, avail_idx, seen_idx, info, bdisk, head, intr, device>>

--------------------------------------------------------------------------------
(* virtio_disk_intr *)

virtio_disk_intr ==
  /\ intr = "no" /\ irq
  /\ intr' = "loop"
  /\ irq' = FALSE
  /\ UNCHANGED <<free, next, avail, avail_idx, seen_idx, info, bdisk, pc, head,
                 used, used_idx, taken_idx, busy>>

\* wakeup(b)
entry_wakes(p) == [pc EXCEPT ![p] = IF @ = "asleep" THEN "wait" ELSE @]

\* One entry of the used ring.
intr_entry ==
  /\ intr = "loop" /\ seen_idx # used_idx
  /\ LET p == info[used[seen_idx % NUM]]
     IN  /\ p # NULL
         /\ bdisk' = [bdisk EXCEPT ![p] = FALSE]
         /\ pc' = entry_wakes(p)
  /\ used' = [used EXCEPT ![seen_idx % NUM] = NULL]
  /\ seen_idx' = (seen_idx + 1) % UINT16
  /\ UNCHANGED <<free, next, avail, avail_idx, info, head, intr, used_idx, irq, taken_idx, busy>>

\* The device may go on between the last test of the loop and the return.
intr_exit ==
  /\ intr = "loop" /\ seen_idx = used_idx
  /\ intr' = "out"
  /\ UNCHANGED <<free, next, avail, avail_idx, seen_idx, info, bdisk, pc, head, device>>

\* Mutant: the interrupt is acknowledged after the ring was read.
irq_after_cleared == FALSE

irq_after == irq

intr_return ==
  /\ intr = "out"
  /\ intr' = "no"
  /\ irq' = irq_after
  /\ UNCHANGED <<free, next, avail, avail_idx, seen_idx, info, bdisk, pc, head,
                 used, used_idx, taken_idx, busy>>

--------------------------------------------------------------------------------
(* The device *)

device_take ==
  /\ taken_idx # avail_idx
  /\ busy' = busy \cup {avail[taken_idx % NUM]}
  /\ avail' = [avail EXCEPT ![taken_idx % NUM] = NULL]
  /\ taken_idx' = (taken_idx + 1) % UINT16
  /\ UNCHANGED <<free, next, avail_idx, seen_idx, info, bdisk, pc, head, intr,
                 used, used_idx, irq>>

device_done(i) ==
  /\ i \in busy
  /\ busy' = busy \ {i}
  /\ used' = [used EXCEPT ![used_idx % NUM] = i]
  /\ used_idx' = (used_idx + 1) % UINT16
  /\ irq' = TRUE
  /\ UNCHANGED <<driver, taken_idx>>

ProcStep(p) == submit(p) \/ alloc3_desc_fails(p) \/ wait_again(p) \/ finish(p)

Next ==
  \/ \E p \in Procs : virtio_disk_rw(p) \/ ProcStep(p) \/ kkill(p)
  \/ virtio_disk_intr \/ intr_entry \/ intr_exit \/ intr_return
  \/ device_take
  \/ \E i \in Descs : device_done(i)

Spec == Init /\ [][Next]_vars

--------------------------------------------------------------------------------
(* Properties. *)

InFlight == {p \in Procs : head[p] # NULL}

\* The requests between two ring indices.
Between(ring, from, to) ==
  {ring[((from + k) % UINT16) % NUM] : k \in 0 .. ((to - from) % UINT16) - 1}

\* A transfer that is not over is in exactly one place: waiting in the avail ring,
\* with the device, or in the used ring; and what is there belongs to a process
\* that waits for it.  So no completion is lost or delivered twice, and the
\* handler never finds an entry without a buffer.  Every descriptor is free or in
\* the chain of exactly one request.
RequestsExact ==
  /\ \A p, q \in InFlight : p # q => chain(head[p]) \cap chain(head[q]) = {}
  /\ Descs \ free = UNION {chain(head[p]) : p \in InFlight}
  /\ LET waiting == Between(avail, taken_idx, avail_idx)
         done    == Between(used, seen_idx, used_idx)
     IN  /\ waiting \cap busy = {} /\ busy \cap done = {} /\ waiting \cap done = {}
         /\ waiting \cup busy \cup done = {head[p] : p \in {q \in Procs : bdisk[q]}}
         /\ \A p \in Procs : bdisk[p] => info[head[p]] = p /\ pc[p] \in {"wait", "asleep"}

\* No sleeper is forgotten: whoever sleeps on a transfer that the device has
\* finished has an interrupt coming, and nobody sleeps for descriptors while three
\* are free.
NoLostCompletion ==
  /\ seen_idx # used_idx => irq \/ intr = "loop"
  /\ \A p \in Procs : pc[p] = "asleep" => bdisk[p]
  /\ \A p \in Procs : pc[p] = "nodesc" => Cardinality(free) < 3
================================================================================
