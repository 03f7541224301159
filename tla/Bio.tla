----------------------------------- MODULE Bio -----------------------------------
(***************************************************************************)
(* The buffer cache of os/kernel/bio.c with the sleep-locks of             *)
(* os/kernel/sleeplock.c that guard the buffers.                           *)
(*                                                                         *)
(* A process uses one buffer at a time: bread, any changes, bwrite or (as  *)
(* log_write does) bpin, brelse.  It may release a changed buffer without  *)
(* either, as writei does when either_copyin fails.  bcache.lock and the   *)
(* spinlock inside a sleep-lock make single steps; a disk transfer takes   *)
(* two, between which the process sleeps.  The transfers themselves are in *)
(* VirtioDisk.                                                             *)
(***************************************************************************)
EXTENDS Integers, FiniteSets, Functions

CONSTANTS
  Procs, Bufs, Blocks, Values, NULL,
  MAXPINS       \* how many buffers the log keeps pinned

\* What the constants must satisfy.
Constants ==
  /\ IsFiniteSet(Procs) /\ IsFiniteSet(Bufs)
  /\ NULL \notin Procs \cup Bufs \cup Blocks \cup Values

\* Every process finds a buffer that the log has not pinned.
BufferEach == MAXPINS \in Nat /\ MAXPINS + Cardinality(Procs) <= Cardinality(Bufs)

VARIABLES
  lru,                          \* bcache.head, the most recently used first
  blockno, valid, refcnt, data, \* fields of the buffers
  holder,                       \* the process that has b->lock
  pinned,                       \* the buffers with a reference of the log
  disk,                         \* the blocks on the disk
  pc, buf,                      \* where each process is, and its buffer
  dirty,                        \* the buffers with a change that is neither written nor logged
  latest                        \* what was last put into each block, and not lost since

cache == <<lru, blockno, valid, refcnt, data, holder, pinned>>
vars == <<cache, disk, pc, buf, dirty, latest>>

TypeOK ==
  /\ lru \in [1 .. Cardinality(Bufs) -> Bufs]
  /\ blockno \in [Bufs -> Blocks \cup {NULL}]
  /\ valid \in [Bufs -> BOOLEAN]
  /\ refcnt \in [Bufs -> Nat]
  /\ data \in [Bufs -> Values \cup {NULL}]
  /\ holder \in [Bufs -> Procs \cup {NULL}]
  /\ pinned \subseteq Bufs
  /\ disk \in [Blocks -> Values]
  /\ pc \in [Procs -> {"idle", "lock", "asleep", "locked", "reading", "hold", "writing", "released"}]
  /\ buf \in [Procs -> Bufs \cup {NULL}]
  /\ dirty \subseteq Bufs
  /\ latest \in [Blocks -> Values]

\* binit.  The device number of an unused buffer is 0, which no block has.
Init ==
  /\ lru \in Bijection(1 .. Cardinality(Bufs), Bufs)
  /\ blockno = [b \in Bufs |-> NULL]
  /\ valid = [b \in Bufs |-> FALSE]
  /\ refcnt = [b \in Bufs |-> 0]
  /\ data = [b \in Bufs |-> NULL]
  /\ holder = [b \in Bufs |-> NULL]
  /\ pinned = {}
  /\ disk \in [Blocks -> Values]
  /\ pc = [p \in Procs |-> "idle"]
  /\ buf = [p \in Procs |-> NULL]
  /\ dirty = {}
  /\ latest = disk

Move(p, to) == pc' = [pc EXCEPT ![p] = to]

--------------------------------------------------------------------------------
(* bget *)

Cached(blk) == {b \in Bufs : blockno[b] = blk}

bget_hit(p, blk) ==
  /\ pc[p] = "idle"
  /\ \E b \in Cached(blk) :
       /\ refcnt' = [refcnt EXCEPT ![b] = @ + 1]
       /\ buf' = [buf EXCEPT ![p] = b]
  /\ Move(p, "lock")
  /\ UNCHANGED <<lru, blockno, valid, data, holder, pinned, disk, dirty, latest>>

unused(b) == refcnt[b] = 0

\* The least recently used buffer without references.
Victim(b) ==
  \E i \in DOMAIN lru :
    /\ lru[i] = b /\ unused(b)
    /\ \A j \in DOMAIN lru : j > i => ~unused(lru[j])

\* Mutant: the new buffer keeps the valid bit of its last block.
recycled_valid_kept(b) == valid

recycled_valid(b) == [valid EXCEPT ![b] = FALSE]

\* panic("bget: no buffers") if there is none.  A change of the old block that was
\* neither written nor logged is lost.
bget_recycle(p, blk) ==
  /\ pc[p] = "idle"
  /\ Cached(blk) = {}
  /\ \E b \in Bufs :
       /\ Victim(b)
       /\ blockno' = [blockno EXCEPT ![b] = blk]
       /\ valid' = recycled_valid(b)
       /\ refcnt' = [refcnt EXCEPT ![b] = 1]
       /\ buf' = [buf EXCEPT ![p] = b]
       /\ dirty' = dirty \ {b}
       /\ latest' = [k \in Blocks |-> IF b \in dirty /\ k = blockno[b] THEN disk[k] ELSE latest[k]]
  /\ Move(p, "lock")
  /\ UNCHANGED <<lru, data, holder, pinned, disk>>

--------------------------------------------------------------------------------
(* Sleep-locks *)

acquiresleep(p) ==
  /\ pc[p] = "lock"
  /\ holder[buf[p]] = NULL
  /\ holder' = [holder EXCEPT ![buf[p]] = p]
  /\ Move(p, "locked")
  /\ UNCHANGED <<lru, blockno, valid, refcnt, data, pinned, disk, buf, dirty, latest>>

acquiresleep_sleep(p) ==
  /\ pc[p] = "lock"
  /\ holder[buf[p]] # NULL
  /\ Move(p, "asleep")
  /\ UNCHANGED <<cache, disk, buf, dirty, latest>>

\* Mutant: nobody is woken.
woken_none(b) == pc

\* wakeup(lk) in releasesleep.
woken(b) == [q \in Procs |-> IF pc[q] = "asleep" /\ buf[q] = b THEN "lock" ELSE pc[q]]

--------------------------------------------------------------------------------
(* bread, bwrite, brelse, bpin, bunpin *)

bread_valid(p) ==
  /\ pc[p] = "locked" /\ valid[buf[p]]
  /\ Move(p, "hold")
  /\ UNCHANGED <<cache, disk, buf, dirty, latest>>

bread_read(p) ==
  /\ pc[p] = "locked" /\ ~valid[buf[p]]
  /\ Move(p, "reading")
  /\ UNCHANGED <<cache, disk, buf, dirty, latest>>

bread_done(p) ==
  /\ pc[p] = "reading"
  /\ data' = [data EXCEPT ![buf[p]] = disk[blockno[buf[p]]]]
  /\ valid' = [valid EXCEPT ![buf[p]] = TRUE]
  /\ Move(p, "hold")
  /\ UNCHANGED <<lru, blockno, refcnt, holder, pinned, disk, buf, dirty, latest>>

\* The user of the buffer changes its data.
change(p, v) ==
  /\ pc[p] = "hold" /\ data[buf[p]] # v
  /\ data' = [data EXCEPT ![buf[p]] = v]
  /\ latest' = [latest EXCEPT ![blockno[buf[p]]] = v]
  /\ dirty' = IF disk[blockno[buf[p]]] = v THEN dirty \ {buf[p]} ELSE dirty \cup {buf[p]}
  /\ UNCHANGED <<lru, blockno, valid, refcnt, holder, pinned, disk, pc, buf>>

bwrite(p) ==
  /\ pc[p] = "hold"
  /\ Move(p, "writing")
  /\ UNCHANGED <<cache, disk, buf, dirty, latest>>

bwrite_done(p) ==
  /\ pc[p] = "writing"
  /\ disk' = [disk EXCEPT ![blockno[buf[p]]] = data[buf[p]]]
  /\ dirty' = dirty \ {buf[p]}
  /\ Move(p, "hold")
  /\ UNCHANGED <<cache, buf, latest>>

\* log_write: the log keeps the block in the cache.  It pins a block once.
bpin(p) ==
  /\ pc[p] = "hold"
  /\ buf[p] \notin pinned => Cardinality(pinned) < MAXPINS
  /\ refcnt' = [refcnt EXCEPT ![buf[p]] = IF buf[p] \in pinned THEN @ ELSE @ + 1]
  /\ pinned' = pinned \cup {buf[p]}
  /\ dirty' = dirty \ {buf[p]}
  /\ UNCHANGED <<lru, blockno, valid, data, holder, disk, pc, buf, latest>>

\* install_trans: the block is on the disk now.
bunpin(p) ==
  /\ pc[p] = "hold"
  /\ buf[p] \in pinned /\ disk[blockno[buf[p]]] = data[buf[p]]
  /\ refcnt' = [refcnt EXCEPT ![buf[p]] = @ - 1]
  /\ pinned' = pinned \ {buf[p]}
  /\ UNCHANGED <<lru, blockno, valid, data, holder, disk, pc, buf, dirty, latest>>

\* Up to the acquire of bcache.lock.
brelse(p) ==
  /\ pc[p] = "hold"
  /\ holder' = [holder EXCEPT ![buf[p]] = NULL]
  /\ pc' = [woken(buf[p]) EXCEPT ![p] = "released"]
  /\ UNCHANGED <<lru, blockno, valid, refcnt, data, pinned, disk, buf, dirty, latest>>

\* b is unlinked, and linked again behind the head.
to_front(b) ==
  LET i == CHOOSE k \in DOMAIN lru : lru[k] = b
  IN  [j \in DOMAIN lru |-> IF j = 1 THEN b ELSE IF j <= i THEN lru[j - 1] ELSE lru[j]]

brelse_unref(p) ==
  /\ pc[p] = "released"
  /\ refcnt' = [refcnt EXCEPT ![buf[p]] = @ - 1]
  /\ lru' = IF refcnt[buf[p]] = 1 THEN to_front(buf[p]) ELSE lru
  /\ buf' = [buf EXCEPT ![p] = NULL]
  /\ Move(p, "idle")
  /\ UNCHANGED <<blockno, valid, data, holder, pinned, disk, dirty, latest>>

Next ==
  \E p \in Procs :
    \/ \E blk \in Blocks : bget_hit(p, blk) \/ bget_recycle(p, blk)
    \/ acquiresleep(p) \/ acquiresleep_sleep(p)
    \/ bread_valid(p) \/ bread_read(p) \/ bread_done(p)
    \/ \E v \in Values : change(p, v)
    \/ bwrite(p) \/ bwrite_done(p) \/ bpin(p) \/ bunpin(p)
    \/ brelse(p) \/ brelse_unref(p)

Spec == Init /\ [][Next]_vars

--------------------------------------------------------------------------------
(* Properties. *)

\* Whoever holds a buffer sees what was last put into its block, by any process
\* and however often the buffer was recycled in between.  Only a change released
\* without bwrite or bpin can be lost, when its buffer is recycled, and the block
\* is then as the disk has it: no stale contents, and none of another block.
CacheCoherent ==
  \A p \in Procs : pc[p] \in {"hold", "writing"} =>
    data[buf[p]] = latest[blockno[buf[p]]] /\ holder[buf[p]] = p

\* A block is in at most one buffer, and a buffer's reference count is the number
\* of processes that use or wait for it and of the log's pins: no buffer is
\* recycled while anybody counts on it.
BufferRefsExact ==
  /\ \A b, c \in Bufs : b # c /\ blockno[b] # NULL => blockno[b] # blockno[c]
  /\ \A b \in Bufs :
       refcnt[b] = Cardinality({p \in Procs : buf[p] = b}) + (IF b \in pinned THEN 1 ELSE 0)

\* A process sleeps on a buffer only while another one has it locked.
NoLostRelease ==
  \A p \in Procs : pc[p] = "asleep" => holder[buf[p]] \notin {NULL, p}

\* bget finds a buffer unless the log's pins and the buffers in use are as many as there
\* are buffers: it does not panic because the list lost one, or kept a reference.
NoBgetPanic ==
  Cardinality(pinned) + Cardinality({p \in Procs : buf[p] # NULL}) < Cardinality(Bufs) =>
    \E i \in DOMAIN lru : unused(lru[i])
================================================================================
