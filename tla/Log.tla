---------------------------------- MODULE Log ----------------------------------
(***************************************************************************)
(* The write-ahead log of os/kernel/log.c, with the buffer cache entries   *)
(* it relies on, a disk that keeps its blocks over a crash, and the        *)
(* recovery that initlog runs at boot.                                     *)
(*                                                                         *)
(* The kernel has one core and a spinlock is held with interrupts off, so  *)
(* the code between acquire(&log.lock) and release (or sleep) is one step. *)
(* Each disk write is a step of its own: the process sleeps in             *)
(* virtio_disk_rw, and a crash can fall between any two of them.           *)
(***************************************************************************)
EXTENDS Integers, Sequences, FiniteSets

CONSTANTS
  Procs,        \* processes that run file-system calls
  Blocks,       \* home blocks
  Vals,         \* contents of a block
  Zero,         \* what mkfs leaves in an unused block
  NoBuf,        \* "not in the buffer cache" / "no buffer held"
  MAXOPBLOCKS,  \* blocks begin_op reserves for one operation
  LOGBLOCKS,    \* blocks the log can hold
  OpBlocks      \* distinct blocks one operation really writes

ASSUME LogAssumption ==
  /\ Zero \in Vals
  /\ NoBuf \notin Vals \cup Blocks
  /\ MAXOPBLOCKS \in Nat \ {0}
  /\ LOGBLOCKS \in Nat
  /\ MAXOPBLOCKS <= LOGBLOCKS
  /\ OpBlocks \in 1..MAXOPBLOCKS
  /\ IsFiniteSet(Procs)

VARIABLES
  disk,         \* home blocks on disk
  logblk,       \* data blocks of the on-disk log
  head,         \* on-disk log header: block[0..n-1]
  lh,           \* log.lh, the in-memory header
  outstanding,  \* log.outstanding
  committing,   \* log.committing
  tail,         \* loop index of write_log and install_trans
  cache,        \* buffer cache: contents of each cached home block
  pins,         \* references that bpin added to each buffer
  unlogged,     \* blocks whose buffer was released with a change that was not logged
  pc,           \* where each process is
  held,         \* the locked buffer a process has modified but not logged
  wrote,        \* blocks the current operation of a process has logged
  boot          \* where initlog is; "up" once the system runs

durableVars == <<disk, logblk, head>>
logVars == <<lh, outstanding, committing, tail>>
bufVars == <<cache, pins, unlogged>>
procVars == <<pc, held, wrote>>
vars == <<disk, logblk, head, lh, outstanding, committing, tail, cache, pins,
          unlogged, pc, held, wrote, boot>>

OpPC == {"inop", "modified"}
CommitPC == {"commit", "write_log", "write_head", "install", "erase", "finish"}
PC == {"idle", "sleeping", "woken"} \cup OpPC \cup CommitPC

Elems(s) == {s[i] : i \in 1..Len(s)}

\* What bread(b) returns.
Bread(b) == IF cache[b] # NoBuf THEN cache[b] ELSE disk[b]

\* wakeup(&log): every process asleep on the log is made runnable.
WakeLog(at) == [q \in Procs |-> IF at[q] = "sleeping" THEN "woken" ELSE at[q]]

--------------------------------------------------------------------------------
Init ==
  /\ disk \in [Blocks -> Vals]
  /\ logblk = [i \in 1..LOGBLOCKS |-> Zero]
  /\ head = <<>>
  /\ lh = <<>>
  /\ outstanding = 0
  /\ committing = FALSE
  /\ tail = 1
  /\ cache = [b \in Blocks |-> NoBuf]
  /\ pins = [b \in Blocks |-> 0]
  /\ unlogged = {}
  /\ pc = [p \in Procs |-> "idle"]
  /\ held = [p \in Procs |-> NoBuf]
  /\ wrote = [p \in Procs |-> {}]
  /\ boot = "read_head"

--------------------------------------------------------------------------------
(* Boot: initlog -> recover_from_log. *)

read_head ==
  /\ boot = "read_head"
  /\ lh' = head
  /\ tail' = 1
  /\ boot' = "install"
  /\ UNCHANGED <<durableVars, outstanding, committing, bufVars, procVars>>

\* One iteration of install_trans(recovering): the log block is copied to its
\* home block, through the cache, and written.
InstallOne ==
  /\ tail <= Len(lh)
  /\ disk' = [disk EXCEPT ![lh[tail]] = logblk[tail]]
  /\ cache' = [cache EXCEPT ![lh[tail]] = logblk[tail]]
  /\ tail' = tail + 1

recover_install ==
  /\ boot = "install"
  /\ InstallOne
  /\ UNCHANGED <<logblk, head, lh, outstanding, committing, pins, unlogged, procVars, boot>>

recover_clear ==
  /\ boot = "install"
  /\ tail > Len(lh)
  /\ lh' = <<>>
  /\ head' = <<>>
  /\ boot' = "up"
  /\ UNCHANGED <<disk, logblk, outstanding, committing, tail, bufVars, procVars>>

--------------------------------------------------------------------------------
(* begin_op, log_write and end_op. *)

\* Mutant: the reservation forgets the operation that is about to start.
begin_op_waits_short ==
  committing \/ Len(lh) + outstanding * MAXOPBLOCKS > LOGBLOCKS

begin_op_waits ==
  \/ committing
  \/ Len(lh) + (outstanding + 1) * MAXOPBLOCKS > LOGBLOCKS

begin_op_sleep(p) ==
  /\ boot = "up"
  /\ pc[p] \in {"idle", "woken"}
  /\ begin_op_waits
  /\ pc' = [pc EXCEPT ![p] = "sleeping"]
  /\ UNCHANGED <<durableVars, logVars, bufVars, held, wrote, boot>>

begin_op(p) ==
  /\ boot = "up"
  /\ pc[p] \in {"idle", "woken"}
  /\ ~begin_op_waits
  /\ outstanding' = outstanding + 1
  /\ pc' = [pc EXCEPT ![p] = "inop"]
  /\ wrote' = [wrote EXCEPT ![p] = {}]
  /\ UNCHANGED <<durableVars, lh, committing, tail, bufVars, held, boot>>

\* The caller's side of log_write, as in writei: bread(b), change b->data.  The
\* buffer stays locked (a sleeplock) until brelse.  An operation writes OpBlocks
\* blocks.
modify(p, b, v) ==
  /\ pc[p] = "inop"
  /\ \A q \in Procs : held[q] # b
  /\ b \in wrote[p] \/ Cardinality(wrote[p]) < OpBlocks
  /\ cache' = [cache EXCEPT ![b] = v]
  /\ held' = [held EXCEPT ![p] = b]
  /\ pc' = [pc EXCEPT ![p] = "modified"]
  /\ UNCHANGED <<durableVars, logVars, pins, unlogged, wrote, boot>>

\* either_copyin fails after it has copied some of its pages into b->data:
\* writei releases the buffer as it is, without log_write.  The change still
\* reaches the disk if the block is in the log already.
writei_fails(p) ==
  LET b == held[p] IN
  /\ pc[p] = "modified"
  /\ unlogged' = IF b \in Elems(lh) \/ cache[b] = disk[b] THEN unlogged \ {b}
                                                         ELSE unlogged \cup {b}
  /\ held' = [held EXCEPT ![p] = NoBuf]
  /\ pc' = [pc EXCEPT ![p] = "inop"]
  /\ UNCHANGED <<durableVars, logVars, cache, pins, wrote, boot>>

log_write_panics == Len(lh) >= LOGBLOCKS \/ outstanding < 1

\* Mutant: a new block is not pinned.
record_never_pins(b) ==
  /\ lh' = IF b \in Elems(lh) THEN lh ELSE Append(lh, b)
  /\ UNCHANGED pins

\* The search of log.lh: b is absorbed, or appended and pinned.
record(b) ==
  \/ /\ b \in Elems(lh)
     /\ UNCHANGED <<lh, pins>>
  \/ /\ b \notin Elems(lh)
     /\ lh' = Append(lh, b)
     /\ pins' = [pins EXCEPT ![b] = @ + 1]            \* bpin

\* log_write(held) and the brelse that follows it.
log_write(p) ==
  LET b == held[p] IN
  /\ pc[p] = "modified"
  /\ ~log_write_panics
  /\ record(b)
  /\ unlogged' = unlogged \ {b}
  /\ wrote' = [wrote EXCEPT ![p] = @ \cup {b}]
  /\ held' = [held EXCEPT ![p] = NoBuf]
  /\ pc' = [pc EXCEPT ![p] = "inop"]
  /\ UNCHANGED <<durableVars, outstanding, committing, tail, cache, boot>>

end_op_panics == committing

\* Mutant: an operation that is not the last wakes nobody.
end_op_silent(p) ==
  /\ pc[p] = "inop"
  /\ ~end_op_panics
  /\ outstanding' = outstanding - 1
  /\ committing' = (outstanding = 1)
  /\ pc' = [pc EXCEPT ![p] = IF outstanding = 1 THEN "commit" ELSE "idle"]
  /\ UNCHANGED <<durableVars, lh, tail, bufVars, held, wrote, boot>>

end_op(p) ==
  /\ pc[p] = "inop"
  /\ ~end_op_panics
  /\ outstanding' = outstanding - 1
  /\ \/ /\ outstanding = 1
        /\ committing' = TRUE
        /\ pc' = [pc EXCEPT ![p] = "commit"]
     \/ /\ outstanding # 1
        /\ pc' = WakeLog([pc EXCEPT ![p] = "idle"])
        /\ UNCHANGED committing
  /\ UNCHANGED <<durableVars, lh, tail, bufVars, held, wrote, boot>>

--------------------------------------------------------------------------------
(* commit(), run by the last end_op without holding log.lock. *)

\* Mutant: the header is written before the blocks it names.
commit_head_first(p) ==
  /\ pc[p] = "commit"
  /\ pc' = [pc EXCEPT ![p] = IF lh = <<>> THEN "finish" ELSE "write_head"]
  /\ tail' = 1
  /\ UNCHANGED <<durableVars, lh, outstanding, committing, bufVars, held, wrote, boot>>

commit(p) ==
  /\ pc[p] = "commit"
  /\ pc' = [pc EXCEPT ![p] = IF lh = <<>> THEN "finish" ELSE "write_log"]
  /\ tail' = 1
  /\ UNCHANGED <<durableVars, lh, outstanding, committing, bufVars, held, wrote, boot>>

write_log(p) ==
  /\ pc[p] = "write_log"
  /\ logblk' = [logblk EXCEPT ![tail] = Bread(lh[tail])]
  /\ cache' = [cache EXCEPT ![lh[tail]] = Bread(lh[tail])]
  /\ tail' = tail + 1
  /\ pc' = [pc EXCEPT ![p] = IF tail = Len(lh) THEN "write_head" ELSE "write_log"]
  /\ UNCHANGED <<disk, head, lh, outstanding, committing, pins, unlogged, held, wrote, boot>>

\* The commit point.
write_head(p) ==
  /\ pc[p] = "write_head"
  /\ head' = lh
  /\ tail' = 1
  /\ pc' = [pc EXCEPT ![p] = "install"]
  /\ UNCHANGED <<disk, logblk, lh, outstanding, committing, bufVars, held, wrote, boot>>

install_trans(p) ==
  /\ pc[p] = "install"
  /\ InstallOne
  /\ pins' = [pins EXCEPT ![lh[tail]] = @ - 1]       \* bunpin
  /\ pc' = [pc EXCEPT ![p] = IF tail = Len(lh) THEN "erase" ELSE "install"]
  /\ UNCHANGED <<logblk, head, lh, outstanding, committing, unlogged, held, wrote, boot>>

\* log.lh.n = 0; write_head().
erase(p) ==
  /\ pc[p] = "erase"
  /\ lh' = <<>>
  /\ head' = <<>>
  /\ pc' = [pc EXCEPT ![p] = "finish"]
  /\ UNCHANGED <<disk, logblk, outstanding, committing, tail, bufVars, held, wrote, boot>>

\* The end of end_op after commit() returns.
end_commit(p) ==
  /\ pc[p] = "finish"
  /\ committing' = FALSE
  /\ pc' = WakeLog([pc EXCEPT ![p] = "idle"])
  /\ UNCHANGED <<durableVars, lh, outstanding, tail, bufVars, held, wrote, boot>>

--------------------------------------------------------------------------------
(* The buffer cache around the log, and crashes. *)

\* A process reads a block that is not cached.
read_block(b) ==
  /\ boot = "up"
  /\ cache[b] = NoBuf
  /\ cache' = [cache EXCEPT ![b] = disk[b]]
  /\ UNCHANGED <<durableVars, logVars, pins, unlogged, procVars, boot>>

\* bget recycles a buffer nobody refers to; its contents are dropped.
recycle(b) ==
  /\ boot = "up"
  /\ cache[b] # NoBuf
  /\ pins[b] = 0
  /\ \A p \in Procs : held[p] # b
  /\ cache' = [cache EXCEPT ![b] = NoBuf]
  /\ unlogged' = unlogged \ {b}
  /\ UNCHANGED <<durableVars, logVars, pins, procVars, boot>>

\* Power fails: the disk keeps its blocks, memory is lost, the kernel boots.
Crash ==
  /\ lh' = <<>>
  /\ outstanding' = 0
  /\ committing' = FALSE
  /\ tail' = 1
  /\ cache' = [b \in Blocks |-> NoBuf]
  /\ pins' = [b \in Blocks |-> 0]
  /\ unlogged' = {}
  /\ pc' = [p \in Procs |-> "idle"]
  /\ held' = [p \in Procs |-> NoBuf]
  /\ wrote' = [p \in Procs |-> {}]
  /\ boot' = "read_head"
  /\ UNCHANGED durableVars

--------------------------------------------------------------------------------
recover == read_head \/ recover_install \/ recover_clear

Next ==
  \/ recover
  \/ \E p \in Procs :
       \/ begin_op_sleep(p)
       \/ begin_op(p)
       \/ \E b \in Blocks, v \in Vals : modify(p, b, v)
       \/ writei_fails(p)
       \/ log_write(p)
       \/ end_op(p)
       \/ commit(p)
       \/ write_log(p)
       \/ write_head(p)
       \/ install_trans(p)
       \/ erase(p)
       \/ end_commit(p)
  \/ \E b \in Blocks : read_block(b) \/ recycle(b)
  \/ Crash

Spec == Init /\ [][Next]_vars

--------------------------------------------------------------------------------
(* Properties. *)

\* Every variable of log.c and of the model keeps its type; in particular the
\* in-memory header never outgrows block[LOGBLOCKS].
TypeOK ==
  /\ disk \in [Blocks -> Vals]
  /\ logblk \in [1..LOGBLOCKS -> Vals]
  /\ head \in Seq(Blocks) /\ Len(head) <= LOGBLOCKS
  /\ lh \in Seq(Blocks) /\ Len(lh) <= LOGBLOCKS
  /\ outstanding \in Nat
  /\ committing \in BOOLEAN
  /\ tail \in 1..(LOGBLOCKS + 1)
  /\ cache \in [Blocks -> Vals \cup {NoBuf}]
  /\ pins \in [Blocks -> Nat]
  /\ unlogged \subseteq Blocks
  /\ pc \in [Procs -> PC]
  /\ held \in [Procs -> Blocks \cup {NoBuf}]
  /\ wrote \in [Procs -> SUBSET Blocks]
  /\ boot \in {"read_head", "install", "up"}

\* None of the panics of log.c is reached: log_write finds room in the log that
\* begin_op reserved and an operation in progress, and no operation ends while
\* a commit is running.
NoLogPanic ==
  \A p \in Procs :
    /\ pc[p] = "modified" => ~log_write_panics
    /\ pc[p] = "inop" => ~end_op_panics

\* What a reboot would recover: a committed header overlays its log blocks on
\* the home blocks.
Durable ==
  [b \in Blocks |->
     IF b \in Elems(head)
     THEN logblk[CHOOSE i \in 1..Len(head) : head[i] = b]
     ELSE disk[b]]

\* What the operations have logged, on top of that.
Logged ==
  [b \in Blocks |-> IF boot = "up" /\ b \in Elems(lh) THEN Bread(b) ELSE Durable[b]]

\* log.c refines a disk on which groups of operations become durable atomically
\* and only when no operation is running: neither a crash at any point of
\* commit() or of recovery nor a recycled buffer shows a partial group, a new
\* group starts only when the previous one is durable, and a change that was
\* never logged becomes durable only with a group that logs its block.
Abs == INSTANCE AtomicDisk WITH
         durable <- Durable,
         current <- Logged,
         active  <- outstanding

AtomicGroups == Abs!DiskSpec

\* A buffer that bget may recycle holds what the disk holds: the pins of
\* log_write keep every logged change in the cache until install_trans has
\* written it home.  The one change that can be dropped is the one a failing
\* writei released without logging.
RecyclableIsClean ==
  \A b \in Blocks :
    (/\ boot = "up"
     /\ cache[b] # NoBuf
     /\ pins[b] = 0
     /\ \A p \in Procs : held[p] # b) => cache[b] = disk[b] \/ b \in unlogged

\* bpin and bunpin balance: outside a commit exactly the logged blocks are
\* pinned, once each, however often they were absorbed.
PinsBalance ==
  (boot = "up" /\ ~committing) =>
    \A b \in Blocks : pins[b] = IF b \in Elems(lh) THEN 1 ELSE 0

\* A process sleeps in begin_op only while what it waits for is missing (a commit
\* is running or the log has no room for one more operation) and somebody is there
\* to wake it: neither an end_op that gives room back nor the end of a commit
\* leaves a sleeper behind.
NoLostSleeper ==
  \A p \in Procs : pc[p] = "sleeping" =>
    begin_op_waits /\ (outstanding > 0 \/ committing)
================================================================================
