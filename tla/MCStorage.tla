------------------------------- MODULE MCStorage --------------------------------
(***************************************************************************)
(* The log and the buffer cache for TLC.  Each behaviour is one of a       *)
(* single part, chosen in the initial state.  The log has two: with two    *)
(* processes, and with three that write one block, without crashes.  It    *)
(* stays as it starts in the behaviours of the cache, whose variables are  *)
(* 0 in its own.                                                           *)
(***************************************************************************)
EXTENDS Log, TLC

CONSTANTS p1, p2, p3, c1, c2, c3, NULL

VARIABLES
  part,
  lru, blockno, valid, b_refcnt, data, holder, pinned, b_disk, b_pc, buf, dirty, latest

bio     == <<lru, blockno, valid, b_refcnt, data, holder, pinned, b_disk, b_pc, buf, dirty, latest>>
allVars == <<part, vars, bio>>

B == INSTANCE Bio WITH
       Procs <- {p1, p2}, Bufs <- {c1, c2, c3}, Values <- Vals, MAXPINS <- 1,
       refcnt <- b_refcnt, disk <- b_disk, pc <- b_pc

ASSUME B!Constants /\ B!BufferEach

NoBio ==
  /\ lru = 0 /\ blockno = 0 /\ valid = 0 /\ b_refcnt = 0 /\ data = 0 /\ holder = 0
  /\ pinned = 0 /\ b_disk = 0 /\ b_pc = 0 /\ buf = 0 /\ dirty = 0 /\ latest = 0

AllInit ==
  /\ part \in {"log", "admission", "bio"}
  /\ Init
  /\ part # "log" => disk = [b \in Blocks |-> Zero]
  /\ IF part = "bio" THEN B!Init /\ lru = <<c1, c2, c3>> ELSE NoBio

\* The steps of two processes, and those of three, without crashes and with one block in
\* use: two are in an operation while the third sleeps in begin_op.
LogNext == Next /\ pc'[p3] = "idle"
AdmissionNext ==
  /\ Next
  /\ ~Crash
  /\ Cardinality({b \in Blocks : cache'[b] # NoBuf \/ disk'[b] # Zero}) <= 1

AllNext ==
  \/ part = "log"       /\ LogNext       /\ UNCHANGED <<part, bio>>
  \/ part = "admission" /\ AdmissionNext /\ UNCHANGED <<part, bio>>
  \/ part = "bio"       /\ B!Next        /\ UNCHANGED <<part, vars>>

AllSpec == AllInit /\ [][AllNext]_allVars

\* Blocks are interchangeable, and so are the first two processes; of the buffers, which
\* are too, the first order is fixed instead.  The values are not, as Zero is one.
SpaceSymmetry == Permutations({p1, p2}) \cup Permutations(Blocks)

--------------------------------------------------------------------------------
(* The properties of the buffer cache. *)

\* bio.c: whoever holds a buffer sees what was last put into its block.
CacheCoherent == part = "bio" => B!CacheCoherent

\* bio.c, sleeplock.c: a block is in at most one buffer, reference counts are exact,
\* a process sleeps on a buffer only while another has it locked, and bget finds a buffer.
BuffersExact == part = "bio" => B!BufferRefsExact /\ B!NoLostRelease /\ B!NoBgetPanic
================================================================================
