------------------------------- MODULE MCInterrupt -------------------------------
(***************************************************************************)
(* What interrupt handlers share with processes, for TLC: the disk driver, *)
(* the console's input, its output, the scheduler with its clock, and the  *)
(* spin locks that turn interrupts off.  Each behaviour is one of a single *)
(* part, chosen in the initial state; the other parts stay as they start.  *)
(***************************************************************************)
EXTENDS Spinlock

CONSTANTS p1, p2, p3, x, nl, ctrl_d

VARIABLES
  part,
  free, next, avail, avail_idx, used, used_idx, seen_idx, info, bdisk, d_pc, head, d_intr,
  irq, taken_idx, busy,
  buf, r, w, e, c_pc, n, got, killed,
  in_fifo, thre, tx_busy, u_pc, left, sync,
  state, level, m_used, stamp, need_boost, ticks

disk == <<free, next, avail, avail_idx, used, used_idx, seen_idx, info, bdisk, d_pc, head,
          d_intr, irq, taken_idx, busy>>
cons == <<buf, r, w, e, c_pc, n, got, killed>>
uart == <<in_fifo, thre, tx_busy, u_pc, left, sync>>
mlfq == <<state, level, m_used, stamp, need_boost, ticks>>
allVars == <<part, disk, cons, uart, mlfq, vars>>

D == INSTANCE VirtioDisk WITH
       Procs <- {p1, p2, p3}, NUM <- 7, UINT16 <- 14, pc <- d_pc, intr <- d_intr

T == INSTANCE Console WITH
       Readers <- {p1, p2}, INPUT_BUF_SIZE <- 2, UINT <- 4, Chars <- {x, nl, ctrl_d},
       NL <- nl, EOF <- ctrl_d, MAXN <- 2, pc <- c_pc

U == INSTANCE Uart WITH
       Writers <- {p1, p2, p3}, MAXN <- 3, FIFO <- 4, pc <- u_pc, held <- in_fifo

\* MLFQ_SLICE: MLFQ_Q0_SLICE, MLFQ_Q1_SLICE and MLFQ_Q2_SLICE of param.h.
M == INSTANCE Mlfq WITH
       NPROC <- 3, MLFQ_LEVELS <- 3, MLFQ_SLICE <- [l \in 0 .. 2 |-> 2 ^ l],
       MLFQ_BOOST_TICKS <- 8, used <- m_used

ASSUME Constants /\ D!Constants /\ T!Constants /\ U!Constants /\ M!Constants

AllInit ==
  /\ part \in {"disk", "cons", "uart", "mlfq", "fork", "lock"}
  /\ D!Init /\ T!Init /\ U!Init /\ M!Init /\ Init
  /\ part \notin {"mlfq", "fork"} => M!Having("UNUSED") = M!Slots
  /\ part # "lock" => st[p1] = "RUNNABLE"

\* A child has stamp 0 and goes before all others, so NoStarvation does not hold
\* when processes keep forking, which is therefore a part of its own.
AllNext ==
  \/ part = "disk" /\ D!Next /\ UNCHANGED <<part, cons, uart, mlfq, vars>>
  \/ part = "cons" /\ T!Next /\ UNCHANGED <<part, disk, uart, mlfq, vars>>
  \/ part = "uart" /\ U!Next /\ UNCHANGED <<part, disk, cons, mlfq, vars>>
  \/ part = "mlfq" /\ M!SystemStep /\ UNCHANGED <<part, disk, cons, uart, vars>>
  \/ part = "fork" /\ M!Next /\ UNCHANGED <<part, disk, cons, uart, vars>>
  \/ part = "lock" /\ Next /\ UNCHANGED <<part, disk, cons, uart, mlfq>>

\* The timer ticks for ever, and the scheduler's loop goes on when no process runs.
\* Nothing is assumed of what the processes do.
FairSpec ==
  /\ AllInit /\ [][AllNext]_allVars
  /\ WF_mlfq(part = "mlfq" /\ M!scheduler)
  /\ WF_mlfq(part = "mlfq" /\ M!tick)

--------------------------------------------------------------------------------
(* The properties of the parts other than Spinlock, whose own are checked as they are. *)

\* virtio_disk.c: a transfer that is not over is in exactly one place, and none that
\* sleeps for it is forgotten.
RequestsExact == D!RequestsExact /\ D!NoLostCompletion

\* console.c: the ring is a queue of entered lines and one line being edited, and a reader
\* sleeps only while nothing has been entered.
ConsoleIsLineQueue == T!ConsoleIsLineQueue /\ []T!NoLostLine

\* uart.c: whoever waits for tx_busy waits for an interrupt that will come.
NoLostInterrupt == U!NoLostInterrupt

\* taskmgr.c: a process that can run does run at last, if no process is created,
\* whatever the others do: also one at the lowest level, while others sleep before
\* each tick and stay at level 0.
NoStarvation ==
  \A p \in M!Slots :
    (part = "mlfq" /\ state[p] = "RUNNABLE") ~> state[p] # "RUNNABLE"
================================================================================
