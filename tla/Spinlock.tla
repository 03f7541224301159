--------------------------------- MODULE Spinlock ---------------------------------
(***************************************************************************)
(* Spin locks, interrupts and context switches on the one CPU:             *)
(* os/kernel/spinlock.c, the traps of irqtrap.c and the switching of       *)
(* taskmgr.c.  With one CPU a lock is never waited for: acquire panics     *)
(* when the lock is taken.  What keeps that from happening is that         *)
(* interrupts are off while a lock is held, which noff and intena have to  *)
(* get right across nested locks, traps and switches.                      *)
(*                                                                         *)
(* What a system call does between its locks is left open: it takes and    *)
(* gives back any of Locks, sleeps, forks, exits or returns.  The lock of  *)
(* a process goes by the name of the process.                              *)
(***************************************************************************)
EXTENDS Integers, FiniteSets

CONSTANTS
  Procs,
  Locks,        \* the other locks: tickslock, those of the devices, of the tables...
  SCHED,        \* the context of the scheduler
  NULL

Constants ==
  /\ IsFiniteSet(Procs) /\ IsFiniteSet(Locks)
  /\ Procs \cap Locks = {}
  /\ SCHED \notin Procs /\ NULL \notin Procs \cup Locks

C == Procs \cup {SCHED}

VARIABLES
  intr,         \* sstatus.SIE
  noff, intena, \* of struct cpu
  held,         \* the locks that are taken
  cur,          \* whose context the CPU is in
  pc,           \* where each context is
  ret,          \* where the trap that it is in returns to
  depth,        \* traps from the kernel on its stack
  hl,           \* the lock that the handler of the interrupt takes
  own,          \* the locks that a system call holds
  lk,           \* the lock given to sleep
  saved,        \* the intena of sched, while it is switched out
  off,          \* whether its path in the kernel began with interrupts off
  best,         \* the process that the scheduler switched to
  st,           \* p->state
  first,        \* of forkret
  panic

cpu == <<intr, noff, intena, held, panic>>
frames == <<ret, depth, hl>>
vars == <<cpu, frames, cur, pc, own, lk, saved, off, best, st, first>>

Init ==
  /\ intr = FALSE /\ noff = 0 /\ intena = FALSE /\ held = {} /\ panic = FALSE
  /\ cur = SCHED
  /\ \E p \in Procs :
       /\ pc = [c \in C |-> CASE c = SCHED -> "loop" [] c = p -> "forkret" [] OTHER -> "unused"]
       /\ st = [q \in Procs |-> IF q = p THEN "RUNNABLE" ELSE "UNUSED"]
  /\ ret = [c \in C |-> "user"] /\ depth = [c \in C |-> 0]
  /\ hl = [c \in C |-> NULL]
  /\ own = [p \in Procs |-> {}]
  /\ lk = [p \in Procs |-> NULL]
  /\ saved = [p \in Procs |-> FALSE] /\ off = [p \in Procs |-> FALSE]
  /\ best = NULL
  /\ first = TRUE

--------------------------------------------------------------------------------
(* spinlock.c *)

\* Mutant: push_off only counts.
push_intr_kept == intr

\* What push_off does with interrupts, and what it remembers.
push_intr == FALSE
push_intena(old) == IF noff = 0 THEN old ELSE intena

\* acquire(l): push_off, and a panic if the lock is taken.
acquire(l) ==
  /\ intr' = push_intr
  /\ intena' = push_intena(intr)
  /\ noff' = noff + 1
  /\ held' = held \cup {l}
  /\ panic' = (panic \/ l \in held)

\* release(l): a panic if it is not held, and pop_off with its two.
release(l) ==
  /\ noff' = noff - 1
  /\ intr' = (intr \/ (noff = 1 /\ intena))
  /\ held' = held \ {l}
  /\ panic' = (panic \/ l \notin held \/ intr \/ noff < 1)
  /\ UNCHANGED intena

--------------------------------------------------------------------------------
(* Into the kernel and out of it. *)

Goto(c, to) == pc' = [pc EXCEPT ![c] = to]
In(c, at) == cur = c /\ pc[c] = at

\* usertrap for a system call, which turns interrupts on, or for an exception.
usertrap(p) ==
  /\ In(p, "user")
  /\ \E fault \in BOOLEAN : intr' = ~fault /\ off' = [off EXCEPT ![p] = fault]
  /\ Goto(p, "kernel")
  /\ UNCHANGED <<noff, intena, held, panic, frames, cur, own, lk, saved, best, st, first>>

\* prepare_return, userret and sret.
prepare_return(p) ==
  /\ cur = p
  /\ \/ pc[p] = "kernel" /\ own[p] = {}
     \/ pc[p] = "leave"
  /\ intr' = TRUE
  /\ off' = [off EXCEPT ![p] = FALSE]
  /\ Goto(p, "user")
  /\ UNCHANGED <<noff, intena, held, panic, frames, cur, own, lk, saved, best, st, first>>

\* An interrupt of user code.
user_interrupt(p) ==
  /\ In(p, "user") /\ intr
  /\ intr' = FALSE
  /\ ret' = [ret EXCEPT ![p] = "user"]
  /\ Goto(p, "devintr")
  /\ UNCHANGED <<noff, intena, held, panic, depth, hl, cur, own, lk, saved, off, best, st, first>>

\* An interrupt of the kernel: kernelvec and kerneltrap, which keeps sstatus.
kerneltrap(c) ==
  /\ cur = c /\ pc[c] # "user" /\ intr
  /\ intr' = FALSE
  /\ ret' = [ret EXCEPT ![c] = pc[c]]
  /\ depth' = [depth EXCEPT ![c] = @ + 1]
  /\ Goto(c, "devintr")
  /\ UNCHANGED <<noff, intena, held, panic, hl, cur, own, lk, saved, off, best, st, first>>

\* devintr: a handler takes a lock, and so does the clock.
devintr(c, l) ==
  /\ In(c, "devintr")
  /\ acquire(l)
  /\ hl' = [hl EXCEPT ![c] = l]
  /\ Goto(c, "handler")
  /\ UNCHANGED <<ret, depth, cur, own, lk, saved, off, best, st, first>>

Others(c) == Procs \ {c}

\* wakeup takes and gives back the lock of every other process.
wakeup(c, W) ==
  /\ W \subseteq {p \in Others(c) : st[p] = "SLEEPING"}
  /\ st' = [p \in Procs |-> IF p \in W THEN "RUNNABLE" ELSE st[p]]

\* It wakes some processes and is done.  The clock's gives up the CPU if there is a
\* process; a trap from user space ends in kexit if the process was killed.
handler(c, W, to) ==
  /\ In(c, "handler")
  /\ wakeup(c, W)
  /\ noff' = noff - 1
  /\ intr' = (intr \/ (noff = 1 /\ intena))
  /\ held' = held \ {hl[c]}
  /\ panic' = (panic \/ hl[c] \notin held \/ intr \/ noff < 1 \/ held \cap Others(c) # {})
  /\ hl' = [hl EXCEPT ![c] = NULL]
  /\ \/ to = "return" /\ UNCHANGED off
     \/ to = "yield" /\ c # SCHED /\ UNCHANGED off
     \/ to = "kernel" /\ c # SCHED /\ ret[c] = "user" /\ off' = [off EXCEPT ![c] = TRUE]
  /\ Goto(c, to)
  /\ UNCHANGED <<intena, ret, depth, cur, own, lk, saved, best, first>>

\* The end of usertrap or kerneltrap, which puts sstatus back.
trap_return(c) ==
  /\ In(c, "return")
  /\ intr' = TRUE
  /\ Goto(c, ret[c])
  /\ ret' = [ret EXCEPT ![c] = "user"]
  /\ depth' = [depth EXCEPT ![c] = IF ret[c] = "user" THEN @ ELSE @ - 1]
  /\ UNCHANGED <<noff, intena, held, panic, hl, cur, own, lk, saved, off, best, st, first>>

--------------------------------------------------------------------------------
(* System calls. *)

lock(p, l) ==
  /\ In(p, "kernel") /\ l \notin own[p]
  /\ acquire(l)
  /\ own' = [own EXCEPT ![p] = @ \cup {l}]
  /\ UNCHANGED <<frames, cur, pc, lk, saved, off, best, st, first>>

unlock(p, l) ==
  /\ In(p, "kernel") /\ l \in own[p]
  /\ release(l)
  /\ own' = [own EXCEPT ![p] = @ \ {l}]
  /\ UNCHANGED <<frames, cur, pc, lk, saved, off, best, st, first>>

\* wakeup, and with W = {} kkill or killed, which take the lock of one process.
touch(p, W) ==
  /\ In(p, "kernel")
  /\ wakeup(p, W)
  /\ panic' = (panic \/ held \cap Procs # {})
  /\ intena' = push_intena(intr)
  /\ UNCHANGED <<intr, noff, held, frames, cur, pc, own, lk, saved, off, best, first>>

\* allocproc and the end of kfork, each of which takes and gives back the child's lock.
kfork(p, q) ==
  /\ In(p, "kernel") /\ own[p] = {}
  /\ st[q] = "UNUSED"
  /\ panic' = (panic \/ q \in held)
  /\ intena' = push_intena(intr)
  /\ st' = [st EXCEPT ![q] = "RUNNABLE"]
  /\ Goto(q, "forkret")
  /\ UNCHANGED <<intr, noff, held, frames, cur, own, lk, saved, off, best, first>>

\* kwait frees a zombie.
kwait(p, q) ==
  /\ In(p, "kernel") /\ own[p] = {}
  /\ st[q] = "ZOMBIE"
  /\ panic' = (panic \/ q \in held)
  /\ intena' = push_intena(intr)
  /\ st' = [st EXCEPT ![q] = "UNUSED"]
  /\ Goto(q, "unused")
  /\ off' = [off EXCEPT ![q] = FALSE] /\ saved' = [saved EXCEPT ![q] = FALSE]
  /\ UNCHANGED <<intr, noff, held, frames, cur, own, lk, best, first>>

\* sleep(chan, l) up to sched, in two steps; the caller holds l and nothing else.
sleep(p, l) ==
  /\ In(p, "kernel") /\ own[p] = {l}
  /\ acquire(p)
  /\ lk' = [lk EXCEPT ![p] = l]
  /\ Goto(p, "sleep")
  /\ UNCHANGED <<frames, cur, own, saved, off, best, st, first>>

sleep_release(p) ==
  /\ In(p, "sleep")
  /\ release(lk[p])
  /\ own' = [own EXCEPT ![p] = {}]
  /\ st' = [st EXCEPT ![p] = "SLEEPING"]
  /\ Goto(p, "sched_sleep")
  /\ UNCHANGED <<frames, cur, lk, saved, off, best, first>>

\* yield, from a clock interrupt.
yield(p) ==
  /\ In(p, "yield")
  /\ acquire(p)
  /\ st' = [st EXCEPT ![p] = "RUNNABLE"]
  /\ Goto(p, "sched_yield")
  /\ UNCHANGED <<frames, cur, own, lk, saved, off, best, first>>

\* kexit after its cleanup: wait_lock, which is taken and given back, is one of Locks.
kexit(p) ==
  /\ In(p, "kernel") /\ own[p] = {}
  /\ acquire(p)
  /\ st' = [st EXCEPT ![p] = "ZOMBIE"]
  /\ Goto(p, "sched_exit")
  /\ UNCHANGED <<frames, cur, own, lk, saved, off, best, first>>

After(at) == CASE at = "sched_yield" -> "yielded" [] at = "sched_sleep" -> "slept" [] OTHER -> "zombie"

\* sched up to swtch.
sched(p) ==
  /\ cur = p /\ pc[p] \in {"sched_yield", "sched_sleep", "sched_exit"}
  /\ panic' = (panic \/ p \notin held \/ noff # 1 \/ intr \/ st[p] = "RUNNING")
  /\ saved' = [saved EXCEPT ![p] = intena]
  /\ cur' = SCHED
  /\ Goto(p, After(pc[p]))
  /\ UNCHANGED <<intr, noff, intena, held, frames, own, lk, off, best, st, first>>

\* The rest of yield and sleep.
yield_release(p) ==
  /\ In(p, "yielded")
  /\ release(p)
  /\ Goto(p, "return")
  /\ UNCHANGED <<frames, cur, own, lk, saved, off, best, st, first>>

slept_release(p) ==
  /\ In(p, "slept")
  /\ release(p)
  /\ Goto(p, "woken")
  /\ UNCHANGED <<frames, cur, own, lk, saved, off, best, st, first>>

sleep_acquire(p) ==
  /\ In(p, "woken")
  /\ acquire(lk[p])
  /\ own' = [own EXCEPT ![p] = {lk[p]}]
  /\ lk' = [lk EXCEPT ![p] = NULL]
  /\ Goto(p, "kernel")
  /\ UNCHANGED <<frames, cur, saved, off, best, st, first>>

\* The first process starts the file system in the kernel, with interrupts off.
forkret(p) ==
  /\ In(p, "forkret")
  /\ release(p)
  /\ Goto(p, IF first THEN "kernel" ELSE "leave")
  /\ off' = [off EXCEPT ![p] = first]
  /\ first' = FALSE
  /\ UNCHANGED <<frames, cur, own, lk, saved, best, st>>

--------------------------------------------------------------------------------
(* The scheduler. *)

scheduler_on ==
  /\ In(SCHED, "loop")
  /\ intr' = TRUE
  /\ Goto(SCHED, "on")
  /\ UNCHANGED <<noff, intena, held, panic, frames, cur, own, lk, saved, off, best, st, first>>

scheduler_off ==
  /\ In(SCHED, "on")
  /\ intr' = FALSE
  /\ Goto(SCHED, "scan")
  /\ UNCHANGED <<noff, intena, held, panic, frames, cur, own, lk, saved, off, best, st, first>>

\* Mutant: intena stays what it was when the scheduler switched.
resumed_intena_none(p) == intena

\* intena after swtch: sched puts it back; forkret has none to put back.
resumed_intena(p) == IF pc[p] = "forkret" THEN push_intena(intr) ELSE saved[p]

\* The scan takes every process's lock and keeps that of the one to run.
scheduler_run(p) ==
  /\ In(SCHED, "scan")
  /\ st[p] = "RUNNABLE"
  /\ st' = [st EXCEPT ![p] = "RUNNING"]
  /\ panic' = (panic \/ held \cap Procs # {})
  /\ intr' = FALSE
  /\ intena' = resumed_intena(p)
  /\ noff' = noff + 1
  /\ held' = held \cup {p}
  /\ best' = p
  /\ cur' = p
  /\ saved' = [saved EXCEPT ![p] = FALSE]
  /\ Goto(SCHED, "back")
  /\ UNCHANGED <<frames, own, lk, off, first>>

scheduler_idle ==
  /\ In(SCHED, "scan")
  /\ \A p \in Procs : st[p] # "RUNNABLE"
  /\ panic' = (panic \/ held \cap Procs # {})
  /\ intena' = push_intena(intr)
  /\ Goto(SCHED, "loop")
  /\ UNCHANGED <<intr, noff, held, frames, cur, own, lk, saved, off, best, st, first>>

scheduler_back ==
  /\ In(SCHED, "back")
  /\ release(best)
  /\ best' = NULL
  /\ Goto(SCHED, "loop")
  /\ UNCHANGED <<frames, cur, own, lk, saved, off, st, first>>

--------------------------------------------------------------------------------
ProcNext(p) ==
  \/ usertrap(p) \/ prepare_return(p) \/ user_interrupt(p)
  \/ \E l \in Locks : lock(p, l) \/ unlock(p, l) \/ sleep(p, l)
  \/ \E W \in SUBSET Procs : touch(p, W)
  \/ \E q \in Procs : kfork(p, q) \/ kwait(p, q)
  \/ sleep_release(p) \/ yield(p) \/ kexit(p) \/ sched(p)
  \/ yield_release(p) \/ slept_release(p) \/ sleep_acquire(p) \/ forkret(p)

TrapNext(c) ==
  \/ kerneltrap(c) \/ trap_return(c)
  \/ \E l \in Locks : devintr(c, l)
  \/ \E W \in SUBSET Procs, to \in {"return", "yield", "kernel"} : handler(c, W, to)

SchedNext ==
  \/ scheduler_on \/ scheduler_off \/ scheduler_idle \/ scheduler_back
  \/ \E p \in Procs : scheduler_run(p)

Next == (\E p \in Procs : ProcNext(p)) \/ (\E c \in C : TrapNext(c)) \/ SchedNext

Spec == Init /\ [][Next]_vars

--------------------------------------------------------------------------------
(* Properties. *)

Places == {"user", "kernel", "leave", "devintr", "handler", "yield", "return", "sleep",
           "sched_yield", "sched_sleep", "sched_exit", "yielded", "slept", "zombie", "woken",
           "forkret", "unused", "loop", "on", "scan", "back"}
States == {"UNUSED", "RUNNABLE", "RUNNING", "SLEEPING", "ZOMBIE"}

TypeOK ==
  /\ intr \in BOOLEAN /\ noff \in Nat /\ intena \in BOOLEAN /\ panic \in BOOLEAN
  /\ held \subseteq Locks \cup Procs
  /\ cur \in C /\ best \in Procs \cup {NULL} /\ first \in BOOLEAN
  /\ pc \in [C -> Places] /\ ret \in [C -> Places] /\ depth \in [C -> Nat]
  /\ hl \in [C -> Locks \cup {NULL}] /\ lk \in [Procs -> Locks \cup {NULL}]
  /\ own \in [Procs -> SUBSET Locks]
  /\ saved \in [Procs -> BOOLEAN] /\ off \in [Procs -> BOOLEAN] /\ st \in [Procs -> States]

\* None of the panics of acquire, release, pop_off and sched is ever reached: no lock is
\* asked for that is taken, and a process that gives up the CPU holds its own lock only.
NoLockPanic == ~panic

\* Interrupts are as their owner left them: off while any lock is held, on again in a
\* system call that holds none, off throughout in a page fault and in the first process
\* before it is in user space.  So one trap from the kernel at most is on any stack.
InterruptsMatched ==
  /\ held # {} => ~intr
  /\ \A p \in Procs : In(p, "kernel") /\ own[p] = {} => intr = ~off[p]
  /\ \A c \in C : depth[c] <= 1
================================================================================
