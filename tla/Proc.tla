---------------------------------- MODULE Proc ----------------------------------
(***************************************************************************)
(* The process table of os/kernel/taskmgr.c: kfork, kexit, kwait, kkill,   *)
(* sleep and wakeup, with the init program that adopts orphans and the     *)
(* traps at which a killed process leaves.                                 *)
(*                                                                         *)
(* One core: code that holds a spinlock runs with interrupts off and is    *)
(* one step.  A step of a process needs it to be RUNNING; between steps a  *)
(* timer interrupt may take the core away.  Which RUNNABLE process runs    *)
(* next is left open here (Mlfq has the policy).  Pids are never reused,   *)
(* so a slot stands for the pid of the process in it, and pid 0 for a slot *)
(* that is UNUSED.                                                         *)
(***************************************************************************)
EXTENDS Integers, FiniteSets

CONSTANTS
  Slots,        \* indices of proc[NPROC]
  initproc,     \* the slot of the first process
  ticks, disk,  \* the channels of the clock and of disk I/O
  NULL          \* no process / no channel

ASSUME ProcAssumption ==
  /\ Slots \subseteq Nat
  /\ initproc \in Slots
  /\ NULL \notin Slots \cup {ticks, disk}
  /\ ticks \notin Slots /\ disk \notin Slots
  /\ IsFiniteSet(Slots)

VARIABLES
  state,        \* p->state
  parent,       \* p->parent
  chan,         \* p->chan: a process, ticks or disk
  killed,       \* p->killed
  pc,           \* where the kernel thread of the process is
  child,        \* np of the kfork a process is in
  shell,        \* init's variable pid: the child it restarts
  halted        \* the kernel has panicked

vars == <<state, parent, chan, killed, pc, child, shell, halted>>

States == {"UNUSED", "USED", "SLEEPING", "RUNNABLE", "RUNNING", "ZOMBIE"}
PCs == {"none", "user", "sys", "fork1", "fork2", "wait", "pause", "exit"}
Chans == Slots \cup {ticks, disk}

Live(p) == state[p] \notin {"UNUSED", "ZOMBIE"}
Kids(p) == {q \in Slots : parent[q] = p}
Zombies(p) == {q \in Kids(p) : state[q] = "ZOMBIE"}

\* The first slot of S: every scan of the table starts at proc[0].
First(q, S) == q \in S /\ \A r \in S : q <= r

\* wakeup(c) for each c in C, applied to the table st.
Wake(C, st) ==
  [q \in Slots |-> IF st[q] = "SLEEPING" /\ chan[q] \in C THEN "RUNNABLE" ELSE st[q]]

Init ==
  /\ state = [p \in Slots |-> IF p = initproc THEN "RUNNABLE" ELSE "UNUSED"]
  /\ parent = [p \in Slots |-> NULL]
  /\ chan = [p \in Slots |-> NULL]
  /\ killed = [p \in Slots |-> FALSE]
  /\ pc = [p \in Slots |-> IF p = initproc THEN "user" ELSE "none"]
  /\ child = [p \in Slots |-> NULL]
  /\ shell = NULL
  /\ halted = FALSE

At(p, l) == ~halted /\ state[p] = "RUNNING" /\ pc[p] = l

--------------------------------------------------------------------------------
(* The scheduler, the timer and the device interrupts. *)

\* swtch to p; a process that slept clears p->chan, still under p->lock.
scheduler(p) ==
  /\ ~halted
  /\ \A q \in Slots : state[q] # "RUNNING"
  /\ state[p] = "RUNNABLE"
  /\ state' = [state EXCEPT ![p] = "RUNNING"]
  /\ chan' = [chan EXCEPT ![p] = NULL]
  /\ UNCHANGED <<parent, killed, pc, child, shell, halted>>

\* usertrap or kerneltrap on a timer interrupt.
yield(p) ==
  /\ ~halted
  /\ state[p] = "RUNNING"
  /\ state' = [state EXCEPT ![p] = "RUNNABLE"]
  /\ UNCHANGED <<parent, chan, killed, pc, child, shell, halted>>

\* clockintr and virtio_disk_intr wake their sleepers, if there are any; the
\* clock goes on ticking while the core waits for something to run.
devintr(c) ==
  /\ ~halted
  /\ state' = Wake({c}, state)
  /\ UNCHANGED <<parent, chan, killed, pc, child, shell, halted>>

\* sleep(c), called by p with the lock of its condition held.
sleep(p, c) ==
  /\ state' = [state EXCEPT ![p] = "SLEEPING"]
  /\ chan' = [chan EXCEPT ![p] = c]

\* usertrap on a system call: a killed process does not get to syscall().
syscall(p) ==
  /\ At(p, "user")
  /\ ~killed[p]
  /\ pc' = [pc EXCEPT ![p] = "sys"]
  /\ UNCHANGED <<state, parent, chan, killed, child, shell, halted>>

\* Any other system call.
syscall_return(p) ==
  /\ At(p, "sys")
  /\ p # initproc
  /\ pc' = [pc EXCEPT ![p] = "user"]
  /\ UNCHANGED <<state, parent, chan, killed, child, shell, halted>>

\* Every trap from user space, and every return from a system call, makes a
\* killed process exit.
usertrap_exit(p) ==
  /\ At(p, "user")
  /\ killed[p]
  /\ pc' = [pc EXCEPT ![p] = "exit"]
  /\ UNCHANGED <<state, parent, chan, killed, child, shell, halted>>

--------------------------------------------------------------------------------
(* kfork.  init forks only its shell. *)

\* The first UNUSED slot, whatever its p->killed says.
allocproc(np) ==
  /\ First(np, {q \in Slots : state[q] = "UNUSED"})
  /\ state' = [state EXCEPT ![np] = "USED"]

freeproc(q) ==
  /\ state' = [state EXCEPT ![q] = "UNUSED"]
  /\ parent' = [parent EXCEPT ![q] = NULL]
  /\ chan' = [chan EXCEPT ![q] = NULL]
  /\ killed' = [killed EXCEPT ![q] = FALSE]

\* allocproc and the copying, with np->lock held throughout.
kfork(p) ==
  /\ At(p, "sys")
  /\ p = initproc => shell = NULL
  /\ \E np \in Slots :
       /\ allocproc(np)
       /\ child' = [child EXCEPT ![p] = np]
       /\ shell' = IF p = initproc THEN np ELSE shell
  /\ pc' = [pc EXCEPT ![p] = "fork1"]
  /\ UNCHANGED <<parent, chan, killed, halted>>

\* np->parent = p, under wait_lock.
kfork_parent(p) ==
  /\ At(p, "fork1")
  /\ parent' = [parent EXCEPT ![child[p]] = p]
  /\ pc' = [pc EXCEPT ![p] = "fork2"]
  /\ UNCHANGED <<state, chan, killed, child, shell, halted>>

\* np->state = RUNNABLE; the child starts in forkret.
kfork_run(p) ==
  /\ At(p, "fork2")
  /\ state' = [state EXCEPT ![child[p]] = "RUNNABLE"]
  /\ pc' = [pc EXCEPT ![p] = "user", ![child[p]] = "user"]
  /\ child' = [child EXCEPT ![p] = NULL]
  /\ UNCHANGED <<parent, chan, killed, shell, halted>>

\* No slot is UNUSED, or allocproc or uvmcopy runs out of memory and the slot is given
\* back, with its p->killed cleared: -1, on which init calls exit(1).
kfork_fails(p) ==
  /\ At(p, "sys")
  /\ p = initproc => shell = NULL
  /\ \/ (\A q \in Slots : state[q] # "UNUSED") /\ UNCHANGED <<state, parent, chan, killed>>
     \/ \E np \in Slots : First(np, {q \in Slots : state[q] = "UNUSED"}) /\ freeproc(np)
  /\ pc' = [pc EXCEPT ![p] = IF p = initproc THEN "exit" ELSE "user"]
  /\ UNCHANGED <<child, shell, halted>>

--------------------------------------------------------------------------------
(* kexit. *)

sys_exit(p) ==
  /\ At(p, "sys")
  /\ p # initproc
  /\ pc' = [pc EXCEPT ![p] = "exit"]
  /\ UNCHANGED <<state, parent, chan, killed, child, shell, halted>>

\* panic("init exiting").
kexit_panic(p) ==
  /\ At(p, "exit")
  /\ p = initproc
  /\ halted' = TRUE
  /\ UNCHANGED <<state, parent, chan, killed, pc, child, shell>>

\* Closing the files and iput(cwd) may wait for the disk.
kexit_sleep(p) ==
  /\ At(p, "exit")
  /\ p # initproc
  /\ sleep(p, disk)
  /\ UNCHANGED <<parent, killed, pc, child, shell, halted>>

\* Mutant: the children keep their dead parent.
reparent_none(p) == parent

\* reparent(p): the new table of parents.
reparent(p) == [q \in Slots |-> IF parent[q] = p THEN initproc ELSE parent[q]]

\* Mutant: only init is woken.
exit_wakes_init(p) == {initproc}

\* The channels kexit wakes: the parent, and init if it adopts a child.
exit_wakes(p) == {parent[p]} \cup {c \in {initproc} : Kids(p) # {}}

\* From acquire(&wait_lock) to the scheduler.
kexit_final(p) ==
  /\ At(p, "exit")
  /\ p # initproc
  /\ parent' = reparent(p)
  /\ state' = [Wake(exit_wakes(p), state) EXCEPT ![p] = "ZOMBIE"]
  /\ UNCHANGED <<chan, killed, pc, child, shell, halted>>

--------------------------------------------------------------------------------
(* kwait: the scan and the sleep are one step under wait_lock. *)

\* init waits only for a shell it has started.
kwait(p) ==
  /\ At(p, "sys")
  /\ p = initproc => shell # NULL
  /\ pc' = [pc EXCEPT ![p] = "wait"]
  /\ UNCHANGED <<state, parent, chan, killed, child, shell, halted>>

\* Mutant: init does not notice that the shell exited.
next_shell_kept(p, q) == shell

\* init's "if(wpid == pid) break".
next_shell(p, q) == IF p = initproc /\ q = shell THEN NULL ELSE shell

\* A zombie is found and freed.
kwait_reap(p) ==
  /\ At(p, "wait")
  /\ \E q \in Slots :
       /\ First(q, Zombies(p))
       /\ freeproc(q)
       /\ pc' = [pc EXCEPT ![q] = "none", ![p] = "user"]
       /\ shell' = next_shell(p, q)
  /\ UNCHANGED <<child, halted>>

\* A zombie is found but its status cannot be copied out: -1, nothing freed.
kwait_badaddr(p) ==
  /\ At(p, "wait")
  /\ p # initproc
  /\ Zombies(p) # {}
  /\ pc' = [pc EXCEPT ![p] = "user"]
  /\ UNCHANGED <<state, parent, chan, killed, child, shell, halted>>

\* No child, or killed: -1, on which init calls exit(1).
kwait_none(p) ==
  /\ At(p, "wait")
  /\ Zombies(p) = {}
  /\ Kids(p) = {} \/ killed[p]
  /\ pc' = [pc EXCEPT ![p] = IF p = initproc THEN "exit" ELSE "user"]
  /\ UNCHANGED <<state, parent, chan, killed, child, shell, halted>>

kwait_sleep(p) ==
  /\ At(p, "wait")
  /\ Zombies(p) = {}
  /\ Kids(p) # {} /\ ~killed[p]
  /\ sleep(p, p)
  /\ UNCHANGED <<parent, killed, pc, child, shell, halted>>

--------------------------------------------------------------------------------
(* kkill, and sys_pause as the sleep that a kill cuts short. *)

\* The process that pid names; for pid 0 the first UNUSED slot matches.
Target(q) == Live(q) \/ state[q] = "ZOMBIE" \/ First(q, {r \in Slots : state[r] = "UNUSED"})

\* Mutants: a zombie is made to run again; no sleeper is woken.
kill_state_zombie(q) == [state EXCEPT ![q] = IF @ \in {"SLEEPING", "ZOMBIE"} THEN "RUNNABLE" ELSE @]
kill_state_never(q) == state

kill_state(q) == [state EXCEPT ![q] = IF @ = "SLEEPING" THEN "RUNNABLE" ELSE @]

\* Any process may be named, init too.
kkill(p, q) ==
  /\ At(p, "sys")
  /\ p # initproc
  /\ Target(q)
  /\ killed' = [killed EXCEPT ![q] = TRUE]
  /\ state' = kill_state(q)
  /\ pc' = [pc EXCEPT ![p] = "user"]
  /\ UNCHANGED <<parent, chan, child, shell, halted>>

sys_pause(p) ==
  /\ At(p, "sys")
  /\ p # initproc
  /\ pc' = [pc EXCEPT ![p] = "pause"]
  /\ UNCHANGED <<state, parent, chan, killed, child, shell, halted>>

sys_pause_sleep(p) ==
  /\ At(p, "pause")
  /\ ~killed[p]
  /\ sleep(p, ticks)
  /\ UNCHANGED <<parent, killed, pc, child, shell, halted>>

\* The time is up, or the process was killed.
sys_pause_return(p) ==
  /\ At(p, "pause")
  /\ pc' = [pc EXCEPT ![p] = "user"]
  /\ UNCHANGED <<state, parent, chan, killed, child, shell, halted>>

--------------------------------------------------------------------------------
\* A panicked kernel loops for ever.
Halted == halted /\ UNCHANGED vars

Step(p) ==
  \/ syscall(p) \/ syscall_return(p) \/ usertrap_exit(p)
  \/ kfork(p) \/ kfork_parent(p) \/ kfork_run(p) \/ kfork_fails(p)
  \/ sys_exit(p) \/ kexit_panic(p) \/ kexit_sleep(p) \/ kexit_final(p)
  \/ kwait(p) \/ kwait_reap(p) \/ kwait_badaddr(p) \/ kwait_none(p) \/ kwait_sleep(p)
  \/ \E q \in Slots : kkill(p, q)
  \/ sys_pause(p) \/ sys_pause_sleep(p) \/ sys_pause_return(p)

Next ==
  \/ \E p \in Slots : scheduler(p) \/ yield(p) \/ Step(p)
  \/ devintr(ticks) \/ devintr(disk)
  \/ Halted

Spec == Init /\ [][Next]_vars

\* What a process does by itself once it is in the kernel or has been killed.
Progress(p) ==
  \/ syscall_return(p) \/ usertrap_exit(p) \/ kfork_parent(p) \/ kfork_run(p)
  \/ kexit_panic(p) \/ kexit_final(p) \/ kwait_reap(p) \/ kwait_none(p) \/ kwait_sleep(p) \/ sys_pause_return(p)

\* The program init: fork the shell, wait, and so on.
InitProgram ==
  \/ syscall(initproc) \/ kfork(initproc) \/ kwait(initproc) \/ kfork_fails(initproc)

\* The timer preempts, every RUNNABLE process gets the core again and again (see
\* Mlfq), and a process that has the core often enough makes its next step.
Fairness ==
  /\ WF_vars(devintr(ticks)) /\ WF_vars(devintr(disk))
  /\ \A p \in Slots : WF_vars(yield(p)) /\ SF_vars(scheduler(p)) /\ SF_vars(Progress(p))
  /\ SF_vars(InitProgram)

FairSpec == Spec /\ Fairness

--------------------------------------------------------------------------------
(* Properties. *)

\* Every field of struct proc keeps its type.
TypeOK ==
  /\ state \in [Slots -> States]
  /\ parent \in [Slots -> Slots \cup {NULL}]
  /\ chan \in [Slots -> Chans \cup {NULL}]
  /\ killed \in [Slots -> BOOLEAN]
  /\ pc \in [Slots -> PCs]
  /\ child \in [Slots -> Slots \cup {NULL}]
  /\ shell \in Slots \cup {NULL}
  /\ halted \in BOOLEAN

\* kexit and reparent leave no process without a parent that can wait for it:
\* every process but init has one, and it has neither exited nor been freed.
FamilyTree ==
  \A q \in Slots \ {initproc} :
    /\ state[q] \notin {"UNUSED", "USED"} => parent[q] # NULL
    /\ parent[q] # NULL => Live(parent[q])

\* sleep loses no wakeup: a process asleep in kwait has a child to wait for, no
\* child of its own is a zombie, and it has not been killed.
NoLostExit ==
  \A p \in Slots :
    (state[p] = "SLEEPING" /\ pc[p] = "wait") =>
      Kids(p) # {} /\ Zombies(p) = {} /\ ~killed[p]

\* init always has its shell to wait for when it calls wait: the kernel panics with
\* "init exiting" only when init was killed, or could not fork the next shell.
InitHasShell ==
  /\ pc[initproc] = "wait" => shell \in Kids(initproc)
  /\ halted => killed[initproc] \/ shell = NULL

\* A zombie keeps its slot until its own parent, in kwait, frees it: neither a
\* kill nor a wakeup runs it again, and no other process takes its status.
ZombieUntilReaped ==
  [][\A q \in Slots :
       (state[q] = "ZOMBIE" /\ state'[q] # "ZOMBIE") =>
         state'[q] = "UNUSED" /\ At(parent[q], "wait")]_vars

\* A killed process exits, wherever the kill finds it: asleep in wait or pause,
\* in the middle of a fork, or waiting for the disk.
KilledExits ==
  \A p \in Slots :
    (killed[p] /\ state[p] # "UNUSED") ~> (state[p] \in {"UNUSED", "ZOMBIE"} \/ halted)
================================================================================
