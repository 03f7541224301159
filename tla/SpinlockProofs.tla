---------------------------- MODULE SpinlockProofs ----------------------------
(***************************************************************************)
(* Proofs about Spinlock: for any number of processes and locks acquire,   *)
(* release, pop_off and sched never panic, and every path leaves interrupts*)
(* as it found them.                                                       *)
(*                                                                         *)
(* The inductive invariant says what each place in the code knows of the   *)
(* locks that are held, of noff and intena and of the interrupt enable.    *)
(* Then come the facts about acquire and release that all steps share, the *)
(* steps of traps and of system calls, and the switches between processes  *)
(* and the scheduler.                                                      *)
(***************************************************************************)
EXTENDS Spinlock, FiniteSetTheorems, TLAPS

Bare    == {"user", "leave", "devintr", "yield", "return", "woken"}
Locked  == {"sched_yield", "sched_sleep", "sched_exit", "yielded", "slept", "forkret"}
Trapped == {"devintr", "handler", "yield", "sched_yield", "yielded", "return"}
Away    == {"yielded", "slept", "zombie", "forkret", "unused"}

Types ==
  /\ noff \in Nat
  /\ cur \in C
  /\ pc \in [C -> Places] /\ ret \in [C -> Places] /\ depth \in [C -> Nat]
  /\ hl \in [C -> Locks \cup {NULL}] /\ lk \in [Procs -> Locks \cup {NULL}]
  /\ own \in [Procs -> SUBSET Locks]
  /\ st \in [Procs -> States]

Booleans ==
  /\ intr \in BOOLEAN /\ intena \in BOOLEAN
  /\ saved \in [Procs -> BOOLEAN] /\ off \in [Procs -> BOOLEAN]

\* The locks that the running context holds, by its place, and their number.
HeldInv ==
  /\ \A p \in Procs : cur = p =>
       /\ pc[p] \in Bare     => held = {} /\ noff = 0
       /\ pc[p] = "kernel"   => held = own[p] /\ noff = Cardinality(own[p])
       /\ pc[p] = "handler"  => held = {hl[p]} /\ noff = 1
       /\ pc[p] \in Locked   => held = {p} /\ noff = 1
       /\ pc[p] = "sleep"    => held = {p, lk[p]} /\ noff = 2
  /\ cur = SCHED =>
       /\ pc[SCHED] \in {"loop", "on", "scan", "devintr", "return"} => held = {} /\ noff = 0
       /\ pc[SCHED] = "handler" => held = {hl[SCHED]} /\ noff = 1
       /\ pc[SCHED] = "back"    => held = {best} /\ noff = 1

\* Interrupts, and what the last release will make of them.
IntrInv ==
  /\ \A p \in Procs : cur = p =>
       /\ pc[p] = "user" => intr
       /\ pc[p] = "woken" \/ (pc[p] = "kernel" /\ own[p] = {}) => (intr <=> ~off[p])
       /\ pc[p] = "kernel" /\ own[p] # {} => ~intr /\ (intena <=> ~off[p])
       /\ pc[p] \in {"sleep", "sched_sleep", "slept"} => ~intr /\ (intena <=> ~off[p])
       /\ pc[p] \in {"handler", "sched_yield", "yielded", "forkret"} => ~intr /\ ~intena
       /\ pc[p] \in {"devintr", "yield", "return", "leave", "sched_exit"} => ~intr
  /\ cur = SCHED =>
       /\ pc[SCHED] = "on" => intr
       /\ pc[SCHED] \in {"scan", "back", "devintr", "return"} => ~intr
       /\ pc[SCHED] = "handler" => ~intr /\ ~intena
  /\ \A p \in Procs : cur # p =>
       /\ pc[p] = "slept" => (saved[p] <=> ~off[p])
       /\ pc[p] = "yielded" => ~saved[p]

\* Where the contexts are, and the states of the processes there.
PlaceInv ==
  /\ \A p \in Procs :
       /\ cur = p => pc[p] \in Bare \cup Locked \cup {"kernel", "handler", "sleep"}
       /\ cur = p /\ pc[p] = "sched_yield" => st[p] = "RUNNABLE"
       /\ cur = p /\ pc[p] = "sched_sleep" => st[p] = "SLEEPING"
       /\ cur = p /\ pc[p] = "sched_exit" => st[p] = "ZOMBIE"
       /\ cur = p /\ pc[p] \notin {"sched_yield", "sched_sleep", "sched_exit"} => st[p] = "RUNNING"
       /\ cur # p => pc[p] \in Away
       /\ cur # p /\ pc[p] \in {"yielded", "forkret"} => st[p] = "RUNNABLE"
       /\ cur # p /\ pc[p] = "slept" => st[p] \in {"SLEEPING", "RUNNABLE"}
       /\ cur # p /\ pc[p] = "zombie" => st[p] = "ZOMBIE"
       /\ cur # p /\ pc[p] = "unused" => st[p] = "UNUSED"
       /\ own[p] # {} => cur = p /\ pc[p] \in {"kernel", "sleep"}
       /\ pc[p] = "sleep" => own[p] = {lk[p]}
  /\ pc[SCHED] \in {"loop", "on", "scan", "back", "devintr", "handler", "return"}
  /\ cur # SCHED => pc[SCHED] = "back" /\ best = cur
  /\ pc[SCHED] = "back" => best \in Procs

\* A trap from the kernel interrupted a place where no lock was held.
TrapInv ==
  /\ \A p \in Procs :
       /\ pc[p] \in Trapped => ret[p] \in {"user", "kernel", "woken"}
       /\ pc[p] \in Trapped /\ ret[p] # "user" => ~off[p]
       /\ pc[p] = "handler" => hl[p] \in Locks
       /\ \/ pc[p] \in {"sleep", "sched_sleep", "slept", "woken"}
          \/ pc[p] \in Trapped /\ ret[p] = "woken"
          => lk[p] \in Locks
  /\ pc[SCHED] \in Trapped => ret[SCHED] \in {"loop", "on"}
  /\ pc[SCHED] = "handler" => hl[SCHED] \in Locks
  /\ \A c \in C : depth[c] = IF pc[c] \in Trapped /\ ret[c] # "user" THEN 1 ELSE 0

Inv == Types /\ Booleans /\ HeldInv /\ IntrInv /\ PlaceInv /\ TrapInv /\ ~panic

--------------------------------------------------------------------------------
(* Facts that the steps share. *)

LEMMA Parts ==
  ASSUME Constants, Inv
  PROVE  /\ Types /\ Booleans /\ HeldInv /\ IntrInv /\ PlaceInv /\ TrapInv /\ ~panic
         /\ SCHED \notin Procs /\ SCHED \in C /\ \A p \in Procs : p \in C
         /\ \A p \in Procs, l \in Locks : p # l
         /\ NULL \notin Procs /\ NULL \notin Locks
BY Zenon DEF Inv, Constants, C

\* acquire of a free lock.
LEMMA Acquired ==
  ASSUME Booleans, ~panic, NEW l, l \notin held, acquire(l)
  PROVE  /\ ~intr' /\ ~panic' /\ noff' = noff + 1 /\ held' = held \cup {l}
         /\ intena' \in BOOLEAN
         /\ noff = 0 => (intena' <=> intr)
         /\ noff # 0 => (intena' <=> intena)
BY Zenon DEF acquire, push_intr, push_intena, Booleans

\* release of a lock that is held.
LEMMA Released ==
  ASSUME Booleans, ~panic, ~intr, NEW l, l \in held, noff \in Nat, noff >= 1, release(l)
  PROVE  /\ ~panic' /\ noff' = noff - 1 /\ held' = held \ {l}
         /\ intr' \in BOOLEAN /\ intena' = intena
         /\ noff = 1 => (intr' <=> intena)
         /\ noff # 1 => ~intr'
BY DEF release, Booleans

--------------------------------------------------------------------------------
(* Traps. *)

LEMMA UsertrapInv ==
  ASSUME Constants, Inv, NEW p \in Procs, usertrap(p)
  PROVE  Inv'
<1>0. /\ Types /\ Booleans /\ HeldInv /\ IntrInv /\ PlaceInv /\ TrapInv /\ ~panic
      /\ SCHED \notin Procs /\ SCHED \in C /\ p \in C
  BY Parts, Zenon
<1>1. PICK fault \in BOOLEAN : intr' = ~fault /\ off' = [off EXCEPT ![p] = fault]
  BY Zenon DEF usertrap
<1>2. /\ cur = p /\ pc[p] = "user" /\ pc' = [pc EXCEPT ![p] = "kernel"]
      /\ UNCHANGED <<noff, intena, held, panic, ret, depth, hl, cur, own, lk, saved, best, st>>
  BY Zenon DEF usertrap, In, Goto, frames
<1>3. Types'
  BY <1>0, <1>2, Zenon DEF Types, Places
<1>4. Booleans'
  BY <1>0, <1>1, <1>2, Zenon DEF Booleans
<1>5. \A c \in C : pc'[c] = IF c = p THEN "kernel" ELSE pc[c]
  BY <1>0, <1>2, Zenon DEF Types
<1>6. own[p] = {} /\ Cardinality({}) = 0
  BY <1>0, <1>2, FS_EmptySet, Zenon DEF PlaceInv
<1>7. (intr' <=> ~off'[p]) /\ \A q \in Procs : q # p => off'[q] = off[q]
  BY <1>0, <1>1, Zenon DEF Booleans
<1>8. HeldInv'
  BY <1>0, <1>2, <1>5, <1>6 DEF HeldInv, Bare, Locked, C
<1>9. IntrInv'
  BY <1>0, <1>2, <1>5, <1>6, <1>7 DEF IntrInv, C
<1>10. PlaceInv'
  BY <1>0, <1>2, <1>5, <1>6 DEF PlaceInv, Bare, Locked, Away, C
<1>11. TrapInv'
  BY <1>0, <1>2, <1>5, <1>7 DEF TrapInv, Trapped, C
<1>. QED
  BY <1>0, <1>2, <1>3, <1>4, <1>8, <1>9, <1>10, <1>11, Zenon DEF Inv

LEMMA PrepareReturnInv ==
  ASSUME Constants, Inv, NEW p \in Procs, prepare_return(p)
  PROVE  Inv'
<1>0. /\ Types /\ Booleans /\ HeldInv /\ IntrInv /\ PlaceInv /\ TrapInv /\ ~panic
      /\ SCHED \notin Procs /\ SCHED \in C /\ p \in C
  BY Parts, Zenon
<1>1. intr' /\ intr' = TRUE /\ off' = [off EXCEPT ![p] = FALSE]
  BY Zenon DEF prepare_return
<1>2. /\ cur = p /\ pc[p] \in {"kernel", "leave"} /\ pc' = [pc EXCEPT ![p] = "user"]
      /\ UNCHANGED <<noff, intena, held, panic, ret, depth, hl, cur, own, lk, saved, best, st>>
  BY Zenon DEF prepare_return, Goto, frames
<1>3. Types'
  BY <1>0, <1>2, Zenon DEF Types, Places
<1>4. Booleans'
  BY <1>0, <1>1, <1>2, Zenon DEF Booleans
<1>5. \A c \in C : pc'[c] = IF c = p THEN "user" ELSE pc[c]
  BY <1>0, <1>2, Zenon DEF Types
<1>6. own[p] = {} /\ Cardinality({}) = 0
  BY <1>0, FS_EmptySet, Zenon DEF PlaceInv, prepare_return
<1>7. ~off'[p] /\ \A q \in Procs : q # p => off'[q] = off[q]
  BY <1>0, <1>1, Zenon DEF Booleans
<1>8. HeldInv'
  BY <1>0, <1>2, <1>5, <1>6 DEF HeldInv, Bare, Locked, C
<1>9. IntrInv'
  BY <1>0, <1>1, <1>2, <1>5, <1>6, <1>7 DEF IntrInv, C
<1>10. PlaceInv'
  BY <1>0, <1>2, <1>5, <1>6 DEF PlaceInv, Bare, Locked, Away, C
<1>11. TrapInv'
  BY <1>0, <1>2, <1>5, <1>7 DEF TrapInv, Trapped, C
<1>. QED
  BY <1>0, <1>2, <1>3, <1>4, <1>8, <1>9, <1>10, <1>11, Zenon DEF Inv

LEMMA UserInterruptInv ==
  ASSUME Constants, Inv, NEW p \in Procs, user_interrupt(p)
  PROVE  Inv'
<1>0. /\ Types /\ Booleans /\ HeldInv /\ IntrInv /\ PlaceInv /\ TrapInv /\ ~panic
      /\ SCHED \notin Procs /\ SCHED \in C /\ p \in C
  BY Parts, Zenon
<1>1. ~intr' /\ intr' = FALSE
  BY Zenon DEF user_interrupt
<1>2. /\ cur = p /\ pc[p] = "user" /\ pc' = [pc EXCEPT ![p] = "devintr"]
      /\ ret' = [ret EXCEPT ![p] = "user"]
      /\ UNCHANGED <<noff, intena, held, panic, depth, hl, cur, own, lk, saved, off, best, st>>
  BY Zenon DEF user_interrupt, In, Goto
<1>3. Types'
  BY <1>0, <1>2, Zenon DEF Types, Places
<1>4. Booleans'
  BY <1>0, <1>1, <1>2, Zenon DEF Booleans
<1>5. \A c \in C : /\ pc'[c] = IF c = p THEN "devintr" ELSE pc[c]
                   /\ ret'[c] = IF c = p THEN "user" ELSE ret[c]
  BY <1>0, <1>2, Zenon DEF Types
<1>8. HeldInv'
  BY <1>0, <1>2, <1>5 DEF HeldInv, Bare, Locked, C
<1>9. IntrInv'
  BY <1>0, <1>1, <1>2, <1>5 DEF IntrInv, C
<1>10. PlaceInv'
  BY <1>0, <1>2, <1>5 DEF PlaceInv, Bare, Locked, Away, C
<1>11. TrapInv'
  BY <1>0, <1>2, <1>5 DEF TrapInv, Trapped, C
<1>. QED
  BY <1>0, <1>2, <1>3, <1>4, <1>8, <1>9, <1>10, <1>11, Zenon DEF Inv

LEMMA KerneltrapInv ==
  ASSUME Constants, Inv, NEW p \in C, kerneltrap(p)
  PROVE  Inv'
<1>0. /\ Types /\ Booleans /\ HeldInv /\ IntrInv /\ PlaceInv /\ TrapInv /\ ~panic
      /\ SCHED \notin Procs /\ SCHED \in C
  BY Parts, Zenon
<1>1. ~intr' /\ intr' = FALSE /\ intr
  BY Zenon DEF kerneltrap
<1>2. /\ cur = p /\ pc' = [pc EXCEPT ![p] = "devintr"]
      /\ ret' = [ret EXCEPT ![p] = pc[p]] /\ depth' = [depth EXCEPT ![p] = @ + 1]
      /\ UNCHANGED <<noff, intena, held, panic, hl, cur, own, lk, saved, off, best, st>>
  BY Zenon DEF kerneltrap, Goto
<1>3. IF p = SCHED THEN pc[p] \in {"loop", "on"}
      ELSE p \in Procs /\ pc[p] \in {"kernel", "woken"} /\ own[p] = {} /\ ~off[p]
  BY <1>0, <1>1, <1>2 DEF kerneltrap, IntrInv, PlaceInv, Bare, Locked, C
<1>4. Types'
  BY <1>0, <1>2 DEF Types, Places
<1>5. Booleans'
  BY <1>0, <1>1, <1>2, Zenon DEF Booleans
<1>6. \A c \in C : /\ pc'[c] = IF c = p THEN "devintr" ELSE pc[c]
                   /\ ret'[c] = IF c = p THEN pc[p] ELSE ret[c]
                   /\ depth'[c] = IF c = p THEN depth[p] + 1 ELSE depth[c]
  BY <1>0, <1>2, Zenon DEF Types
<1>7. held = {} /\ noff = 0
  BY <1>0, <1>2, <1>3, FS_EmptySet DEF HeldInv, Bare
<1>8. HeldInv'
  BY <1>0, <1>2, <1>6, <1>7 DEF HeldInv, Bare, Locked, C
<1>9. IntrInv'
  BY <1>0, <1>1, <1>2, <1>6 DEF IntrInv, C
<1>10. PlaceInv'
  BY <1>0, <1>2, <1>3, <1>6 DEF PlaceInv, Bare, Locked, Away, C
<1>11. TrapInv'
  BY <1>0, <1>2, <1>3, <1>6 DEF TrapInv, Trapped, C
<1>. QED
  BY <1>0, <1>2, <1>4, <1>5, <1>8, <1>9, <1>10, <1>11, Zenon DEF Inv

LEMMA TrapReturnInv ==
  ASSUME Constants, Inv, NEW p \in C, trap_return(p)
  PROVE  Inv'
<1>0. /\ Types /\ Booleans /\ HeldInv /\ IntrInv /\ PlaceInv /\ TrapInv /\ ~panic
      /\ SCHED \notin Procs /\ SCHED \in C
  BY Parts, Zenon
<1>1. intr' /\ intr' = TRUE
  BY Zenon DEF trap_return
<1>2. /\ cur = p /\ pc[p] = "return" /\ pc' = [pc EXCEPT ![p] = ret[p]]
      /\ ret' = [ret EXCEPT ![p] = "user"]
      /\ depth' = [depth EXCEPT ![p] = IF ret[p] = "user" THEN @ ELSE @ - 1]
      /\ UNCHANGED <<noff, intena, held, panic, hl, cur, own, lk, saved, off, best, st>>
  BY Zenon DEF trap_return, In, Goto
<1>3. IF p = SCHED THEN ret[p] \in {"loop", "on"}
      ELSE /\ p \in Procs /\ ret[p] \in {"user", "kernel", "woken"}
           /\ own[p] = {} /\ (ret[p] # "user" => ~off[p])
  BY <1>0, <1>2, Zenon DEF TrapInv, PlaceInv, Trapped, C
<1>4. held = {} /\ noff = 0 /\ Cardinality({}) = 0
  BY <1>0, <1>2, <1>3, FS_EmptySet, Zenon DEF HeldInv, Bare
<1>5. depth[p] = IF ret[p] = "user" THEN 0 ELSE 1
  BY <1>0, <1>2, Zenon DEF TrapInv, Trapped
<1>6. \A c \in C : /\ pc'[c] = IF c = p THEN ret[p] ELSE pc[c]
                   /\ ret'[c] = IF c = p THEN "user" ELSE ret[c]
                   /\ depth'[c] = IF c = p THEN 0 ELSE depth[c]
  BY <1>0, <1>2, <1>5 DEF Types
<1>7. Types'
  BY <1>0, <1>2, <1>5 DEF Types, Places
<1>8. Booleans'
  BY <1>0, <1>1, <1>2, Zenon DEF Booleans
<1>9. HeldInv'
  BY <1>0, <1>2, <1>3, <1>4, <1>6, Zenon DEF HeldInv, Bare, Locked, C
<1>10. IntrInv'
  BY <1>0, <1>1, <1>2, <1>3, <1>6 DEF IntrInv, C
<1>11. PlaceInv'
  BY <1>0, <1>2, <1>3, <1>6 DEF PlaceInv, Bare, Locked, Away, C
<1>12. TrapInv'
  BY <1>0, <1>2, <1>3, <1>6 DEF TrapInv, Trapped, C
<1>. QED
  BY <1>0, <1>2, <1>7, <1>8, <1>9, <1>10, <1>11, <1>12, Zenon DEF Inv

LEMMA DevintrInv ==
  ASSUME Constants, Inv, NEW p \in C, NEW l \in Locks, devintr(p, l)
  PROVE  Inv'
<1>0. /\ Types /\ Booleans /\ HeldInv /\ IntrInv /\ PlaceInv /\ TrapInv /\ ~panic
      /\ SCHED \notin Procs /\ SCHED \in C
  BY Parts, Zenon
<1>1. /\ cur = p /\ pc[p] = "devintr" /\ pc' = [pc EXCEPT ![p] = "handler"]
      /\ hl' = [hl EXCEPT ![p] = l] /\ acquire(l)
      /\ UNCHANGED <<ret, depth, cur, own, lk, saved, off, best, st>>
  BY Zenon DEF devintr, In, Goto
<1>2. held = {} /\ noff = 0 /\ ~intr
  BY <1>0, <1>1, Zenon DEF HeldInv, IntrInv, Bare, C
<1>3. ~intr' /\ ~panic' /\ noff' = 1 /\ held' = {l} /\ ~intena' /\ intena' \in BOOLEAN
  BY <1>0, <1>1, <1>2, Acquired
<1>4. Types'
  BY <1>0, <1>1, <1>3, Zenon DEF Types, Places
<1>5. Booleans'
  BY <1>0, <1>1, <1>3, Zenon DEF Booleans, acquire, push_intr
<1>6. \A c \in C : /\ pc'[c] = IF c = p THEN "handler" ELSE pc[c]
                   /\ hl'[c] = IF c = p THEN l ELSE hl[c]
  BY <1>0, <1>1, Zenon DEF Types
<1>7. HeldInv'
  BY <1>0, <1>1, <1>3, <1>6 DEF HeldInv, Bare, Locked, C
<1>8. IntrInv'
  BY <1>0, <1>1, <1>3, <1>6 DEF IntrInv, C
<1>9. PlaceInv'
  BY <1>0, <1>1, <1>6 DEF PlaceInv, Bare, Locked, Away, C
<1>10. TrapInv'
  BY <1>0, <1>1, <1>6 DEF TrapInv, Trapped, C
<1>. QED
  BY <1>3, <1>4, <1>5, <1>7, <1>8, <1>9, <1>10, Zenon DEF Inv

\* What wakeup does to other processes.
LEMMA Woken ==
  ASSUME Constants, Inv, NEW c \in C, cur = c, NEW W \in SUBSET Procs, wakeup(c, W)
  PROVE  /\ st' \in [Procs -> States]
         /\ \A q \in Procs : st'[q] = IF q \in W THEN "RUNNABLE" ELSE st[q]
         /\ \A q \in W : q # c /\ pc[q] = "slept"
<1>1. Types /\ PlaceInv
  BY Parts, Zenon
<1>2. \A q \in W : q \in Procs /\ q # c /\ st[q] = "SLEEPING"
  BY Zenon DEF wakeup, Others
<1>. QED
  BY <1>1, <1>2, Zenon DEF wakeup, Types, States, PlaceInv, Away

LEMMA HandlerInv ==
  ASSUME Constants, Inv, NEW p \in C, NEW W \in SUBSET Procs, NEW to, handler(p, W, to)
  PROVE  Inv'
<1>0. /\ Types /\ Booleans /\ HeldInv /\ IntrInv /\ PlaceInv /\ TrapInv /\ ~panic
      /\ SCHED \notin Procs /\ SCHED \in C /\ \A r \in Procs, k \in Locks : r # k
  BY Parts, Zenon
<1>1. /\ cur = p /\ pc[p] = "handler" /\ pc' = [pc EXCEPT ![p] = to]
      /\ hl' = [hl EXCEPT ![p] = NULL] /\ wakeup(p, W)
      /\ UNCHANGED <<ret, depth, cur, own, lk, saved, best>> /\ intena' = intena
  BY Zenon DEF handler, In, Goto
<1>2. hl[p] \in Locks /\ held = {hl[p]} /\ noff = 1 /\ ~intr /\ ~intena
  BY <1>0, <1>1, Zenon DEF HeldInv, IntrInv, TrapInv, C
<1>3. ~intr' /\ intr' \in BOOLEAN /\ ~panic' /\ noff' = 0 /\ held' = {}
  <2>1. held \cap Others(p) = {} /\ hl[p] \in held /\ ~(noff < 1)
    BY <1>0, <1>2 DEF Others
  <2>2. noff' = noff - 1 /\ held' = held \ {hl[p]}
    BY Zenon DEF handler
  <2>3. /\ intr' = (intr \/ (noff = 1 /\ intena))
        /\ panic' = (panic \/ hl[p] \notin held \/ intr \/ noff < 1 \/ held \cap Others(p) # {})
    BY Zenon DEF handler
  <2>4. ~intr' /\ intr' \in BOOLEAN /\ ~panic'
    BY <1>0, <1>2, <2>1, <2>3, Zenon
  <2>. QED BY <1>2, <2>2, <2>4
<1>4. /\ to \in {"return", "yield", "kernel"} /\ (p = SCHED => to = "return")
      /\ p # SCHED => p \in Procs /\ own[p] = {}
      /\ to = "kernel" => ret[p] = "user"
  BY <1>0, <1>1, Zenon DEF handler, PlaceInv, C
<1>5. /\ off' \in [Procs -> BOOLEAN]
      /\ \A q \in Procs : q # p => off'[q] = off[q]
      /\ p # SCHED => IF to = "kernel" THEN off'[p] ELSE off'[p] = off[p]
  BY <1>0, <1>4, Zenon DEF handler, Booleans
<1>6. /\ st' \in [Procs -> States]
      /\ \A q \in Procs : st'[q] = IF q \in W THEN "RUNNABLE" ELSE st[q]
      /\ \A q \in W : q # p /\ pc[q] = "slept"
  BY <1>1, Woken, Zenon
<1>7. Types'
  BY <1>0, <1>1, <1>3, <1>4, <1>6, Zenon DEF Types, Places
<1>8. Booleans'
  BY <1>0, <1>1, <1>3, <1>5, Zenon DEF Booleans
<1>9. \A c \in C : /\ pc'[c] = IF c = p THEN to ELSE pc[c]
                   /\ c # p => hl'[c] = hl[c]
  BY <1>0, <1>1, Zenon DEF Types
<1>10. HeldInv'
  BY <1>0, <1>1, <1>3, <1>4, <1>9, FS_EmptySet, SMTT(60) DEF HeldInv, Bare, Locked, C
<1>11. IntrInv'
  BY <1>0, <1>1, <1>3, <1>4, <1>5, <1>9 DEF IntrInv, C
<1>12. PlaceInv'
  BY <1>0, <1>1, <1>4, <1>6, <1>9, SMTT(60) DEF PlaceInv, Bare, Locked, Away, C
<1>13. TrapInv'
  BY <1>0, <1>1, <1>4, <1>5, <1>9 DEF TrapInv, Trapped, C
<1>. QED
  BY <1>3, <1>7, <1>8, <1>10, <1>11, <1>12, <1>13, Zenon DEF Inv

--------------------------------------------------------------------------------
(* System calls, and yield. *)

\* The locks of a system call are counted.
LEMMA Counted ==
  ASSUME Constants, Inv, NEW p \in Procs, NEW l \in Locks
  PROVE  /\ own[p] \subseteq Locks /\ IsFiniteSet(own[p]) /\ Cardinality(own[p]) \in Nat
         /\ Cardinality(own[p]) = 0 <=> own[p] = {}
         /\ l \notin own[p] => Cardinality(own[p] \cup {l}) = Cardinality(own[p]) + 1
         /\ l \in own[p] => Cardinality(own[p] \ {l}) = Cardinality(own[p]) - 1
         /\ l \in own[p] => (Cardinality(own[p]) = 1 <=> own[p] \ {l} = {})
<1>1. own[p] \subseteq Locks
  BY Parts, Zenon DEF Types
<1>2. IsFiniteSet(own[p])
  BY <1>1, FS_Subset, Zenon DEF Constants
<1>3. Cardinality(own[p]) \in Nat /\ (Cardinality(own[p]) = 0 <=> own[p] = {})
  BY <1>2, FS_CardinalityType, FS_EmptySet, Zenon
<1>4. l \notin own[p] => Cardinality(own[p] \cup {l}) = Cardinality(own[p]) + 1
  BY <1>2, FS_AddElement, Zenon
<1>5. l \in own[p] => Cardinality(own[p] \ {l}) = Cardinality(own[p]) - 1
  BY <1>2, FS_RemoveElement, Zenon
<1>6. IsFiniteSet(own[p] \ {l})
  BY <1>2, FS_Subset, Zenon
<1>7. Cardinality(own[p] \ {l}) = 0 <=> own[p] \ {l} = {}
  BY <1>6, FS_EmptySet, Zenon
<1>. QED
  BY <1>1, <1>2, <1>3, <1>4, <1>5, <1>7

LEMMA LockInv ==
  ASSUME Constants, Inv, NEW p \in Procs, NEW l \in Locks, lock(p, l)
  PROVE  Inv'
<1>0. /\ Types /\ Booleans /\ HeldInv /\ IntrInv /\ PlaceInv /\ TrapInv /\ ~panic
      /\ SCHED \notin Procs /\ SCHED \in C /\ p \in C
  BY Parts, Zenon
<1>1. /\ cur = p /\ pc[p] = "kernel" /\ l \notin own[p] /\ acquire(l)
      /\ own' = [own EXCEPT ![p] = @ \cup {l}]
      /\ UNCHANGED <<pc, ret, depth, hl, cur, lk, saved, off, best, st>>
  BY Zenon DEF lock, In, frames
<1>2. held = own[p] /\ noff = Cardinality(own[p]) /\ (noff = 0 <=> own[p] = {})
  BY <1>0, <1>1, Counted, Zenon DEF HeldInv
<1>3. /\ ~intr' /\ ~panic' /\ intena' \in BOOLEAN /\ noff' = noff + 1 /\ held' = held \cup {l}
      /\ intena' <=> ~off[p]
  BY <1>0, <1>1, <1>2, Acquired, Zenon DEF IntrInv
<1>4. /\ own'[p] = own[p] \cup {l} /\ own'[p] # {}
      /\ \A q \in Procs : q # p => own'[q] = own[q]
  BY <1>0, <1>1, Zenon DEF Types
<1>5. noff' = Cardinality(own'[p]) /\ noff' \in Nat
  <2>1. Cardinality(own[p] \cup {l}) = Cardinality(own[p]) + 1 /\ Cardinality(own[p]) \in Nat
    BY <1>1, Counted, Zenon
  <2>. QED BY <1>2, <1>3, <1>4, <2>1
<1>6. Types'
  BY <1>0, <1>1, <1>5, Zenon DEF Types
<1>7. Booleans'
  BY <1>0, <1>1, <1>3, Zenon DEF Booleans, acquire, push_intr
<1>8. HeldInv'
  BY <1>0, <1>1, <1>2, <1>3, <1>4, <1>5, Zenon DEF HeldInv, Bare, Locked
<1>9. IntrInv'
  BY <1>0, <1>1, <1>3, <1>4, Zenon DEF IntrInv
<1>10. PlaceInv'
  BY <1>0, <1>1, <1>4 DEF PlaceInv
<1>11. TrapInv'
  BY <1>0, <1>1, Zenon DEF TrapInv
<1>. QED
  BY <1>3, <1>6, <1>7, <1>8, <1>9, <1>10, <1>11, Zenon DEF Inv

LEMMA UnlockInv ==
  ASSUME Constants, Inv, NEW p \in Procs, NEW l \in Locks, unlock(p, l)
  PROVE  Inv'
<1>0. /\ Types /\ Booleans /\ HeldInv /\ IntrInv /\ PlaceInv /\ TrapInv /\ ~panic
      /\ SCHED \notin Procs /\ SCHED \in C /\ p \in C
  BY Parts, Zenon
<1>1. /\ cur = p /\ pc[p] = "kernel" /\ l \in own[p] /\ release(l)
      /\ own' = [own EXCEPT ![p] = @ \ {l}]
      /\ UNCHANGED <<pc, ret, depth, hl, cur, lk, saved, off, best, st>>
  BY Zenon DEF unlock, In, frames
<1>2. held = own[p] /\ noff = Cardinality(own[p]) /\ noff \in Nat /\ noff >= 1
  <2>1. Cardinality(own[p]) \in Nat /\ Cardinality(own[p]) # 0
    BY <1>1, Counted, Zenon
  <2>. QED BY <1>0, <1>1, <2>1 DEF HeldInv
<1>3. ~intr /\ (intena <=> ~off[p])
  BY <1>0, <1>1, Zenon DEF IntrInv
<1>4. /\ ~panic' /\ noff' = noff - 1 /\ held' = held \ {l} /\ intr' \in BOOLEAN /\ intena' = intena
      /\ noff = 1 => (intr' <=> intena)
      /\ noff # 1 => ~intr'
  BY <1>0, <1>1, <1>2, <1>3, Released, Zenon
<1>5. own'[p] = own[p] \ {l} /\ \A q \in Procs : q # p => own'[q] = own[q]
  BY <1>0, <1>1, Zenon DEF Types
<1>6. noff' = Cardinality(own'[p]) /\ noff' \in Nat /\ (noff = 1 <=> own'[p] = {})
  BY <1>1, <1>2, <1>4, <1>5, Counted
<1>7. Types'
  BY <1>0, <1>1, <1>6, Zenon DEF Types
<1>8. Booleans'
  BY <1>0, <1>1, <1>4, Zenon DEF Booleans
<1>9. HeldInv'
  BY <1>0, <1>1, <1>2, <1>4, <1>5, <1>6, Zenon DEF HeldInv, Bare, Locked
<1>10. IntrInv'
  BY <1>0, <1>1, <1>3, <1>4, <1>5, <1>6, Zenon DEF IntrInv
<1>11. PlaceInv'
  BY <1>0, <1>1, <1>5 DEF PlaceInv
<1>12. TrapInv'
  BY <1>0, <1>1, Zenon DEF TrapInv
<1>. QED
  BY <1>4, <1>7, <1>8, <1>9, <1>10, <1>11, <1>12, Zenon DEF Inv

LEMMA TouchInv ==
  ASSUME Constants, Inv, NEW p \in Procs, NEW W \in SUBSET Procs, touch(p, W)
  PROVE  Inv'
<1>0. /\ Types /\ Booleans /\ HeldInv /\ IntrInv /\ PlaceInv /\ TrapInv /\ ~panic
      /\ SCHED \notin Procs /\ SCHED \in C /\ p \in C /\ \A r \in Procs, k \in Locks : r # k
  BY Parts, Zenon
<1>1. /\ cur = p /\ pc[p] = "kernel" /\ wakeup(p, W)
      /\ panic' = (panic \/ held \cap Procs # {}) /\ intena' = push_intena(intr)
      /\ UNCHANGED <<intr, noff, held, pc, ret, depth, hl, cur, own, lk, saved, off, best>>
  BY Zenon DEF touch, In, frames
<1>2. held = own[p] /\ own[p] \subseteq Locks /\ (noff = 0 <=> own[p] = {})
  BY <1>0, <1>1, FS_EmptySet, FS_Subset DEF HeldInv, Types, Constants
<1>3. held \cap Procs = {}
  BY <1>0, <1>2, Zenon
<1>4. ~panic'
  BY <1>0, <1>1, <1>3, Zenon
<1>5. intena' \in BOOLEAN /\ (own[p] # {} => (intena' <=> intena))
  BY <1>0, <1>1, <1>2, Zenon DEF push_intena, Booleans
<1>6. /\ st' \in [Procs -> States]
      /\ \A q \in Procs : st'[q] = IF q \in W THEN "RUNNABLE" ELSE st[q]
      /\ \A q \in W : q # p /\ pc[q] = "slept"
  BY <1>0, <1>1, Woken, Zenon
<1>7. Types'
  BY <1>0, <1>1, <1>6, Zenon DEF Types
<1>8. Booleans'
  BY <1>0, <1>1, <1>5, Zenon DEF Booleans
<1>9. HeldInv'
  BY <1>0, <1>1, Zenon DEF HeldInv
<1>10. IntrInv'
  BY <1>0, <1>1, <1>5, Zenon DEF IntrInv
<1>11. PlaceInv'
  BY <1>0, <1>1, <1>6 DEF PlaceInv
<1>12. TrapInv'
  BY <1>0, <1>1, Zenon DEF TrapInv
<1>. QED
  BY <1>4, <1>7, <1>8, <1>9, <1>10, <1>11, <1>12, Zenon DEF Inv

LEMMA KforkInv ==
  ASSUME Constants, Inv, NEW p \in Procs, NEW q \in Procs, kfork(p, q)
  PROVE  Inv'
<1>0. /\ Types /\ Booleans /\ HeldInv /\ IntrInv /\ PlaceInv /\ TrapInv /\ ~panic
      /\ SCHED \notin Procs /\ SCHED \in C /\ p \in C /\ \A r \in Procs, k \in Locks : r # k
  BY Parts, Zenon
<1>1. /\ cur = p /\ pc[p] = "kernel" /\ own[p] = {} /\ st[q] = "UNUSED"
      /\ panic' = (panic \/ q \in held) /\ intena' = push_intena(intr)
      /\ pc' = [pc EXCEPT ![q] = "forkret"] /\ st' = [st EXCEPT ![q] = "RUNNABLE"]
      /\ UNCHANGED <<intr, noff, held, ret, depth, hl, cur, own, lk, saved, off, best>>
  BY Zenon DEF kfork, In, Goto, frames
<1>2. held = {} /\ q # p /\ q \in C /\ pc[q] = "unused"
  BY <1>0, <1>1, Zenon DEF HeldInv, PlaceInv, Away, C
<1>3. ~panic' /\ intena' \in BOOLEAN
  BY <1>0, <1>1, <1>2, Zenon DEF push_intena, Booleans
<1>4. /\ \A c \in C : pc'[c] = IF c = q THEN "forkret" ELSE pc[c]
      /\ \A r \in Procs : st'[r] = IF r = q THEN "RUNNABLE" ELSE st[r]
  BY <1>0, <1>1, Zenon DEF Types
<1>5. Types'
  BY <1>0, <1>1, Zenon DEF Types, Places, States
<1>6. Booleans'
  BY <1>0, <1>1, <1>3, Zenon DEF Booleans
<1>7. HeldInv'
  BY <1>0, <1>1, <1>2, <1>4, ZenonT(60) DEF HeldInv, C
<1>8. IntrInv'
  BY <1>0, <1>1, <1>2, <1>4, SMTT(60) DEF IntrInv, C
<1>9. PlaceInv'
  BY <1>0, <1>1, <1>2, <1>4 DEF PlaceInv, Away, C
<1>10. TrapInv'
  BY <1>0, <1>1, <1>2, <1>4 DEF TrapInv, Trapped, C
<1>. QED
  BY <1>3, <1>5, <1>6, <1>7, <1>8, <1>9, <1>10, Zenon DEF Inv

LEMMA KwaitInv ==
  ASSUME Constants, Inv, NEW p \in Procs, NEW q \in Procs, kwait(p, q)
  PROVE  Inv'
<1>0. /\ Types /\ Booleans /\ HeldInv /\ IntrInv /\ PlaceInv /\ TrapInv /\ ~panic
      /\ SCHED \notin Procs /\ SCHED \in C /\ p \in C /\ \A r \in Procs, k \in Locks : r # k
  BY Parts, Zenon
<1>1. /\ cur = p /\ pc[p] = "kernel" /\ own[p] = {} /\ st[q] = "ZOMBIE"
      /\ panic' = (panic \/ q \in held) /\ intena' = push_intena(intr)
      /\ pc' = [pc EXCEPT ![q] = "unused"] /\ st' = [st EXCEPT ![q] = "UNUSED"]
      /\ UNCHANGED <<intr, noff, held, ret, depth, hl, cur, own, lk, best>>
  BY Zenon DEF kwait, In, Goto, frames
<1>2. held = {} /\ q # p /\ q \in C /\ pc[q] = "zombie"
  BY <1>0, <1>1, Zenon DEF HeldInv, PlaceInv, Away, C
<1>3. ~panic' /\ intena' \in BOOLEAN
  BY <1>0, <1>1, <1>2, Zenon DEF push_intena, Booleans
<1>4. /\ \A c \in C : pc'[c] = IF c = q THEN "unused" ELSE pc[c]
      /\ \A r \in Procs : st'[r] = IF r = q THEN "UNUSED" ELSE st[r]
  BY <1>0, <1>1, Zenon DEF Types
<1>5. \A r \in Procs : r # q => off'[r] = off[r] /\ saved'[r] = saved[r]
  BY <1>0, Zenon DEF kwait, Booleans
<1>6. Types'
  BY <1>0, <1>1, Zenon DEF Types, Places, States
<1>7. Booleans'
  BY <1>0, <1>1, <1>3, Zenon DEF Booleans, kwait
<1>8. HeldInv'
  BY <1>0, <1>1, <1>2, <1>4, ZenonT(60) DEF HeldInv, C
<1>9. IntrInv'
  BY <1>0, <1>1, <1>2, <1>4, <1>5, SMTT(60) DEF IntrInv, C
<1>10. PlaceInv'
  BY <1>0, <1>1, <1>2, <1>4, SMTT(60) DEF PlaceInv, Away, C
<1>11. TrapInv'
  BY <1>0, <1>1, <1>2, <1>4, <1>5 DEF TrapInv, Trapped, C
<1>. QED
  BY <1>3, <1>6, <1>7, <1>8, <1>9, <1>10, <1>11, Zenon DEF Inv

LEMMA SleepInv ==
  ASSUME Constants, Inv, NEW p \in Procs, NEW l \in Locks, sleep(p, l)
  PROVE  Inv'
<1>0. /\ Types /\ Booleans /\ HeldInv /\ IntrInv /\ PlaceInv /\ TrapInv /\ ~panic
      /\ SCHED \notin Procs /\ SCHED \in C /\ p \in C /\ \A r \in Procs, k \in Locks : r # k
  BY Parts, Zenon
<1>1. /\ cur = p /\ pc[p] = "kernel" /\ own[p] = {l} /\ acquire(p)
      /\ lk' = [lk EXCEPT ![p] = l] /\ pc' = [pc EXCEPT ![p] = "sleep"]
      /\ UNCHANGED <<ret, depth, hl, cur, own, saved, off, best, st>>
  BY Zenon DEF sleep, In, Goto, frames
<1>2. held = {l} /\ noff = 1 /\ p \notin held
  BY <1>0, <1>1, FS_Singleton DEF HeldInv
<1>3. ~intr /\ (intena <=> ~off[p])
  BY <1>0, <1>1, Zenon DEF IntrInv
<1>4. /\ ~intr' /\ ~panic' /\ noff' = 2 /\ held' = {p, l} /\ intena' \in BOOLEAN
      /\ intena' <=> ~off[p]
  BY <1>0, <1>1, <1>2, <1>3, Acquired
<1>5. /\ \A c \in C : pc'[c] = IF c = p THEN "sleep" ELSE pc[c]
      /\ \A r \in Procs : lk'[r] = IF r = p THEN l ELSE lk[r]
  BY <1>0, <1>1, Zenon DEF Types
<1>6. Types'
  BY <1>0, <1>1, <1>4, Zenon DEF Types, Places
<1>7. Booleans'
  BY <1>0, <1>1, <1>4, Zenon DEF Booleans, acquire, push_intr
<1>8. HeldInv'
  BY <1>0, <1>1, <1>4, <1>5, SMTT(60) DEF HeldInv, Bare, Locked, C
<1>9. IntrInv'
  BY <1>0, <1>1, <1>4, <1>5, SMTT(60) DEF IntrInv, C
<1>10. PlaceInv'
  BY <1>0, <1>1, <1>5, SMTT(60) DEF PlaceInv, Bare, Locked, C
<1>11. TrapInv'
  BY <1>0, <1>1, <1>5 DEF TrapInv, Trapped, C
<1>. QED
  BY <1>4, <1>6, <1>7, <1>8, <1>9, <1>10, <1>11, Zenon DEF Inv

LEMMA SleepReleaseInv ==
  ASSUME Constants, Inv, NEW p \in Procs, sleep_release(p)
  PROVE  Inv'
<1>0. /\ Types /\ Booleans /\ HeldInv /\ IntrInv /\ PlaceInv /\ TrapInv /\ ~panic
      /\ SCHED \notin Procs /\ SCHED \in C /\ p \in C /\ \A r \in Procs, k \in Locks : r # k
  BY Parts, Zenon
<1>1. /\ cur = p /\ pc[p] = "sleep" /\ release(lk[p])
      /\ own' = [own EXCEPT ![p] = {}] /\ st' = [st EXCEPT ![p] = "SLEEPING"]
      /\ pc' = [pc EXCEPT ![p] = "sched_sleep"]
      /\ UNCHANGED <<ret, depth, hl, cur, lk, saved, off, best>>
  BY ZenonT(60) DEF sleep_release, In, Goto, frames
<1>2. /\ held = {p, lk[p]} /\ noff = 2 /\ lk[p] \in Locks /\ lk[p] # p
      /\ ~intr /\ (intena <=> ~off[p])
  BY <1>0, <1>1, SMTT(60) DEF HeldInv, TrapInv, IntrInv
<1>3. ~panic' /\ noff' = 1 /\ held' = {p} /\ intr' \in BOOLEAN /\ intena' = intena /\ ~intr'
  BY <1>0, <1>1, <1>2, Released
<1>4. /\ \A c \in C : pc'[c] = IF c = p THEN "sched_sleep" ELSE pc[c]
      /\ \A r \in Procs : /\ st'[r] = IF r = p THEN "SLEEPING" ELSE st[r]
                          /\ own'[r] = IF r = p THEN {} ELSE own[r]
  BY <1>0, <1>1, Zenon DEF Types
<1>5. Types'
  BY <1>0, <1>1, <1>3, Zenon DEF Types, Places, States
<1>6. Booleans'
  BY <1>0, <1>1, <1>3, Zenon DEF Booleans
<1>7. HeldInv'
  BY <1>0, <1>1, <1>3, <1>4, SMTT(60) DEF HeldInv, Bare, Locked, C
<1>8. IntrInv'
  BY <1>0, <1>1, <1>2, <1>3, <1>4 DEF IntrInv, C
<1>9. PlaceInv'
  BY <1>0, <1>1, <1>4, SMTT(60) DEF PlaceInv, Bare, Locked, C
<1>10. TrapInv'
  BY <1>0, <1>1, <1>4 DEF TrapInv, Trapped, C
<1>. QED
  BY <1>3, <1>5, <1>6, <1>7, <1>8, <1>9, <1>10, Zenon DEF Inv

LEMMA YieldInv ==
  ASSUME Constants, Inv, NEW p \in Procs, yield(p)
  PROVE  Inv'
<1>0. /\ Types /\ Booleans /\ HeldInv /\ IntrInv /\ PlaceInv /\ TrapInv /\ ~panic
      /\ SCHED \notin Procs /\ SCHED \in C /\ p \in C /\ \A r \in Procs, k \in Locks : r # k
  BY Parts, Zenon
<1>1. /\ cur = p /\ pc[p] = "yield" /\ acquire(p)
      /\ st' = [st EXCEPT ![p] = "RUNNABLE"] /\ pc' = [pc EXCEPT ![p] = "sched_yield"]
      /\ UNCHANGED <<ret, depth, hl, cur, own, lk, saved, off, best>>
  BY Zenon DEF yield, In, Goto, frames
<1>2. held = {} /\ noff = 0 /\ own[p] = {} /\ ~intr
  BY <1>0, <1>1, FS_EmptySet, ZenonT(60) DEF HeldInv, PlaceInv, IntrInv, Bare
<1>3. /\ ~intr' /\ ~panic' /\ noff' = 1 /\ held' = {p} /\ intena' \in BOOLEAN /\ ~intena'
  BY <1>0, <1>1, <1>2, Acquired
<1>4. /\ \A c \in C : pc'[c] = IF c = p THEN "sched_yield" ELSE pc[c]
      /\ \A r \in Procs : st'[r] = IF r = p THEN "RUNNABLE" ELSE st[r]
  BY <1>0, <1>1, Zenon DEF Types
<1>5. Types'
  BY <1>0, <1>1, <1>3, Zenon DEF Types, Places, States
<1>6. Booleans'
  BY <1>0, <1>1, <1>3, Zenon DEF Booleans, acquire, push_intr
<1>7. HeldInv'
  BY <1>0, <1>1, <1>3, <1>4, SMTT(60) DEF HeldInv, Bare, Locked, C
<1>8. IntrInv'
  BY <1>0, <1>1, <1>3, <1>4, SMTT(60) DEF IntrInv, C
<1>9. PlaceInv'
  BY <1>0, <1>1, <1>2, <1>4, SMTT(60) DEF PlaceInv, Bare, Locked, C
<1>10. TrapInv'
  BY <1>0, <1>1, <1>4 DEF TrapInv, Trapped, C
<1>. QED
  BY <1>3, <1>5, <1>6, <1>7, <1>8, <1>9, <1>10, Zenon DEF Inv

LEMMA KexitInv ==
  ASSUME Constants, Inv, NEW p \in Procs, kexit(p)
  PROVE  Inv'
<1>0. /\ Types /\ Booleans /\ HeldInv /\ IntrInv /\ PlaceInv /\ TrapInv /\ ~panic
      /\ SCHED \notin Procs /\ SCHED \in C /\ p \in C /\ \A r \in Procs, k \in Locks : r # k
  BY Parts, Zenon
<1>1. /\ cur = p /\ pc[p] = "kernel" /\ acquire(p)
      /\ st' = [st EXCEPT ![p] = "ZOMBIE"] /\ pc' = [pc EXCEPT ![p] = "sched_exit"]
      /\ UNCHANGED <<ret, depth, hl, cur, own, lk, saved, off, best>>
  BY Zenon DEF kexit, In, Goto, frames
<1>a. own[p] = {}
  BY Zenon DEF kexit
<1>b. held = own[p] /\ noff = Cardinality(own[p])
  BY <1>0, <1>1, Zenon DEF HeldInv
<1>2. held = {} /\ noff = 0 /\ own[p] = {}
  BY <1>a, <1>b, FS_EmptySet, Zenon
<1>3. /\ ~intr' /\ ~panic' /\ noff' = 1 /\ held' = {p} /\ intena' \in BOOLEAN
  BY <1>0, <1>1, <1>2, Acquired
<1>4. /\ \A c \in C : pc'[c] = IF c = p THEN "sched_exit" ELSE pc[c]
      /\ \A r \in Procs : st'[r] = IF r = p THEN "ZOMBIE" ELSE st[r]
  BY <1>0, <1>1, Zenon DEF Types
<1>5. Types'
  BY <1>0, <1>1, <1>3, Zenon DEF Types, Places, States
<1>6. Booleans'
  BY <1>0, <1>1, <1>3, Zenon DEF Booleans, acquire, push_intr
<1>7. HeldInv'
  BY <1>0, <1>1, <1>3, <1>4, SMTT(60) DEF HeldInv, Bare, Locked, C
<1>8. IntrInv'
  BY <1>0, <1>1, <1>3, <1>4, SMTT(60) DEF IntrInv, C
<1>9. PlaceInv'
  BY <1>0, <1>1, <1>2, <1>4, SMTT(60) DEF PlaceInv, Bare, Locked, C
<1>10. TrapInv'
  BY <1>0, <1>1, <1>4 DEF TrapInv, Trapped, C
<1>. QED
  BY <1>3, <1>5, <1>6, <1>7, <1>8, <1>9, <1>10, Zenon DEF Inv

--------------------------------------------------------------------------------
(* Switching away and getting the CPU back. *)

LEMMA SchedInv ==
  ASSUME Constants, Inv, NEW p \in Procs, sched(p)
  PROVE  Inv'
<1>0. /\ Types /\ Booleans /\ HeldInv /\ IntrInv /\ PlaceInv /\ TrapInv /\ ~panic
      /\ SCHED \notin Procs /\ SCHED \in C /\ p \in C /\ \A r \in Procs, k \in Locks : r # k
  BY Parts, Zenon
<1> DEFINE to == After(pc[p])
<1>1. /\ cur = p /\ pc[p] \in {"sched_yield", "sched_sleep", "sched_exit"}
      /\ panic' = (panic \/ p \notin held \/ noff # 1 \/ intr \/ st[p] = "RUNNING")
      /\ saved' = [saved EXCEPT ![p] = intena] /\ cur' = SCHED /\ pc' = [pc EXCEPT ![p] = to]
      /\ UNCHANGED <<intr, noff, intena, held, ret, depth, hl, own, lk, off, best, st>>
  BY Zenon DEF sched, Goto, frames
<1>2. /\ held = {p} /\ noff = 1 /\ ~intr /\ st[p] # "RUNNING" /\ own[p] = {}
      /\ pc[SCHED] = "back" /\ best = p
  BY <1>0, <1>1, Zenon DEF HeldInv, IntrInv, PlaceInv, Locked
<1>3. ~panic'
  BY <1>0, <1>1, <1>2, Zenon
<1>4. /\ pc[p] = "sched_yield" => to = "yielded"
      /\ pc[p] = "sched_sleep" => to = "slept"
      /\ pc[p] = "sched_exit" => to = "zombie"
  BY Zenon DEF After
<1>5. \A c \in C : pc'[c] = IF c = p THEN to ELSE pc[c]
  BY <1>0, <1>1, Zenon DEF Types
<1>6. (saved'[p] <=> intena) /\ \A r \in Procs : r # p => saved'[r] = saved[r]
  BY <1>0, <1>1, Zenon DEF Booleans
<1>7. Types'
  BY <1>0, <1>1, <1>4, Zenon DEF Types, Places
<1>8. Booleans'
  BY <1>0, <1>1, Zenon DEF Booleans
<1>. HIDE DEF to
<1>9. HeldInv'
  BY <1>0, <1>1, <1>2, <1>5, ZenonT(60) DEF HeldInv, C
<1>10. IntrInv'
  BY <1>0, <1>1, <1>2, <1>4, <1>5, <1>6, SMTT(60) DEF IntrInv, C
<1>11. PlaceInv'
  BY <1>0, <1>1, <1>2, <1>4, <1>5, SMTT(60) DEF PlaceInv, Away, C
<1>12. TrapInv'
  BY <1>0, <1>1, <1>4, <1>5 DEF TrapInv, Trapped, C
<1>. QED
  BY <1>3, <1>7, <1>8, <1>9, <1>10, <1>11, <1>12, Zenon DEF Inv

LEMMA YieldReleaseInv ==
  ASSUME Constants, Inv, NEW p \in Procs, yield_release(p)
  PROVE  Inv'
<1>0. /\ Types /\ Booleans /\ HeldInv /\ IntrInv /\ PlaceInv /\ TrapInv /\ ~panic
      /\ SCHED \notin Procs /\ SCHED \in C /\ p \in C /\ \A r \in Procs, k \in Locks : r # k
  BY Parts, Zenon
<1>1. /\ cur = p /\ pc[p] = "yielded" /\ release(p) /\ pc' = [pc EXCEPT ![p] = "return"]
      /\ UNCHANGED <<ret, depth, hl, cur, own, lk, saved, off, best, st>>
  BY Zenon DEF yield_release, In, Goto, frames
<1>2. held = {p} /\ noff = 1 /\ own[p] = {} /\ ~intr /\ ~intena
  BY <1>0, <1>1, Zenon DEF HeldInv, PlaceInv, IntrInv, Locked
<1>3. /\ ~panic' /\ noff' = 0 /\ held' = {} /\ intr' \in BOOLEAN /\ intena' = intena
      /\ intr' <=> intena
  BY <1>0, <1>1, <1>2, Released
<1>4. \A c \in C : pc'[c] = IF c = p THEN "return" ELSE pc[c]
  BY <1>0, <1>1, Zenon DEF Types
<1>5. Types'
  BY <1>0, <1>1, <1>3, Zenon DEF Types, Places
<1>6. Booleans'
  BY <1>0, <1>1, <1>3, ZenonT(60) DEF Booleans
<1>7. HeldInv'
  BY <1>0, <1>1, <1>3, <1>4, SMTT(60) DEF HeldInv, Bare, Locked, C
<1>8. IntrInv'
  BY <1>0, <1>1, <1>2, <1>3, <1>4, SMTT(60) DEF IntrInv, C
<1>9. PlaceInv'
  BY <1>0, <1>1, <1>2, <1>4, SMTT(60) DEF PlaceInv, Bare, Locked, C
<1>10. TrapInv'
  BY <1>0, <1>1, <1>4, SMTT(60) DEF TrapInv, Trapped, C
<1>. QED
  BY <1>3, <1>5, <1>6, <1>7, <1>8, <1>9, <1>10, Zenon DEF Inv

LEMMA SleptReleaseInv ==
  ASSUME Constants, Inv, NEW p \in Procs, slept_release(p)
  PROVE  Inv'
<1>0. /\ Types /\ Booleans /\ HeldInv /\ IntrInv /\ PlaceInv /\ TrapInv /\ ~panic
      /\ SCHED \notin Procs /\ SCHED \in C /\ p \in C /\ \A r \in Procs, k \in Locks : r # k
  BY Parts, Zenon
<1>1. /\ cur = p /\ pc[p] = "slept" /\ release(p) /\ pc' = [pc EXCEPT ![p] = "woken"]
      /\ UNCHANGED <<ret, depth, hl, cur, own, lk, saved, off, best, st>>
  BY Zenon DEF slept_release, In, Goto, frames
<1>2. held = {p} /\ noff = 1 /\ own[p] = {} /\ ~intr /\ (intena <=> ~off[p])
  BY <1>0, <1>1, Zenon DEF HeldInv, PlaceInv, IntrInv, Locked
<1>3. /\ ~panic' /\ noff' = 0 /\ held' = {} /\ intr' \in BOOLEAN /\ intena' = intena
      /\ intr' <=> intena
  BY <1>0, <1>1, <1>2, Released
<1>4. \A c \in C : pc'[c] = IF c = p THEN "woken" ELSE pc[c]
  BY <1>0, <1>1, Zenon DEF Types
<1>5. Types'
  BY <1>0, <1>1, <1>3, Zenon DEF Types, Places
<1>6. Booleans'
  BY <1>0, <1>1, <1>3, Zenon DEF Booleans
<1>7. HeldInv'
  BY <1>0, <1>1, <1>3, <1>4, SMTT(60) DEF HeldInv, Bare, Locked, C
<1>8. IntrInv'
  BY <1>0, <1>1, <1>2, <1>3, <1>4, SMTT(60) DEF IntrInv, C
<1>9. PlaceInv'
  BY <1>0, <1>1, <1>2, <1>4, SMTT(60) DEF PlaceInv, Bare, Locked, C
<1>10. TrapInv'
  BY <1>0, <1>1, <1>4 DEF TrapInv, Trapped, C
<1>. QED
  BY <1>3, <1>5, <1>6, <1>7, <1>8, <1>9, <1>10, Zenon DEF Inv

LEMMA SleepAcquireInv ==
  ASSUME Constants, Inv, NEW p \in Procs, sleep_acquire(p)
  PROVE  Inv'
<1>0. /\ Types /\ Booleans /\ HeldInv /\ IntrInv /\ PlaceInv /\ TrapInv /\ ~panic
      /\ SCHED \notin Procs /\ SCHED \in C /\ p \in C /\ \A r \in Procs, k \in Locks : r # k
  BY Parts, Zenon
<1> DEFINE l == lk[p]
<1>1. /\ cur = p /\ pc[p] = "woken" /\ acquire(l)
      /\ own' = [own EXCEPT ![p] = {l}] /\ lk' = [lk EXCEPT ![p] = NULL]
      /\ pc' = [pc EXCEPT ![p] = "kernel"]
      /\ UNCHANGED <<ret, depth, hl, cur, saved, off, best, st>>
  BY Zenon DEF sleep_acquire, In, Goto, frames
<1>2. l \in Locks /\ held = {} /\ noff = 0 /\ (intr <=> ~off[p])
  BY <1>0, <1>1, ZenonT(60) DEF HeldInv, TrapInv, IntrInv, Bare
<1>. HIDE DEF l
<1>3. /\ ~intr' /\ ~panic' /\ noff' = 1 /\ held' = {l} /\ intena' \in BOOLEAN
      /\ intena' <=> ~off[p]
  BY <1>0, <1>1, <1>2, Acquired
<1>4. /\ \A c \in C : pc'[c] = IF c = p THEN "kernel" ELSE pc[c]
      /\ \A r \in Procs : /\ own'[r] = IF r = p THEN {l} ELSE own[r]
                          /\ r # p => lk'[r] = lk[r]
  BY <1>0, <1>1, Zenon DEF Types
<1>5. Types'
  BY <1>0, <1>1, <1>2, <1>3, Zenon DEF Types, Places
<1>6. Booleans'
  BY <1>0, <1>1, <1>3, Zenon DEF Booleans, acquire, push_intr
<1>a. own'[p] = {l} /\ Cardinality({l}) = 1
  BY <1>4, FS_Singleton, ZenonT(60)
<1>7. HeldInv'
  BY <1>0, <1>1, <1>3, <1>4, <1>a, SMTT(60) DEF HeldInv, Bare, Locked, C
<1>8. IntrInv'
  BY <1>0, <1>1, <1>3, <1>4, SMTT(60) DEF IntrInv, C
<1>9. PlaceInv'
  BY <1>0, <1>1, <1>4, SMTT(60) DEF PlaceInv, Bare, Locked, C
<1>10. TrapInv'
  BY <1>0, <1>1, <1>4 DEF TrapInv, Trapped, C
<1>. QED
  BY <1>3, <1>5, <1>6, <1>7, <1>8, <1>9, <1>10, Zenon DEF Inv

LEMMA ForkretInv ==
  ASSUME Constants, Inv, first \in BOOLEAN, NEW p \in Procs, forkret(p)
  PROVE  Inv'
<1>0. /\ Types /\ Booleans /\ HeldInv /\ IntrInv /\ PlaceInv /\ TrapInv /\ ~panic
      /\ SCHED \notin Procs /\ SCHED \in C /\ p \in C /\ \A r \in Procs, k \in Locks : r # k
  BY Parts, Zenon
<1> DEFINE to == IF first THEN "kernel" ELSE "leave"
<1>1. /\ cur = p /\ pc[p] = "forkret" /\ release(p) /\ pc' = [pc EXCEPT ![p] = to]
      /\ off' = [off EXCEPT ![p] = first]
      /\ UNCHANGED <<ret, depth, hl, cur, own, lk, saved, best, st>>
  BY ZenonT(60) DEF forkret, In, Goto, frames
<1>2. held = {p} /\ noff = 1 /\ own[p] = {} /\ ~intr /\ ~intena
  BY <1>0, <1>1, SMTT(60) DEF HeldInv, PlaceInv, IntrInv, Locked
<1>3. ~panic' /\ noff' = 0 /\ held' = {} /\ intr' \in BOOLEAN /\ intena' = intena /\ ~intr'
  BY <1>0, <1>1, <1>2, Released
<1>4. to \in {"kernel", "leave"} /\ (to = "kernel" => off'[p])
  BY <1>0, <1>1, Zenon DEF Booleans
<1>5. \A r \in Procs : r # p => off'[r] = off[r]
  BY <1>0, <1>1, Zenon DEF Booleans
<1>6. Booleans'
  BY <1>0, <1>1, <1>3, Zenon DEF Booleans
<1>. HIDE DEF to
<1>7. \A c \in C : pc'[c] = IF c = p THEN to ELSE pc[c]
  BY <1>0, <1>1, Zenon DEF Types
<1>8. Types'
  BY <1>0, <1>1, <1>3, <1>4, ZenonT(60) DEF Types, Places
<1>9. HeldInv'
  BY <1>0, <1>1, <1>2, <1>3, <1>4, <1>7, FS_EmptySet, SMTT(60) DEF HeldInv, Bare, Locked, C
<1>10. IntrInv'
  BY <1>0, <1>1, <1>2, <1>3, <1>4, <1>5, <1>7, SMTT(60) DEF IntrInv, C
<1>11. PlaceInv'
  BY <1>0, <1>1, <1>2, <1>4, <1>7, SMTT(60) DEF PlaceInv, Bare, Locked, C
<1>12. TrapInv'
  BY <1>0, <1>1, <1>4, <1>5, <1>7 DEF TrapInv, Trapped, C
<1>. QED
  BY <1>3, <1>6, <1>8, <1>9, <1>10, <1>11, <1>12, Zenon DEF Inv

--------------------------------------------------------------------------------
(* The scheduler. *)

LEMMA SchedulerOnInv ==
  ASSUME Constants, Inv, scheduler_on
  PROVE  Inv'
<1>0. /\ Types /\ Booleans /\ HeldInv /\ IntrInv /\ PlaceInv /\ TrapInv /\ ~panic
      /\ SCHED \notin Procs /\ SCHED \in C
  BY Parts, Zenon
<1>1. /\ cur = SCHED /\ pc[SCHED] = "loop" /\ (intr' <=> TRUE) /\ intr' \in BOOLEAN
      /\ pc' = [pc EXCEPT ![SCHED] = "on"]
      /\ UNCHANGED <<noff, intena, held, panic, ret, depth, hl, cur, own, lk, saved, off, best, st>>
  BY Zenon DEF scheduler_on, In, Goto, frames
<1>2. \A c \in C : pc'[c] = IF c = SCHED THEN "on" ELSE pc[c]
  BY <1>0, <1>1, Zenon DEF Types
<1>3. Types'
  BY <1>0, <1>1, Zenon DEF Types, Places
<1>4. Booleans'
  BY <1>0, <1>1, Zenon DEF Booleans
<1>5. HeldInv'
  BY <1>0, <1>1, <1>2, SMTT(60) DEF HeldInv, C
<1>6. IntrInv'
  BY <1>0, <1>1, <1>2, SMTT(60) DEF IntrInv, C
<1>7. PlaceInv'
  BY <1>0, <1>1, <1>2, SMTT(60) DEF PlaceInv, C
<1>8. TrapInv'
  BY <1>0, <1>1, <1>2 DEF TrapInv, Trapped, C
<1>. QED
  BY <1>0, <1>1, <1>3, <1>4, <1>5, <1>6, <1>7, <1>8, Zenon DEF Inv

LEMMA SchedulerOffInv ==
  ASSUME Constants, Inv, scheduler_off
  PROVE  Inv'
<1>0. /\ Types /\ Booleans /\ HeldInv /\ IntrInv /\ PlaceInv /\ TrapInv /\ ~panic
      /\ SCHED \notin Procs /\ SCHED \in C
  BY Parts, Zenon
<1>1. /\ cur = SCHED /\ pc[SCHED] = "on" /\ (intr' <=> FALSE) /\ intr' \in BOOLEAN
      /\ pc' = [pc EXCEPT ![SCHED] = "scan"]
      /\ UNCHANGED <<noff, intena, held, panic, ret, depth, hl, cur, own, lk, saved, off, best, st>>
  BY Zenon DEF scheduler_off, In, Goto, frames
<1>2. \A c \in C : pc'[c] = IF c = SCHED THEN "scan" ELSE pc[c]
  BY <1>0, <1>1, Zenon DEF Types
<1>3. Types'
  BY <1>0, <1>1, Zenon DEF Types, Places
<1>4. Booleans'
  BY <1>0, <1>1, ZenonT(60) DEF Booleans
<1>5. HeldInv'
  BY <1>0, <1>1, <1>2, SMTT(60) DEF HeldInv, C
<1>6. IntrInv'
  BY <1>0, <1>1, <1>2, SMTT(60) DEF IntrInv, C
<1>7. PlaceInv'
  BY <1>0, <1>1, <1>2, SMTT(60) DEF PlaceInv, C
<1>8. TrapInv'
  BY <1>0, <1>1, <1>2 DEF TrapInv, Trapped, C
<1>. QED
  BY <1>0, <1>1, <1>3, <1>4, <1>5, <1>6, <1>7, <1>8, Zenon DEF Inv

LEMMA SchedulerIdleInv ==
  ASSUME Constants, Inv, scheduler_idle
  PROVE  Inv'
<1>0. /\ Types /\ Booleans /\ HeldInv /\ IntrInv /\ PlaceInv /\ TrapInv /\ ~panic
      /\ SCHED \notin Procs /\ SCHED \in C
  BY Parts, Zenon
<1>1. /\ cur = SCHED /\ pc[SCHED] = "scan" /\ pc' = [pc EXCEPT ![SCHED] = "loop"]
      /\ panic' = (panic \/ held \cap Procs # {})
      /\ intena' = push_intena(intr)
      /\ UNCHANGED <<intr, noff, held, ret, depth, hl, cur, own, lk, saved, off, best, st>>
  BY Zenon DEF scheduler_idle, In, Goto, frames
<1>2. held = {}
  BY <1>0, <1>1, Zenon DEF HeldInv
<1>3. ~panic'
  BY <1>0, <1>1, <1>2, Zenon
<1>4. \A c \in C : pc'[c] = IF c = SCHED THEN "loop" ELSE pc[c]
  BY <1>0, <1>1, Zenon DEF Types
<1>5. Types'
  BY <1>0, <1>1, Zenon DEF Types, Places
<1>6. Booleans'
  BY <1>0, <1>1, Zenon DEF Booleans, push_intena
<1>7. HeldInv'
  BY <1>0, <1>1, <1>4, SMTT(60) DEF HeldInv, C
<1>8. IntrInv'
  BY <1>0, <1>1, <1>4, SMTT(60) DEF IntrInv, C
<1>9. PlaceInv'
  BY <1>0, <1>1, <1>4, SMTT(60) DEF PlaceInv, C
<1>10. TrapInv'
  BY <1>0, <1>1, <1>4 DEF TrapInv, Trapped, C
<1>. QED
  BY <1>3, <1>5, <1>6, <1>7, <1>8, <1>9, <1>10, Zenon DEF Inv

LEMMA SchedulerRunInv ==
  ASSUME Constants, Inv, NEW p \in Procs, scheduler_run(p)
  PROVE  Inv'
<1>0. /\ Types /\ Booleans /\ HeldInv /\ IntrInv /\ PlaceInv /\ TrapInv /\ ~panic
      /\ SCHED \notin Procs /\ SCHED \in C /\ p \in C
  BY Parts, Zenon
<1>1. /\ cur = SCHED /\ pc[SCHED] = "scan" /\ pc' = [pc EXCEPT ![SCHED] = "back"]
      /\ st[p] = "RUNNABLE" /\ st' = [st EXCEPT ![p] = "RUNNING"]
      /\ panic' = (panic \/ held \cap Procs # {})
      /\ ~intr' /\ intr' \in BOOLEAN /\ intena' = resumed_intena(p)
      /\ noff' = noff + 1 /\ held' = held \cup {p} /\ best' = p /\ cur' = p
      /\ saved' = [saved EXCEPT ![p] = FALSE]
      /\ UNCHANGED <<ret, depth, hl, own, lk, off>>
  BY ZenonT(60) DEF scheduler_run, In, Goto, frames
<1>2. held = {} /\ noff = 0 /\ ~intr /\ pc[p] \in {"yielded", "slept", "forkret"}
  BY <1>0, <1>1, Zenon DEF HeldInv, IntrInv, PlaceInv, Away
<1>3. ~panic' /\ held' = {p} /\ noff' = 1
  BY <1>0, <1>1, <1>2
<1>4. /\ pc[p] = "forkret" => ~intena'
      /\ pc[p] # "forkret" => (intena' <=> saved[p])
  BY <1>0, <1>1, <1>2, Zenon DEF resumed_intena, push_intena, Booleans
<1>5. /\ \A c \in C : pc'[c] = IF c = SCHED THEN "back" ELSE pc[c]
      /\ \A r \in Procs : st'[r] = IF r = p THEN "RUNNING" ELSE st[r]
  BY <1>0, <1>1, Zenon DEF Types
<1>6. \A r \in Procs : r # p => saved'[r] = saved[r]
  BY <1>0, <1>1, Zenon DEF Booleans
<1>7. Types'
  BY <1>0, <1>1, <1>3 DEF Types, Places, States
<1>8. Booleans'
  BY <1>0, <1>1, ZenonT(60) DEF Booleans, resumed_intena, push_intena
<1>9. HeldInv'
  BY <1>0, <1>1, <1>2, <1>3, <1>5, SMTT(60) DEF HeldInv, Bare, Locked, C
<1>10. IntrInv'
  BY <1>0, <1>1, <1>2, <1>4, <1>5, <1>6, SMTT(60) DEF IntrInv, C
<1>11. PlaceInv'
  BY <1>0, <1>1, <1>2, <1>5, SMTT(60) DEF PlaceInv, Bare, Locked, Away, C
<1>12. TrapInv'
  BY <1>0, <1>1, <1>5 DEF TrapInv, Trapped, C
<1>. QED
  BY <1>3, <1>7, <1>8, <1>9, <1>10, <1>11, <1>12, Zenon DEF Inv

LEMMA SchedulerBackInv ==
  ASSUME Constants, Inv, scheduler_back
  PROVE  Inv'
<1>0. /\ Types /\ Booleans /\ HeldInv /\ IntrInv /\ PlaceInv /\ TrapInv /\ ~panic
      /\ SCHED \notin Procs /\ SCHED \in C
  BY Parts, Zenon
<1>1. /\ cur = SCHED /\ pc[SCHED] = "back" /\ pc' = [pc EXCEPT ![SCHED] = "loop"]
      /\ release(best)
      /\ UNCHANGED <<ret, depth, hl, cur, own, lk, saved, off, st>>
  BY Zenon DEF scheduler_back, In, Goto, frames
<1>2. held = {best} /\ noff = 1 /\ ~intr
  BY <1>0, <1>1, Zenon DEF HeldInv, IntrInv
<1>3. ~panic' /\ noff' = 0 /\ held' = {} /\ intr' \in BOOLEAN /\ intena' = intena
  BY <1>0, <1>1, <1>2, Released
<1>4. \A c \in C : pc'[c] = IF c = SCHED THEN "loop" ELSE pc[c]
  BY <1>0, <1>1, Zenon DEF Types
<1>5. Types'
  BY <1>0, <1>1, <1>3, Zenon DEF Types, Places
<1>6. Booleans'
  BY <1>0, <1>1, <1>3, ZenonT(60) DEF Booleans
<1>7. HeldInv'
  BY <1>0, <1>1, <1>3, <1>4, SMTT(60) DEF HeldInv, C
<1>8. IntrInv'
  BY <1>0, <1>1, <1>4, SMTT(60) DEF IntrInv, C
<1>9. PlaceInv'
  BY <1>0, <1>1, <1>4, SMTT(60) DEF PlaceInv, C
<1>10. TrapInv'
  BY <1>0, <1>1, <1>4 DEF TrapInv, Trapped, C
<1>. QED
  BY <1>3, <1>5, <1>6, <1>7, <1>8, <1>9, <1>10, Zenon DEF Inv

--------------------------------------------------------------------------------
(* The theorems. *)

LEMMA InitInv ==
  ASSUME Constants, Init
  PROVE  Inv /\ first \in BOOLEAN
<1>1. PICK p \in Procs :
         /\ pc = [c \in C |-> CASE c = SCHED -> "loop" [] c = p -> "forkret" [] OTHER -> "unused"]
         /\ st = [q \in Procs |-> IF q = p THEN "RUNNABLE" ELSE "UNUSED"]
  BY Zenon DEF Init
<1>2. SCHED \notin Procs /\ SCHED \in C /\ \A q \in Procs : q \in C
  BY Zenon DEF Constants, C
<1>3. /\ \A c \in C : pc[c] = IF c = SCHED THEN "loop" ELSE IF c = p THEN "forkret" ELSE "unused"
      /\ \A q \in Procs : st[q] = IF q = p THEN "RUNNABLE" ELSE "UNUSED"
  BY <1>1, <1>2, Zenon
<1>4. Types
  BY <1>1, <1>2, Zenon DEF Types, Init, Places, States
<1>5. Booleans /\ first \in BOOLEAN /\ ~panic
  BY Zenon DEF Booleans, Init
<1>6. HeldInv
  BY <1>2, <1>3, Zenon DEF HeldInv, Init
<1>7. IntrInv
  BY <1>2, <1>3, Zenon DEF IntrInv, Init
<1>8. PlaceInv
  BY <1>2, <1>3, Zenon DEF PlaceInv, Away, Init
<1>9. TrapInv
  BY <1>2, <1>3, Zenon DEF TrapInv, Trapped, Init, C
<1>. QED
  BY <1>4, <1>5, <1>6, <1>7, <1>8, <1>9, Zenon DEF Inv

LEMMA ProcNextInv ==
  ASSUME Constants, Inv, first \in BOOLEAN, NEW p \in Procs, ProcNext(p)
  PROVE  Inv' /\ first' \in BOOLEAN
<1>1. first' \in BOOLEAN
  BY Zenon DEF ProcNext, usertrap, prepare_return, user_interrupt, lock, unlock, sleep, touch, kfork,
     kwait, sleep_release, yield, kexit, sched, yield_release, slept_release, sleep_acquire, forkret
<1>2. Inv'
  BY UsertrapInv, PrepareReturnInv, UserInterruptInv, LockInv, UnlockInv, SleepInv, TouchInv, ZenonT(60),
     KforkInv, KwaitInv, SleepReleaseInv, YieldInv, KexitInv, SchedInv, YieldReleaseInv,
     SleptReleaseInv, SleepAcquireInv, ForkretInv, ZenonT(60) DEF ProcNext
<1>. QED
  BY <1>1, <1>2, Zenon

LEMMA TrapNextInv ==
  ASSUME Constants, Inv, first \in BOOLEAN, NEW c \in C, TrapNext(c)
  PROVE  Inv' /\ first' \in BOOLEAN
<1>1. first' \in BOOLEAN
  BY Zenon DEF TrapNext, kerneltrap, trap_return, devintr, handler
<1>2. Inv'
  BY KerneltrapInv, TrapReturnInv, DevintrInv, HandlerInv, Zenon DEF TrapNext
<1>. QED
  BY <1>1, <1>2, Zenon

LEMMA SchedNextInv ==
  ASSUME Constants, Inv, first \in BOOLEAN, SchedNext
  PROVE  Inv' /\ first' \in BOOLEAN
<1>1. first' \in BOOLEAN
  BY Zenon DEF SchedNext, scheduler_on, scheduler_off, scheduler_idle, scheduler_back, scheduler_run
<1>2. Inv'
  BY SchedulerOnInv, SchedulerOffInv, SchedulerIdleInv, SchedulerBackInv, SchedulerRunInv, Zenon
  DEF SchedNext
<1>. QED
  BY <1>1, <1>2, Zenon

\* What each place knows of locks and interrupts is true whenever a context is there.
THEOREM Invariance ==
  ASSUME Constants
  PROVE  Spec => [](Inv /\ first \in BOOLEAN)
<1>1. Init => Inv /\ first \in BOOLEAN
  BY InitInv, Zenon
<1>2. Inv /\ first \in BOOLEAN /\ [Next]_vars => (Inv /\ first \in BOOLEAN)'
  <2>. SUFFICES ASSUME Inv, first \in BOOLEAN, [Next]_vars
                PROVE  Inv' /\ first' \in BOOLEAN
    OBVIOUS
  <2>1. CASE Next
    BY <2>1, ProcNextInv, TrapNextInv, SchedNextInv, ZenonT(60) DEF Next
  <2>2. CASE UNCHANGED vars
    <3>1. /\ Types /\ Booleans /\ HeldInv /\ IntrInv /\ PlaceInv /\ TrapInv /\ ~panic
          /\ UNCHANGED <<intr, noff, intena, held, panic, ret, depth, hl, cur, pc>>
          /\ UNCHANGED <<own, lk, saved, off, best, st, first>>
      BY <2>2, Zenon DEF vars, cpu, frames, Inv
    <3>2. Types' /\ Booleans'
      BY <3>1, Zenon DEF Types, Booleans
    <3>3. HeldInv'
      BY <3>1, Zenon DEF HeldInv
    <3>4. IntrInv'
      BY <3>1, Zenon DEF IntrInv
    <3>5. PlaceInv' /\ TrapInv'
      BY <3>1, ZenonT(60) DEF PlaceInv, TrapInv
    <3>. QED
      BY <3>1, <3>2, <3>3, <3>4, <3>5, Zenon DEF Inv
  <2>. QED
    BY <2>1, <2>2, Zenon
<1>. QED
  BY <1>1, <1>2, PTL DEF Spec

\* acquire never meets a taken lock, release and pop_off never undo what was not done, and
\* sched is always entered with one lock, interrupts off and a state other than RUNNING:
\* the panics of spinlock.c and of sched are unreachable, with any number of processes,
\* locks and interrupts.
THEOREM LocksNeverPanic ==
  ASSUME Constants
  PROVE  Spec => []NoLockPanic
<1>1. Inv => NoLockPanic
  BY Zenon DEF Inv, NoLockPanic
<1>. QED
  BY <1>1, Invariance, PTL

\* No interrupt is taken while a lock is held, a system call gets interrupts back as it left
\* them however often it slept or was interrupted, and traps from the kernel do not nest.
THEOREM InterruptsAreMatched ==
  ASSUME Constants
  PROVE  Spec => []InterruptsMatched
<1>1. ASSUME Inv PROVE InterruptsMatched
  <2>0. /\ Types /\ Booleans /\ HeldInv /\ IntrInv /\ PlaceInv /\ TrapInv
        /\ SCHED \notin Procs /\ SCHED \in C
    BY <1>1, Parts, Zenon
  <2>1. held # {} => ~intr
    <3>1. CASE cur = SCHED
      <4>1. pc[SCHED] \in {"loop", "on", "scan", "back", "devintr", "handler", "return"}
        BY <2>0, Zenon DEF PlaceInv
      <4>2. pc[SCHED] \in {"loop", "on", "scan", "devintr", "return"} => held = {}
        BY <2>0, <3>1, Zenon DEF HeldInv
      <4>3. pc[SCHED] \in {"back", "handler"} => ~intr
        BY <2>0, <3>1, Zenon DEF IntrInv
      <4>. QED BY <4>1, <4>2, <4>3, Zenon
    <3>2. CASE cur \in Procs
      BY <2>0, <3>2, ZenonT(60) DEF HeldInv, IntrInv, PlaceInv, Bare, Locked
    <3>3. cur = SCHED \/ cur \in Procs
      BY <2>0, Zenon DEF Types, C
    <3>. QED BY <3>1, <3>2, <3>3, Zenon
  <2>2. \A p \in Procs : In(p, "kernel") /\ own[p] = {} => (intr <=> ~off[p])
    BY <2>0, Zenon DEF In, IntrInv
  <2>3. \A p \in Procs : In(p, "kernel") /\ own[p] = {} => intr = ~off[p]
    BY <2>0, <2>2, ZenonT(60) DEF Booleans
  <2>4. \A c \in C : depth[c] <= 1
    BY <2>0 DEF TrapInv
  <2>. QED
    BY <2>1, <2>3, <2>4, Zenon DEF InterruptsMatched
<1>. QED
  BY <1>1, Invariance, PTL
================================================================================
